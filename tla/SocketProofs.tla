---------------------------- MODULE SocketProofs ----------------------------
(***************************************************************************)
(* The owner, the TCPConnection thread and the peer: no byte is lost,       *)
(* repeated or moved between standard input and output and the peer's      *)
(* program, and who gives up says so, whatever the streams, the capacities *)
(* and the bounds of the model.                                            *)
(***************************************************************************)
EXTENDS SocketSpec, ConnectionLemmas

-----------------------------------------------------------------------------
(* What a call of the sender leaves alone *)

\* No segment of q is a reset.
NoRst(q) == \A k \in 1 .. Len(q) : ~q[k].rst

\* Nothing is written to the stream and it does not end.
SameInput(s, r) ==
    /\ r.stream.bytes_w = s.stream.bytes_w /\ r.stream.end_input = s.stream.end_input
    /\ r.stream.capacity = s.stream.capacity

\* Nothing is retransmitted, and no reset is made.
Modest(s, r) ==
    /\ r.retransmission_count = s.retransmission_count \/ r.retransmission_count = 0
    /\ NoRst(s.segments_out) => NoRst(r.segments_out)
    /\ s.segments_out # << >> => r.segments_out # << >>

\* Both.
Minds(s, r) == SameInput(s, r) /\ Modest(s, r)

\* One step after another.
LEMMA MindsOn ==
    ASSUME NEW s, NEW r, NEW t, Minds(s, r), Minds(r, t)
    PROVE  Minds(s, t)
  BY DEF Minds, SameInput, Modest

\* A queue made longer.
LEMMA Longer ==
    ASSUME NEW a \in Segs, NEW n \in Nat, NEW q, q = [k \in 1 .. n |-> q[k]],
           \A k \in 1 .. n : ~q[k].rst
    PROVE  /\ NoRst(a) => NoRst(a \o q)
           /\ a # << >> => a \o q # << >>
<1>. DEFINE S == SegmentType(Byte) \cup {q[k] : k \in 1 .. n}
<1>1. q \in [1 .. n -> S]
  OBVIOUS
<1>2. q \in Seq(S) /\ Len(q) = n
  BY <1>1, IsASeq
<1>3. a \in Seq(S)
  BY DEF Segs
<1>. HIDE DEF S
<1>4. /\ Len(a \o q) = Len(a) + n /\ Len(a) \in Nat
      /\ \A k \in 1 .. (Len(a) + n) :
            (a \o q)[k] = IF k <= Len(a) THEN a[k] ELSE q[k - Len(a)]
  BY <1>2, <1>3
<1>5. ASSUME NoRst(a), NEW k \in 1 .. Len(a \o q) PROVE ~(a \o q)[k].rst
  <2>1. CASE k <= Len(a)
    BY <1>4, <1>5, <2>1 DEF NoRst
  <2>2. CASE k > Len(a)
    <3>1. k - Len(a) \in 1 .. n /\ (a \o q)[k] = q[k - Len(a)]
      BY <1>4, <2>2
    <3>. QED
      BY <3>1
  <2>. QED
    BY <1>4, <2>1, <2>2
<1>6. a # << >> => Len(a) > 0
  BY <1>3
<1>. QED
  BY <1>4, <1>5, <1>6 DEF NoRst

\* send_segments of some that are no resets.
LEMMA SendMinds ==
    ASSUME NEW s \in SenderType(Byte), NEW n \in Nat, NEW q, q = [k \in 1 .. n |-> q[k]],
           \A k \in 1 .. n : ~q[k].rst, NEW len
    PROVE  Minds(s, send_segments(s, q, len))
<1>. DEFINE r == send_segments(s, q, len)
<1>1. /\ r.stream = s.stream /\ r.retransmission_count = s.retransmission_count
      /\ r.segments_out = s.segments_out \o q
  BY SenderFields DEF Fields, send_segments
<1>2. s.segments_out \in Segs
  BY SenderFields DEF Fields
<1>. HIDE DEF r
<1>3. Modest(s, r)
  BY <1>1, <1>2, Longer DEF Modest
<1>. QED
  BY <1>1, <1>3 DEF Minds, SameInput, r

\* A sender that does nothing.
LEMMA MindsSame ==
    ASSUME NEW s
    PROVE  Minds(s, s)
  BY DEF Minds, SameInput, Modest

\* fill_window.
LEMMA FillMinds ==
    ASSUME NEW s \in SenderType(Byte), NEW r, r = fill_window(s)
    PROVE  Minds(s, r)
<1>. DEFINE syn == [new_TCPSegment EXCEPT !.seqno = wrap(s.next_seqno, s.isn), !.syn = TRUE]
            fin == [new_TCPSegment EXCEPT !.seqno = wrap(s.next_seqno, s.isn), !.fin = TRUE]
            rw == U64(cur_win(s) - bytes_in_flight(s))
            len == min(buffer_size(s.stream), rw)
            is_fin == fin_fits(s, len, rw)
            o == pop_output(s.stream, len)
            u == [s EXCEPT !.stream = o]
            segs == cut_segments(s, len, is_fin)
            count == (len + MAX_PAYLOAD_SIZE - 1) \div MAX_PAYLOAD_SIZE
<1>1. \/ r = s
      \/ r = send_segments(s, << syn >>, 1)
      \/ r = send_segments(s, << fin >>, 1)
      \/ r = send_segments(u, segs, len + flag(is_fin))
  <2>1. u = [s EXCEPT !.stream = pop_output(@, len)]
    OBVIOUS
  <2>. HIDE DEF u
  <2>. QED
    BY <2>1, Zenon DEF fill_window
<1>2. ~syn.rst /\ ~fin.rst
  BY DEF new_TCPSegment
<1>3. len \in Nat /\ s.stream \in ByteStreamType(Byte)
  <2>1. rw \in Nat
    <3>1. cur_win(s) \in Int /\ bytes_in_flight(s) \in Int
      BY SenderFields DEF Fields, cur_win, bytes_in_flight
    <3>. QED
      BY <3>1, Moduli, ModDecomposed DEF U64
  <2>2. s.stream \in ByteStreamType(Byte)
    BY SenderFields DEF Fields
  <2>3. Len(s.stream.buff) \in Nat
    BY <2>2 DEF ByteStreamType
  <2>. QED
    BY <2>1, <2>2, <2>3 DEF min, buffer_size
<1>4. \A k \in 1 .. count : ~segs[k].rst
  BY DEF cut_segments, new_TCPSegment
<1>5. segs = [k \in 1 .. count |-> segs[k]]
  <2>. HIDE DEF len, is_fin
  <2>. QED
    BY DEF cut_segments
<1>6. count \in Nat
  <2>. HIDE DEF len
  <2>. QED
    BY <1>3, PayloadAssumption
<1>. HIDE DEF syn, fin, len, is_fin
<1>7. o \in ByteStreamType(Byte)
  BY <1>3, PopType
<1>8. o.bytes_w = s.stream.bytes_w /\ o.end_input = s.stream.end_input /\ o.capacity = s.stream.capacity
  BY <1>3 DEF pop_output, ByteStreamType
<1>. HIDE DEF o, segs, count
<1>9. u \in SenderType(Byte) /\ Minds(s, u)
  <2>1. /\ u \in SenderType(Byte) /\ u.stream = o /\ u.segments_out = s.segments_out
        /\ u.retransmission_count = s.retransmission_count
    BY <1>7, StreamFields, SenderFields DEF Fields
  <2>. QED
    BY <2>1, <1>8 DEF Minds, SameInput, Modest
<1>. HIDE DEF u
<1>a. CASE r = s
  BY <1>a, MindsSame
<1>b. ASSUME NEW seg, ~seg.rst, r = send_segments(s, << seg >>, 1) PROVE Minds(s, r)
  <2>1. << seg >> = [k \in 1 .. 1 |-> << seg >>[k]] /\ \A k \in 1 .. 1 : ~<< seg >>[k].rst
    BY <1>b
  <2>. QED
    BY <1>b, <2>1, SendMinds, ZenonT(40)
<1>c. CASE r = send_segments(u, segs, len + flag(is_fin))
  <2>1. Minds(u, r)
    BY <1>c, <1>4, <1>5, <1>6, <1>9, SendMinds
  <2>. QED
    BY <1>9, <2>1, MindsOn
<1>. QED
  BY <1>1, <1>2, <1>a, <1>b, <1>c

\* ack_received.
LEMMA AckMinds ==
    ASSUME NEW text \in OutStreams, NEW s, Idle(text, s), s.segments_out = << >>,
           NEW ack \in 1 .. s.next_seqno, NEW win \in Nat, win < Mod64,
           NEW r, r = ack_received(s, wrap(ack, s.isn), win)
    PROVE  Minds(s, r)
<1>. DEFINE abs == unwrap(wrap(ack, s.isn), s.isn, s.last_ackno)
            a == new_ack(s, abs, wrap(ack, s.isn))
            t == IF abs > s.last_ackno THEN a ELSE s
            u == [t EXCEPT !.last_win = win]
<1>1. SenderOK(text, s) /\ s \in SenderType(Byte)
  BY IdleFacts DEF Idle
<1>2. /\ s.next_seqno \in Nat /\ s.last_ackno \in Nat /\ s.isn \in WrappingInt32
      /\ s.last_ackno <= s.next_seqno /\ s.next_seqno <= Len(text) + 2
      /\ Len(text) \in Nat /\ Len(text) + 2 <= Half32
  BY <1>1, SenderNumbers, TextSizes
<1>3. abs = ack
  <2>1. /\ s.last_ackno + Mod32 < Mod64
        /\ s.last_ackno < ack + Half32 /\ ack <= s.last_ackno + Half32
    <3>1. s.last_ackno <= Half32 /\ ack <= Half32 /\ ack \in Nat \ {0}
      <4>. HIDE DEF abs, a, t, u
      <4>1. ack <= s.next_seqno /\ ack \in Nat \ {0}
        BY <1>2
      <4>. QED
        BY ONLY <1>2, <4>1, Widths
    <3>2. /\ s.last_ackno \in Nat /\ Half32 \in Nat /\ Half32 > 0 /\ Mod32 \in Nat /\ Mod64 \in Nat
          /\ Half32 + Mod32 < Mod64
      BY <1>2, Widths, Half32Assumption
    <3>. QED
      BY ONLY <3>1, <3>2
  <2>. QED
    BY <2>1, <1>2, UnwrapRecovers
<1>4. r = s \/ r = fill_window(u)
  BY DEF ack_received, is_new
<1>t. t = s \/ (ack > s.last_ackno /\ t = new_ack(s, ack, wrap(ack, s.isn)))
  BY <1>3
<1>u. u = [t EXCEPT !.last_win = win]
  OBVIOUS
<1>. HIDE DEF t, u
<1>5. t \in SenderType(Byte) /\ Minds(s, t)
  <2>1. CASE t = s
    BY <1>1, <2>1, MindsSame
  <2>2. CASE ack > s.last_ackno /\ t = new_ack(s, ack, wrap(ack, s.isn))
    <3>1. SenderOK(text, t)
      BY <1>1, <1>2, <2>2, NewAck
    <3>2. /\ t.stream = s.stream /\ t.segments_out = s.segments_out
          /\ t.retransmission_count = 0
      BY <1>1, <2>2, SenderFields DEF Fields, new_ack
    <3>. QED
      BY <3>1, <3>2 DEF SenderOK, Minds, SameInput, Modest
  <2>. QED
    BY <1>t, <2>1, <2>2
<1>6. u \in SenderType(Byte) /\ Minds(t, u)
  <2>1. /\ u \in SenderType(Byte) /\ u.stream = t.stream /\ u.segments_out = t.segments_out
        /\ u.retransmission_count = t.retransmission_count
    BY <1>5, <1>u, SenderFields DEF Fields
  <2>. QED
    BY <2>1 DEF Minds, SameInput, Modest
<1>7. CASE r = fill_window(u)
  BY <1>5, <1>6, <1>7, FillMinds, MindsOn
<1>. QED
  BY <1>4, <1>7, MindsSame

\* send_empty_segment.
LEMMA EmptyMinds ==
    ASSUME NEW s \in SenderType(Byte), NEW r, r = send_empty_segment(s)
    PROVE  Minds(s, r)
<1>. DEFINE seg == [new_TCPSegment EXCEPT !.seqno = wrap(s.next_seqno, s.isn)]
            q == << seg >>
<1>1. ~seg.rst
  BY DEF new_TCPSegment
<1>2. /\ r.stream = s.stream /\ r.retransmission_count = s.retransmission_count
      /\ r.segments_out = Append(s.segments_out, seg)
  BY SenderFields DEF Fields, send_empty_segment
<1>3. s.segments_out \in Segs
  BY SenderFields DEF Fields
<1>. HIDE DEF seg
<1>4. q = [k \in 1 .. 1 |-> q[k]] /\ \A k \in 1 .. 1 : ~q[k].rst
  BY <1>1
<1>5. Append(s.segments_out, seg) = s.segments_out \o q
  <2>. DEFINE S == SegmentType(Byte) \cup {seg}
  <2>1. s.segments_out \in Seq(S) /\ seg \in S
    BY <1>3 DEF Segs
  <2>. HIDE DEF S
  <2>. QED
    BY <2>1, AppendIsConcat
<1>. HIDE DEF q
<1>6. Modest(s, r)
  BY <1>2, <1>3, <1>4, <1>5, Longer DEF Modest
<1>. QED
  BY <1>2, <1>6 DEF Minds, SameInput

\* tick: what is counted has been retransmitted.
LEMMA TickMinds ==
    ASSUME NEW s \in SenderType(Byte), NEW ms \in Nat, NEW r, r = sender_tick(s, ms)
    PROVE  /\ SameInput(s, r)
           /\ r.retransmission_count = s.retransmission_count \/ r.segments_out # << >>
<1>1. r.stream = s.stream
  BY SenderFields DEF Fields, sender_tick, retransmit
<1>2. r.retransmission_count = s.retransmission_count \/ r.segments_out = Append(s.segments_out, Head(s.outstanding_seg))
  BY SenderFields DEF Fields, sender_tick, retransmit
<1>3. ASSUME NEW e PROVE Append(s.segments_out, e) # << >>
  <2>. DEFINE S == SegmentType(Byte) \cup {e}
  <2>1. s.segments_out \in Seq(S) /\ e \in S
    BY SenderFields DEF Fields, Segs
  <2>. HIDE DEF S
  <2>. QED
    BY <2>1
<1>. QED
  BY <1>1, <1>2, <1>3 DEF SameInput

\* fill_window after a new stream of the same capacity.
LEMMA StreamMinds ==
    ASSUME NEW s \in SenderType(Byte), NEW o \in ByteStreamType(Byte),
           NEW r, r = fill_window([s EXCEPT !.stream = o])
    PROVE  /\ r.stream.bytes_w = o.bytes_w /\ r.stream.end_input = o.end_input
           /\ r.stream.capacity = o.capacity /\ Modest(s, r)
<1>. DEFINE u == [s EXCEPT !.stream = o]
<1>1. /\ u \in SenderType(Byte) /\ u.stream = o /\ u.segments_out = s.segments_out
      /\ u.retransmission_count = s.retransmission_count
  BY StreamFields, SenderFields DEF Fields
<1>2. r = fill_window(u)
  OBVIOUS
<1>. HIDE DEF u
<1>3. Minds(u, r)
  BY <1>1, <1>2, FillMinds
<1>. QED
  BY <1>1, <1>3 DEF Minds, SameInput, Modest

-----------------------------------------------------------------------------
(* The error flag of the inbound stream *)

\* A reassembler has an output, which has an error flag.
Flagged(r) == "output" \in DOMAIN r /\ "error" \in DOMAIN r.output
SameFlag(r, s) == Flagged(s) /\ s.output.error = r.output.error

\* None of the steps of push_substring touches the flag.
LEMMA BufFlag ==
    ASSUME NEW r, Flagged(r), NEW x, NEW y, NEW z
    PROVE  /\ SameFlag(r, buf_erase(r, x)) /\ SameFlag(r, buf_insert(r, x))
           /\ SameFlag(r, note_eof(r, x, y, z)) /\ SameFlag(r, finish(r))
           /\ SameFlag(r, [r EXCEPT !.output = bs_write(@, x)])
<1>1. SameFlag(r, buf_erase(r, x))
  BY DEF Flagged, SameFlag, buf_erase
<1>2. SameFlag(r, buf_insert(r, x))
  BY DEF Flagged, SameFlag, buf_insert
<1>3. SameFlag(r, note_eof(r, x, y, z))
  BY DEF Flagged, SameFlag, note_eof
<1>4. SameFlag(r, finish(r))
  BY DEF Flagged, SameFlag, finish, end_input
<1>5. SameFlag(r, [r EXCEPT !.output = bs_write(@, x)])
  BY DEF Flagged, SameFlag, bs_write
<1>. QED
  BY <1>1, <1>2, <1>3, <1>4, <1>5

\* Nor does push_substring.
LEMMA PushFlag ==
    ASSUME NEW r, Flagged(r), NEW data, NEW index, NEW is_eof
    PROVE  SameFlag(r, push_substring(r, data, index, is_eof))
<1>. DEFINE a == note_eof(r, data, index, is_eof)
            seg == [idx |-> index, data |-> data]
            b == IF data = << >> THEN a ELSE handle_substring(a, seg)
            c == write_contiguous(b)
<1>1. SameFlag(r, a)
  BY BufFlag
<1>2. SameFlag(a, handle_substring(a, seg))
  <2>. HIDE DEF a, seg
  <2>0. Flagged(a)
    BY <1>1 DEF SameFlag
  <2>1. ASSUME NEW x PROVE SameFlag(a, buf_insert(a, x)) /\ SameFlag(a, handle_overlap(a, x))
    <3>. DEFINE S == {y \in a.buf : overlaps(x, y)}
    <3>1. SameFlag(a, buf_erase(a, S))
      BY <2>0, BufFlag
    <3>2. SameFlag(buf_erase(a, S), buf_insert(buf_erase(a, S), merge_seg(x, S)))
      BY <3>1, BufFlag DEF SameFlag
    <3>3. handle_overlap(a, x) = buf_insert(buf_erase(a, S), merge_seg(x, S))
      BY DEF handle_overlap
    <3>. HIDE DEF S
    <3>. QED
      BY <2>0, <3>1, <3>2, <3>3, BufFlag DEF SameFlag
  <2>2. \/ handle_substring(a, seg) = a
        \/ \E x : handle_substring(a, seg) \in {buf_insert(a, x), handle_overlap(a, x)}
    BY DEF handle_substring
  <2>. QED
    BY <2>0, <2>1, <2>2 DEF SameFlag
<1>3. SameFlag(r, b)
  BY <1>1, <1>2 DEF SameFlag
<1>. HIDE DEF a, b, seg
<1>4. SameFlag(b, c)
  <2>. DEFINE from == first_unassembled(b)
              end == reassembled_end(b)
              done == {y \in b.buf : y.idx = from \/ y.idx < end}
              e == buf_erase(b, done)
              d == buffered(b, from, end)
  <2>1. c = [e EXCEPT !.output = bs_write(@, d)]
    BY DEF write_contiguous
  <2>2. SameFlag(b, e)
    BY <1>3, BufFlag DEF SameFlag
  <2>. HIDE DEF c, d, e
  <2>3. SameFlag(e, c)
    BY <2>1, <2>2, BufFlag DEF SameFlag
  <2>. QED
    BY <2>2, <2>3 DEF SameFlag
<1>5. push_substring(r, data, index, is_eof) = finish(c)
  BY DEF push_substring, a, b, seg
<1>. HIDE DEF c
<1>6. SameFlag(c, finish(c))
  BY <1>4, BufFlag DEF SameFlag
<1>. QED
  BY <1>3, <1>4, <1>5, <1>6 DEF SameFlag

\* Nor does a segment.
LEMMA ReceiverFlag ==
    ASSUME NEW v \in ReceiverType(Byte), NEW seg, NEW w, w = receiver_segment_received(v, seg)
    PROVE  stream_out(w).error = stream_out(v).error
<1>1. Flagged(v.reassembler)
  BY DEF ReceiverType, ReassemblerType, ByteStreamType, Flagged
<1>2. \/ w = v
      \/ \E d, n, e : w.reassembler = push_substring(v.reassembler, d, n, e)
  BY DEF receiver_segment_received, ReceiverType
<1>. QED
  BY <1>1, <1>2, PushFlag DEF SameFlag, stream_out

-----------------------------------------------------------------------------
(* What a call of the connection leaves alone *)

\* No reset waits to be sent.
Silent(c) == NoRst(c.sender.segments_out) /\ NoRst(c.segments_out)

\* A call that makes no error.
Behaves(c, d) ==
    /\ d.isactive => c.isactive
    /\ inbound_stream(d).error = inbound_stream(c).error
    /\ \/ d.sender.retransmission_count = c.sender.retransmission_count
       \/ d.sender.retransmission_count = 0
    /\ Silent(c) => Silent(d)

\* And writes nothing.
Keeps(c, d) == Behaves(c, d) /\ SameInput(c.sender, d.sender)

\* One after the other.
LEMMA KeepsOn ==
    ASSUME NEW c, NEW d, NEW e, Behaves(c, d), Keeps(d, e)
    PROVE  Behaves(c, e) /\ (Keeps(c, d) => Keeps(c, e))
  BY DEF Behaves, Keeps, SameInput

\* The sender goes on.
LEMMA SenderBehaves ==
    ASSUME NEW c \in ConnectionType(Byte), NEW s \in SenderType(Byte), Modest(c.sender, s),
           NEW d, d = [c EXCEPT !.sender = s]
    PROVE  Behaves(c, d) /\ d.sender = s
<1>1. Around(c, d) /\ d.sender = s /\ d.receiver = c.receiver /\ d.segments_out = c.segments_out
  BY SenderSet
<1>. QED
  BY <1>1 DEF Behaves, Around, Modest, Silent, inbound_stream

\* send_segment.
LEMMA FlushKeeps ==
    ASSUME NEW own \in Texts, NEW text \in Texts, NEW c, NEW t, NEW i,
           Steady(own, text, c, t, i), NEW d, d = send_segment(c)
    PROVE  Keeps(c, d) /\ d.sender.segments_out = << >> /\ d.sender.stream = c.sender.stream
<1>. DEFINE p == letters(c)
            q == c.sender.segments_out
<1>1. c \in ConnectionType(Byte) /\ Idle(own, c.sender) /\ ReceiverOK(text, c.receiver, t, i)
  BY DEF Steady
<1>2. SentOff(own, c, d)
  BY <1>1, Flushed
<1>3. /\ Around(c, d) /\ d.receiver = c.receiver /\ d.sender = emptied(c.sender)
      /\ d.sender.segments_out = << >> /\ d.sender.stream = c.sender.stream
      /\ d.segments_out = c.segments_out \o p
  BY <1>2 DEF SentOff
<1>4. /\ c.sender \in SenderType(Byte) /\ q \in Segs /\ Len(q) \in Nat
      /\ c.segments_out \in Segs
  BY <1>1, ConnectionFields DEF Idle, QueueOK, Segs, ConnFields
<1>5. d.sender.retransmission_count = c.sender.retransmission_count
  BY <1>3, <1>4, EmptiedFields
<1>6. ASSUME Silent(c) PROVE NoRst(d.segments_out)
  <2>1. ASSUME NEW k \in 1 .. Len(q) PROVE ~p[k].rst
    <3>1. q[k] \in SegmentType(Byte) /\ ~q[k].rst
      BY <1>4, <1>6, ElementOfSeq DEF Silent, NoRst, Segs
    <3>2. p[k] = fill_header(c, q[k])
      BY DEF letters
    <3>. HIDE DEF p, q
    <3>. QED
      BY <3>1, <3>2, SegmentFields DEF SegFields, fill_header
  <2>2. p = [k \in 1 .. Len(q) |-> p[k]]
    BY DEF letters
  <2>. HIDE DEF p, q
  <2>. QED
    BY <1>3, <1>4, <1>6, <2>1, <2>2, Longer DEF Silent
<1>7. NoRst(<< >>)
  BY DEF NoRst
<1>. QED
  BY <1>3, <1>5, <1>6, <1>7 DEF Keeps, Behaves, SameInput, Around, Silent, inbound_stream

\* clean_shutdown.
LEMMA CleanKeeps ==
    ASSUME NEW c \in ConnectionType(Byte), NEW d, d = clean_shutdown(c)
    PROVE  Keeps(c, d)
<1>1. /\ d.receiver = c.receiver /\ d.sender = c.sender /\ d.segments_out = c.segments_out
  BY CleanFields
<1>2. d.isactive => c.isactive
  BY ConnectionFields DEF ConnFields, clean_shutdown
<1>. QED
  BY <1>1, <1>2 DEF Keeps, Behaves, SameInput, Silent, inbound_stream

\* A call of the sender, and what it has queued is sent.
LEMMA SenderFrame ==
    ASSUME NEW own \in Texts, NEW text \in Texts, NEW c, NEW t, NEW i,
           Steady(own, text, c, t, i), NEW s, Idle(own, s), Modest(c.sender, s),
           NEW d, d = send_segment(with_sender(c, s))
    PROVE  Behaves(c, d) /\ d.sender.stream = s.stream
<1>. DEFINE x == with_sender(c, s)
<1>1. c \in ConnectionType(Byte) /\ s \in SenderType(Byte) /\ ReceiverOK(text, c.receiver, t, i)
  BY DEF Steady, Idle
<1>2. Behaves(c, x) /\ x.sender = s
  BY <1>1, SenderBehaves DEF with_sender
<1>3. Steady(own, text, x, t, i)
  BY <1>1, <1>2, SenderSet DEF Steady, Around, with_sender
<1>4. Keeps(x, d) /\ d.sender.stream = x.sender.stream
  BY <1>3, FlushKeeps
<1>. HIDE DEF x
<1>. QED
  BY <1>2, <1>4, KeepsOn

\* connect.
LEMMA ConnectFrame ==
    ASSUME NEW own \in Texts, NEW text \in Texts, NEW c, NEW t, NEW i,
           Steady(own, text, c, t, i), NEW d, d = connect(c)
    PROVE  Keeps(c, d)
<1>. DEFINE s == fill_window(c.sender)
<1>1. own \in OutStreams /\ Idle(own, c.sender) /\ c.sender \in SenderType(Byte)
  BY TextBoth DEF Steady, Idle
<1>2. Idle(own, s)
  BY <1>1, FillIdle
<1>3. Minds(c.sender, s)
  BY <1>1, FillMinds
<1>4. d = send_segment(with_sender(c, s))
  BY DEF connect, with_sender
<1>. HIDE DEF s
<1>5. Behaves(c, d) /\ d.sender.stream = s.stream
  BY <1>2, <1>3, <1>4, SenderFrame DEF Minds
<1>. QED
  BY <1>3, <1>5 DEF Keeps, Minds, SameInput

\* end_input_stream.
LEMMA EndFrame ==
    ASSUME NEW own \in Texts, NEW text \in Texts, NEW c, NEW t, NEW i,
           Steady(own, text, c, t, i), c.sender.stream.bytes_w = Len(own),
           NEW d, d = end_input_stream(c)
    PROVE  /\ Behaves(c, d) /\ d.sender.stream.end_input
           /\ d.sender.stream.bytes_w = c.sender.stream.bytes_w
           /\ d.sender.stream.capacity = c.sender.stream.capacity
<1>. DEFINE o == end_input(c.sender.stream)
            s == fill_window([c.sender EXCEPT !.stream = o])
<1>1. own \in OutStreams /\ Idle(own, c.sender) /\ c.sender \in SenderType(Byte)
  BY TextBoth DEF Steady, Idle
<1>0. s = fill_window([c.sender EXCEPT !.stream = end_input(@)])
  OBVIOUS
<1>2. Idle(own, s)
  BY <1>0, <1>1, EndIdle
<1>3. c.sender.stream \in ByteStreamType(Byte)
  BY <1>1, SenderFields DEF Fields
<1>4. /\ o \in ByteStreamType(Byte) /\ o.bytes_w = c.sender.stream.bytes_w /\ o.end_input
      /\ o.capacity = c.sender.stream.capacity
  BY <1>3 DEF ByteStreamType, end_input
<1>5. d = send_segment(with_sender(c, s))
  BY <1>0 DEF end_input_stream, with_sender
<1>. HIDE DEF o
<1>6. /\ s.stream.bytes_w = o.bytes_w /\ s.stream.end_input = o.end_input
      /\ s.stream.capacity = o.capacity /\ Modest(c.sender, s)
  BY <1>1, <1>4, StreamMinds
<1>. HIDE DEF s
<1>7. Behaves(c, d) /\ d.sender.stream = s.stream
  BY <1>2, <1>5, <1>6, SenderFrame
<1>. QED
  BY ONLY <1>4, <1>6, <1>7

\* write of bytes that come next and are all accepted.
AllWritten(c, d, data, ln) ==
    /\ Behaves(c, d) /\ d.sender.stream.end_input = c.sender.stream.end_input
    /\ d.sender.stream.capacity = c.sender.stream.capacity
    /\ c.isactive => d.sender.stream.bytes_w = c.sender.stream.bytes_w + ln
    /\ ~c.isactive => d = c
    /\ amount_written(c, data) = IF c.isactive THEN ln ELSE 0
    /\ Len(data) = ln

\* write takes all of the data when there is room for it.
LEMMA WriteFrame ==
    ASSUME NEW own \in Texts, NEW text \in Texts, NEW c, NEW t, NEW i,
           Steady(own, text, c, t, i), ~c.sender.stream.end_input,
           NEW ln \in Nat, c.sender.stream.bytes_w + ln <= Len(own),
           NEW data, data = next_bytes(own, c.sender.stream.bytes_w, ln),
           ln <= remaining_capacity(c.sender.stream),
           NEW d, d = write(c, data)
    PROVE  AllWritten(c, d, data, ln)
<1>. DEFINE o == bs_write(c.sender.stream, data)
            s == fill_window(writing(c.sender, data))
            w == c.sender.stream.bytes_w
<1>1. own \in OutStreams /\ Idle(own, c.sender) /\ c.sender \in SenderType(Byte)
  BY TextBoth DEF Steady, Idle
<1>2. Idle(own, s)
  BY ONLY <1>1, ~c.sender.stream.end_input, ln \in Nat, c.sender.stream.bytes_w + ln <= Len(own),
          data = next_bytes(own, c.sender.stream.bytes_w, ln), WriteIdle
<1>3. c.sender.stream \in ByteStreamType(Byte) /\ own \in Seq(Byte)
  BY <1>1, TextSizes, SenderFields DEF Fields
<1>4. StreamOK(own, c.sender.stream)
  BY <1>1, IdleFacts DEF SenderOK
<1>5. Len(c.sender.stream.buff) <= c.sender.stream.capacity /\ w \in Nat
  BY <1>3, <1>4 DEF StreamOK, ByteStreamType
<1>6. data \in Seq(Byte) /\ Len(data) = ln
  <2>1. data = SubSeq(own, w + 1, w + ln)
    BY DEF next_bytes
  <2>2. w + ln \in Nat /\ w + ln <= Len(own)
    BY <1>5
  <2>. HIDE DEF w
  <2>. QED
    BY <1>3, <1>5, <2>1, <2>2
<1>7. write_size(c.sender.stream, data) = ln
  BY <1>6 DEF write_size, min, input_ended
<1>8. o \in ByteStreamType(Byte)
  BY <1>3, <1>5, <1>6, WriteType
<1>9. /\ o.bytes_w = w + ln /\ o.end_input = c.sender.stream.end_input
      /\ o.capacity = c.sender.stream.capacity
  BY <1>3, <1>7 DEF bs_write, ByteStreamType
<1>10. s = fill_window([c.sender EXCEPT !.stream = o])
  BY DEF writing
<1>11. \/ d = c /\ (c.isactive => data = << >>)
       \/ c.isactive /\ d = send_segment(with_sender(c, s))
  BY DEF write, with_sender, writing
<1>12. amount_written(c, data) = IF c.isactive THEN ln ELSE 0
  BY <1>7 DEF amount_written
<1>. HIDE DEF o
<1>13. /\ s.stream.bytes_w = o.bytes_w /\ s.stream.end_input = o.end_input
       /\ s.stream.capacity = o.capacity /\ Modest(c.sender, s)
  BY <1>1, <1>8, <1>10, StreamMinds
<1>. HIDE DEF s
<1>14. CASE d = c /\ (c.isactive => data = << >>)
  <2>1. c.isactive => ln = 0
    BY <1>6, <1>14
  <2>2. Behaves(c, c)
    BY DEF Behaves
  <2>. QED
    BY <1>5, <1>6, <1>12, <1>14, <2>1, <2>2 DEF AllWritten
<1>15. CASE c.isactive /\ d = send_segment(with_sender(c, s))
  <2>1. Behaves(c, d) /\ d.sender.stream = s.stream
    BY <1>2, <1>13, <1>15, SenderFrame
  <2>. QED
    BY <1>6, <1>9, <1>12, <1>13, <1>15, <2>1 DEF AllWritten
<1>. QED
  BY <1>11, <1>14, <1>15

\* Some segment of q is a reset.
Loud(q) == \E k \in 1 .. Len(q) : q[k].rst

\* send_rst_segment, which makes a reset if there is a segment to make it of.
LEMMA RstFrame ==
    ASSUME NEW own \in Texts, NEW text \in Texts, NEW c, NEW t, NEW i,
           Steady(own, text, c, t, i), NEW d, d = send_rst_segment(c)
    PROVE  /\ SameInput(c.sender, d.sender)
           /\ c.sender.segments_out # << >> => Loud(d.segments_out)
<1>. DEFINE f == fill_window(c.sender)
            q == f.segments_out
            h == fill_header(c, Head(q))
            first == [h EXCEPT !.rst = TRUE]
            e == send_empty_segment(f)
            r == requeued(f, Tail(q))
<1>0. /\ c \in ConnectionType(Byte) /\ Idle(own, c.sender) /\ own \in OutStreams
      /\ ReceiverOK(text, c.receiver, t, i) /\ c.sender \in SenderType(Byte)
  BY TextBoth DEF Steady, Idle
<1>1. Idle(own, f) /\ Minds(c.sender, f)
  BY <1>0, FillIdle, FillMinds
<1>2. /\ q = << >> => d = [c EXCEPT !.sender = e]
      /\ q # << >> => d = queued_up(c, r, Append(c.segments_out, first))
  BY DEF send_rst_segment, requeued, queued_up
<1>3. f \in SenderType(Byte) /\ q \in Segs /\ QueueOK(own, f, q)
  BY <1>1 DEF Idle, QueueOK
<1>. HIDE DEF f
<1>4. CASE q = << >>
  <2>1. Minds(f, e) /\ e \in SenderType(Byte)
    BY <1>0, <1>1, <1>3, EmptyMinds, EmptyIdle DEF Idle
  <2>. HIDE DEF e
  <2>2. d.sender = e
    BY <1>0, <1>2, <1>4, <2>1, SenderSet
  <2>. QED
    BY <1>1, <1>4, <2>1, <2>2, MindsOn DEF Minds, Modest
<1>5. CASE q # << >>
  <2>1. Head(q) \in SegmentType(Byte) /\ Tail(q) \in Segs /\ ~Head(q).ack /\ OnWay(own, f, Head(q))
    <3>1. /\ Head(q) \in SegmentType(Byte) /\ Tail(q) \in Segs /\ Head(q) = q[1]
          /\ 1 \in 1 .. Len(q)
      BY <1>3, <1>5 DEF Segs
    <3>. QED
      BY <1>3, <3>1 DEF QueueOK
  <2>2. r \in SenderType(Byte) /\ r.stream = f.stream
    BY <1>3, <2>1, RequeuedFields
  <2>3. h \in SegmentType(Byte)
    <3>. DEFINE g == Head(q)
    <3>. HIDE DEF g
    <3>1. g \in SegmentType(Byte) /\ ~g.ack /\ OnWay(own, f, g) /\ h = fill_header(c, g)
      BY <2>1 DEF g
    <3>. HIDE DEF h
    <3>2. Letter(own, f, c.receiver, h)
      BY <1>0, <3>1, HeaderFilled
    <3>. QED
      BY <3>2 DEF Letter
  <2>. HIDE DEF h
  <2>4. first \in SegmentType(Byte) /\ first.rst
    BY <2>3, RstFields, SegmentFields DEF SegFields
  <2>. HIDE DEF first, r
  <2>. DEFINE g == Append(c.segments_out, first)
  <2>5. c.segments_out \in Segs
    BY <1>0, ConnectionFields DEF ConnFields
  <2>6. g \in Segs /\ Len(g) \in 1 .. Len(g) /\ g[Len(g)] = first
    BY <2>4, <2>5 DEF Segs
  <2>8. d = queued_up(c, r, g)
    BY <1>2, <1>5
  <2>. HIDE DEF g
  <2>7. d.sender = r /\ d.segments_out = g
    BY <1>0, <2>2, <2>6, <2>8, QueueSet
  <2>. QED
    BY <1>1, <2>2, <2>4, <2>6, <2>7 DEF Minds, SameInput, Loud
<1>. QED
  BY <1>4, <1>5

\* unclean_shutdown.
LEMMA UncleanFrame ==
    ASSUME NEW own \in Texts, NEW text \in Texts, NEW c, NEW t, NEW i,
           Steady(own, text, c, t, i), NEW d, d = unclean_shutdown(c)
    PROVE  /\ SameInput(c.sender, d.sender) /\ ~d.isactive /\ inbound_stream(d).error
           /\ d.segments_out = c.segments_out /\ (Silent(c) => Silent(d))
<1>. DEFINE s == [c.sender EXCEPT !.stream = set_error(@)]
            v == marked(c.receiver)
<1>0. c \in ConnectionType(Byte) /\ Idle(own, c.sender) /\ ReceiverOK(text, c.receiver, t, i)
      /\ own \in OutStreams /\ c.sender \in SenderType(Byte)
  BY TextBoth DEF Steady, Idle
<1>1. Idle(own, s)
  BY <1>0, MarkIdle
<1>2. ReceiverOK(text, v, t, i) /\ stream_out(v).error
  BY <1>0, MarkHeld
<1>3. s.segments_out = c.sender.segments_out /\ SameInput(c.sender, s)
  <2>1. c.sender.stream \in ByteStreamType(Byte)
    BY <1>0, SenderFields DEF Fields
  <2>2. s.stream = set_error(c.sender.stream) /\ s.segments_out = c.sender.segments_out
    BY <1>0, SenderFields DEF Fields
  <2>. QED
    BY <2>1, <2>2 DEF set_error, ByteStreamType, SameInput
<1>4. s \in SenderType(Byte) /\ v \in ReceiverType(Byte)
  BY <1>1, <1>2 DEF Idle, ReceiverOK
<1>5. d = downed(c, s, v)
  BY DEF unclean_shutdown, downed, marked
<1>. HIDE DEF s, v
<1>6. d.sender = s /\ d.receiver = v /\ ~d.isactive /\ d.segments_out = c.segments_out
  BY <1>0, <1>4, <1>5, UncleanFields
<1>. QED
  BY <1>2, <1>3, <1>6 DEF Silent, inbound_stream

\* tick, if the connection has not given up before: if it does now it says so.
Trying(c) ==
    c.isactive => /\ ~inbound_stream(c).error
                  /\ c.sender.retransmission_count <= MAX_RETX_ATTEMPTS

\* A call that behaves leaves it trying, or ends it.
LEMMA BehavesTrying ==
    ASSUME NEW c, NEW d, Trying(c), Behaves(c, d)
    PROVE  Trying(d)
<1>1. 0 <= MAX_RETX_ATTEMPTS
  BY ConnectionAssumption
<1>. QED
  BY <1>1 DEF Trying, Behaves

\* tick.
LEMMA TickFrame ==
    ASSUME NEW own \in Texts, NEW text \in Texts, NEW c, NEW t, NEW i,
           End(own, text, c, t, i), NEW ms \in Nat, NEW d, d = tick(c, ms), Trying(c)
    PROVE  /\ SameInput(c.sender, d.sender) /\ Trying(d) /\ (d.isactive => c.isactive)
           /\ inbound_stream(d).error => inbound_stream(c).error \/ Loud(d.segments_out)
<1>. DEFINE s == sender_tick(c.sender, ms)
            n == c.time_since_last_segment_received + ms
            x == ticked_with(c, s, n)
            y == send_segment(x)
            z == send_rst_segment(x)
<1>0. /\ Steady(own, text, c, t, i) /\ own \in OutStreams /\ Idle(own, c.sender)
      /\ c \in ConnectionType(Byte) /\ ReceiverOK(text, c.receiver, t, i)
      /\ c.sender \in SenderType(Byte)
  BY TextBoth DEF End, Steady, Idle
<1>1. CASE ~c.isactive
  <2>1. d = c
    BY <1>1 DEF tick
  <2>. QED
    BY <2>1 DEF SameInput
<1>2. CASE c.isactive
  <2>1. c.sender.segments_out = << >> /\ ~inbound_stream(c).error
        /\ c.sender.retransmission_count <= MAX_RETX_ATTEMPTS
    BY <1>0, <1>2 DEF End, Trying
  <2>2. Idle(own, s)
    BY <1>0, <2>1, TickIdle
  <2>3. s \in SenderType(Byte) /\ n \in Nat
    BY <1>0, <2>2, ConnectionFields DEF Idle, ConnFields
  <2>4. /\ SameInput(c.sender, s)
        /\ s.retransmission_count = c.sender.retransmission_count \/ s.segments_out # << >>
    BY <1>0, TickMinds
  <2>5. x = ticked_with(c, s, n) /\ y = send_segment(x) /\ z = send_rst_segment(x)
    OBVIOUS
  <2>6. \/ consecutive_retransmissions(x.sender) > MAX_RETX_ATTEMPTS /\ d = unclean_shutdown(z)
        \/ ~(consecutive_retransmissions(x.sender) > MAX_RETX_ATTEMPTS) /\ d = clean_shutdown(y)
    BY <1>2 DEF tick, after_tick, ticked_with
  <2>. HIDE DEF s, n, x, y, z
  <2>7. /\ Around(c, x) /\ x.sender = s /\ x.receiver = c.receiver
    <3>1. c.receiver \in ReceiverType(Byte)
      BY <1>0 DEF ReceiverOK
    <3>. QED
      BY <1>0, <2>3, <2>5, <3>1, OtherFields
  <2>8. Steady(own, text, x, t, i)
    BY <1>0, <2>2, <2>7 DEF Steady, Around
  <2>9. s.retransmission_count \in Nat /\ c.sender.retransmission_count \in Nat
        /\ MAX_RETX_ATTEMPTS \in Nat
    BY <1>0, <2>3, SenderFields, ConnectionAssumption DEF Fields
  <2>10. CASE /\ consecutive_retransmissions(x.sender) > MAX_RETX_ATTEMPTS
              /\ d = unclean_shutdown(z)
    <3>1. s.segments_out # << >>
      BY <2>1, <2>4, <2>7, <2>9, <2>10 DEF consecutive_retransmissions
    <3>2. SameInput(s, z.sender) /\ Loud(z.segments_out)
      BY <2>5, <2>7, <2>8, <3>1, RstFrame
    <3>3. Steady(own, text, z, t, i)
      BY <2>5, <2>8, RstSent
    <3>4. SameInput(z.sender, d.sender) /\ ~d.isactive /\ d.segments_out = z.segments_out
      BY <2>10, <3>3, UncleanFrame
    <3>. QED
      BY <2>4, <3>2, <3>4 DEF SameInput, Trying
  <2>11. CASE /\ ~(consecutive_retransmissions(x.sender) > MAX_RETX_ATTEMPTS)
              /\ d = clean_shutdown(y)
    <3>1. s.retransmission_count <= MAX_RETX_ATTEMPTS
      BY <2>7, <2>9, <2>11 DEF consecutive_retransmissions
    <3>2. Keeps(x, y)
      BY <2>5, <2>8, FlushKeeps
    <3>3. y \in ConnectionType(Byte)
      BY <2>5, <2>8, Flushed DEF Steady, SentOff, Around
    <3>4. Keeps(y, d)
      BY <2>11, <3>3, CleanKeeps
    <3>5. Keeps(x, d)
      BY <3>2, <3>4, KeepsOn DEF Keeps
    <3>6. Trying(x)
      BY <2>1, <2>7, <3>1 DEF Trying, inbound_stream
    <3>7. inbound_stream(d).error = inbound_stream(c).error
      BY <2>7, <3>5 DEF Keeps, Behaves, inbound_stream
    <3>. QED
      BY <1>2, <2>4, <2>7, <3>5, <3>6, <3>7, BehavesTrying DEF Keeps, SameInput
  <2>. QED
    BY <2>6, <2>10, <2>11
<1>. QED
  BY <1>0, <1>1, <1>2, ConnectionFields DEF ConnFields

\* The destructor.
LEMMA DestructFrame ==
    ASSUME NEW own \in Texts, NEW text \in Texts, NEW c, NEW t, NEW i,
           Steady(own, text, c, t, i), NEW d, d = destruct(c)
    PROVE  SameInput(c.sender, d.sender) /\ ~d.isactive /\ (~c.isactive => d = c)
<1>. DEFINE z == send_rst_segment(c)
<1>1. CASE d = c /\ ~c.isactive
  BY <1>1 DEF SameInput
<1>2. CASE c.isactive /\ d = unclean_shutdown(z)
  <2>1. Steady(own, text, z, t, i)
    BY RstSent
  <2>2. SameInput(c.sender, z.sender)
    BY RstFrame
  <2>. HIDE DEF z
  <2>3. SameInput(z.sender, d.sender) /\ ~d.isactive
    BY <1>2, <2>1, UncleanFrame
  <2>. QED
    BY <1>2, <2>2, <2>3 DEF SameInput
<1>. QED
  BY <1>1, <1>2, ConnectionFields DEF Steady, destruct, ConnFields

\* Every step of taken_segment keeps the input: one with the sender,
LEMMA SenderKeeps ==
    ASSUME NEW own \in Texts, NEW text, NEW c, NEW t, NEW i,
           Steady(own, text, c, t, i), NEW s, Idle(own, s), Minds(c.sender, s),
           NEW d, d = [c EXCEPT !.sender = s]
    PROVE  Keeps(c, d) /\ Steady(own, text, d, t, i) /\ d.sender = s
<1>1. c \in ConnectionType(Byte) /\ s \in SenderType(Byte) /\ ReceiverOK(text, c.receiver, t, i)
  BY DEF Steady, Idle
<1>2. Around(c, d) /\ d.sender = s /\ d.receiver = c.receiver
  BY <1>1, SenderSet
<1>3. Behaves(c, d)
  BY <1>1, SenderBehaves DEF Minds
<1>. QED
  BY <1>1, <1>2, <1>3 DEF Steady, Keeps, Minds, Around

\* an empty segment,
LEMMA EmptyFrame ==
    ASSUME NEW own \in Texts, NEW text, NEW c, NEW t, NEW i,
           Steady(own, text, c, t, i), NEW d,
           d = c \/ d = [c EXCEPT !.sender = send_empty_segment(@)]
    PROVE  Keeps(c, d) /\ Steady(own, text, d, t, i)
<1>. DEFINE s == send_empty_segment(c.sender)
<1>1. own \in OutStreams /\ Idle(own, c.sender) /\ c.sender \in SenderType(Byte)
  BY TextBoth DEF Steady, Idle
<1>2. Idle(own, s) /\ Minds(c.sender, s)
  BY <1>1, EmptyIdle, EmptyMinds
<1>. HIDE DEF s
<1>3. CASE d = c
  BY <1>3 DEF Keeps, Behaves, SameInput
<1>4. CASE d = [c EXCEPT !.sender = s]
  BY <1>2, <1>4, SenderKeeps
<1>. QED
  BY <1>3, <1>4 DEF s

\* and all of them.
LEMMA TakenFrame ==
    ASSUME NEW own \in Texts, NEW text \in Texts, NEW c, NEW t, NEW i,
           Steady(own, text, c, t, i), c.sender.segments_out = << >>,
           NEW seg \in SegmentType(Byte), NEW a, Acks(c, seg, a),
           NEW d, d = taken_segment(c, seg)
    PROVE  Keeps(c, d)
<1>. DEFINE x == acknowledged(c, seg)
            y == answered(x, seg)
            z == kept_alive(y, seg)
            e == send_segment(z)
<1>0. own \in OutStreams /\ Idle(own, c.sender)
  BY TextBoth DEF Steady
<1>1. Keeps(c, x) /\ Steady(own, text, x, t, i)
  <2>1. CASE ~seg.ack
    BY <2>1 DEF acknowledged, Keeps, Behaves, SameInput
  <2>2. CASE seg.ack
    <3>. DEFINE s == ack_received(c.sender, seg.ackno, seg.win)
    <3>1. a \in 1 .. c.sender.next_seqno /\ seg.ackno = wrap(a, c.sender.isn) /\ seg.win < Mod64
      BY <2>2 DEF Acks
    <3>2. seg.win \in Nat
      BY SegmentFields DEF SegFields
    <3>3. Idle(own, s) /\ Minds(c.sender, s)
      BY <1>0, <3>1, <3>2, AckIdle, AckMinds
    <3>4. x = [c EXCEPT !.sender = s]
      BY <2>2 DEF acknowledged
    <3>. HIDE DEF s, x
    <3>. QED
      BY <3>3, <3>4, SenderKeeps
  <2>. QED
    BY <2>1, <2>2
<1>2. y = x \/ y = [x EXCEPT !.sender = send_empty_segment(@)]
  BY DEF answered
<1>3. z = y \/ z = [y EXCEPT !.sender = send_empty_segment(@)]
  BY DEF kept_alive
<1>4. e = send_segment(z)
  OBVIOUS
<1>5. d = connect(c) \/ d = clean_shutdown(e)
  BY DEF taken_segment
<1>. HIDE DEF x, y, z, e
<1>6. Keeps(x, y) /\ Steady(own, text, y, t, i)
  BY <1>1, <1>2, EmptyFrame
<1>7. Keeps(y, z) /\ Steady(own, text, z, t, i)
  BY <1>3, <1>6, EmptyFrame
<1>8. Keeps(z, e) /\ e \in ConnectionType(Byte)
  <2>1. SentOff(own, z, e)
    BY <1>4, <1>7, Flushed DEF Steady
  <2>. QED
    BY <1>4, <1>7, <2>1, FlushKeeps DEF SentOff, Around
<1>9. CASE d = connect(c)
  BY <1>9, ConnectFrame
<1>10. CASE d = clean_shutdown(e)
  <2>1. Keeps(e, d)
    BY <1>8, <1>10, CleanKeeps
  <2>. QED
    BY <1>1, <1>6, <1>7, <1>8, <2>1 DEF Keeps, Behaves, SameInput
<1>. QED
  BY <1>5, <1>9, <1>10

\* segment_received of a segment of the peer.
LEMMA ReceiveFrame ==
    ASSUME NEW own \in Texts, NEW text \in Texts, NEW c, NEW t, NEW i, NEW p, NEW seg, NEW a,
           Arrival(own, text, c, t, i, p, seg, a), NEW d, d = segment_received(c, seg)
    PROVE  /\ SameInput(c.sender, d.sender) /\ (d.isactive => c.isactive)
           /\ Silent(c) => Silent(d)
           /\ Trying(c) => Trying(d)
           /\ ~seg.rst => inbound_stream(d).error = inbound_stream(c).error
<1>. DEFINE h == heard(c)
            w == receiver_segment_received(c.receiver, seg)
            x == received_with(h, w)
<1>a. /\ Between(own, text, c, t, i, p) /\ Idle(text, p) /\ p.isn = i
      /\ seg \in SegmentType(Byte) /\ OnWay(text, p, seg) /\ Acks(c, seg, a)
  BY DEF Arrival
<1>0. /\ End(own, text, c, t, i) /\ Held(text, p, c.receiver)
      /\ Steady(own, text, c, t, i) /\ own \in OutStreams /\ Idle(own, c.sender)
      /\ c \in ConnectionType(Byte) /\ ReceiverOK(text, c.receiver, t, i)
      /\ c.receiver \in ReceiverType(Byte)
  BY <1>a, TextBoth DEF Between, End, Steady, ReceiverOK
<1>1. CASE ~c.isactive
  <2>1. d = c
    BY <1>1 DEF segment_received
  <2>. QED
    BY <2>1 DEF SameInput
<1>h. Like(c, h) /\ h.segments_out = c.segments_out
  <2>. HIDE DEF h
  <2>1. h = heard(c) /\ 0 \in Nat
    BY DEF h
  <2>. QED
    BY <1>0, <2>1, LikeFields
<1>2. CASE c.isactive /\ seg.rst
  <2>1. d = unclean_shutdown(h)
    BY <1>2 DEF segment_received
  <2>. HIDE DEF h
  <2>2. Steady(own, text, h, t, i) /\ h.sender = c.sender
    BY <1>0, <1>h DEF Like, Steady, Around
  <2>3. SameInput(h.sender, d.sender) /\ ~d.isactive /\ (Silent(h) => Silent(d))
    BY <2>1, <2>2, UncleanFrame
  <2>. QED
    BY <1>2, <1>h, <2>2, <2>3 DEF Silent, Trying
<1>3. CASE c.isactive /\ ~seg.rst
  <2>1. d = taken_segment(x, seg)
    <3>1. h.receiver = c.receiver
      BY <1>h DEF Like
    <3>2. d = taken_segment([h EXCEPT !.receiver = receiver_segment_received(h.receiver, seg)], seg)
      BY <1>3 DEF segment_received
    <3>. QED
      BY <3>1, <3>2 DEF received_with
  <2>2. ReceiverOK(text, w, t, i)
    BY <1>0, <1>a, SegmentHeld
  <2>3. stream_out(w).error = stream_out(c.receiver).error
    BY <1>0, ReceiverFlag
  <2>4. x = received_with(h, w)
    OBVIOUS
  <2>. HIDE DEF h, w, x
  <2>5. Around(h, x) /\ x.sender = h.sender /\ x.receiver = w
        /\ x.segments_out = c.segments_out
    <3>1. h \in ConnectionType(Byte) /\ h.sender \in SenderType(Byte) /\ 0 \in Nat
          /\ w \in ReceiverType(Byte)
      BY <1>h, <1>0, <2>2 DEF Like, Around, Idle, ReceiverOK
    <3>. QED
      BY <1>h, <2>4, <3>1, OtherFields
  <2>6. Steady(own, text, x, t, i) /\ x.sender = c.sender
    BY <1>0, <1>h, <2>2, <2>5 DEF Steady, Around, Like
  <2>7. x.sender.segments_out = << >>
    BY <1>0, <1>3, <2>6 DEF End
  <2>8. Acks(x, seg, a)
    BY <1>a, <2>6 DEF Acks
  <2>9. Keeps(x, d)
    BY <1>a, <2>1, <2>6, <2>7, <2>8, TakenFrame
  <2>10. Keeps(c, x)
    BY <1>h, <2>3, <2>5, <2>6 DEF Keeps, Behaves, SameInput, Silent, Like, Around, inbound_stream
  <2>11. Keeps(c, d)
    BY <2>9, <2>10 DEF Keeps, Behaves, SameInput
  <2>. QED
    BY <2>11, BehavesTrying DEF Keeps, Behaves
<1>. QED
  BY <1>1, <1>2, <1>3, <1>0, <1>a, ConnectionFields, SegmentFields DEF ConnFields, SegFields

\* The owner reads.
LEMMA ReadFrame ==
    ASSUME NEW own \in Texts, NEW text \in Texts, NEW c, NEW t, NEW i,
           Steady(own, text, c, t, i), NEW len \in Nat, NEW d, d = read_from(c, len)
    PROVE  Keeps(c, d) /\ d.segments_out = c.segments_out /\ d.sender = c.sender
           /\ d.isactive = c.isactive
<1>. DEFINE v == reading(c.receiver, len)
<1>1. c \in ConnectionType(Byte) /\ ReceiverOK(text, c.receiver, t, i) /\ c.sender \in SenderType(Byte)
  BY DEF Steady, Idle
<1>2. v \in ReceiverType(Byte) /\ stream_out(v).error = stream_out(c.receiver).error
  <2>. DEFINE r == c.receiver
              T == t \o bs_read(stream_out(r), len).data
  <2>1. ReceiverOK(text, r, t, i) /\ v = reading(r, len)
    BY <1>1
  <2>. HIDE DEF r, v
  <2>2. ReceiverOK(text, v, T, i) /\ stream_out(v).error = stream_out(r).error
    BY ONLY text \in Texts, len \in Nat, <2>1, ReadHeld
  <2>. QED
    BY <2>2 DEF r, ReceiverOK
<1>3. d = received_with(c, v) /\ 0 \in Nat
  BY DEF read_from
<1>. HIDE DEF v
<1>4. Around(c, d) /\ d.sender = c.sender /\ d.receiver = v /\ d.segments_out = c.segments_out
  BY <1>1, <1>2, <1>3, OtherFields
<1>. QED
  BY <1>2, <1>4 DEF Keeps, Behaves, SameInput, Silent, Around, inbound_stream

\* The destructor of a connection.
LEMMA DestructCall ==
    ASSUME NEW own \in Texts, NEW text \in Texts, NEW c, NEW t, NEW i, NEW p,
           Between(own, text, c, t, i, p), NEW d, d = destruct(c)
    PROVE  Called(own, text, c, d, t, i, p) /\ d.sender.last_ackno = c.sender.last_ackno
<1>1. CASE ~c.isactive
  BY <1>1, NoCall DEF destruct
<1>2. CASE c.isactive
  <2>. DEFINE x == send_rst_segment(c)
  <2>1. Steady(own, text, c, t, i)
    BY DEF Between, End
  <2>2. /\ Steady(own, text, x, t, i) /\ Around(c, x) /\ x.receiver = c.receiver
        /\ Grows(c.sender, x.sender) /\ x.sender.last_ackno = c.sender.last_ackno
        /\ Adds(own, c, x)
    BY <2>1, RstSent
  <2>3. d = unclean_shutdown(x)
    BY <1>2 DEF destruct
  <2>. HIDE DEF x
  <2>. QED
    BY <2>2, <2>3, UncleanCall
<1>. QED
  BY <1>1, <1>2

-----------------------------------------------------------------------------
(* The two connections and the network between them *)

\* Every segment of q is one that c has sent, to a peer whose initial number is i.
AllPost(text, c, i, q) == q \in Segs /\ \A k \in 1 .. Len(q) : Post(text, c, i, q[k])

\* They stay so, whatever c does.
LEMMA AllPostKept ==
    ASSUME NEW text, NEW c, NEW i, NEW q, AllPost(text, c, i, q), NEW d,
           Grows(c.sender, d.sender), Advances(c.receiver, d.receiver),
           first_unassembled(c.receiver.reassembler) \in Nat,
           first_unassembled(d.receiver.reassembler) \in Nat
    PROVE  AllPost(text, d, i, q)
  BY PostKept DEF AllPost

\* Two queues of them make one.
LEMMA AllPostJoined ==
    ASSUME NEW text, NEW c, NEW i, NEW p, NEW q, AllPost(text, c, i, p), AllPost(text, c, i, q)
    PROVE  AllPost(text, c, i, p \o q)
<1>1. p \in Segs /\ q \in Segs
  BY DEF AllPost
<1>2. p \o q \in Segs
  BY <1>1 DEF Segs
<1>3. ASSUME NEW k \in 1 .. Len(p \o q) PROVE Post(text, c, i, (p \o q)[k])
  <2>1. \/ k \in 1 .. Len(p) /\ (p \o q)[k] = p[k]
        \/ k - Len(p) \in 1 .. Len(q) /\ (p \o q)[k] = q[k - Len(p)]
    BY <1>1 DEF Segs
  <2>. QED
    BY <2>1 DEF AllPost
<1>. QED
  BY <1>2, <1>3 DEF AllPost

\* And all but the first are one.
LEMMA AllPostTail ==
    ASSUME NEW text, NEW c, NEW i, NEW q, AllPost(text, c, i, q), q # << >>
    PROVE  AllPost(text, c, i, Tail(q)) /\ Post(text, c, i, Head(q))
<1>1. q \in Segs
  BY DEF AllPost
<1>2. Tail(q) \in Segs /\ Head(q) = q[1] /\ 1 \in 1 .. Len(q)
  BY <1>1 DEF Segs
<1>3. \A k \in 1 .. Len(Tail(q)) : Tail(q)[k] = q[k + 1] /\ k + 1 \in 1 .. Len(q)
  BY <1>1 DEF Segs
<1>. QED
  BY <1>2, <1>3 DEF AllPost

\* What a call leaves in the queue.
LEMMA CallPosts ==
    ASSUME NEW own \in Texts, NEW text \in Texts, NEW c, NEW d, NEW t, NEW u, NEW i, NEW p,
           ReceiverOK(text, c.receiver, t, i), Called(own, text, c, d, u, i, p),
           AllPost(own, c, i, c.segments_out)
    PROVE  AllPost(own, d, i, d.segments_out)
<1>1. /\ ReceiverOK(text, d.receiver, u, i) /\ Grows(c.sender, d.sender)
      /\ Advances(c.receiver, d.receiver)
  BY DEF Called, End, Steady, Moves, Move
<1>2. PICK q : Mail(own, d.sender, d.receiver, q) /\ d.segments_out = c.segments_out \o q
  BY DEF Called, Moves, Move
<1>3. /\ first_unassembled(c.receiver.reassembler) \in Nat
      /\ first_unassembled(d.receiver.reassembler) \in Nat
  BY <1>1, ReceiverNumbers
<1>4. AllPost(own, d, i, c.segments_out)
  BY <1>1, <1>3, AllPostKept
<1>5. d.receiver.syn => d.receiver.isn = i
  BY <1>1 DEF ReceiverOK
<1>6. ackable(d.receiver) \in Nat \ {0}
  BY <1>3 DEF ackable, flag
<1>7. AllPost(own, d, i, q)
  BY <1>2, <1>5, <1>6, PostSent DEF AllPost, Mail
<1>. QED
  BY <1>2, <1>4, <1>7, AllPostJoined

\* One call after another.
LEMMA GoesOn ==
    ASSUME NEW own \in Texts, NEW text \in Texts, NEW c, NEW d, NEW t, NEW u, NEW i, NEW b,
           NEW y, ReceiverOK(text, c.receiver, y, i),
           Goes(own, text, i, c, d, t, b), NEW e, Called(own, text, d, e, u, i, b.sender),
           e.sender.last_ackno = d.sender.last_ackno
    PROVE  Goes(own, text, i, c, e, u, b)
<1>1. /\ Grows(c.sender, d.sender) /\ Grows(d.sender, e.sender)
      /\ Advances(c.receiver, d.receiver) /\ Advances(d.receiver, e.receiver)
  BY DEF Goes, Called, Moves, Move
<1>a. ReceiverOK(text, d.receiver, t, i) /\ ReceiverOK(text, e.receiver, u, i)
  BY DEF Goes, Called, End, Steady
<1>b. /\ first_unassembled(c.receiver.reassembler) \in Nat
      /\ first_unassembled(d.receiver.reassembler) \in Nat
      /\ first_unassembled(e.receiver.reassembler) \in Nat
  BY <1>a, ReceiverNumbers
<1>2. Grows(c.sender, e.sender) /\ Advances(c.receiver, e.receiver)
  BY <1>1, <1>b, GrowsOn, AdvancesOn
<1>3. AckKept(c, e, b)
  BY DEF Goes, AckKept
<1>. QED
  BY <1>2, <1>3 DEF Goes, Called

\* The streams of the two ends are such as the lemmas are about.
LEMMA SocketTexts ==
    /\ Input \in Texts /\ Reply \in Texts /\ Input \in Seq(Byte) /\ Reply \in Seq(Byte)
    /\ LocalISN \in WrappingInt32 /\ PeerISN \in WrappingInt32 /\ MaxU16 < Mod64
  BY SocketSpecAssumption, SocketAssumption DEF Texts, OutStreams

\* Datagrams, and those of the peer among them.
Dgrams == [source : Hosts, seg : SegmentType(Byte)]
FromPeer(b, rx) ==
    \A k \in 1 .. Len(rx) : rx[k].source = "peer" => Post(Reply, b, LocalISN, rx[k].seg)

\* Our connection c, from which t has been read, the peer's b, from which y has, and what is
\* on its way either way.
Net(c, b, t, y, rx, tx) ==
    /\ Half(Input, Reply, LocalISN, PeerISN, c, b, t)
    /\ Half(Reply, Input, PeerISN, LocalISN, b, c, y)
    /\ rx \in Seq(Dgrams) /\ FromPeer(b, rx)
    /\ AllPost(Input, c, PeerISN, tx) /\ AllPost(Input, c, PeerISN, c.segments_out)

\* What it says of the two connections.
LEMMA NetFacts ==
    ASSUME NEW c, NEW b, NEW t, NEW y, NEW rx, NEW tx, Net(c, b, t, y, rx, tx)
    PROVE  /\ Between(Input, Reply, c, t, PeerISN, b.sender)
           /\ Between(Reply, Input, b, y, LocalISN, c.sender)
           /\ ReceiverOK(Reply, c.receiver, t, PeerISN) /\ ReceiverOK(Input, b.receiver, y, LocalISN)
           /\ first_unassembled(c.receiver.reassembler) \in Nat
           /\ first_unassembled(b.receiver.reassembler) \in Nat
           /\ c \in ConnectionType(Byte) /\ b \in ConnectionType(Byte)
           /\ t \in Seq(Byte) /\ y \in Seq(Byte)
           /\ End(Input, Reply, c, t, PeerISN) /\ End(Reply, Input, b, y, LocalISN)
           /\ Steady(Input, Reply, c, t, PeerISN) /\ Steady(Reply, Input, b, y, LocalISN)
<1>1. /\ Half(Input, Reply, LocalISN, PeerISN, c, b, t)
      /\ Half(Reply, Input, PeerISN, LocalISN, b, c, y)
  BY DEF Net
<1>2. /\ Between(Input, Reply, c, t, PeerISN, b.sender)
      /\ Between(Reply, Input, b, y, LocalISN, c.sender)
  BY <1>1 DEF Half
<1>3. /\ c \in ConnectionType(Byte) /\ t \in Seq(Byte)
      /\ ReceiverOK(Reply, c.receiver, t, PeerISN)
      /\ first_unassembled(c.receiver.reassembler) \in Nat
  BY <1>1, SocketTexts, HalfFacts
<1>4. /\ b \in ConnectionType(Byte) /\ y \in Seq(Byte)
      /\ ReceiverOK(Input, b.receiver, y, LocalISN)
      /\ first_unassembled(b.receiver.reassembler) \in Nat
  BY <1>1, SocketTexts, HalfFacts
<1>. QED
  BY <1>2, <1>3, <1>4 DEF Between, End

\* A datagram that joins the others, or leaves them, changes nothing else.
LEMMA NetWire ==
    ASSUME NEW c, NEW b, NEW t, NEW y, NEW rx, NEW tx, Net(c, b, t, y, rx, tx),
           NEW qx, qx \in Seq(Dgrams), FromPeer(b, qx), NEW vx, AllPost(Input, c, PeerISN, vx)
    PROVE  Net(c, b, t, y, qx, vx)
  BY DEF Net

\* Our end goes on.
LEMMA NetLocal ==
    ASSUME NEW c, NEW b, NEW t, NEW y, NEW rx, NEW tx, Net(c, b, t, y, rx, tx),
           NEW d, NEW u, Goes(Input, Reply, PeerISN, c, d, u, b),
           AllPost(Input, d, PeerISN, d.segments_out)
    PROVE  Net(d, b, u, y, rx, tx)
<1>1. /\ Half(Input, Reply, LocalISN, PeerISN, c, b, t)
      /\ Half(Reply, Input, PeerISN, LocalISN, b, c, y)
  BY DEF Net
<1>2. Goes(Reply, Input, LocalISN, b, b, y, c)
  BY <1>1, SocketTexts, HalfStays
<1>3. Half(Input, Reply, LocalISN, PeerISN, d, b, u)
  BY <1>1, <1>2, SocketTexts, HalfStep
<1>4. Half(Reply, Input, PeerISN, LocalISN, b, d, y)
  BY <1>1, <1>2, SocketTexts, HalfStep
<1>5. AllPost(Input, d, PeerISN, tx)
  <2>1. first_unassembled(d.receiver.reassembler) \in Nat
    BY <1>3, SocketTexts, HalfFacts
  <2>2. Grows(c.sender, d.sender) /\ Advances(c.receiver, d.receiver)
    BY DEF Goes
  <2>3. AllPost(Input, c, PeerISN, tx) /\ first_unassembled(c.receiver.reassembler) \in Nat
    BY NetFacts DEF Net
  <2>. QED
    BY <2>1, <2>2, <2>3, AllPostKept
<1>. QED
  BY <1>3, <1>4, <1>5 DEF Net

\* The peer's goes on.
LEMMA NetPeer ==
    ASSUME NEW c, NEW b, NEW t, NEW y, NEW rx, NEW tx, Net(c, b, t, y, rx, tx),
           NEW d, NEW u, Goes(Reply, Input, LocalISN, b, d, u, c)
    PROVE  Net(c, d, t, u, rx, tx)
<1>1. /\ Half(Input, Reply, LocalISN, PeerISN, c, b, t)
      /\ Half(Reply, Input, PeerISN, LocalISN, b, c, y)
  BY DEF Net
<1>2. Goes(Input, Reply, PeerISN, c, c, t, b)
  BY <1>1, SocketTexts, HalfStays
<1>3. Half(Input, Reply, LocalISN, PeerISN, c, d, t)
  BY <1>1, <1>2, SocketTexts, HalfStep
<1>4. Half(Reply, Input, PeerISN, LocalISN, d, c, u)
  BY <1>1, <1>2, SocketTexts, HalfStep
<1>5. FromPeer(d, rx)
  <2>1. first_unassembled(d.receiver.reassembler) \in Nat
    BY <1>4, SocketTexts, HalfFacts
  <2>2. Grows(b.sender, d.sender) /\ Advances(b.receiver, d.receiver)
    BY DEF Goes
  <2>3. FromPeer(b, rx) /\ first_unassembled(b.receiver.reassembler) \in Nat
    BY NetFacts DEF Net
  <2>. QED
    BY <2>1, <2>2, <2>3, PostKept DEF FromPeer
<1>. QED
  BY <1>3, <1>4, <1>5 DEF Net

\* A call of ours, with the time set after it.
LEMMA NetCall ==
    ASSUME NEW c, NEW b, NEW t, NEW y, NEW rx, NEW tx, Net(c, b, t, y, rx, tx),
           NEW d, NEW u, Called(Input, Reply, c, d, u, PeerISN, b.sender), AckKept(c, d, b),
           NEW x, Like(d, x), x.segments_out = d.segments_out
    PROVE  Net(x, b, u, y, rx, tx)
<1>1. Goes(Input, Reply, PeerISN, c, x, u, b)
  BY CalledGoes
<1>2. AllPost(Input, d, PeerISN, d.segments_out)
  BY NetFacts, SocketTexts, CallPosts DEF Net
<1>3. AllPost(Input, x, PeerISN, x.segments_out)
  BY <1>2 DEF Like, AllPost, Post
<1>. QED
  BY <1>1, <1>3, NetLocal

\* A call of ours with nothing after it.
LEMMA NetCalled ==
    ASSUME NEW c, NEW b, NEW t, NEW y, NEW rx, NEW tx, Net(c, b, t, y, rx, tx),
           NEW d, NEW u, Called(Input, Reply, c, d, u, PeerISN, b.sender), AckKept(c, d, b)
    PROVE  Net(d, b, u, y, rx, tx)
<1>1. Like(d, d)
  BY DEF Called, End, Steady, Like, Around
<1>. QED
  BY <1>1, NetCall

-----------------------------------------------------------------------------
(* The application's loop *)

\* What has not entered the outbound stream, what is still to go out with it, and what has come
\* in.
unsent(a) == a.dropped \o (a.stdin \o a.coming)
owed(a) == a.outbound.buff \o unsent(a)
shown(a) == a.printed \o a.inbound.buff
Fates == {"alive", "threw", "sigpipe"}

\* Everything the application has its type, the types of the larger parts left abstract.
CopyFields(L, O, Q, E, C) ==
    [app : [loop : L, outbound : O, inbound : O, outbound_shutdown : BOOLEAN,
            inbound_shutdown : BOOLEAN, coming : Q, stdin : Q, dropped : Q, stdin_end : E,
            input_eof : BOOLEAN, socket_eof : BOOLEAN, output_closed : BOOLEAN, printed : Q],
     pair : [up : C, down : C], fate : Fates, room : Nat]
CopyWorld ==
    CopyFields(EventLoopType(4), ByteStreamType(Byte), Seq(Byte), {"open", "eof", "hup"},
               ChannelType(Byte))

\* What each callback leaves, with the loop's results after it.
after_stdin(w, o, g, q, e, l) ==
    [w EXCEPT !.app.outbound = o, !.app.dropped = g, !.app.stdin = q, !.app.input_eof = e,
              !.app.loop = l]

\* The fields after standard input was read.
StdinDone(w, v, o, g, q, e, l) ==
    /\ v \in CopyWorld /\ v.pair = w.pair /\ v.fate = w.fate
    /\ v.app.outbound = o /\ v.app.stdin = q /\ v.app.input_eof = e /\ v.app.loop = l
    /\ v.app.dropped = g /\ v.app.coming = w.app.coming
    /\ v.app.inbound = w.app.inbound /\ v.app.outbound_shutdown = w.app.outbound_shutdown
    /\ v.app.socket_eof = w.app.socket_eof /\ v.app.output_closed = w.app.output_closed
    /\ v.app.stdin_end = w.app.stdin_end /\ v.app.printed = w.app.printed

\* Every other field is as it was.
LEMMA StdinFields ==
    ASSUME NEW w \in CopyWorld, NEW o \in ByteStreamType(Byte), NEW g \in Seq(Byte),
           NEW q \in Seq(Byte), NEW e \in BOOLEAN, NEW l \in EventLoopType(4), NEW v,
           v = after_stdin(w, o, g, q, e, l)
    PROVE  StdinDone(w, v, o, g, q, e, l)
<1>. DEFINE L == EventLoopType(4)
            O == ByteStreamType(Byte)
            Q == Seq(Byte)
            E == {"open", "eof", "hup"}
            C == ChannelType(Byte)
<1>1. CopyWorld = CopyFields(L, O, Q, E, C) /\ o \in O /\ g \in Q /\ q \in Q /\ l \in L
  BY DEF CopyWorld
<1>. HIDE DEF L, O, Q, E, C
<1>2. /\ v \in CopyWorld /\ v.pair = w.pair /\ v.fate = w.fate
      /\ v.app.outbound = o /\ v.app.stdin = q /\ v.app.input_eof = e /\ v.app.loop = l
      /\ v.app.dropped = g /\ v.app.coming = w.app.coming
      /\ v.app.inbound = w.app.inbound /\ v.app.outbound_shutdown = w.app.outbound_shutdown
      /\ v.app.socket_eof = w.app.socket_eof /\ v.app.output_closed = w.app.output_closed
      /\ v.app.stdin_end = w.app.stdin_end /\ v.app.printed = w.app.printed
  BY <1>1, ZenonT(60) DEF CopyFields, after_stdin
<1>. QED
  BY ONLY <1>2 DEF StdinDone

\* A stream with room for cap bytes, written by nobody but its owner.
Plain(s, cap) == s \in ByteStreamType(Byte) /\ s.capacity = cap /\ Len(s.buff) <= cap /\ ~s.error

\* The stream with data behind what it had, and ended if it was or if e.
Taken(s, data, e, r, cap) ==
    /\ Plain(r, cap) /\ r.buff = s.buff \o data /\ r.bytes_w = s.bytes_w + Len(data)
    /\ r.end_input <=> s.end_input \/ e

\* Writing what there is room for, with the end of the input after it.
LEMMA TakenIn ==
    ASSUME NEW cap \in Nat, NEW s, Plain(s, cap), NEW data \in Seq(Byte),
           Len(data) <= remaining_capacity(s), s.end_input => data = << >>, NEW e \in BOOLEAN,
           NEW r, r = taken_in(s, data, e)
    PROVE  Taken(s, data, e, r, cap)
<1>1. s \in ByteStreamType(Byte) /\ remaining_capacity(s) = cap - Len(s.buff) /\ s.buff \in Seq(Byte)
  BY DEF Plain, ByteStreamType, remaining_capacity
<1>2. write_size(s, data) = Len(data)
  BY <1>1 DEF write_size, input_ended, min
<1>3. SubSeq(data, 1, Len(data)) = data /\ s.buff \o data \in Seq(Byte)
      /\ Len(s.buff \o data) = Len(s.buff) + Len(data)
  BY <1>1, SubSeqFull, ConcatProperties
<1>. DEFINE b == bs_write(s, data)
<1>. DEFINE m == s.bytes_w + Len(data)
            q == s.buff \o data
<1>4. b = [s EXCEPT !.bytes_w = m, !.buff = q] /\ m \in Nat /\ q \in Seq(Byte)
  <2>1. b = [s EXCEPT !.bytes_w = m, !.buff = q]
    BY <1>2, <1>3 DEF bs_write
  <2>. QED
    BY <1>1, <1>3, <2>1 DEF ByteStreamType
<1>5. r = IF e THEN end_input(b) ELSE b
  BY DEF taken_in
<1>. HIDE DEF b, m, q
<1>6. /\ b \in ByteStreamType(Byte) /\ b.capacity = s.capacity /\ b.error = s.error
      /\ b.buff = s.buff \o data /\ b.bytes_w = s.bytes_w + Len(data) /\ b.end_input = s.end_input
  <2>1. /\ b \in ByteStreamType(Byte) /\ b.capacity = s.capacity /\ b.error = s.error
        /\ b.buff = q /\ b.bytes_w = m /\ b.end_input = s.end_input
    BY <1>1, <1>4 DEF ByteStreamType
  <2>. QED
    BY <2>1 DEF m, q
<1>7. Plain(b, cap)
  BY <1>1, <1>3, <1>6 DEF Plain
<1>8. /\ Plain(r, cap) /\ r.buff = s.buff \o data /\ r.bytes_w = s.bytes_w + Len(data)
      /\ r.end_input <=> s.end_input \/ e
  BY <1>5, <1>6, <1>7 DEF end_input, Plain, ByteStreamType
<1>. QED
  BY <1>8 DEF Taken

\* Taking n bytes from the front.
PopOf(s, n, r, cap) ==
    /\ Plain(r, cap) /\ r.buff = SubSeq(s.buff, n + 1, Len(s.buff)) /\ r.bytes_w = s.bytes_w
    /\ r.end_input = s.end_input

\* Taking bytes from the front of a stream.
LEMMA Popped ==
    ASSUME NEW cap, NEW s, Plain(s, cap), NEW n \in Nat, n <= Len(s.buff), cap \in Nat,
           NEW r, r = pop_output(s, n)
    PROVE  PopOf(s, n, r, cap)
<1>1. s \in ByteStreamType(Byte) /\ s.buff \in Seq(Byte) /\ min(n, Len(s.buff)) = n
  BY DEF Plain, ByteStreamType, min
<1>. DEFINE q == SubSeq(s.buff, n + 1, Len(s.buff))
<1>2. q \in Seq(Byte) /\ Len(q) <= Len(s.buff)
  BY <1>1
<1>. DEFINE m == s.bytes_r + n
<1>3. r = [s EXCEPT !.bytes_r = m, !.buff = q] /\ m \in Nat
  BY <1>1 DEF pop_output, ByteStreamType
<1>. HIDE DEF q, m
<1>4. /\ r \in ByteStreamType(Byte) /\ r.buff = q /\ r.bytes_w = s.bytes_w
      /\ r.end_input = s.end_input /\ r.capacity = s.capacity /\ r.error = s.error
  BY <1>1, <1>2, <1>3 DEF ByteStreamType
<1>. QED
  BY <1>1, <1>2, <1>4 DEF Plain, q, PopOf

\* A stream that has ended ends again.
LEMMA EndedAgain ==
    ASSUME NEW cap, NEW s, Plain(s, cap), NEW r, r = end_input(s)
    PROVE  /\ Plain(r, cap) /\ r.end_input /\ (s.end_input => r = s)
           /\ r.buff = s.buff /\ r.bytes_w = s.bytes_w
<1>1. s \in ByteStreamType(Byte)
  BY DEF Plain
<1>. QED
  BY <1>1 DEF Plain, ByteStreamType, end_input

\* The front of q goes behind p: nothing is lost.
front(q, n) == SubSeq(q, 1, n)
behind(q, n) == SubSeq(q, n + 1, Len(q))

\* Both parts are bytes, and together they are the whole.
LEMMA MoveBytes ==
    ASSUME NEW p \in Seq(Byte), NEW q \in Seq(Byte), NEW n \in Nat, n <= Len(q)
    PROVE  /\ front(q, n) \in Seq(Byte) /\ behind(q, n) \in Seq(Byte) /\ Len(front(q, n)) = n
           /\ Len(behind(q, n)) = Len(q) - n
           /\ front(q, n) \o behind(q, n) = q
           /\ (p \o front(q, n)) \o behind(q, n) = p \o q
           /\ p \o front(q, n) \in Seq(Byte)
<1>1. front(q, n) \in Seq(Byte) /\ behind(q, n) \in Seq(Byte) /\ Len(front(q, n)) = n
      /\ Len(behind(q, n)) = Len(q) - n
  BY DEF front, behind
<1>2. front(q, n) \o behind(q, n) = q
  <2>1. 1 \in 1 .. Len(q) + 1 /\ n \in 1 - 1 .. Len(q) /\ Len(q) \in n .. Len(q)
    OBVIOUS
  <2>. QED
    BY <2>1, ConcatAdjacentSubSeq, SubSeqFull DEF front, behind
<1>3. (p \o front(q, n)) \o behind(q, n) = p \o (front(q, n) \o behind(q, n))
  BY <1>1, ConcatAssociative, SMTT(40)
<1>. QED
  BY <1>1, <1>2, <1>3, ConcatProperties

\* The rule that is next.
LEMMA ThisRule ==
    ASSUME NEW l \in EventLoopType(4), reported(l) # {}
    PROVE  /\ this_rule(l) \in reported(l) /\ this_rule(l) \in 1 .. 4
           /\ \A s \in reported(l) : this_rule(l) <= s
<1>. DEFINE S == reported(l)
<1>1. S \subseteq 1 .. 4
  BY DEF EventLoopType, reported
<1>2. this_rule(l) = CHOOSE r \in S : \A s \in S : r <= s
  BY DEF this_rule
<1>. HIDE DEF S
<1>3. S # {}
  BY DEF S
<1>4. \E r \in S : \A s \in S : r <= s
  <2>1. \A s \in S : s = 1 \/ s = 2 \/ s = 3 \/ s = 4
    BY <1>1
  <2>. QED
    BY <1>3, <2>1
<1>5. this_rule(l) \in S /\ \A s \in S : this_rule(l) <= s
  BY <1>2, <1>4
<1>. QED
  BY <1>1, <1>5 DEF S

\* The loop after a callback, and after a rule is cancelled.
loop_called(l, r) == [l EXCEPT !.ready = @ \ {r}]
loop_hung(l, r) == [l EXCEPT !.rules = @ \ {r}, !.hangups = @ \ {r}]

\* The fields of a loop after each.
LEMMA LoopFields ==
    ASSUME NEW l \in EventLoopType(4), NEW r
    PROVE  /\ loop_called(l, r) \in EventLoopType(4) /\ loop_hung(l, r) \in EventLoopType(4)
           /\ loop_called(l, r).rules = l.rules /\ loop_called(l, r).ready = l.ready \ {r}
           /\ loop_called(l, r).hangups = l.hangups
           /\ loop_hung(l, r).rules = l.rules \ {r} /\ loop_hung(l, r).ready = l.ready
           /\ loop_hung(l, r).hangups = l.hangups \ {r}
  BY DEF EventLoopType, loop_called, loop_hung

\* What holds of the application whatever the thread does.
CopyOK(a) ==
    /\ a.inbound.end_input => a.socket_eof
    /\ a.socket_eof => a.inbound.end_input
    /\ 3 \in a.loop.ready => ~a.socket_eof
    /\ a.loop.hangups \subseteq {1, 2}
    /\ 1 \notin a.loop.rules => a.outbound.end_input
    /\ a.input_eof => a.outbound.end_input
    /\ a.output_closed => a.inbound.end_input
    /\ a.stdin_end # "open" => a.coming = << >>
    /\ 1 \in a.loop.ready => a.stdin # << >> \/ a.stdin_end = "eof"
    /\ 1 \in a.loop.hangups => a.stdin = << >> /\ a.stdin_end = "hup"
    /\ Plain(a.outbound, CopyBuffer) /\ Plain(a.inbound, CopyBuffer)

\* Its outbound stream ends when everything is typed and in it, or after the thread has ended
\* (en), when a hangup cancels the rule that writes it; what is read then is dropped, and
\* nothing else ever is.
OutboundEnd(a, en) ==
    /\ a.outbound.end_input =>
          \/ a.stdin = << >> /\ a.coming = << >>
          \/ en /\ 2 \notin a.loop.rules /\ 2 \notin a.loop.ready
    /\ 2 \notin a.loop.rules => en
    /\ 2 \in a.loop.hangups => en /\ 2 \notin a.loop.ready
    /\ a.dropped # << >> =>
          a.outbound.end_input /\ en /\ 2 \notin a.loop.rules /\ 2 \notin a.loop.ready

\* The channel to the thread is shut when all has gone through it; cp: it is being copied to.
UpEnd(a, en, cp, up) == up.shut => en \/ (owed(a) = << >> /\ (cp => a.outbound_shutdown))

\* The input is what has been written to the connection, bw bytes, what is in the channel, and
\* what the application has or has dropped.
Account(bw, up, o) == front(Input, bw) \o up.data \o o = Input

\* Neither channel holds more than the kernel has room for.
Bounded(p) == Len(p.up.data) <= SocketBuffer /\ Len(p.down.data) <= SocketBuffer

\* The application's world; T is what has come in by now, ru says whether the thread has been
\* told that there is something to read.
CopyInv(w, en, bw, T, ru) ==
    /\ w \in CopyWorld
    /\ CopyOK(w.app) /\ OutboundEnd(w.app, en) /\ UpEnd(w.app, en, TRUE, w.pair.up)
    /\ w.fate = "alive" => Account(bw, w.pair.up, owed(w.app))
    /\ shown(w.app) \o w.pair.down.data = T
    /\ (ru => readable(w.pair.up)) /\ Bounded(w.pair)

\* The parts of it.
LEMMA CopyParts ==
    ASSUME NEW w \in CopyWorld
    PROVE  /\ w.app.loop \in EventLoopType(4) /\ w.app.outbound \in ByteStreamType(Byte)
           /\ w.app.inbound \in ByteStreamType(Byte) /\ w.app.stdin \in Seq(Byte)
           /\ w.app.coming \in Seq(Byte) /\ w.app.dropped \in Seq(Byte) /\ w.room \in Nat
           /\ w.app.printed \in Seq(Byte) /\ w.pair.up \in ChannelType(Byte)
           /\ w.pair.down \in ChannelType(Byte) /\ w.app.socket_eof \in BOOLEAN
           /\ w.app.outbound.buff \in Seq(Byte) /\ w.app.inbound.buff \in Seq(Byte)
           /\ w.app.outbound.bytes_w \in Nat /\ w.app.inbound.end_input \in BOOLEAN
           /\ w.pair.up.data \in Seq(Byte) /\ w.pair.down.data \in Seq(Byte)
           /\ w.pair.up.shut \in BOOLEAN /\ w.pair.down.shut \in BOOLEAN
           /\ w.app.stdin_end \in {"open", "eof", "hup"}
<1>1. /\ w.app.loop \in EventLoopType(4) /\ w.app.outbound \in ByteStreamType(Byte)
      /\ w.app.inbound \in ByteStreamType(Byte) /\ w.app.stdin \in Seq(Byte)
      /\ w.app.coming \in Seq(Byte) /\ w.app.dropped \in Seq(Byte) /\ w.room \in Nat
      /\ w.app.printed \in Seq(Byte) /\ w.pair.up \in ChannelType(Byte)
      /\ w.pair.down \in ChannelType(Byte) /\ w.app.socket_eof \in BOOLEAN
      /\ w.app.stdin_end \in {"open", "eof", "hup"}
  BY DEF CopyWorld, CopyFields
<1>. QED
  BY <1>1 DEF ByteStreamType, ChannelType

\* Two sequences of bytes make one.
LEMMA BytesJoined ==
    ASSUME NEW p \in Seq(Byte), NEW q \in Seq(Byte)
    PROVE  p \o q \in Seq(Byte) /\ Len(p \o q) = Len(p) + Len(q)
  OBVIOUS

\* It does not matter which two of three are joined first.
LEMMA Regrouped ==
    ASSUME NEW p \in Seq(Byte), NEW q \in Seq(Byte), NEW r \in Seq(Byte)
    PROVE  (p \o q) \o r = p \o (q \o r)
  BY ConcatAssociative, SMTT(40)

\* Bytes that go from q to the end of p stay between what is before and what is behind them.
LEMMA Through ==
    ASSUME NEW p \in Seq(Byte), NEW q \in Seq(Byte), NEW i \in Seq(Byte), NEW n \in Nat,
           n <= Len(q)
    PROVE  (p \o front(q, n)) \o (behind(q, n) \o i) = p \o (q \o i)
<1>. DEFINE g == front(q, n)
            h == behind(q, n)
<1>1. g \in Seq(Byte) /\ h \in Seq(Byte) /\ g \o h = q
  BY MoveBytes
<1>. HIDE DEF g, h
<1>2. h \o i \in Seq(Byte)
  BY <1>1, BytesJoined
<1>3. (p \o g) \o (h \o i) = p \o (g \o (h \o i))
  <2>. DEFINE k == h \o i
  <2>1. p \in Seq(Byte) /\ g \in Seq(Byte) /\ k \in Seq(Byte)
    BY <1>1, <1>2
  <2>. HIDE DEF k
  <2>2. (p \o g) \o k = p \o (g \o k)
    BY ONLY <2>1, Regrouped
  <2>. QED
    BY <2>2 DEF k
<1>4. g \o (h \o i) = (g \o h) \o i
  <2>1. g \in Seq(Byte) /\ h \in Seq(Byte) /\ i \in Seq(Byte)
    BY <1>1
  <2>. QED
    BY ONLY <2>1, Regrouped, ZenonT(40)
<1>. QED
  BY <1>1, <1>3, <1>4 DEF g, h

\* n bytes of q are read for the stream s, which takes them, or which has ended so that they are
\* dropped behind g; i is what comes after q.  What that leaves, as o, x and u.
taken_up(s, q, n) ==
    IF q = << >> THEN end_input(bs_write(s, front(q, n))) ELSE bs_write(s, front(q, n))
spilt(s, g, q, n) == IF s.end_input THEN g \o front(q, n) ELSE g
Moved(s, g, q, i, o, x, u, cap) ==
    /\ Plain(o, cap) /\ u \in Seq(Byte) /\ x \in Seq(Byte)
    /\ o.buff \o (x \o (u \o i)) = s.buff \o (g \o (q \o i))
    /\ (o.end_input <=> s.end_input \/ q = << >>) /\ (q = << >> => u = << >>)
    /\ x # << >> => g # << >> \/ (s.end_input /\ q # << >>)

\* Reading standard input is that.
LEMMA ReadMove ==
    ASSUME NEW cap \in Nat, NEW s, Plain(s, cap), NEW g \in Seq(Byte), NEW q \in Seq(Byte),
           NEW i \in Seq(Byte), g # << >> => s.end_input,
           NEW n, n = min(Len(q), remaining_capacity(s)),
           NEW o, o = taken_up(s, q, n), NEW x, x = spilt(s, g, q, n), NEW u, u = behind(q, n)
    PROVE  Moved(s, g, q, i, o, x, u, cap)
<1>e. PICK e \in BOOLEAN : e = (q = << >>)
  OBVIOUS
<1>. DEFINE rc == remaining_capacity(s)
            f == front(q, n)
            p == s.buff
<1>1. p \in Seq(Byte) /\ Len(p) \in Nat /\ rc = cap - Len(p) /\ Len(p) <= cap
      /\ s.bytes_w \in Nat /\ s.end_input \in BOOLEAN
  BY DEF Plain, ByteStreamType, remaining_capacity
<1>2. rc \in Nat /\ n = min(Len(q), rc)
  BY <1>1
<1>. HIDE DEF rc
<1>3. n \in Nat /\ n <= Len(q) /\ n <= rc
  BY <1>2 DEF min
<1>4. f \in Seq(Byte) /\ u \in Seq(Byte) /\ Len(f) = n /\ Len(u) = Len(q) - n
  BY ONLY <1>1, <1>3, q \in Seq(Byte), u = behind(q, n), MoveBytes, ZenonT(40)
<1>5. q = << >> => u = << >> /\ f = << >>
  BY <1>3, <1>4
<1>6. o = IF e THEN end_input(bs_write(s, f)) ELSE bs_write(s, f)
  BY <1>e DEF taken_up
<1>d. p = s.buff /\ f = front(q, n)
  OBVIOUS
<1>. HIDE DEF f, p
<1>7. CASE ~s.end_input
  <2>1. g = << >> /\ x = << >>
    BY <1>7 DEF spilt
  <2>2. /\ cap \in Nat /\ Plain(s, cap) /\ f \in Seq(Byte) /\ Len(f) <= remaining_capacity(s)
        /\ (s.end_input => f = << >>) /\ e \in BOOLEAN /\ o = taken_in(s, f, e)
    BY <1>3, <1>4, <1>6, <1>7 DEF taken_in, rc
  <2>3. Plain(o, cap) /\ o.buff = p \o f /\ (o.end_input <=> s.end_input \/ e)
    <3>1. Taken(s, f, e, o, cap)
      BY ONLY <2>2, TakenIn, ZenonT(40)
    <3>. QED
      BY ONLY <1>d, <3>1 DEF Taken
  <2>4. (p \o front(q, n)) \o (behind(q, n) \o i) = p \o (q \o i)
    <3>1. /\ p \in Seq(Byte) /\ q \in Seq(Byte) /\ i \in Seq(Byte) /\ n \in Nat
          /\ n <= Len(q)
      BY <1>1, <1>3
    <3>. QED
      BY ONLY <3>1, Through, ZenonT(90)
  <2>5. u \o i \in Seq(Byte) /\ q \o i \in Seq(Byte)
    BY <1>4, BytesJoined
  <2>6. << >> \o (u \o i) = u \o i /\ << >> \o (q \o i) = q \o i
    <3>. DEFINE y == u \o i
                z == q \o i
    <3>1. y \in Seq(Byte) /\ z \in Seq(Byte)
      BY <2>5
    <3>. HIDE DEF y, z
    <3>2. << >> \o y = y /\ << >> \o z = z
      BY ONLY <3>1
    <3>. QED
      BY <3>2 DEF y, z
  <2>7. o.buff \o (x \o (u \o i)) = p \o (g \o (q \o i))
    BY ONLY <1>d, <2>1, <2>3, <2>4, <2>6, u = behind(q, n)
  <2>. QED
    BY <1>4, <1>5, <1>d, <1>e, <2>1, <2>3, <2>7 DEF Moved
<1>8. CASE s.end_input
  <2>1. x = g \o f /\ x \in Seq(Byte)
    BY <1>4, <1>8, <1>d, BytesJoined DEF spilt
  <2>2. bs_write(s, f) = bs_write(s, << >>)
    <3>1. write_size(s, f) = 0 /\ write_size(s, << >>) = 0
      BY <1>8 DEF write_size, input_ended
    <3>2. SubSeq(f, 1, 0) = << >> /\ SubSeq(<< >>, 1, 0) = << >>
      BY <1>4
    <3>. QED
      BY <3>1, <3>2 DEF bs_write
  <2>3. /\ cap \in Nat /\ Plain(s, cap) /\ << >> \in Seq(Byte) /\ Len(<< >>) <= remaining_capacity(s)
        /\ e \in BOOLEAN /\ o = taken_in(s, << >>, e)
    BY <1>2, <1>6, <2>2 DEF taken_in, rc
  <2>4. Plain(o, cap) /\ o.buff = p \o << >> /\ (o.end_input <=> s.end_input \/ e)
    <3>1. PICK t : t = << >>
      OBVIOUS
    <3>2. /\ cap \in Nat /\ Plain(s, cap) /\ t \in Seq(Byte) /\ Len(t) <= remaining_capacity(s)
          /\ e \in BOOLEAN /\ o = taken_in(s, t, e) /\ (s.end_input => t = << >>)
      BY <2>3, <3>1
    <3>3. Taken(s, t, e, o, cap)
      BY ONLY <3>2, TakenIn, ZenonT(40)
    <3>. QED
      BY ONLY <1>d, <3>1, <3>3 DEF Taken
  <2>5. p \o << >> = p
    BY <1>1
  <2>6. (g \o front(q, n)) \o (behind(q, n) \o i) = g \o (q \o i)
    BY ONLY <1>3, g \in Seq(Byte), q \in Seq(Byte), i \in Seq(Byte), Through, ZenonT(40)
  <2>7. o.buff \o (x \o (u \o i)) = p \o (g \o (q \o i))
    BY ONLY <1>d, <2>1, <2>4, <2>5, <2>6, u = behind(q, n)
  <2>8. q = << >> => x = g
    <3>1. g \o << >> = g
      OBVIOUS
    <3>. QED
      BY <1>5, <2>1, <3>1
  <2>. QED
    BY <1>4, <1>5, <1>8, <1>d, <1>e, <2>1, <2>4, <2>7, <2>8 DEF Moved
<1>. QED
  BY <1>1, <1>7, <1>8

\* What is not sent yet is bytes.
LEMMA CopyTexts ==
    ASSUME NEW w \in CopyWorld
    PROVE  unsent(w.app) \in Seq(Byte) /\ owed(w.app) \in Seq(Byte)
<1>1. /\ w.app.stdin \in Seq(Byte) /\ w.app.coming \in Seq(Byte) /\ w.app.dropped \in Seq(Byte)
      /\ w.app.outbound.buff \in Seq(Byte)
  BY CopyParts
<1>2. w.app.stdin \o w.app.coming \in Seq(Byte)
  BY ONLY <1>1, BytesJoined
<1>3. w.app.dropped \o (w.app.stdin \o w.app.coming) \in Seq(Byte)
  BY ONLY <1>1, <1>2, BytesJoined
<1>4. w.app.outbound.buff \o (w.app.dropped \o (w.app.stdin \o w.app.coming)) \in Seq(Byte)
  BY ONLY <1>1, <1>3, BytesJoined
<1>. QED
  BY <1>3, <1>4 DEF owed, unsent

\* Rule 1 reads standard input.
LEMMA CopyStdin ==
    ASSUME NEW w, NEW en \in BOOLEAN, NEW bw, NEW T, NEW ru, CopyInv(w, en, bw, T, ru),
           1 \in w.app.loop.ready, 1 \notin w.app.loop.hangups,
           NEW v, v = copy_serviced([w |-> read_stdin(w), loop |-> loop_called(w.app.loop, 1)])
    PROVE  CopyInv(v, en, bw, T, ru)
<1>. DEFINE a == w.app
            s == a.outbound
            q == a.stdin
            n == min(Len(q), remaining_capacity(s))
            o == taken_up(s, q, n)
            x == spilt(s, a.dropped, q, n)
            u == behind(q, n)
            l == loop_called(a.loop, 1)
<1>0. /\ w \in CopyWorld /\ CopyOK(a) /\ OutboundEnd(a, en) /\ UpEnd(a, en, TRUE, w.pair.up)
      /\ w.fate = "alive" => Account(bw, w.pair.up, owed(a))
      /\ shown(a) \o w.pair.down.data = T /\ (ru => readable(w.pair.up)) /\ Bounded(w.pair)
  BY DEF CopyInv
<1>e. PICK e \in BOOLEAN : e = (q = << >>)
  OBVIOUS
<1>1. v = after_stdin(w, o, x, u, e, l)
  BY <1>e DEF copy_serviced, read_stdin, after_stdin, front, behind, taken_in, taken_up, spilt,
              input_ended
<1>. DEFINE g == a.dropped
            i == a.coming
<1>d. /\ s = a.outbound /\ q = a.stdin /\ n = min(Len(q), remaining_capacity(s))
      /\ o = taken_up(s, q, n) /\ u = behind(q, n) /\ l = loop_called(a.loop, 1) /\ a = w.app
      /\ x = spilt(s, g, q, n) /\ g = a.dropped /\ i = a.coming
  OBVIOUS
<1>. HIDE DEF a, s, q, n, o, x, u, l, g, i
<1>2. /\ Plain(s, CopyBuffer) /\ CopyBuffer \in Nat /\ q \in Seq(Byte) /\ g \in Seq(Byte)
      /\ Plain(a.inbound, CopyBuffer) /\ a.loop \in EventLoopType(4) /\ i \in Seq(Byte)
  BY <1>0, <1>d, CopyParts, CopyBufferAssumption DEF CopyOK
<1>3. g # << >> => s.end_input
  BY <1>0, <1>d DEF OutboundEnd
<1>4. /\ Plain(o, CopyBuffer) /\ u \in Seq(Byte) /\ x \in Seq(Byte)
      /\ o.buff \o (x \o (u \o i)) = s.buff \o (g \o (q \o i))
      /\ (o.end_input <=> s.end_input \/ q = << >>) /\ (q = << >> => u = << >>)
      /\ x # << >> => g # << >> \/ (s.end_input /\ q # << >>)
  <2>1. /\ Plain(s, CopyBuffer) /\ CopyBuffer \in Nat /\ q \in Seq(Byte) /\ g \in Seq(Byte)
        /\ i \in Seq(Byte)
    BY <1>2
  <2>2. n = min(Len(q), remaining_capacity(s)) /\ u = behind(q, n)
    BY <1>d
  <2>3. o = taken_up(s, q, n) /\ x = spilt(s, g, q, n)
    BY <1>d
  <2>4. Moved(s, g, q, i, o, x, u, CopyBuffer)
    BY ONLY <1>3, <2>1, <2>2, <2>3, ReadMove
  <2>. QED
    BY <2>4 DEF Moved
<1>5. /\ l \in EventLoopType(4) /\ l.rules = a.loop.rules /\ l.ready = a.loop.ready \ {1}
      /\ l.hangups = a.loop.hangups
  BY <1>2, <1>d, LoopFields
<1>6. /\ v \in CopyWorld /\ v.pair = w.pair /\ v.fate = w.fate
      /\ v.app.outbound = o /\ v.app.stdin = u /\ v.app.loop = l /\ v.app.input_eof = e
      /\ v.app.dropped = x /\ v.app.coming = i
      /\ v.app.inbound = w.app.inbound /\ v.app.outbound_shutdown = w.app.outbound_shutdown
      /\ v.app.socket_eof = w.app.socket_eof /\ v.app.output_closed = w.app.output_closed
      /\ v.app.stdin_end = w.app.stdin_end /\ v.app.printed = w.app.printed
  <2>1. o \in ByteStreamType(Byte)
    BY <1>4 DEF Plain
  <2>. QED
    <3>1. /\ w \in CopyWorld /\ u \in Seq(Byte) /\ l \in EventLoopType(4) /\ e \in BOOLEAN
          /\ x \in Seq(Byte)
      BY <1>0, <1>4, <1>5
    <3>2. StdinDone(w, v, o, x, u, e, l)
      BY ONLY <1>1, <2>1, <3>1, StdinFields, ZenonT(40)
    <3>. QED
      BY ONLY <3>2, <1>d DEF StdinDone
<1>8. owed(v.app) = owed(a) /\ shown(v.app) = shown(a)
  BY <1>4, <1>6, <1>d DEF owed, unsent, shown
<1>9. CopyOK(v.app)
  <2>1. /\ 1 \notin l.ready /\ 1 \notin l.hangups /\ l.hangups \subseteq {1, 2}
        /\ (3 \in l.ready => ~v.app.socket_eof)
    BY <1>0, <1>5, <1>6, <1>d DEF CopyOK
  <2>2. /\ (1 \notin l.rules => o.end_input) /\ (e => o.end_input)
    BY <1>0, <1>4, <1>5, <1>d, <1>e DEF CopyOK
  <2>3. v.app.stdin_end # "open" => i = << >>
    BY <1>0, <1>6, <1>d DEF CopyOK
  <2>4. /\ v.app.inbound.end_input => v.app.socket_eof
        /\ v.app.socket_eof => v.app.inbound.end_input
        /\ v.app.output_closed => v.app.inbound.end_input
    BY <1>0, <1>6, <1>d DEF CopyOK
  <2>. QED
    BY <1>2, <1>4, <1>6, <1>d, <2>1, <2>2, <2>3, <2>4 DEF CopyOK
<1>10. OutboundEnd(v.app, en)
  <2>1. q = << >> => i = << >>
    BY <1>0, <1>d DEF CopyOK
  <2>2. s.end_input => (q = << >> /\ i = << >>) \/ (en /\ 2 \notin l.rules /\ 2 \notin l.ready)
    BY <1>0, <1>5, <1>d DEF OutboundEnd
  <2>3. 2 \notin l.rules => en
    BY <1>0, <1>5 DEF OutboundEnd
  <2>4. 2 \in l.hangups => en /\ 2 \notin l.ready
    BY <1>0, <1>5 DEF OutboundEnd
  <2>5. g # << >> => s.end_input /\ en /\ 2 \notin l.rules /\ 2 \notin l.ready
    BY <1>0, <1>5, <1>d DEF OutboundEnd
  <2>6. x # << >> => o.end_input /\ en /\ 2 \notin l.rules /\ 2 \notin l.ready
    BY <1>4, <2>2, <2>5
  <2>. QED
    BY <1>4, <1>6, <2>1, <2>2, <2>3, <2>4, <2>6 DEF OutboundEnd
<1>11. UpEnd(v.app, en, TRUE, v.pair.up)
  BY <1>0, <1>6, <1>8, <1>d DEF UpEnd
<1>. QED
  BY <1>0, <1>6, <1>8, <1>9, <1>10, <1>11, <1>d DEF CopyInv, Account

\* A write to a channel takes a part of the bytes from the front, and puts it at the end.
Wrote(ch, data, out, n) ==
    /\ n \in Nat /\ n <= Len(data) /\ (ch.shut => n = 0) /\ out.fate \in Fates
    /\ out.channel \in ChannelType(Byte) /\ out.channel.shut = ch.shut
    /\ out.channel.data = ch.data \o front(data, n)
    /\ Len(out.channel.data) <= SocketBuffer

\* FileDescriptor::write does so.
LEMMA FdWrite ==
    ASSUME NEW ch \in ChannelType(Byte), Len(ch.data) <= SocketBuffer, NEW data \in Seq(Byte),
           NEW out, out = fd_write(ch, data), NEW n, n = out.bytes_written
    PROVE  Wrote(ch, data, out, n)
<1>. DEFINE room == SocketBuffer - Len(ch.data)
<1>1. ch.data \in Seq(Byte) /\ ch.shut \in BOOLEAN /\ room \in Nat /\ Len(data) \in Nat
  BY SocketBufferAssumption DEF ChannelType
<1>2. n = IF ch.shut THEN 0 ELSE smaller(Len(data), room)
  BY DEF fd_write
<1>3. out.channel = [ch EXCEPT !.data = ch.data \o front(data, n)] /\ out.fate \in Fates
  BY DEF fd_write, Fates, front
<1>. HIDE DEF room
<1>4. n \in Nat /\ n <= Len(data) /\ n <= room /\ (ch.shut => n = 0)
  BY <1>1, <1>2 DEF smaller
<1>. DEFINE q == ch.data \o front(data, n)
<1>5. front(data, n) \in Seq(Byte) /\ Len(front(data, n)) = n /\ q \in Seq(Byte)
  BY ONLY data \in Seq(Byte), <1>1, <1>4, MoveBytes
<1>6. Len(q) = Len(ch.data) + n
  <2>. DEFINE p == ch.data
              f == front(data, n)
  <2>1. p \in Seq(Byte) /\ f \in Seq(Byte) /\ Len(f) = n /\ q = p \o f
    BY <1>1, <1>5
  <2>. HIDE DEF p, f
  <2>2. Len(p \o f) = Len(p) + Len(f)
    BY <2>1, SMTT(40)
  <2>. QED
    BY <2>1, <2>2 DEF p
<1>. HIDE DEF q
<1>7. out.channel \in ChannelType(Byte) /\ out.channel.shut = ch.shut /\ out.channel.data = q
  <2>1. out.channel = [ch EXCEPT !.data = q]
    BY <1>3 DEF q
  <2>. QED
    BY <1>5, <2>1 DEF ChannelType
<1>8. Len(q) <= SocketBuffer
  BY <1>1, <1>4, <1>6, SocketBufferAssumption DEF room
<1>. QED
  BY <1>3, <1>4, <1>7, <1>8 DEF q, Wrote

\* A read takes them from the front, and is at the end only if there are none.
WasRead(ch, limit, got, n) ==
    /\ n <= Len(ch.data) /\ n <= limit /\ got.data = front(ch.data, n)
    /\ got.fate \in Fates /\ got.eof \in BOOLEAN /\ (got.eof => n = 0 /\ ch.data = << >>)
    /\ got.channel \in ChannelType(Byte) /\ got.channel.shut = ch.shut
    /\ got.channel.data = behind(ch.data, n)

\* FileDescriptor::read does so.
LEMMA FdRead ==
    ASSUME NEW ch \in ChannelType(Byte), NEW limit \in Nat,
           NEW got, got = fd_read(ch, limit)
    PROVE  \E n \in Nat : WasRead(ch, limit, got, n)
<1>. DEFINE n == smaller(limit, Len(ch.data))
            q == behind(ch.data, n)
<1>1. ch.data \in Seq(Byte) /\ ch.shut \in BOOLEAN /\ Len(ch.data) \in Nat
  BY DEF ChannelType
<1>2. n \in Nat /\ n <= Len(ch.data) /\ n <= limit /\ (limit > 0 /\ n = 0 => Len(ch.data) = 0)
  BY <1>1 DEF smaller
<1>3. /\ got.data = front(ch.data, n) /\ got.channel = [ch EXCEPT !.data = q]
      /\ got.fate \in Fates /\ got.eof = (limit > 0 /\ n = 0)
  BY DEF fd_read, Fates, front, behind
<1>. HIDE DEF n
<1>4. q \in Seq(Byte)
  BY ONLY <1>1, <1>2, MoveBytes
<1>. HIDE DEF q
<1>5. got.channel \in ChannelType(Byte) /\ got.channel.shut = ch.shut /\ got.channel.data = q
  BY <1>3, <1>4 DEF ChannelType
<1>6. Len(ch.data) = 0 => ch.data = << >>
  BY <1>1
<1>7. got.eof \in BOOLEAN /\ (got.eof => n = 0 /\ ch.data = << >>)
  BY <1>2, <1>3, <1>6
<1>8. WasRead(ch, limit, got, n)
  BY <1>2, <1>3, <1>5, <1>7 DEF q, WasRead
<1>. QED
  BY <1>2, <1>8

\* The other callbacks, and a cancelled rule.
after_socket(w, o, sh, up, f, l) ==
    [w EXCEPT !.fate = f, !.app.outbound = o, !.app.outbound_shutdown = sh, !.pair.up = up,
              !.app.loop = l]
after_reading(w, i, se, dn, f, l) ==
    [w EXCEPT !.fate = f, !.pair.down = dn, !.app.socket_eof = se, !.app.inbound = i,
              !.app.loop = l]
after_stdout(w, p, i, oc, is, l) ==
    [w EXCEPT !.app.printed = p, !.app.inbound = i, !.app.output_closed = oc,
              !.app.inbound_shutdown = is, !.app.loop = l]
after_cancel(w, o, l) == [w EXCEPT !.app.outbound = o, !.app.loop = l]

\* What they leave alone.
SameIn(a, b) ==
    /\ b.inbound = a.inbound /\ b.socket_eof = a.socket_eof /\ b.printed = a.printed
    /\ b.output_closed = a.output_closed /\ b.stdin_end = a.stdin_end
SameOut(a, b) ==
    /\ b.outbound = a.outbound /\ b.outbound_shutdown = a.outbound_shutdown
    /\ b.input_eof = a.input_eof /\ b.stdin = a.stdin /\ b.stdin_end = a.stdin_end
SameText(a, b) == b.coming = a.coming /\ b.dropped = a.dropped

\* And what they change.
SocketDone(w, v, o, sh, up, f, l) ==
    /\ v \in CopyWorld /\ v.fate = f /\ v.pair.up = up /\ v.pair.down = w.pair.down
    /\ v.app.outbound = o /\ v.app.outbound_shutdown = sh /\ v.app.loop = l
    /\ v.app.input_eof = w.app.input_eof /\ v.app.stdin = w.app.stdin /\ SameIn(w.app, v.app)
    /\ SameText(w.app, v.app)
ReadingDone(w, v, i, se, dn, f, l) ==
    /\ v \in CopyWorld /\ v.fate = f /\ v.pair.down = dn /\ v.pair.up = w.pair.up
    /\ v.app.inbound = i /\ v.app.socket_eof = se /\ v.app.loop = l
    /\ v.app.output_closed = w.app.output_closed /\ v.app.printed = w.app.printed
    /\ SameOut(w.app, v.app) /\ SameText(w.app, v.app)
StdoutDone(w, v, p, i, oc, l) ==
    /\ v \in CopyWorld /\ v.fate = w.fate /\ v.pair = w.pair
    /\ v.app.inbound = i /\ v.app.output_closed = oc /\ v.app.loop = l /\ v.app.printed = p
    /\ v.app.socket_eof = w.app.socket_eof /\ SameOut(w.app, v.app) /\ SameText(w.app, v.app)
CancelDone(w, v, o, l) ==
    /\ v \in CopyWorld /\ v.fate = w.fate /\ v.pair = w.pair
    /\ v.app.outbound = o /\ v.app.loop = l /\ v.app.outbound_shutdown = w.app.outbound_shutdown
    /\ v.app.input_eof = w.app.input_eof /\ v.app.stdin = w.app.stdin /\ SameIn(w.app, v.app)
    /\ SameText(w.app, v.app)

\* The fields after each of the other callbacks.
LEMMA CopyUpdates ==
    ASSUME NEW w \in CopyWorld, NEW o \in ByteStreamType(Byte), NEW b \in BOOLEAN,
           NEW d \in BOOLEAN, NEW ch \in ChannelType(Byte), NEW f \in Fates, NEW p \in Seq(Byte),
           NEW l \in EventLoopType(4), NEW v
    PROVE  /\ v = after_socket(w, o, b, ch, f, l) => SocketDone(w, v, o, b, ch, f, l)
           /\ v = after_reading(w, o, b, ch, f, l) => ReadingDone(w, v, o, b, ch, f, l)
           /\ v = after_stdout(w, p, o, b, d, l) => StdoutDone(w, v, p, o, b, l)
           /\ v = after_cancel(w, o, l) => CancelDone(w, v, o, l)
<1>. DEFINE L == EventLoopType(4)
            O == ByteStreamType(Byte)
            Q == Seq(Byte)
            E == {"open", "eof", "hup"}
            C == ChannelType(Byte)
<1>1. CopyWorld = CopyFields(L, O, Q, E, C) /\ o \in O /\ p \in Q /\ l \in L /\ ch \in C
  BY DEF CopyWorld
<1>. HIDE DEF L, O, Q, E, C
<1>2. ASSUME v = after_socket(w, o, b, ch, f, l) PROVE SocketDone(w, v, o, b, ch, f, l)
  <2>1. /\ v \in CopyWorld /\ v.fate = f /\ v.pair.up = ch /\ v.pair.down = w.pair.down
        /\ v.app.outbound = o /\ v.app.outbound_shutdown = b /\ v.app.loop = l
        /\ v.app.input_eof = w.app.input_eof /\ v.app.stdin = w.app.stdin
        /\ v.app.inbound = w.app.inbound /\ v.app.socket_eof = w.app.socket_eof
        /\ v.app.printed = w.app.printed /\ v.app.output_closed = w.app.output_closed
        /\ v.app.stdin_end = w.app.stdin_end
    BY <1>1, <1>2 DEF CopyFields, after_socket
  <2>2. v.app.coming = w.app.coming /\ v.app.dropped = w.app.dropped
    BY <1>1, <1>2 DEF CopyFields, after_socket
  <2>. QED
    BY ONLY <2>1, <2>2 DEF SocketDone, SameIn, SameText
<1>3. ASSUME v = after_reading(w, o, b, ch, f, l) PROVE ReadingDone(w, v, o, b, ch, f, l)
  <2>1. /\ v \in CopyWorld /\ v.fate = f /\ v.pair.down = ch /\ v.pair.up = w.pair.up
        /\ v.app.inbound = o /\ v.app.socket_eof = b /\ v.app.loop = l
        /\ v.app.output_closed = w.app.output_closed /\ v.app.printed = w.app.printed
        /\ v.app.outbound = w.app.outbound /\ v.app.stdin = w.app.stdin
        /\ v.app.outbound_shutdown = w.app.outbound_shutdown
        /\ v.app.input_eof = w.app.input_eof /\ v.app.stdin_end = w.app.stdin_end
    BY <1>1, <1>3 DEF CopyFields, after_reading
  <2>2. v.app.coming = w.app.coming /\ v.app.dropped = w.app.dropped
    BY <1>1, <1>3 DEF CopyFields, after_reading
  <2>. QED
    BY ONLY <2>1, <2>2 DEF ReadingDone, SameOut, SameText
<1>4. ASSUME v = after_stdout(w, p, o, b, d, l) PROVE StdoutDone(w, v, p, o, b, l)
  <2>1. /\ v \in CopyWorld /\ v.fate = w.fate /\ v.pair = w.pair
        /\ v.app.inbound = o /\ v.app.output_closed = b /\ v.app.loop = l /\ v.app.printed = p
        /\ v.app.socket_eof = w.app.socket_eof
        /\ v.app.outbound = w.app.outbound /\ v.app.stdin = w.app.stdin
        /\ v.app.outbound_shutdown = w.app.outbound_shutdown
        /\ v.app.input_eof = w.app.input_eof /\ v.app.stdin_end = w.app.stdin_end
    BY <1>1, <1>4 DEF CopyFields, after_stdout
  <2>2. v.app.coming = w.app.coming /\ v.app.dropped = w.app.dropped
    BY <1>1, <1>4 DEF CopyFields, after_stdout
  <2>. QED
    BY ONLY <2>1, <2>2 DEF StdoutDone, SameOut, SameText
<1>5. ASSUME v = after_cancel(w, o, l) PROVE CancelDone(w, v, o, l)
  <2>1. /\ v \in CopyWorld /\ v.fate = w.fate /\ v.pair = w.pair
        /\ v.app.outbound = o /\ v.app.loop = l
        /\ v.app.outbound_shutdown = w.app.outbound_shutdown
        /\ v.app.input_eof = w.app.input_eof /\ v.app.stdin = w.app.stdin
        /\ v.app.inbound = w.app.inbound /\ v.app.socket_eof = w.app.socket_eof
        /\ v.app.printed = w.app.printed /\ v.app.output_closed = w.app.output_closed
        /\ v.app.stdin_end = w.app.stdin_end
    BY <1>1, <1>5 DEF CopyFields, after_cancel
  <2>2. v.app.coming = w.app.coming /\ v.app.dropped = w.app.dropped
    BY <1>1, <1>5 DEF CopyFields, after_cancel
  <2>. QED
    BY ONLY <2>1, <2>2 DEF CancelDone, SameIn, SameText
<1>. QED
  BY ONLY <1>2, <1>3, <1>4, <1>5

\* Rule 2 writes the socket.
LEMMA CopySocket ==
    ASSUME NEW w, NEW en \in BOOLEAN, NEW bw \in Nat, NEW T, NEW ru, CopyInv(w, en, bw, T, ru),
           bw <= Len(Input), w.fate = "alive", 2 \in w.app.loop.ready, 2 \notin w.app.loop.hangups,
           NEW v, v = copy_serviced([w |-> write_socket(w), loop |-> loop_called(w.app.loop, 2)])
    PROVE  CopyInv(v, en, bw, T, ru)
<1>. DEFINE a == w.app
            s == a.outbound
            up == w.pair.up
            out == fd_write(up, s.buff)
            n == out.bytes_written
            o == pop_output(s, n)
            ch == IF eof(o) THEN shutdown_wr(out.channel) ELSE out.channel
            l == loop_called(a.loop, 2)
            f == out.fate
<1>e. PICK sh \in BOOLEAN : sh = (a.outbound_shutdown \/ eof(o))
  OBVIOUS
<1>0. /\ w \in CopyWorld /\ CopyOK(a) /\ OutboundEnd(a, en) /\ UpEnd(a, en, TRUE, up)
      /\ Account(bw, up, owed(a))
      /\ shown(a) \o w.pair.down.data = T /\ (ru => readable(up)) /\ Bounded(w.pair)
  BY DEF CopyInv
<1>1. v = after_socket(w, o, sh, ch, f, l)
  BY <1>e DEF copy_serviced, write_socket, after_socket
<1>d. /\ s = a.outbound /\ out = fd_write(up, s.buff) /\ n = out.bytes_written /\ up = w.pair.up
      /\ o = pop_output(s, n) /\ l = loop_called(a.loop, 2) /\ a = w.app /\ f = out.fate
      /\ ch = IF eof(o) THEN shutdown_wr(out.channel) ELSE out.channel
  OBVIOUS
<1>. HIDE DEF a, s, up, out, n, o, ch, l, f
<1>2. /\ Plain(s, CopyBuffer) /\ CopyBuffer \in Nat /\ s.buff \in Seq(Byte) /\ unsent(a) \in Seq(Byte)
      /\ Plain(a.inbound, CopyBuffer) /\ a.loop \in EventLoopType(4) /\ up \in ChannelType(Byte)
      /\ up.data \in Seq(Byte) /\ Len(up.data) <= SocketBuffer
  <2>1. unsent(a) \in Seq(Byte)
    BY <1>0, <1>d, CopyTexts
  <2>. QED
    BY <1>0, <1>d, <2>1, CopyParts, CopyBufferAssumption DEF CopyOK, Bounded
<1>3. /\ n \in Nat /\ n <= Len(s.buff) /\ (up.shut => n = 0) /\ f \in Fates
      /\ out.channel \in ChannelType(Byte) /\ out.channel.shut = up.shut
      /\ out.channel.data = up.data \o front(s.buff, n)
      /\ Len(out.channel.data) <= SocketBuffer
  <2>1. /\ up \in ChannelType(Byte) /\ Len(up.data) <= SocketBuffer /\ s.buff \in Seq(Byte)
        /\ out = fd_write(up, s.buff) /\ n = out.bytes_written
    BY <1>2, <1>d
  <2>2. Wrote(up, s.buff, out, n) /\ f = out.fate
    BY ONLY <2>1, <1>d, FdWrite
  <2>. QED
    BY <2>2 DEF Wrote
<1>4. /\ Plain(o, CopyBuffer) /\ o.buff = behind(s.buff, n) /\ o.bytes_w = s.bytes_w
      /\ o.end_input = s.end_input
  <2>1. PopOf(s, n, o, CopyBuffer)
    <3>1. Plain(s, CopyBuffer) /\ CopyBuffer \in Nat /\ n \in Nat /\ n <= Len(s.buff)
          /\ o = pop_output(s, n)
      BY <1>2, <1>3, <1>d
    <3>. QED
      BY ONLY <3>1, Popped
  <2>. QED
    BY <2>1 DEF PopOf, behind
<1>5. /\ ch \in ChannelType(Byte) /\ ch.data = out.channel.data
      /\ (ch.shut <=> up.shut \/ eof(o))
  BY <1>3, <1>d DEF shutdown_wr, ChannelType
<1>6. l \in EventLoopType(4) /\ l.rules = a.loop.rules /\ l.ready = a.loop.ready \ {2}
      /\ l.hangups = a.loop.hangups
  BY <1>2, <1>d, LoopFields
<1>7. SocketDone(w, v, o, sh, ch, f, l)
  <2>1. w \in CopyWorld /\ o \in ByteStreamType(Byte) /\ f \in Fates /\ ch \in ChannelType(Byte)
        /\ l \in EventLoopType(4)
    BY <1>0, <1>3, <1>4, <1>5, <1>6 DEF Plain
  <2>2. FALSE \in BOOLEAN /\ << >> \in Seq(Byte)
    OBVIOUS
  <2>. QED
    BY ONLY <1>1, <1>e, <2>1, <2>2, CopyUpdates
<1>8. /\ v \in CopyWorld /\ v.pair.up = ch /\ v.pair.down = w.pair.down
      /\ v.app.outbound = o /\ v.app.outbound_shutdown = sh /\ v.app.loop = l
      /\ v.app.stdin = a.stdin /\ v.app.inbound = a.inbound /\ v.app.printed = a.printed
      /\ v.app.stdin_end = a.stdin_end /\ v.app.socket_eof = a.socket_eof
      /\ v.app.output_closed = a.output_closed /\ v.app.input_eof = a.input_eof
      /\ v.app.coming = a.coming /\ v.app.dropped = a.dropped
  BY <1>7, <1>d DEF SocketDone, SameIn, SameText
<1>9. unsent(v.app) = unsent(a)
  BY <1>8 DEF unsent
<1>10. shown(v.app) = shown(a)
  BY <1>8 DEF shown
<1>11. /\ ch.data \o owed(v.app) = up.data \o owed(a)
       /\ ch.data \in Seq(Byte) /\ owed(v.app) \in Seq(Byte) /\ owed(a) \in Seq(Byte)
  <2>. DEFINE p == up.data
              q == s.buff
              i == unsent(a)
  <2>1. p \in Seq(Byte) /\ q \in Seq(Byte) /\ i \in Seq(Byte) /\ n \in Nat /\ n <= Len(q)
    BY <1>2, <1>3
  <2>2. ch.data = p \o front(q, n) /\ owed(v.app) = behind(q, n) \o i /\ owed(a) = q \o i
    BY <1>3, <1>4, <1>5, <1>8, <1>9, <1>d DEF owed
  <2>. HIDE DEF p, q, i
  <2>3. (p \o front(q, n)) \o (behind(q, n) \o i) = p \o (q \o i)
    BY ONLY <2>1, Through, ZenonT(40)
  <2>4. front(q, n) \in Seq(Byte) /\ behind(q, n) \in Seq(Byte)
    BY ONLY <2>1, MoveBytes
  <2>5. /\ p \o front(q, n) \in Seq(Byte) /\ behind(q, n) \o i \in Seq(Byte)
        /\ q \o i \in Seq(Byte)
    BY ONLY <2>1, <2>4, BytesJoined
  <2>. QED
    BY ONLY <2>2, <2>3, <2>5 DEF p
<1>12. Account(bw, v.pair.up, owed(v.app))
  <2>. DEFINE p == front(Input, bw)
              x == ch.data
              y == owed(v.app)
              b == up.data
              z == owed(a)
  <2>1. p \in Seq(Byte)
    BY SocketTexts, MoveBytes
  <2>2. x \in Seq(Byte) /\ y \in Seq(Byte) /\ b \in Seq(Byte) /\ z \in Seq(Byte) /\ x \o y = b \o z
    BY <1>2, <1>11
  <2>. HIDE DEF p, x, y, b, z
  <2>3. (p \o x) \o y = (p \o b) \o z
    <3>1. (p \o x) \o y = p \o (x \o y) /\ (p \o b) \o z = p \o (b \o z)
      BY ONLY <2>1, <2>2, Regrouped
    <3>. QED
      BY ONLY <2>2, <3>1
  <2>. QED
    BY <1>0, <1>8, <2>3 DEF Account, p, x, y, b, z
<1>13. CopyOK(v.app)
  BY <1>0, <1>4, <1>6, <1>8, <1>d, ZenonT(40) DEF CopyOK
<1>14. a.outbound.end_input => a.stdin = << >> /\ a.coming = << >> /\ a.dropped = << >>
  BY <1>0, <1>d DEF OutboundEnd
<1>15. OutboundEnd(v.app, en)
  BY <1>0, <1>4, <1>6, <1>8, <1>14, <1>d DEF OutboundEnd
<1>16. UpEnd(v.app, en, TRUE, v.pair.up)
  <2>1. CASE eof(o)
    <3>1. o.buff = << >> /\ a.outbound.end_input
      BY <2>1, <1>4, <1>d DEF eof, input_ended, buffer_empty
    <3>2. owed(v.app) = << >>
      BY <3>1, <1>8, <1>14 DEF owed, unsent
    <3>. QED
      BY <2>1, <3>2, <1>8, <1>e DEF UpEnd
  <2>2. CASE up.shut
    <3>1. CASE en
      BY <3>1 DEF UpEnd
    <3>2. CASE owed(a) = << >> /\ a.outbound_shutdown
      <4>1. s.buff = << >> /\ unsent(a) = << >>
        BY <3>2, <1>2, <1>d DEF owed
      <4>2. o.buff = << >>
        BY <4>1, <1>3, <1>4, <2>2 DEF behind
      <4>3. owed(v.app) = << >>
        BY <4>1, <4>2, <1>8, <1>9 DEF owed
      <4>. QED
        BY <3>2, <4>3, <1>8, <1>e DEF UpEnd
    <3>. QED
      BY <1>0, <2>2, <3>1, <3>2 DEF UpEnd
  <2>. QED
    BY <1>5, <1>8, <2>1, <2>2 DEF UpEnd
<1>17. ru => readable(v.pair.up)
  <2>. DEFINE p == up.data
              q == front(s.buff, n)
  <2>1. p \in Seq(Byte) /\ q \in Seq(Byte) /\ ch.data = p \o q
    BY <1>2, <1>3, <1>5, MoveBytes
  <2>. HIDE DEF q
  <2>2. readable(up) => p # << >> \/ up.shut
    BY DEF readable
  <2>. HIDE DEF p
  <2>3. p # << >> => ch.data # << >>
    BY ONLY <2>1
  <2>. QED
    BY <1>0, <1>5, <1>8, <2>2, <2>3 DEF readable
<1>18. Bounded(v.pair)
  BY <1>0, <1>3, <1>5, <1>8 DEF Bounded
<1>. QED
  BY <1>0, <1>8, <1>10, <1>12, <1>13, <1>15, <1>16, <1>17, <1>18 DEF CopyInv

\* What is read from the channel goes behind what is shown.
ShownAgain(p, b, q, n) == (p \o (b \o front(q, n))) \o behind(q, n) = (p \o b) \o q

\* Bytes that are shown move from one buffer to the next.
LEMMA ShownMoves ==
    ASSUME NEW p \in Seq(Byte), NEW b \in Seq(Byte), NEW q \in Seq(Byte), NEW n \in Nat,
           n <= Len(q)
    PROVE  ShownAgain(p, b, q, n)
<1>. DEFINE g == front(q, n)
            h == behind(q, n)
            k == p \o b
<1>1. g \in Seq(Byte) /\ h \in Seq(Byte) /\ k \in Seq(Byte)
  BY MoveBytes, BytesJoined
<1>2. (k \o g) \o h = k \o q
  BY <1>1, MoveBytes, ZenonT(40)
<1>3. p \o (b \o g) = k \o g
  <2>1. p \in Seq(Byte) /\ b \in Seq(Byte) /\ g \in Seq(Byte)
    BY <1>1
  <2>. HIDE DEF g
  <2>. QED
    BY ONLY <2>1, Regrouped DEF k
<1>. QED
  BY <1>2, <1>3 DEF ShownAgain

\* Rule 3 reads the socket.
LEMMA CopyReading ==
    ASSUME NEW w, NEW en \in BOOLEAN, NEW bw, NEW T, NEW ru, CopyInv(w, en, bw, T, ru),
           w.fate = "alive", 3 \in w.app.loop.ready,
           NEW v, v = copy_serviced([w |-> read_socket(w), loop |-> loop_called(w.app.loop, 3)])
    PROVE  CopyInv(v, en, bw, T, ru)
<1>. DEFINE a == w.app
            s == a.inbound
            dn == w.pair.down
            rc == remaining_capacity(s)
            got == fd_read(dn, rc)
            x == got.data
            ch == got.channel
            l == loop_called(a.loop, 3)
            f == got.fate
<1>e. PICK e \in BOOLEAN : e = (a.socket_eof \/ got.eof)
  OBVIOUS
<1>. DEFINE i == taken_in(s, x, e)
<1>0. /\ w \in CopyWorld /\ CopyOK(a) /\ OutboundEnd(a, en) /\ UpEnd(a, en, TRUE, w.pair.up)
      /\ Account(bw, w.pair.up, owed(a))
      /\ shown(a) \o dn.data = T /\ (ru => readable(w.pair.up)) /\ Bounded(w.pair)
  BY DEF CopyInv
<1>1. v = after_reading(w, i, e, ch, f, l)
  BY <1>e DEF copy_serviced, read_socket, after_reading
<1>d. /\ s = a.inbound /\ got = fd_read(dn, rc) /\ dn = w.pair.down /\ rc = remaining_capacity(s)
      /\ x = got.data /\ ch = got.channel /\ l = loop_called(a.loop, 3) /\ a = w.app
      /\ f = got.fate /\ i = taken_in(s, x, e)
  OBVIOUS
<1>. HIDE DEF a, s, dn, rc, got, x, ch, l, f, i
<1>2. /\ Plain(s, CopyBuffer) /\ CopyBuffer \in Nat /\ s.buff \in Seq(Byte) /\ a.printed \in Seq(Byte)
      /\ Plain(a.outbound, CopyBuffer) /\ a.loop \in EventLoopType(4) /\ dn \in ChannelType(Byte)
      /\ dn.data \in Seq(Byte) /\ Len(dn.data) <= SocketBuffer
      /\ a.socket_eof \in BOOLEAN /\ s.end_input \in BOOLEAN
  BY <1>0, <1>d, CopyParts, CopyBufferAssumption DEF CopyOK, Bounded
<1>3. ~a.socket_eof /\ ~s.end_input /\ ~a.output_closed
  BY <1>0, <1>d DEF CopyOK
<1>4. rc \in Nat
  BY <1>2, <1>d DEF remaining_capacity, Plain
<1>5. PICK n \in Nat : WasRead(dn, rc, got, n)
  <2>1. dn \in ChannelType(Byte) /\ rc \in Nat /\ got = fd_read(dn, rc)
    BY <1>2, <1>4, <1>d
  <2>. QED
    BY ONLY <2>1, FdRead
<1>6. /\ n <= Len(dn.data) /\ n <= rc /\ x = front(dn.data, n) /\ f \in Fates
      /\ ch \in ChannelType(Byte) /\ ch.data = behind(dn.data, n)
  BY <1>5, <1>d DEF WasRead
<1>7. x \in Seq(Byte) /\ Len(x) = n /\ Len(ch.data) <= Len(dn.data)
  BY <1>2, <1>6, MoveBytes
<1>8. Plain(i, CopyBuffer) /\ i.buff = s.buff \o x /\ (i.end_input <=> s.end_input \/ e)
  <2>1. /\ CopyBuffer \in Nat /\ Plain(s, CopyBuffer) /\ x \in Seq(Byte) /\ e \in BOOLEAN
        /\ Len(x) <= remaining_capacity(s) /\ (s.end_input => x = << >>) /\ i = taken_in(s, x, e)
    BY <1>2, <1>3, <1>6, <1>7, <1>d
  <2>2. Taken(s, x, e, i, CopyBuffer)
    BY ONLY <2>1, TakenIn, ZenonT(40)
  <2>. QED
    BY ONLY <2>2 DEF Taken
<1>9. l \in EventLoopType(4) /\ l.rules = a.loop.rules /\ l.ready = a.loop.ready \ {3}
      /\ l.hangups = a.loop.hangups
  BY <1>2, <1>d, LoopFields
<1>10. ReadingDone(w, v, i, e, ch, f, l)
  <2>1. w \in CopyWorld /\ i \in ByteStreamType(Byte) /\ f \in Fates /\ ch \in ChannelType(Byte)
        /\ l \in EventLoopType(4)
    BY <1>0, <1>6, <1>8, <1>9 DEF Plain
  <2>2. FALSE \in BOOLEAN /\ << >> \in Seq(Byte)
    OBVIOUS
  <2>. QED
    BY ONLY <1>1, <1>e, <2>1, <2>2, CopyUpdates
<1>11. /\ v \in CopyWorld /\ v.pair.up = w.pair.up /\ v.pair.down = ch
       /\ v.app.inbound = i /\ v.app.socket_eof = e /\ v.app.loop = l
       /\ v.app.outbound = a.outbound /\ v.app.outbound_shutdown = a.outbound_shutdown
       /\ v.app.stdin = a.stdin /\ v.app.printed = a.printed
       /\ v.app.stdin_end = a.stdin_end /\ v.app.output_closed = a.output_closed
       /\ v.app.input_eof = a.input_eof /\ v.app.coming = a.coming /\ v.app.dropped = a.dropped
  BY <1>10, <1>d DEF ReadingDone, SameOut, SameText
<1>12. owed(v.app) = owed(a)
  BY <1>11 DEF owed, unsent
<1>13. shown(v.app) \o ch.data = T
  <2>. DEFINE p == a.printed
              b == s.buff
              q == dn.data
  <2>1. p \in Seq(Byte) /\ b \in Seq(Byte) /\ q \in Seq(Byte) /\ n \in Nat /\ n <= Len(q)
    BY <1>2, <1>6
  <2>2. /\ shown(v.app) = p \o (b \o front(q, n)) /\ ch.data = behind(q, n)
        /\ T = (p \o b) \o q
    <3>1. T = (a.printed \o a.inbound.buff) \o dn.data
      BY <1>0 DEF shown
    <3>2. shown(v.app) = a.printed \o i.buff
      BY <1>11 DEF shown
    <3>. QED
      BY ONLY <3>1, <3>2, <1>6, <1>8, <1>d
  <2>. HIDE DEF p, b, q
  <2>3. ShownAgain(p, b, q, n)
    BY ONLY <2>1, ShownMoves
  <2>. QED
    BY ONLY <2>2, <2>3 DEF ShownAgain
<1>14. CopyOK(v.app)
  BY <1>0, <1>3, <1>8, <1>9, <1>11, <1>d, ZenonT(40) DEF CopyOK
<1>15. OutboundEnd(v.app, en)
  BY <1>0, <1>9, <1>11 DEF OutboundEnd
<1>16. UpEnd(v.app, en, TRUE, v.pair.up)
  BY <1>0, <1>11, <1>12 DEF UpEnd
<1>17. Account(bw, v.pair.up, owed(v.app))
  BY <1>0, <1>11, <1>12 DEF Account
<1>18. Bounded(v.pair)
  BY <1>0, <1>2, <1>7, <1>11, <1>6, SocketBufferAssumption, SMTT(40) DEF Bounded, ChannelType
<1>. QED
  BY <1>0, <1>11, <1>13, <1>14, <1>15, <1>16, <1>17, <1>18 DEF CopyInv

\* Rule 4 writes standard output.
LEMMA CopyPrinting ==
    ASSUME NEW w, NEW en \in BOOLEAN, NEW bw, NEW T, NEW ru, CopyInv(w, en, bw, T, ru),
           NEW v, v = copy_serviced([w |-> write_stdout(w), loop |-> loop_called(w.app.loop, 4)])
    PROVE  CopyInv(v, en, bw, T, ru)
<1>. DEFINE a == w.app
            s == a.inbound
            n == min(w.room, buffer_size(s))
            i == pop_output(s, n)
            p == a.printed \o front(s.buff, n)
            l == loop_called(a.loop, 4)
<1>e. PICK oc \in BOOLEAN, is \in BOOLEAN :
         oc = eof(i) /\ is = (a.inbound_shutdown \/ eof(i))
  <2>1. eof(i) \in BOOLEAN
    BY DEF eof
  <2>. QED
    BY <2>1
<1>0. /\ w \in CopyWorld /\ CopyOK(a) /\ OutboundEnd(a, en) /\ UpEnd(a, en, TRUE, w.pair.up)
      /\ w.fate = "alive" => Account(bw, w.pair.up, owed(a))
      /\ shown(a) \o w.pair.down.data = T /\ (ru => readable(w.pair.up)) /\ Bounded(w.pair)
  BY DEF CopyInv
<1>d. /\ s = a.inbound /\ n = min(w.room, Len(s.buff)) /\ i = pop_output(s, n)
      /\ p = a.printed \o front(s.buff, n) /\ l = loop_called(a.loop, 4) /\ a = w.app
  BY DEF buffer_size
<1>n. n \in Nat /\ n <= Len(s.buff)
  <2>1. w.room \in Nat /\ Len(s.buff) \in Nat
    BY <1>0, CopyParts
  <2>. QED
    BY <1>d, <2>1 DEF min
<1>1. v = after_stdout(w, p, i, oc, is, l)
  <2>1. peek_output(s, n) = front(s.buff, n)
    <3>1. s.buff \in Seq(Byte)
      BY <1>0, CopyParts
    <3>. QED
      BY <1>n, <3>1 DEF peek_output, min, front
  <2>. QED
    BY <1>e, <2>1 DEF copy_serviced, write_stdout, after_stdout
<1>. HIDE DEF a, s, n, i, p, l
<1>2. /\ Plain(s, CopyBuffer) /\ CopyBuffer \in Nat /\ s.buff \in Seq(Byte) /\ a.printed \in Seq(Byte)
      /\ Plain(a.outbound, CopyBuffer) /\ a.loop \in EventLoopType(4)
  BY <1>0, <1>d, CopyParts, CopyBufferAssumption DEF CopyOK
<1>3. /\ Plain(i, CopyBuffer) /\ i.buff = behind(s.buff, n) /\ i.end_input = s.end_input
  <2>1. /\ Plain(s, CopyBuffer) /\ CopyBuffer \in Nat /\ n \in Nat /\ n <= Len(s.buff)
        /\ i = pop_output(s, n)
    BY <1>2, <1>n, <1>d
  <2>2. PopOf(s, n, i, CopyBuffer)
    BY ONLY <2>1, Popped
  <2>. QED
    BY <2>2 DEF PopOf, behind
<1>4. p \o behind(s.buff, n) = a.printed \o s.buff /\ p \in Seq(Byte)
  <2>1. a.printed \in Seq(Byte) /\ s.buff \in Seq(Byte) /\ n \in Nat /\ n <= Len(s.buff)
    BY <1>2, <1>n
  <2>2. p = a.printed \o front(s.buff, n)
    BY <1>d
  <2>. QED
    BY ONLY <2>1, <2>2, MoveBytes
<1>5. p \in Seq(Byte)
  BY <1>4
<1>6. l \in EventLoopType(4) /\ l.rules = a.loop.rules /\ l.ready = a.loop.ready \ {4}
      /\ l.hangups = a.loop.hangups
  BY <1>2, <1>d, LoopFields
<1>7. StdoutDone(w, v, p, i, oc, l)
  <2>1. w \in CopyWorld /\ i \in ByteStreamType(Byte) /\ p \in Seq(Byte)
        /\ l \in EventLoopType(4)
    BY <1>0, <1>3, <1>5, <1>6 DEF Plain
  <2>2. "alive" \in Fates /\ new_channel \in ChannelType(Byte)
    BY DEF Fates, new_channel, ChannelType
  <2>. QED
    BY ONLY <1>1, <1>e, <2>1, <2>2, CopyUpdates
<1>8. /\ v \in CopyWorld /\ v.pair = w.pair /\ v.fate = w.fate /\ v.app.printed = p
      /\ v.app.inbound = i /\ v.app.output_closed = oc /\ v.app.loop = l
      /\ v.app.outbound = a.outbound /\ v.app.outbound_shutdown = a.outbound_shutdown
      /\ v.app.stdin = a.stdin /\ v.app.stdin_end = a.stdin_end
      /\ v.app.socket_eof = a.socket_eof /\ v.app.input_eof = a.input_eof
      /\ v.app.coming = a.coming /\ v.app.dropped = a.dropped
  BY <1>7, <1>d DEF StdoutDone, SameOut, SameText
<1>9. owed(v.app) = owed(a)
  BY <1>8 DEF owed, unsent
<1>10. shown(v.app) = shown(a)
  <2>1. shown(v.app) = p \o behind(s.buff, n) /\ shown(a) = a.printed \o s.buff
    BY <1>3, <1>8, <1>d DEF shown
  <2>. QED
    BY ONLY <1>4, <2>1
<1>11. oc => s.end_input
  BY <1>3, <1>e DEF eof, input_ended
<1>12. CopyOK(v.app)
  BY <1>0, <1>3, <1>6, <1>8, <1>11, <1>d, ZenonT(40) DEF CopyOK
<1>13. OutboundEnd(v.app, en)
  BY <1>0, <1>6, <1>8 DEF OutboundEnd
<1>14. UpEnd(v.app, en, TRUE, v.pair.up)
  BY <1>0, <1>8, <1>9 DEF UpEnd
<1>. QED
  BY <1>0, <1>8, <1>9, <1>10, <1>12, <1>13, <1>14 DEF CopyInv, Account

\* A hangup cancels rule 1 or rule 2.
LEMMA CopyCancels ==
    ASSUME NEW w, NEW en \in BOOLEAN, NEW bw, NEW T, NEW ru, CopyInv(w, en, bw, T, ru),
           NEW r \in w.app.loop.hangups, \A x \in reported(w.app.loop) : r <= x,
           NEW v, v = copy_serviced([w |-> copy_cancel(w, r), loop |-> loop_hung(w.app.loop, r)])
    PROVE  CopyInv(v, en, bw, T, ru)
<1>. DEFINE a == w.app
            s == a.outbound
            o == end_input(s)
            l == loop_hung(a.loop, r)
<1>0. /\ w \in CopyWorld /\ CopyOK(a) /\ OutboundEnd(a, en) /\ UpEnd(a, en, TRUE, w.pair.up)
      /\ w.fate = "alive" => Account(bw, w.pair.up, owed(a))
      /\ shown(a) \o w.pair.down.data = T /\ (ru => readable(w.pair.up)) /\ Bounded(w.pair)
  BY DEF CopyInv
<1>1. r \in {1, 2}
  BY <1>0 DEF CopyOK
<1>2. v = after_cancel(w, o, l)
  BY <1>1 DEF copy_serviced, copy_cancel, after_cancel
<1>d. s = a.outbound /\ o = end_input(s) /\ l = loop_hung(a.loop, r) /\ a = w.app
  OBVIOUS
<1>m. (r = 2 => 1 \notin a.loop.ready) /\ r \in a.loop.hangups
  BY DEF reported
<1>. HIDE DEF a, s, o, l
<1>3. Plain(s, CopyBuffer) /\ a.loop \in EventLoopType(4)
  BY <1>0, <1>d, CopyParts DEF CopyOK
<1>4. Plain(o, CopyBuffer) /\ o.end_input /\ o.buff = s.buff /\ o.bytes_w = s.bytes_w
  BY <1>3, <1>d, EndedAgain
<1>5. l \in EventLoopType(4) /\ l.rules = a.loop.rules \ {r} /\ l.ready = a.loop.ready
      /\ l.hangups = a.loop.hangups \ {r}
  BY <1>3, <1>d, LoopFields
<1>6. CancelDone(w, v, o, l)
  <2>1. w \in CopyWorld /\ o \in ByteStreamType(Byte) /\ l \in EventLoopType(4)
    BY <1>0, <1>4, <1>5 DEF Plain
  <2>2. "alive" \in Fates /\ new_channel \in ChannelType(Byte) /\ FALSE \in BOOLEAN
        /\ << >> \in Seq(Byte)
    BY DEF Fates, new_channel, ChannelType
  <2>. QED
    BY ONLY <1>2, <2>1, <2>2, CopyUpdates
<1>7. /\ v \in CopyWorld /\ v.pair = w.pair /\ v.fate = w.fate
      /\ v.app.outbound = o /\ v.app.loop = l /\ v.app.outbound_shutdown = a.outbound_shutdown
      /\ v.app.stdin = a.stdin /\ v.app.inbound = a.inbound /\ v.app.printed = a.printed
      /\ v.app.stdin_end = a.stdin_end /\ v.app.socket_eof = a.socket_eof
      /\ v.app.output_closed = a.output_closed /\ v.app.input_eof = a.input_eof
      /\ v.app.coming = a.coming /\ v.app.dropped = a.dropped
  BY <1>6, <1>d DEF CancelDone, SameIn, SameText
<1>8. owed(v.app) = owed(a) /\ shown(v.app) = shown(a)
  BY <1>4, <1>7, <1>d DEF owed, unsent, shown
<1>9. CopyOK(v.app)
  BY <1>0, <1>4, <1>5, <1>7, <1>8 DEF CopyOK
<1>11. OutboundEnd(v.app, en)
  <2>1. CASE r = 1
    <3>1. a.stdin = << >> /\ a.coming = << >>
      BY <2>1, <1>0, <1>m DEF CopyOK
    <3>. QED
      BY <2>1, <3>1, <1>0, <1>4, <1>5, <1>7 DEF OutboundEnd
  <2>2. CASE r = 2
    <3>1. en /\ 2 \notin a.loop.ready
      BY <2>2, <1>0, <1>m DEF OutboundEnd
    <3>. QED
      BY <2>2, <3>1, <1>4, <1>5, <1>7 DEF OutboundEnd
  <2>. QED
    BY <1>1, <2>1, <2>2
<1>12. UpEnd(v.app, en, TRUE, v.pair.up)
  BY <1>0, <1>7, <1>8 DEF UpEnd
<1>. QED
  BY <1>0, <1>7, <1>8, <1>9, <1>11, <1>12 DEF CopyInv, Account

\* The next result of the application's poll.
LEMMA CopyServe ==
    ASSUME NEW w, NEW en \in BOOLEAN, NEW bw \in Nat, NEW T, NEW ru, CopyInv(w, en, bw, T, ru),
           bw <= Len(Input), reported(w.app.loop) # {},
           w.fate = "alive" \/ this_rule(w.app.loop) \in {1, 4}, NEW v, v = copy_serve(w)
    PROVE  CopyInv(v, en, bw, T, ru)
<1>. DEFINE lp == w.app.loop
            r == this_rule(lp)
<1>0. lp \in EventLoopType(4) /\ CopyOK(w.app)
  BY CopyParts DEF CopyInv
<1>1. r \in reported(lp) /\ r \in 1 .. 4 /\ \A x \in reported(lp) : r <= x
  BY <1>0, ThisRule
<1>2. /\ r \in lp.hangups => v = copy_serviced([w |-> copy_cancel(w, r), loop |-> loop_hung(lp, r)])
      /\ r \notin lp.hangups =>
            v = copy_serviced([w |-> copy_callback(w, r), loop |-> loop_called(lp, r)])
  <2>1. v = copy_serviced(CopyLoop!service(w, lp))
    BY DEF copy_serve
  <2>0. CopyLoop!this_rule(lp) = r
    BY DEF CopyLoop!this_rule, CopyLoop!reported, this_rule, reported
  <2>. HIDE DEF r
  <2>2. r \in lp.hangups =>
           CopyLoop!service(w, lp) = [w |-> copy_cancel(w, r), loop |-> loop_hung(lp, r)]
    BY <2>0 DEF CopyLoop!service, loop_hung
  <2>3. r \notin lp.hangups =>
           CopyLoop!service(w, lp) = [w |-> copy_callback(w, r), loop |-> loop_called(lp, r)]
    BY <2>0 DEF CopyLoop!service, loop_called
  <2>. QED
    BY ONLY <2>1, <2>2, <2>3
<1>3. CASE r \in lp.hangups
  <2>1. /\ r \in w.app.loop.hangups /\ \A x \in reported(w.app.loop) : r <= x
        /\ v = copy_serviced([w |-> copy_cancel(w, r), loop |-> loop_hung(w.app.loop, r)])
    BY <1>1, <1>2, <1>3
  <2>. HIDE DEF r, lp
  <2>. QED
    BY <2>1, CopyCancels
<1>4. CASE r \notin lp.hangups
  <2>1. r \in lp.ready
    BY <1>1, <1>4 DEF reported
  <2>2. v = copy_serviced([w |-> copy_callback(w, r), loop |-> loop_called(w.app.loop, r)])
    BY <1>2, <1>4
  <2>d. r = this_rule(w.app.loop) /\ lp = w.app.loop
    OBVIOUS
  <2>. HIDE DEF r, lp
  <2>3. CASE r = 1
    <3>1. v = copy_serviced([w |-> read_stdin(w), loop |-> loop_called(w.app.loop, 1)])
      BY <2>2, <2>3 DEF copy_callback
    <3>. QED
      BY <3>1, <2>1, <2>3, <2>d, <1>4, CopyStdin
  <2>4. CASE r = 2
    <3>1. v = copy_serviced([w |-> write_socket(w), loop |-> loop_called(w.app.loop, 2)])
      BY <2>2, <2>4 DEF copy_callback
    <3>. QED
      BY <3>1, <2>1, <2>4, <2>d, <1>4, CopySocket
  <2>5. CASE r = 3
    <3>1. v = copy_serviced([w |-> read_socket(w), loop |-> loop_called(w.app.loop, 3)])
      BY <2>2, <2>5 DEF copy_callback
    <3>. QED
      BY <3>1, <2>1, <2>5, <2>d, <1>4, CopyReading
  <2>6. CASE r = 4
    <3>1. v = copy_serviced([w |-> write_stdout(w), loop |-> loop_called(w.app.loop, 4)])
      BY <2>2, <2>6 DEF copy_callback
    <3>. QED
      BY <3>1, CopyPrinting
  <2>. QED
    BY <1>1, <2>3, <2>4, <2>5, <2>6
<1>. QED
  BY <1>3, <1>4

\* The private rules that follow.
LEMMA CopyPrivate ==
    ASSUME NEW w, NEW en \in BOOLEAN, NEW bw \in Nat, NEW T, NEW ru, CopyInv(w, en, bw, T, ru),
           bw <= Len(Input)
    PROVE  CopyInv(copy_private(w), en, bw, T, ru)
<1>1. ASSUME NEW x, CopyInv(x, en, bw, T, ru) PROVE CopyInv(copy_one_private(x), en, bw, T, ru)
  <2>1. CASE reported(x.app.loop) # {} /\ this_rule(x.app.loop) \in {1, 4}
    <3>1. copy_one_private(x) = copy_serve(x)
      BY <2>1 DEF copy_one_private
    <3>2. CopyInv(copy_serve(x), en, bw, T, ru)
      BY <1>1, <2>1, CopyServe
    <3>. QED
      BY <3>1, <3>2
  <2>2. CASE ~(reported(x.app.loop) # {} /\ this_rule(x.app.loop) \in {1, 4})
    BY <1>1, <2>2 DEF copy_one_private
  <2>. QED
    BY <2>1, <2>2
<1>. QED
  BY <1>1 DEF copy_private

\* What the first loop of wait_next_event has come to after the rules up to k.
Looked(w, R, k, acc) ==
    /\ acc = [w |-> w, rules |-> acc.rules, polled |-> acc.polled]
    /\ \A r : r \in acc.rules <=> r \in R /\ (r > k \/ ~copy_over(w, r))
    /\ \A r : r \in acc.polled <=> r \in R /\ r <= k /\ ~copy_over(w, r) /\ copy_interest(w, r)

\* Ending a stream that has ended leaves the application as it is.
LEMMA CopyCancelled ==
    ASSUME NEW w \in CopyWorld, CopyOK(w.app), NEW r \in 1 .. 4, copy_over(w, r)
    PROVE  copy_cancel(w, r) = w
<1>1. Plain(w.app.outbound, CopyBuffer) /\ Plain(w.app.inbound, CopyBuffer)
  BY DEF CopyOK
<1>2. /\ r \in {1, 2} => w.app.outbound.end_input
      /\ r \notin {1, 2} => w.app.inbound.end_input
  BY DEF copy_over, CopyOK
<1>a. /\ w.app.outbound.end_input => end_input(w.app.outbound) = w.app.outbound
      /\ w.app.inbound.end_input => end_input(w.app.inbound) = w.app.inbound
  BY <1>1, EndedAgain
<1>. DEFINE L == EventLoopType(4)
            O == ByteStreamType(Byte)
            Q == Seq(Byte)
            E == {"open", "eof", "hup"}
            C == ChannelType(Byte)
<1>3. w \in CopyFields(L, O, Q, E, C)
  BY DEF CopyWorld
<1>. HIDE DEF L, O, Q, E, C
<1>4. /\ [w EXCEPT !.app.outbound = w.app.outbound] = w
      /\ [w EXCEPT !.app.inbound = w.app.inbound] = w
  BY <1>3 DEF CopyFields
<1>. QED
  BY <1>2, <1>a, <1>4 DEF copy_cancel

\* One rule more.
LEMMA CopyLooks ==
    ASSUME NEW w \in CopyWorld, CopyOK(w.app), NEW R \in SUBSET (1 .. 4), NEW k \in 1 .. 4,
           NEW j, j = k - 1, NEW acc, Looked(w, R, j, acc), NEW new, new = CopyLoop!look_at(acc, k)
    PROVE  Looked(w, R, k, new)
<1>1. /\ acc = [w |-> w, rules |-> acc.rules, polled |-> acc.polled] /\ acc.w = w
      /\ \A r : r \in acc.rules <=> r \in R /\ (r > j \/ ~copy_over(w, r))
      /\ \A r : r \in acc.polled <=> r \in R /\ r <= j /\ ~copy_over(w, r) /\ copy_interest(w, r)
  BY DEF Looked
<1>2. \A r \in R : (r > k <=> r > j /\ r # k) /\ (r <= k <=> r <= j \/ r = k) /\ (r <= k <=> ~(r > k))
      /\ (r = k => r > j /\ ~(r <= j))
  OBVIOUS
<1>3. k \in acc.rules <=> k \in R
  BY <1>1, <1>2
<1>4. CASE k \notin R
  <2>1. new = acc
    BY <1>3, <1>4 DEF CopyLoop!look_at
  <2>. QED
    BY <1>1, <1>2, <1>4, <2>1 DEF Looked
<1>5. CASE k \in R /\ copy_over(w, k)
  <2>1. copy_cancel(w, k) = w
    BY <1>5, CopyCancelled
  <2>2. new = [w |-> w, rules |-> acc.rules \ {k}, polled |-> acc.polled]
    BY <1>1, <1>3, <1>5, <2>1 DEF CopyLoop!look_at
  <2>3. new.rules = acc.rules \ {k} /\ new.polled = acc.polled
        /\ new = [w |-> w, rules |-> new.rules, polled |-> new.polled]
    BY <2>2
  <2>. QED
    BY <1>1, <1>2, <1>5, <2>3 DEF Looked
<1>6. CASE k \in R /\ ~copy_over(w, k) /\ copy_interest(w, k)
  <2>1. new = [w |-> w, rules |-> acc.rules, polled |-> acc.polled \cup {k}]
    BY <1>1, <1>3, <1>6 DEF CopyLoop!look_at
  <2>2. new.rules = acc.rules /\ new.polled = acc.polled \cup {k}
        /\ new = [w |-> w, rules |-> new.rules, polled |-> new.polled]
    BY <2>1
  <2>. QED
    BY <1>1, <1>2, <1>6, <2>2 DEF Looked
<1>7. CASE k \in R /\ ~copy_over(w, k) /\ ~copy_interest(w, k)
  <2>1. new = acc
    BY <1>1, <1>3, <1>7 DEF CopyLoop!look_at
  <2>. QED
    BY <1>1, <1>2, <1>7, <2>1 DEF Looked
<1>. QED
  BY <1>4, <1>5, <1>6, <1>7

\* And all four of them.
LEMMA CopySetUp ==
    ASSUME NEW w \in CopyWorld, CopyOK(w.app), NEW set, set = CopyLoop!set_up(w, w.app.loop)
    PROVE  Looked(w, w.app.loop.rules, 4, set)
<1>. DEFINE R == w.app.loop.rules
            s0 == [w |-> w, rules |-> R, polled |-> {}]
            s1 == CopyLoop!look_at(s0, 1)
            s2 == CopyLoop!look_at(s1, 2)
            s3 == CopyLoop!look_at(s2, 3)
            s4 == CopyLoop!look_at(s3, 4)
<1>0. R \in SUBSET (1 .. 4)
  BY CopyParts DEF EventLoopType
<1>d. set = s4
  BY DEF CopyLoop!set_up
<1>1. Looked(w, R, 0, s0)
  <2>1. \A r \in R : r > 0 /\ ~(r <= 0)
    BY <1>0
  <2>. QED
    BY <2>1 DEF Looked
<1>. HIDE DEF R, s0
<1>2. Looked(w, R, 1, s1)
  BY <1>0, <1>1, CopyLooks, 1 - 1 = 0
<1>. HIDE DEF s1
<1>3. Looked(w, R, 2, s2)
  BY <1>0, <1>2, CopyLooks, 2 - 1 = 1
<1>. HIDE DEF s2
<1>4. Looked(w, R, 3, s3)
  BY <1>0, <1>3, CopyLooks, 3 - 1 = 2
<1>. HIDE DEF s3
<1>5. Looked(w, R, 4, s4)
  BY <1>0, <1>4, CopyLooks, 4 - 1 = 3
<1>. QED
  BY <1>5, <1>d DEF R

\* With a loop that poll has filled, or that has lost a rule.
with_loop(w, l) == [w EXCEPT !.app.loop = l]

\* The fields after the loop was set.
LEMMA WithLoop ==
    ASSUME NEW w \in CopyWorld, NEW l \in EventLoopType(4), NEW v, v = with_loop(w, l)
    PROVE  CancelDone(w, v, w.app.outbound, l)
<1>. DEFINE L == EventLoopType(4)
            O == ByteStreamType(Byte)
            Q == Seq(Byte)
            E == {"open", "eof", "hup"}
            C == ChannelType(Byte)
<1>1. CopyWorld = CopyFields(L, O, Q, E, C) /\ l \in L
  BY DEF CopyWorld
<1>. HIDE DEF L, O, Q, E, C
<1>2. /\ v \in CopyWorld /\ v.fate = w.fate /\ v.pair = w.pair
      /\ v.app.outbound = w.app.outbound /\ v.app.loop = l
      /\ v.app.outbound_shutdown = w.app.outbound_shutdown
      /\ v.app.input_eof = w.app.input_eof /\ v.app.stdin = w.app.stdin
      /\ v.app.inbound = w.app.inbound /\ v.app.socket_eof = w.app.socket_eof
      /\ v.app.printed = w.app.printed /\ v.app.output_closed = w.app.output_closed
      /\ v.app.stdin_end = w.app.stdin_end
  BY <1>1 DEF CopyFields, with_loop
<1>3. v.app.coming = w.app.coming /\ v.app.dropped = w.app.dropped
  BY <1>1 DEF CopyFields, with_loop
<1>. QED
  BY ONLY <1>2, <1>3 DEF CancelDone, SameIn, SameText

\* poll has answered.
LEMMA CopyPolled ==
    ASSUME NEW w, NEW en \in BOOLEAN, NEW bw \in Nat, NEW T, NEW ru, CopyInv(w, en, bw, T, ru),
           bw <= Len(Input), w.fate = "alive", NEW set, set = CopyLoop!set_up(w, w.app.loop),
           NEW v, v = [set.w EXCEPT !.app.loop = copy_polled(set)]
    PROVE  CopyInv(v, en, bw, T, ru)
<1>. DEFINE a == w.app
            R == a.loop.rules
            l == copy_polled(set)
            o == a.outbound
<1>0. /\ w \in CopyWorld /\ CopyOK(a) /\ OutboundEnd(a, en) /\ UpEnd(a, en, TRUE, w.pair.up)
      /\ Account(bw, w.pair.up, owed(a))
      /\ shown(a) \o w.pair.down.data = T /\ (ru => readable(w.pair.up)) /\ Bounded(w.pair)
  BY DEF CopyInv
<1>1. Looked(w, R, 4, set)
  BY <1>0, CopySetUp
<1>2. /\ set.w = w
      /\ \A r : r \in set.rules <=> r \in R /\ (r > 4 \/ ~copy_over(w, r))
      /\ \A r : r \in set.polled <=> r \in R /\ r <= 4 /\ ~copy_over(w, r) /\ copy_interest(w, r)
  BY <1>1 DEF Looked
<1>3. /\ l.rules = set.rules
      /\ l = [rules |-> l.rules, ready |-> l.ready, hangups |-> l.hangups]
      /\ \A r : r \in l.ready <=> r \in set.polled /\ copy_ready(w, r)
      /\ \A r : r \in l.hangups <=> r \in set.polled /\ copy_hup(w, r) /\ ~copy_ready(w, r)
  BY <1>2 DEF copy_polled, CopyLoop!polled_loop
<1>4. v = with_loop(w, l)
  BY <1>2 DEF with_loop
<1>h. /\ (copy_hup(w, 1) <=> a.stdin_end = "hup") /\ (copy_hup(w, 2) <=> hung_up(w.pair))
      /\ (copy_hup(w, 3) <=> hung_up(w.pair)) /\ ~copy_hup(w, 4)
      /\ (copy_ready(w, 1) <=> a.stdin # << >> \/ a.stdin_end = "eof")
      /\ (copy_ready(w, 3) <=> readable(w.pair.down))
  BY DEF copy_hup, copy_ready
<1>p. a.loop \in EventLoopType(4) /\ R \in SUBSET (1 .. 4) /\ Plain(o, CopyBuffer)
  BY <1>0, CopyParts DEF EventLoopType, CopyOK
<1>d. a = w.app /\ R = a.loop.rules /\ o = a.outbound
  OBVIOUS
<1>. HIDE DEF a, R, l, o
<1>5. l \in EventLoopType(4)
  <2>1. l.rules \in SUBSET (1 .. 4) /\ l.ready \in SUBSET (1 .. 4) /\ l.hangups \in SUBSET (1 .. 4)
    BY <1>2, <1>3, <1>p
  <2>. QED
    BY <1>3, <2>1 DEF EventLoopType
<1>6. CancelDone(w, v, w.app.outbound, l)
  BY <1>0, <1>4, <1>5, WithLoop
<1>7. /\ v \in CopyWorld /\ v.pair = w.pair /\ v.fate = w.fate
      /\ v.app.outbound = o /\ v.app.loop = l /\ v.app.outbound_shutdown = a.outbound_shutdown
      /\ v.app.stdin = a.stdin /\ v.app.inbound = a.inbound /\ v.app.printed = a.printed
      /\ v.app.stdin_end = a.stdin_end /\ v.app.socket_eof = a.socket_eof
      /\ v.app.output_closed = a.output_closed /\ v.app.input_eof = a.input_eof
      /\ v.app.coming = a.coming /\ v.app.dropped = a.dropped
  BY <1>6, <1>d DEF CancelDone, SameIn, SameText
<1>8. owed(v.app) = owed(a) /\ shown(v.app) = shown(a)
  BY <1>7, <1>d DEF owed, unsent, shown
<1>9. CopyOK(v.app)
  <2>1. 3 \in l.ready => ~a.socket_eof
    BY <1>2, <1>3, <1>d DEF copy_over
  <2>2. l.hangups \subseteq {1, 2}
    <3>1. 3 \notin l.hangups
      BY <1>3, <1>h DEF hung_up, readable
    <3>2. 4 \notin l.hangups
      BY <1>3, <1>h
    <3>. QED
      BY <1>5, <3>1, <3>2 DEF EventLoopType
  <2>3. 1 \notin l.rules => o.end_input
    BY <1>0, <1>2, <1>3, <1>d DEF CopyOK, copy_over
  <2>4. 1 \in l.ready => a.stdin # << >> \/ a.stdin_end = "eof"
    BY <1>3, <1>h
  <2>5. 1 \in l.hangups => a.stdin = << >> /\ a.stdin_end = "hup"
    BY <1>3, <1>h
  <2>. QED
    BY <1>0, <1>7, <1>8, <1>d, <2>1, <2>2, <2>3, <2>4, <2>5 DEF CopyOK
<1>10. OutboundEnd(v.app, en)
  <2>1. 2 \notin R => 2 \notin l.rules /\ 2 \notin l.ready
    BY <1>2, <1>3
  <2>2. 2 \notin l.rules => 2 \notin R
    BY <1>2, <1>3 DEF copy_over
  <2>3. ASSUME 2 \in l.hangups PROVE en /\ 2 \notin l.ready
    <3>1. w.pair.up.shut /\ copy_interest(w, 2) /\ 2 \notin l.ready
      BY <1>2, <1>3, <1>h, <2>3 DEF hung_up
    <3>2. ~buffer_empty(o) \/ (eof(o) /\ ~a.outbound_shutdown)
      BY <3>1, <1>d DEF copy_interest
    <3>3. CASE ~en
      <4>1. owed(a) = << >> /\ a.outbound_shutdown
        BY <3>3, <3>1, <1>0 DEF UpEnd
      <4>2. o.buff \in Seq(Byte) /\ unsent(a) \in Seq(Byte)
        BY <1>0, <1>d, CopyParts, CopyTexts
      <4>3. o.buff = << >>
        BY <4>1, <4>2, <1>d DEF owed
      <4>. QED
        BY <3>2, <4>1, <4>3 DEF buffer_empty
    <3>. QED
      BY <3>1, <3>3
  <2>. QED
    BY <1>0, <1>7, <1>d, <2>1, <2>2, <2>3 DEF OutboundEnd
<1>11. UpEnd(v.app, en, TRUE, v.pair.up)
  BY <1>0, <1>7, <1>8 DEF UpEnd
<1>. QED
  BY <1>0, <1>7, <1>8, <1>9, <1>10, <1>11, <1>d DEF CopyInv, Account

\* The copy is over: everything has gone up, or the thread has ended.
CopyOver(w, en, set) ==
    /\ en \/ owed(w.app) = << >>
    /\ set.w = w /\ set.rules \in SUBSET (1 .. 4) /\ set.rules \subseteq w.app.loop.rules

\* When no rule of the copy is polled it is over.
LEMMA CopyIsOver ==
    ASSUME NEW w, NEW en \in BOOLEAN, NEW bw, NEW T, NEW ru, CopyInv(w, en, bw, T, ru),
           NEW set, set = CopyLoop!set_up(w, w.app.loop), set.polled = {}
    PROVE  CopyOver(w, en, set)
<1>. DEFINE a == w.app
            R == a.loop.rules
            o == a.outbound
<1>0. w \in CopyWorld /\ CopyOK(a) /\ OutboundEnd(a, en)
  BY DEF CopyInv
<1>1. Looked(w, R, 4, set)
  BY <1>0, CopySetUp
<1>2. /\ set.w = w
      /\ \A r : r \in set.rules <=> r \in R /\ (r > 4 \/ ~copy_over(w, r))
      /\ \A r : r \in set.polled <=> r \in R /\ r <= 4 /\ ~copy_over(w, r) /\ copy_interest(w, r)
  BY <1>1 DEF Looked
<1>p. R \in SUBSET (1 .. 4) /\ Plain(o, CopyBuffer) /\ Plain(a.inbound, CopyBuffer)
  BY <1>0, CopyParts DEF EventLoopType, CopyOK
<1>d. a = w.app /\ R = a.loop.rules /\ o = a.outbound
  OBVIOUS
<1>. HIDE DEF a, R, o
<1>3. ASSUME ~en PROVE owed(a) = << >>
  <2>1. 2 \in R /\ ~copy_over(w, 2)
    BY <1>3, <1>0, <1>d DEF OutboundEnd, copy_over
  <2>2. ~copy_interest(w, 2)
    BY <1>2, <2>1
  <2>3. o.buff = << >>
    BY <2>2, <1>d DEF copy_interest, buffer_empty
  <2>4. remaining_capacity(o) > 0 /\ ~o.error /\ ~a.inbound.error
    BY <2>3, <1>p, CopyBufferAssumption DEF Plain, remaining_capacity
  <2>5. copy_interest(w, 1)
    BY <2>4, <1>d DEF copy_interest
  <2>6. 1 \notin R \/ copy_over(w, 1)
    BY <1>2, <2>5
  <2>7. o.end_input
    BY <2>6, <1>0, <1>d DEF copy_over, CopyOK
  <2>8. a.stdin = << >> /\ a.coming = << >> /\ a.dropped = << >>
    BY <2>7, <1>3, <1>0, <1>d DEF OutboundEnd
  <2>. QED
    BY <2>3, <2>8, <1>d DEF owed, unsent
<1>. QED
  BY <1>2, <1>3, <1>p, <1>d DEF CopyOver

-----------------------------------------------------------------------------
(* The thread's loop *)

\* Everything the thread has its type, the types of the larger parts left abstract.
Adapters == [source : Hosts, destination : Hosts, listening : BOOLEAN]
ThreadFields(C, L, A, H, Q, D, S) ==
    [sock : [tcp : C, loop : L, adapter : A, phase : H, abort : BOOLEAN,
             outbound_shutdown : BOOLEAN, inbound_shutdown : BOOLEAN, eof : BOOLEAN],
     pair : [up : Q, down : Q], wire : [rx : D, tx : S], fate : Fates]
ThreadWorld ==
    ThreadFields(ConnectionType(Byte), EventLoopType(4), Adapters, Phases, ChannelType(Byte),
                 Seq(Dgrams), Segs)

\* What each callback leaves, and what the loop does.
after_datagram(w, c, ad, rx) == [w EXCEPT !.wire.rx = rx, !.sock.adapter = ad, !.sock.tcp = c]
after_taking(w, c, os, ef, up, f) ==
    [w EXCEPT !.pair.up = up, !.sock.eof = ef, !.fate = f, !.sock.tcp = c,
              !.sock.outbound_shutdown = os]
after_giving(w, c, is, dn, f) ==
    [w EXCEPT !.fate = f, !.sock.tcp = c, !.pair.down = dn, !.sock.inbound_shutdown = is]
after_sending(w, c, tx) == [w EXCEPT !.wire.tx = tx, !.sock.tcp = c]
after_ending(w, c, os) == [w EXCEPT !.sock.tcp = c, !.sock.outbound_shutdown = os]
set_results(w, l, f) == [w EXCEPT !.sock.loop = l, !.fate = f]
set_loop(w, l) == [w EXCEPT !.sock.loop = l]
set_tcp(w, c) == [w EXCEPT !.sock.tcp = c]
set_phase(w, h) == [w EXCEPT !.sock.phase = h]

Served(w, v, c, ad, os, ef, up, dn, rx, tx, f) ==
    /\ v \in ThreadWorld /\ v.sock.tcp = c /\ v.sock.adapter = ad
    /\ v.sock.outbound_shutdown = os /\ v.sock.eof = ef /\ v.pair.up = up /\ v.pair.down = dn
    /\ v.wire.rx = rx /\ v.wire.tx = tx /\ v.fate = f
    /\ v.sock.loop = w.sock.loop /\ v.sock.phase = w.sock.phase /\ v.sock.abort = w.sock.abort
Turned(w, v, c, l, h, f) ==
    /\ v \in ThreadWorld /\ v.sock.tcp = c /\ v.sock.loop = l /\ v.sock.phase = h /\ v.fate = f
    /\ v.sock.adapter = w.sock.adapter /\ v.sock.outbound_shutdown = w.sock.outbound_shutdown
    /\ v.sock.eof = w.sock.eof /\ v.sock.abort = w.sock.abort /\ v.pair = w.pair
    /\ v.wire = w.wire

\* The fields after either.
LEMMA ThreadUpdates ==
    ASSUME NEW w \in ThreadWorld, NEW c \in ConnectionType(Byte), NEW ad \in Adapters,
           NEW os \in BOOLEAN, NEW is \in BOOLEAN, NEW ef \in BOOLEAN, NEW up \in ChannelType(Byte),
           NEW dn \in ChannelType(Byte), NEW rx \in Seq(Dgrams), NEW tx \in Segs, NEW f \in Fates,
           NEW v
    PROVE  /\ v = after_datagram(w, c, ad, rx) =>
                 Served(w, v, c, ad, w.sock.outbound_shutdown, w.sock.eof, w.pair.up,
                         w.pair.down, rx, w.wire.tx, w.fate)
           /\ v = after_taking(w, c, os, ef, up, f) =>
                 Served(w, v, c, w.sock.adapter, os, ef, up,
                         w.pair.down, w.wire.rx, w.wire.tx, f)
           /\ v = after_giving(w, c, is, dn, f) =>
                 Served(w, v, c, w.sock.adapter, w.sock.outbound_shutdown, w.sock.eof, w.pair.up,
                         dn, w.wire.rx, w.wire.tx, f)
           /\ v = after_sending(w, c, tx) =>
                 Served(w, v, c, w.sock.adapter, w.sock.outbound_shutdown, w.sock.eof, w.pair.up,
                         w.pair.down, w.wire.rx, tx, w.fate)
           /\ v = after_ending(w, c, os) =>
                 Served(w, v, c, w.sock.adapter, os, w.sock.eof, w.pair.up,
                         w.pair.down, w.wire.rx, w.wire.tx, w.fate)
<1>. DEFINE C == ConnectionType(Byte)
            L == EventLoopType(4)
            A == Adapters
            H == Phases
            Q == ChannelType(Byte)
            D == Seq(Dgrams)
            S == Segs
<1>1. /\ ThreadWorld = ThreadFields(C, L, A, H, Q, D, S) /\ c \in C /\ ad \in A /\ up \in Q
      /\ dn \in Q /\ rx \in D /\ tx \in S
  BY DEF ThreadWorld
<1>. HIDE DEF C, L, A, H, Q, D, S
<1>2. ASSUME v = after_datagram(w, c, ad, rx)
      PROVE  Served(w, v, c, ad, w.sock.outbound_shutdown, w.sock.eof, w.pair.up,
                    w.pair.down, rx, w.wire.tx, w.fate)
  <2>1. /\ v \in ThreadWorld /\ v.sock.tcp = c /\ v.sock.adapter = ad
        /\ v.sock.outbound_shutdown = w.sock.outbound_shutdown /\ v.sock.eof = w.sock.eof
        /\ v.pair.up = w.pair.up /\ v.pair.down = w.pair.down
        /\ v.wire.rx = rx /\ v.wire.tx = w.wire.tx
        /\ v.fate = w.fate /\ v.sock.loop = w.sock.loop
        /\ v.sock.phase = w.sock.phase /\ v.sock.abort = w.sock.abort
    BY <1>1, <1>2 DEF ThreadFields, after_datagram
  <2>. QED
    BY ONLY <2>1 DEF Served
<1>3. ASSUME v = after_taking(w, c, os, ef, up, f)
      PROVE  Served(w, v, c, w.sock.adapter, os, ef, up,
                    w.pair.down, w.wire.rx, w.wire.tx, f)
  <2>1. /\ v \in ThreadWorld /\ v.sock.tcp = c /\ v.sock.adapter = w.sock.adapter
        /\ v.sock.outbound_shutdown = os /\ v.sock.eof = ef
        /\ v.pair.up = up /\ v.pair.down = w.pair.down
        /\ v.wire.rx = w.wire.rx /\ v.wire.tx = w.wire.tx
        /\ v.fate = f /\ v.sock.loop = w.sock.loop
        /\ v.sock.phase = w.sock.phase /\ v.sock.abort = w.sock.abort
    BY <1>1, <1>3 DEF ThreadFields, after_taking
  <2>. QED
    BY ONLY <2>1 DEF Served
<1>4. ASSUME v = after_giving(w, c, is, dn, f)
      PROVE  Served(w, v, c, w.sock.adapter, w.sock.outbound_shutdown, w.sock.eof, w.pair.up,
                    dn, w.wire.rx, w.wire.tx, f)
  <2>1. /\ v \in ThreadWorld /\ v.sock.tcp = c /\ v.sock.adapter = w.sock.adapter
        /\ v.sock.outbound_shutdown = w.sock.outbound_shutdown /\ v.sock.eof = w.sock.eof
        /\ v.pair.up = w.pair.up /\ v.pair.down = dn
        /\ v.wire.rx = w.wire.rx /\ v.wire.tx = w.wire.tx
        /\ v.fate = f /\ v.sock.loop = w.sock.loop
        /\ v.sock.phase = w.sock.phase /\ v.sock.abort = w.sock.abort
    BY <1>1, <1>4 DEF ThreadFields, after_giving
  <2>. QED
    BY ONLY <2>1 DEF Served
<1>5. ASSUME v = after_sending(w, c, tx)
      PROVE  Served(w, v, c, w.sock.adapter, w.sock.outbound_shutdown, w.sock.eof, w.pair.up,
                    w.pair.down, w.wire.rx, tx, w.fate)
  <2>1. /\ v \in ThreadWorld /\ v.sock.tcp = c /\ v.sock.adapter = w.sock.adapter
        /\ v.sock.outbound_shutdown = w.sock.outbound_shutdown /\ v.sock.eof = w.sock.eof
        /\ v.pair.up = w.pair.up /\ v.pair.down = w.pair.down
        /\ v.wire.rx = w.wire.rx /\ v.wire.tx = tx
        /\ v.fate = w.fate /\ v.sock.loop = w.sock.loop
        /\ v.sock.phase = w.sock.phase /\ v.sock.abort = w.sock.abort
    BY <1>1, <1>5 DEF ThreadFields, after_sending
  <2>. QED
    BY ONLY <2>1 DEF Served
<1>6. ASSUME v = after_ending(w, c, os)
      PROVE  Served(w, v, c, w.sock.adapter, os, w.sock.eof, w.pair.up,
                    w.pair.down, w.wire.rx, w.wire.tx, w.fate)
  <2>1. /\ v \in ThreadWorld /\ v.sock.tcp = c /\ v.sock.adapter = w.sock.adapter
        /\ v.sock.outbound_shutdown = os /\ v.sock.eof = w.sock.eof
        /\ v.pair.up = w.pair.up /\ v.pair.down = w.pair.down
        /\ v.wire.rx = w.wire.rx /\ v.wire.tx = w.wire.tx
        /\ v.fate = w.fate /\ v.sock.loop = w.sock.loop
        /\ v.sock.phase = w.sock.phase /\ v.sock.abort = w.sock.abort
    BY <1>1, <1>6 DEF ThreadFields, after_ending
  <2>. QED
    BY ONLY <2>1 DEF Served
<1>. QED
  BY ONLY <1>2, <1>3, <1>4, <1>5, <1>6

\* And after a step of the loop itself.
LEMMA ThreadTurns ==
    ASSUME NEW w \in ThreadWorld, NEW c \in ConnectionType(Byte), NEW l \in EventLoopType(4),
           NEW h \in Phases, NEW f \in Fates, NEW v
    PROVE  /\ v = set_results(w, l, f) => Turned(w, v, w.sock.tcp, l, w.sock.phase, f)
           /\ v = set_loop(w, l) => Turned(w, v, w.sock.tcp, l, w.sock.phase, w.fate)
           /\ v = set_tcp(w, c) => Turned(w, v, c, w.sock.loop, w.sock.phase, w.fate)
           /\ v = set_phase(w, h) => Turned(w, v, w.sock.tcp, w.sock.loop, h, w.fate)
<1>. DEFINE C == ConnectionType(Byte)
            L == EventLoopType(4)
            A == Adapters
            H == Phases
            Q == ChannelType(Byte)
            D == Seq(Dgrams)
            S == Segs
<1>1. ThreadWorld = ThreadFields(C, L, A, H, Q, D, S) /\ c \in C /\ l \in L /\ h \in H
  BY DEF ThreadWorld
<1>. HIDE DEF C, L, A, H, Q, D, S
<1>2. ASSUME v = set_results(w, l, f) PROVE Turned(w, v, w.sock.tcp, l, w.sock.phase, f)
  <2>1. /\ v \in ThreadWorld /\ v.sock.tcp = w.sock.tcp /\ v.sock.loop = l /\ v.fate = f
        /\ v.sock.phase = w.sock.phase /\ v.sock.adapter = w.sock.adapter
        /\ v.sock.outbound_shutdown = w.sock.outbound_shutdown
        /\ v.sock.eof = w.sock.eof /\ v.sock.abort = w.sock.abort /\ v.pair = w.pair
        /\ v.wire = w.wire
    BY <1>1, <1>2 DEF ThreadFields, set_results
  <2>. QED
    BY ONLY <2>1 DEF Turned
<1>3. ASSUME v = set_loop(w, l) PROVE Turned(w, v, w.sock.tcp, l, w.sock.phase, w.fate)
  <2>1. /\ v \in ThreadWorld /\ v.sock.tcp = w.sock.tcp /\ v.sock.loop = l /\ v.fate = w.fate
        /\ v.sock.phase = w.sock.phase /\ v.sock.adapter = w.sock.adapter
        /\ v.sock.outbound_shutdown = w.sock.outbound_shutdown
        /\ v.sock.eof = w.sock.eof /\ v.sock.abort = w.sock.abort /\ v.pair = w.pair
        /\ v.wire = w.wire
    BY <1>1, <1>3 DEF ThreadFields, set_loop
  <2>. QED
    BY ONLY <2>1 DEF Turned
<1>4. ASSUME v = set_tcp(w, c) PROVE Turned(w, v, c, w.sock.loop, w.sock.phase, w.fate)
  <2>1. /\ v \in ThreadWorld /\ v.sock.tcp = c /\ v.sock.loop = w.sock.loop /\ v.fate = w.fate
        /\ v.sock.phase = w.sock.phase /\ v.sock.adapter = w.sock.adapter
        /\ v.sock.outbound_shutdown = w.sock.outbound_shutdown
        /\ v.sock.eof = w.sock.eof /\ v.sock.abort = w.sock.abort /\ v.pair = w.pair
        /\ v.wire = w.wire
    BY <1>1, <1>4 DEF ThreadFields, set_tcp
  <2>. QED
    BY ONLY <2>1 DEF Turned
<1>5. ASSUME v = set_phase(w, h) PROVE Turned(w, v, w.sock.tcp, w.sock.loop, h, w.fate)
  <2>1. /\ v \in ThreadWorld /\ v.sock.tcp = w.sock.tcp /\ v.sock.loop = w.sock.loop
        /\ v.fate = w.fate /\ v.sock.phase = h /\ v.sock.adapter = w.sock.adapter
        /\ v.sock.outbound_shutdown = w.sock.outbound_shutdown
        /\ v.sock.eof = w.sock.eof /\ v.sock.abort = w.sock.abort /\ v.pair = w.pair
        /\ v.wire = w.wire
    BY <1>1, <1>5 DEF ThreadFields, set_phase
  <2>. QED
    BY ONLY <2>1 DEF Turned
<1>. QED
  BY ONLY <1>2, <1>3, <1>4, <1>5

\* The parts of it.
LEMMA ThreadParts ==
    ASSUME NEW w \in ThreadWorld
    PROVE  /\ w.sock.tcp \in ConnectionType(Byte) /\ w.sock.loop \in EventLoopType(4)
           /\ w.sock.adapter \in Adapters /\ w.sock.phase \in Phases /\ w.sock.abort \in BOOLEAN
           /\ w.sock.outbound_shutdown \in BOOLEAN /\ w.sock.inbound_shutdown \in BOOLEAN
           /\ w.sock.eof \in BOOLEAN /\ w.pair.up \in ChannelType(Byte)
           /\ w.pair.down \in ChannelType(Byte) /\ w.wire.rx \in Seq(Dgrams) /\ w.wire.tx \in Segs
           /\ w.fate \in Fates /\ w.pair.up.data \in Seq(Byte) /\ w.pair.down.data \in Seq(Byte)
           /\ w.pair.up.shut \in BOOLEAN /\ w.pair.down.shut \in BOOLEAN
<1>1. /\ w.sock.tcp \in ConnectionType(Byte) /\ w.sock.loop \in EventLoopType(4)
      /\ w.sock.adapter \in Adapters /\ w.sock.phase \in Phases /\ w.sock.abort \in BOOLEAN
      /\ w.sock.outbound_shutdown \in BOOLEAN /\ w.sock.inbound_shutdown \in BOOLEAN
      /\ w.sock.eof \in BOOLEAN /\ w.pair.up \in ChannelType(Byte)
      /\ w.pair.down \in ChannelType(Byte) /\ w.wire.rx \in Seq(Dgrams) /\ w.wire.tx \in Segs
      /\ w.fate \in Fates
  BY DEF ThreadWorld, ThreadFields
<1>. QED
  BY <1>1 DEF ChannelType

\* A reset that is in a queue stays in it when it gets longer.
LEMMA LoudJoined ==
    ASSUME NEW p \in Segs, NEW q \in Segs, Loud(p) \/ Loud(q)
    PROVE  Loud(p \o q)
<1>1. Len(p \o q) = Len(p) + Len(q) /\ Len(p) \in Nat /\ Len(q) \in Nat
  BY DEF Segs
<1>2. CASE Loud(p)
  <2>1. PICK k \in 1 .. Len(p) : p[k].rst
    BY <1>2 DEF Loud
  <2>2. (p \o q)[k] = p[k] /\ k \in 1 .. Len(p \o q)
    BY <1>1, <2>1 DEF Segs
  <2>. QED
    BY <2>1, <2>2 DEF Loud
<1>3. CASE Loud(q)
  <2>1. PICK k \in 1 .. Len(q) : q[k].rst
    BY <1>3 DEF Loud
  <2>. DEFINE m == Len(p) + k
  <2>2. (p \o q)[m] = q[k] /\ m \in 1 .. Len(p \o q)
    BY <1>1, <2>1 DEF Segs
  <2>. HIDE DEF m
  <2>. QED
    BY <2>1, <2>2 DEF Loud
<1>. QED
  BY <1>2, <1>3

\* A call takes nothing out of the queue.
LEMMA CallLoud ==
    ASSUME NEW own, NEW text, NEW c \in ConnectionType(Byte), NEW d, NEW t, NEW i, NEW p,
           Called(own, text, c, d, t, i, p)
    PROVE  Loud(c.segments_out) => Loud(d.segments_out)
<1>1. PICK q : Mail(own, d.sender, d.receiver, q) /\ d.segments_out = c.segments_out \o q
  BY DEF Called, Moves, Move
<1>2. q \in Segs /\ c.segments_out \in Segs
  BY <1>1, ConnectionFields DEF Mail, ConnFields, Segs
<1>. QED
  BY <1>1, <1>2, LoudJoined

\* The sender's stream in an end.
LEMMA OutFacts ==
    ASSUME NEW own \in Texts, NEW s, Idle(own, s)
    PROVE  /\ s.stream \in ByteStreamType(Byte) /\ s.stream.bytes_w \in Nat
           /\ s.stream.bytes_w <= Len(own) /\ remaining_capacity(s.stream) \in Nat
           /\ (s.stream.end_input => s.stream.bytes_w = Len(own))
<1>1. s \in SenderType(Byte) /\ Working(own, emptied(s))
  BY DEF Idle
<1>2. emptied(s).stream = s.stream
  BY <1>1, EmptiedFields
<1>3. s.stream \in ByteStreamType(Byte)
  BY <1>1 DEF SenderType
<1>. QED
  BY <1>1, <1>2, <1>3 DEF Working, SenderOK, StreamOK, remaining_capacity, ByteStreamType

\* The channel from the owner is shut when everything has gone through it, or at the end.
UpOK(w, e) == w.pair.up.shut => w.sock.phase = "ended" \/ e.o = << >>
Accounted(w, e) ==
    w.fate = "alive" => Account(w.sock.tcp.sender.stream.bytes_w, w.pair.up, e.o)

\* What the thread takes for the end of the owner's stream, and its rules.
Ends(s) ==
    /\ s.eof => s.tcp.sender.stream.end_input
    /\ s.tcp.sender.stream.end_input => s.outbound_shutdown
    /\ s.loop.hangups \subseteq {3} /\ {1, 4} \subseteq s.loop.rules
    /\ s.adapter.destination # "stranger"

\* Who sends datagrams: the peer, which resets only if rs says so, and a stranger.
Strange(rx, rs) ==
    \A k \in 1 .. Len(rx) :
        /\ rx[k].source \in {"peer", "stranger"}
        /\ rx[k].source = "stranger" => rx[k].seg.rst
        /\ rx[k].source = "peer" /\ rx[k].seg.rst => rs

\* A connection that has failed by itself has said so, or is about to.
Failed(c, rs) == inbound_stream(c).error /\ ~rs
Gives(w, e) ==
    /\ Trying(w.sock.tcp)
    /\ Failed(w.sock.tcp, e.rs) /\ ~(w.sock.abort /\ w.sock.phase = "ended")
          => Loud(w.sock.tcp.segments_out) \/ Loud(w.wire.tx) \/ e.told
    /\ w.sock.phase \in {"leaving", "ended"} /\ ~w.sock.abort
          => ~w.sock.tcp.isactive /\ w.sock.tcp.segments_out = << >>

\* The thread's world; in e there is what it does not touch: the peer's connection b and what
\* has been read from it y, what the application has shown g and still owes o, whether the
\* peer has been told of a reset and has made one rs.
ThreadInv(w, e) ==
    /\ w \in ThreadWorld
    /\ Net(w.sock.tcp, e.b, e.g \o w.pair.down.data, e.y, w.wire.rx, w.wire.tx)
    /\ UpOK(w, e) /\ Accounted(w, e) /\ Ends(w.sock) /\ Strange(w.wire.rx, e.rs) /\ Gives(w, e)
    /\ Bounded(w.pair) /\ e.g \in Seq(Byte) /\ e.o \in Seq(Byte)

\* The results of poll that it has not gone through.
Results(w) ==
    /\ 1 \in w.sock.loop.ready => w.wire.rx # << >>
    /\ 2 \in w.sock.loop.ready => ~w.sock.outbound_shutdown /\ readable(w.pair.up)

Looping(w) == w.sock.phase \in {"connect", "listen", "main"}

\* The parts of it.
LEMMA ThreadFacts ==
    ASSUME NEW w, NEW e, ThreadInv(w, e)
    PROVE  /\ w \in ThreadWorld
           /\ Net(w.sock.tcp, e.b, e.g \o w.pair.down.data, e.y, w.wire.rx, w.wire.tx)
           /\ UpOK(w, e) /\ Accounted(w, e) /\ Ends(w.sock) /\ Strange(w.wire.rx, e.rs)
           /\ Gives(w, e) /\ Bounded(w.pair) /\ e.g \in Seq(Byte) /\ e.o \in Seq(Byte)
  BY DEF ThreadInv

\* While the loop runs, it is enough that what is loud stays loud.
LEMMA GivesOn ==
    ASSUME NEW w, NEW v, NEW e, Gives(w, e), Looping(w), NEW c, NEW d, c = w.sock.tcp,
           d = v.sock.tcp, v.sock.phase = w.sock.phase, v.sock.abort = w.sock.abort,
           Trying(d), Failed(d, e.rs) => Failed(c, e.rs) \/ Loud(d.segments_out),
           Loud(c.segments_out) => Loud(d.segments_out) \/ Loud(v.wire.tx),
           Loud(w.wire.tx) => Loud(v.wire.tx)
    PROVE  Gives(v, e)
<1>1. /\ w.sock.phase \in {"connect", "listen", "main"}
      /\ v.sock.phase \notin {"leaving", "ended"} /\ w.sock.phase # "ended"
  BY DEF Looping
<1>2. Failed(c, e.rs) => Loud(c.segments_out) \/ Loud(w.wire.tx) \/ e.told
  BY <1>1 DEF Gives
<1>. QED
  BY <1>1, <1>2 DEF Gives

\* Only the peer's segments come through the adapter, before and after it is found out who the
\* peer is.
LEMMA AdapterRead ==
    ASSUME NEW a \in Adapters, a.destination # "stranger", NEW dgram \in Dgrams,
           dgram.source \in {"peer", "stranger"}, dgram.source = "stranger" => dgram.seg.rst,
           NEW ans, ans = adapter_read(a, dgram)
    PROVE  /\ ans.adapter \in Adapters /\ ans.adapter.destination # "stranger"
           /\ ans.segs = {} \/ (ans.segs = {dgram.seg} /\ dgram.source = "peer")
<1>. DEFINE q == dgram.source
            g == dgram.seg
<1>1. q \in Hosts /\ g \in SegmentType(Byte) /\ q \in {"peer", "stranger"}
      /\ (q = "stranger" => g.rst)
  BY DEF Dgrams
<1>2. ans = IF udp_is_for_us(a, q) THEN udp_accept(a, q, g.syn, g.rst, g) ELSE nothing(a)
  BY DEF adapter_read
<1>3. ans = nothing(a) \/ ans = just(a, g) \/ ans = just([a EXCEPT !.destination = q, !.listening = FALSE], g)
  BY <1>2 DEF udp_accept
<1>4. ans = nothing(a) => ans.adapter = a /\ ans.segs = {}
  BY DEF nothing
<1>5. CASE ans = just(a, g) /\ ~a.listening
  <2>1. q = a.destination \/ ans = nothing(a)
    BY <1>2, <1>5 DEF udp_is_for_us
  <2>2. ans.adapter = a /\ ans.segs = {g}
    BY <1>5 DEF just
  <2>. QED
    BY <1>1, <1>4, <2>1, <2>2
<1>6. CASE a.listening
  <2>1. ans = IF opens(g.syn, g.rst)
              THEN just([a EXCEPT !.destination = q, !.listening = FALSE], g) ELSE nothing(a)
    BY <1>2, <1>6 DEF udp_is_for_us, udp_accept
  <2>2. CASE opens(g.syn, g.rst)
    <3>1. q = "peer"
      BY <1>1, <2>2 DEF opens
    <3>. DEFINE n == [a EXCEPT !.destination = q, !.listening = FALSE]
    <3>2. n \in Adapters /\ n.destination = q
      BY <1>1 DEF Adapters
    <3>3. ans = just(n, g)
      BY <2>1, <2>2
    <3>. HIDE DEF n
    <3>4. ans.adapter = n /\ ans.segs = {g}
      BY <3>3 DEF just
    <3>. QED
      BY <3>1, <3>2, <3>4
  <2>3. CASE ~opens(g.syn, g.rst)
    BY <1>4, <2>1, <2>3
  <2>. QED
    BY <2>2, <2>3
<1>7. CASE ~a.listening /\ ans # just(a, g)
  <2>1. ans = nothing(a)
    BY <1>2, <1>7 DEF udp_accept
  <2>. QED
    BY <1>4, <2>1
<1>. QED
  BY <1>5, <1>6, <1>7

\* Rule 1 reads a datagram.
LEMMA ThreadReceives ==
    ASSUME NEW w, NEW e, ThreadInv(w, e), Looping(w), w.wire.rx # << >>,
           NEW v, v = datagram_in(w)
    PROVE  /\ ThreadInv(v, e) /\ v.sock.loop = w.sock.loop /\ v.sock.phase = w.sock.phase
           /\ v.sock.abort = w.sock.abort /\ v.wire.tx = w.wire.tx /\ v.pair = w.pair
           /\ v.sock.outbound_shutdown = w.sock.outbound_shutdown /\ v.fate = w.fate
<1>. DEFINE c == w.sock.tcp
            rx == w.wire.rx
            tx == w.wire.tx
            h == Head(rx)
            ans == adapter_read(w.sock.adapter, h)
            ad == ans.adapter
            d == given(c, ans.segs)
            q == Tail(rx)
            t == e.g \o w.pair.down.data
            b == e.b
<1>0. /\ w \in ThreadWorld /\ Net(c, b, t, e.y, rx, tx) /\ UpOK(w, e) /\ Accounted(w, e)
      /\ Ends(w.sock) /\ Strange(rx, e.rs) /\ Gives(w, e) /\ Bounded(w.pair)
      /\ e.g \in Seq(Byte) /\ e.o \in Seq(Byte)
  BY ThreadFacts
<1>1. v = after_datagram(w, d, ad, q)
  BY DEF datagram_in, after_datagram
<1>d. /\ c = w.sock.tcp /\ rx = w.wire.rx /\ tx = w.wire.tx /\ h = Head(rx) /\ b = e.b
      /\ ans = adapter_read(w.sock.adapter, h) /\ ad = ans.adapter /\ d = given(c, ans.segs)
      /\ q = Tail(rx) /\ t = e.g \o w.pair.down.data
  OBVIOUS
<1>. HIDE DEF c, rx, tx, h, ans, ad, d, q, t, b
<1>2. rx \in Seq(Dgrams) /\ rx # << >> /\ w.sock.adapter \in Adapters /\ tx \in Segs
  BY <1>0, <1>d, ThreadParts
<1>3. /\ h \in Dgrams /\ h = rx[1] /\ 1 \in 1 .. Len(rx) /\ q \in Seq(Dgrams)
      /\ \A k \in 1 .. Len(q) : q[k] = rx[k + 1] /\ k + 1 \in 1 .. Len(rx)
  BY <1>2, <1>d
<1>4. /\ h.source \in {"peer", "stranger"} /\ (h.source = "stranger" => h.seg.rst)
      /\ (h.source = "peer" /\ h.seg.rst => e.rs)
  BY <1>0, <1>3 DEF Strange
<1>5. /\ ad \in Adapters /\ ad.destination # "stranger"
      /\ ans.segs = {} \/ (ans.segs = {h.seg} /\ h.source = "peer")
  <2>1. w.sock.adapter.destination # "stranger"
    BY <1>0 DEF Ends
  <2>. QED
    BY <1>2, <1>3, <1>4, <1>d, <2>1, AdapterRead
<1>6. Strange(q, e.rs) /\ FromPeer(b, q) /\ FromPeer(b, rx)
  BY <1>0, <1>3 DEF Strange, FromPeer, Net
<1>7. Net(c, b, t, e.y, q, tx)
  <2>1. AllPost(Input, c, PeerISN, tx)
    BY <1>0 DEF Net
  <2>. QED
    BY <1>0, <1>3, <1>6, <2>1, NetWire
<1>8. /\ Net(d, b, t, e.y, q, tx) /\ Trying(d) /\ SameInput(c.sender, d.sender)
      /\ (inbound_stream(d).error /\ ~e.rs => inbound_stream(c).error)
      /\ (Loud(c.segments_out) => Loud(d.segments_out)) /\ d \in ConnectionType(Byte)
  <2>t. Trying(c)
    BY <1>0, <1>d DEF Gives
  <2>1. CASE ans.segs = {}
    <3>1. d = c
      BY <2>1, <1>d DEF given
    <3>2. c \in ConnectionType(Byte)
      BY <1>7, NetFacts
    <3>. QED
      BY <3>1, <3>2, <1>7, <2>t DEF SameInput
  <2>2. CASE ans.segs = {h.seg} /\ h.source = "peer"
    <3>1. d = segment_received(c, h.seg)
      BY <2>2, <1>d DEF given
    <3>2. Post(Reply, b, LocalISN, h.seg)
      BY <1>3, <1>6, <2>2 DEF FromPeer
    <3>3. /\ Half(Input, Reply, LocalISN, PeerISN, c, b, t)
          /\ Half(Reply, Input, PeerISN, LocalISN, b, c, e.y)
      BY <1>7 DEF Net
    <3>4. Called(Input, Reply, c, d, t, PeerISN, b.sender) /\ AckKept(c, d, b)
      BY <3>1, <3>2, <3>3, SocketTexts, PostArrives
    <3>5. PICK a : Arrival(Input, Reply, c, t, PeerISN, b.sender, h.seg, a)
      BY <3>2, <3>3, SocketTexts, PostArrival
    <3>6. Net(d, b, t, e.y, q, tx)
      BY <1>7, <3>4, NetCalled
    <3>7. /\ SameInput(c.sender, d.sender) /\ (Trying(c) => Trying(d))
          /\ (~h.seg.rst => inbound_stream(d).error = inbound_stream(c).error)
      BY <3>1, <3>5, SocketTexts, ReceiveFrame
    <3>8. Loud(c.segments_out) => Loud(d.segments_out)
      BY <1>7, <3>4, NetFacts, CallLoud
    <3>9. d \in ConnectionType(Byte)
      BY <3>6, NetFacts
    <3>. QED
      BY <1>4, <2>2, <2>t, <3>6, <3>7, <3>8, <3>9
  <2>. QED
    BY <1>5, <2>1, <2>2
<1>9. Served(w, v, d, ad, w.sock.outbound_shutdown, w.sock.eof, w.pair.up, w.pair.down, q, tx, w.fate)
  BY <1>0, <1>1, <1>2, <1>3, <1>5, <1>8, <1>d, ThreadParts, ThreadUpdates, ZenonT(40)
<1>10. /\ v \in ThreadWorld /\ v.sock.tcp = d /\ v.sock.adapter = ad
       /\ v.sock.outbound_shutdown = w.sock.outbound_shutdown /\ v.sock.eof = w.sock.eof
       /\ v.pair.up = w.pair.up /\ v.pair.down = w.pair.down
       /\ v.wire.rx = q /\ v.wire.tx = tx /\ v.fate = w.fate
       /\ v.sock.loop = w.sock.loop /\ v.sock.phase = w.sock.phase /\ v.sock.abort = w.sock.abort
  BY <1>9 DEF Served
<1>11. v.pair = w.pair
  BY <1>0, <1>1 DEF after_datagram, ThreadWorld, ThreadFields
<1>12. UpOK(v, e) /\ Accounted(v, e) /\ Bounded(v.pair)
  BY <1>0, <1>8, <1>10, <1>11, <1>d DEF UpOK, Accounted, Account, SameInput
<1>13. Ends(v.sock)
  BY <1>0, <1>5, <1>8, <1>10, <1>d DEF Ends, SameInput
<1>14. Gives(v, e)
  <2>1. Failed(d, e.rs) => Failed(c, e.rs)
    BY <1>8 DEF Failed
  <2>2. v.wire.tx = w.wire.tx
    BY <1>10, <1>d
  <2>. QED
    BY <1>0, <1>8, <1>10, <1>d, <2>1, <2>2, GivesOn
<1>15. Net(v.sock.tcp, e.b, e.g \o v.pair.down.data, e.y, v.wire.rx, v.wire.tx)
  BY <1>8, <1>10, <1>d
<1>16. ThreadInv(v, e)
  BY <1>0, <1>6, <1>10, <1>12, <1>13, <1>14, <1>15 DEF ThreadInv
<1>. QED
  BY <1>10, <1>11, <1>16, <1>d

\* What a callback leaves alone.
Unmoved(w, v) ==
    /\ v.sock.loop = w.sock.loop /\ v.sock.phase = w.sock.phase /\ v.sock.abort = w.sock.abort
    /\ v.pair.up.shut = w.pair.up.shut

\* Rule 4 sends the queue.
LEMMA ThreadSends ==
    ASSUME NEW w, NEW e, ThreadInv(w, e), Looping(w), NEW v, v = datagrams_out(w)
    PROVE  ThreadInv(v, e) /\ Unmoved(w, v)
<1>. DEFINE c == w.sock.tcp
            d == sent_all(c)
            tx == w.wire.tx
            q == c.segments_out
            vx == tx \o q
            t == e.g \o w.pair.down.data
<1>0. /\ w \in ThreadWorld /\ Net(c, e.b, t, e.y, w.wire.rx, tx) /\ UpOK(w, e) /\ Accounted(w, e)
      /\ Ends(w.sock) /\ Strange(w.wire.rx, e.rs) /\ Gives(w, e) /\ Bounded(w.pair)
      /\ e.g \in Seq(Byte) /\ e.o \in Seq(Byte)
  BY ThreadFacts
<1>1. v = after_sending(w, d, vx)
  BY DEF datagrams_out, after_sending, sent_all
<1>2. c \in ConnectionType(Byte) /\ tx \in Segs /\ 0 \in Nat
  BY <1>0, ThreadParts
<1>3. Like(c, d) /\ d.segments_out = << >>
  BY <1>2, LikeFields
<1>d. c = w.sock.tcp /\ tx = w.wire.tx /\ q = c.segments_out /\ vx = tx \o q
      /\ t = e.g \o w.pair.down.data
  OBVIOUS
<1>. HIDE DEF c, d, tx, q, vx, t
<1>4. q \in Segs /\ d \in ConnectionType(Byte)
  BY <1>2, <1>3, <1>d, ConnectionFields DEF ConnFields, Like, Around
<1>5. AllPost(Input, c, PeerISN, tx) /\ AllPost(Input, c, PeerISN, q)
  BY <1>0, <1>d DEF Net
<1>6. AllPost(Input, c, PeerISN, vx)
  BY <1>5, <1>d, AllPostJoined
<1>7. Net(c, e.b, t, e.y, w.wire.rx, vx)
  BY <1>0, <1>6, NetWire DEF Net
<1>8. Goes(Input, Reply, PeerISN, c, d, t, e.b)
  <2>1. Between(Input, Reply, c, t, PeerISN, e.b.sender)
    BY <1>7, NetFacts
  <2>2. Called(Input, Reply, c, c, t, PeerISN, e.b.sender)
    BY <2>1, SocketTexts, NoCall
  <2>3. AckKept(c, c, e.b)
    BY DEF AckKept
  <2>. QED
    BY <1>3, <2>2, <2>3, CalledGoes
<1>9. Net(d, e.b, t, e.y, w.wire.rx, vx)
  <2>1. AllPost(Input, d, PeerISN, d.segments_out)
    BY <1>3 DEF AllPost, Segs
  <2>. QED
    BY <1>7, <1>8, <2>1, NetLocal
<1>10. vx \in Segs
  BY <1>6 DEF AllPost
<1>11. Served(w, v, d, w.sock.adapter, w.sock.outbound_shutdown, w.sock.eof, w.pair.up,
              w.pair.down, w.wire.rx, vx, w.fate)
  BY <1>0, <1>1, <1>4, <1>10, ThreadParts, ThreadUpdates
<1>12. /\ v \in ThreadWorld /\ v.sock.tcp = d /\ v.sock.adapter = w.sock.adapter
       /\ v.sock.outbound_shutdown = w.sock.outbound_shutdown /\ v.sock.eof = w.sock.eof
       /\ v.pair.up = w.pair.up /\ v.pair.down = w.pair.down
       /\ v.wire.rx = w.wire.rx /\ v.wire.tx = vx /\ v.fate = w.fate
       /\ v.sock.loop = w.sock.loop /\ v.sock.phase = w.sock.phase /\ v.sock.abort = w.sock.abort
  BY <1>11 DEF Served
<1>13. d.sender = c.sender /\ d.isactive = c.isactive /\ inbound_stream(d) = inbound_stream(c)
  BY <1>3 DEF Like, Around, inbound_stream
<1>14. UpOK(v, e) /\ Accounted(v, e) /\ Bounded(v.pair) /\ Ends(v.sock)
  BY <1>0, <1>12, <1>13, <1>d DEF UpOK, Accounted, Account, Bounded, Ends
<1>15. Gives(v, e)
  <2>1. Loud(tx) \/ Loud(q) => Loud(vx)
    BY <1>2, <1>4, <1>d, LoudJoined
  <2>2. Trying(d)
    BY <1>0, <1>13, <1>d DEF Gives, Trying
  <2>3. Failed(d, e.rs) => Failed(c, e.rs)
    BY <1>13 DEF Failed
  <2>. QED
    BY <1>0, <1>12, <1>d, <2>1, <2>2, <2>3, GivesOn
<1>16. Net(v.sock.tcp, e.b, e.g \o v.pair.down.data, e.y, v.wire.rx, v.wire.tx)
  BY <1>9, <1>12, <1>d
<1>. QED
  BY <1>0, <1>12, <1>14, <1>15, <1>16 DEF ThreadInv, Unmoved

\* Rule 3 gives the owner what there is room for.
LEMMA ThreadGives ==
    ASSUME NEW w, NEW e, ThreadInv(w, e), Looping(w), w.fate = "alive",
           NEW v, v = bytes_to_owner(w)
    PROVE  ThreadInv(v, e) /\ Unmoved(w, v)
<1>. DEFINE c == w.sock.tcp
            in == inbound_stream(c)
            s == in.buff
            dn == w.pair.down
            out == fd_write(dn, s)
            n == out.bytes_written
            rest == pop_output(in, n)
            ch == IF eof(rest) \/ rest.error THEN shutdown_wr(out.channel) ELSE out.channel
            d == read_from(c, n)
            t == e.g \o dn.data
            u == e.g \o ch.data
<1>e. PICK is \in BOOLEAN : is = (w.sock.inbound_shutdown \/ (eof(rest) \/ rest.error))
  OBVIOUS
<1>0. /\ w \in ThreadWorld /\ Net(c, e.b, t, e.y, w.wire.rx, w.wire.tx) /\ UpOK(w, e)
      /\ Accounted(w, e) /\ Ends(w.sock) /\ Strange(w.wire.rx, e.rs) /\ Gives(w, e)
      /\ Bounded(w.pair) /\ e.g \in Seq(Byte) /\ e.o \in Seq(Byte)
  BY ThreadFacts
<1>1. c \in ConnectionType(Byte) /\ dn \in ChannelType(Byte) /\ dn.data \in Seq(Byte)
      /\ Len(dn.data) <= SocketBuffer
  BY <1>0, ThreadParts DEF Bounded
<1>2. in \in ByteStreamType(Byte) /\ s \in Seq(Byte)
  <2>1. ReceiverOK(Reply, c.receiver, t, PeerISN)
    BY <1>0, NetFacts
  <2>2. c.receiver.reassembler.output \in ByteStreamType(Byte)
    BY <2>1 DEF ReceiverOK, ReceiverType, ReassemblerType
  <2>. QED
    BY <2>2 DEF inbound_stream, stream_out, ByteStreamType
<1>3. peek_output(in, buffer_size(in)) = s
  BY <1>2, SubSeqFull DEF peek_output, buffer_size, min
<1>4. v = after_giving(w, d, is, ch, out.fate)
  BY <1>3, <1>e DEF bytes_to_owner, after_giving, popped, read_from, received_with, reading,
                    bs_read, inbound_stream
<1>5. Wrote(dn, s, out, n)
  BY <1>1, <1>2, FdWrite
<1>6. /\ n \in Nat /\ n <= Len(s) /\ out.fate \in Fates
      /\ out.channel \in ChannelType(Byte) /\ out.channel.data = dn.data \o front(s, n)
      /\ Len(out.channel.data) <= SocketBuffer
  BY <1>5 DEF Wrote
<1>7. ch \in ChannelType(Byte) /\ ch.data = out.channel.data
  BY <1>6 DEF ChannelType, shutdown_wr
<1>d. /\ c = w.sock.tcp /\ dn = w.pair.down /\ d = read_from(c, n) /\ t = e.g \o dn.data
      /\ u = e.g \o ch.data /\ in = inbound_stream(c) /\ s = in.buff
  OBVIOUS
<1>8. u = read_too(t, c, n)
  <2>1. bs_read(in, n).data = front(s, n)
    BY <1>2, <1>6 DEF bs_read, peek_output, min, front
  <2>2. front(s, n) \in Seq(Byte)
    <3>. HIDE DEF s, n
    <3>. QED
      BY <1>2, <1>6, MoveBytes
  <2>. DEFINE g == e.g
              h == dn.data
              k == front(s, n)
  <2>3. g \in Seq(Byte) /\ h \in Seq(Byte) /\ k \in Seq(Byte) /\ u = g \o (h \o k) /\ t = g \o h
    BY <1>0, <1>1, <1>6, <1>7, <2>2
  <2>4. read_too(t, c, n) = t \o k
    BY <2>1 DEF read_too
  <2>. HIDE DEF g, h, k, u, t, c, n
  <2>5. (g \o h) \o k = g \o (h \o k)
    BY ONLY <2>3, Regrouped
  <2>. QED
    BY <2>3, <2>4, <2>5
<1>. HIDE DEF c, in, s, dn, out, n, rest, ch, d, t, u
<1>9. Between(Input, Reply, c, t, PeerISN, e.b.sender) /\ Steady(Input, Reply, c, t, PeerISN)
  BY <1>0, NetFacts
<1>10. /\ Called(Input, Reply, c, d, u, PeerISN, e.b.sender)
       /\ d.sender.last_ackno = c.sender.last_ackno
  <2>1. /\ Input \in Texts /\ Reply \in Texts /\ n \in Nat
        /\ Between(Input, Reply, c, t, PeerISN, e.b.sender)
        /\ u = read_too(t, c, n) /\ d = read_from(c, n)
    BY <1>6, <1>8, <1>9, <1>d, SocketTexts, ZenonT(40)
  <2>. QED
    BY ONLY <2>1, ReadCall
<1>11. Keeps(c, d) /\ d.segments_out = c.segments_out /\ d.sender = c.sender
       /\ d.isactive = c.isactive
  <2>1. /\ Input \in Texts /\ Reply \in Texts /\ n \in Nat
        /\ Steady(Input, Reply, c, t, PeerISN) /\ d = read_from(c, n)
    BY <1>6, <1>9, <1>d, SocketTexts, ZenonT(40)
  <2>. QED
    BY ONLY <2>1, ReadFrame
<1>12. Net(d, e.b, u, e.y, w.wire.rx, w.wire.tx)
  BY <1>0, <1>10, NetCalled DEF AckKept
<1>13. d \in ConnectionType(Byte)
  BY <1>12, NetFacts
<1>14. Served(w, v, d, w.sock.adapter, w.sock.outbound_shutdown, w.sock.eof, w.pair.up,
              ch, w.wire.rx, w.wire.tx, out.fate)
  <2>1. /\ w \in ThreadWorld /\ w.sock.adapter \in Adapters /\ w.pair.up \in ChannelType(Byte)
        /\ w.wire.rx \in Seq(Dgrams) /\ w.wire.tx \in Segs /\ w.sock.eof \in BOOLEAN
        /\ is \in BOOLEAN /\ w.sock.outbound_shutdown \in BOOLEAN /\ d \in ConnectionType(Byte)
        /\ ch \in ChannelType(Byte) /\ out.fate \in Fates /\ v = after_giving(w, d, is, ch, out.fate)
    BY <1>0, <1>4, <1>6, <1>7, <1>13, ThreadParts
  <2>. QED
    BY ONLY <2>1, ThreadUpdates
<1>15. /\ v \in ThreadWorld /\ v.sock.tcp = d /\ v.sock.adapter = w.sock.adapter
       /\ v.sock.outbound_shutdown = w.sock.outbound_shutdown /\ v.sock.eof = w.sock.eof
       /\ v.pair.up = w.pair.up /\ v.pair.down = ch
       /\ v.wire.rx = w.wire.rx /\ v.wire.tx = w.wire.tx
       /\ v.sock.loop = w.sock.loop /\ v.sock.phase = w.sock.phase /\ v.sock.abort = w.sock.abort
  BY <1>14 DEF Served
<1>16. UpOK(v, e) /\ Accounted(v, e) /\ Ends(v.sock)
  BY <1>0, <1>11, <1>15, <1>d DEF UpOK, Accounted, Account, Ends
<1>17. Bounded(v.pair)
  BY <1>0, <1>6, <1>7, <1>15 DEF Bounded
<1>18. Gives(v, e)
  <2>1. Trying(d) /\ (Failed(d, e.rs) => Failed(c, e.rs))
    BY <1>0, <1>11, <1>d, BehavesTrying DEF Gives, Keeps, Behaves, Failed
  <2>. QED
    BY <1>0, <1>11, <1>15, <1>d, <2>1, GivesOn
<1>19. Net(v.sock.tcp, e.b, e.g \o v.pair.down.data, e.y, v.wire.rx, v.wire.tx)
  BY <1>12, <1>15, <1>d
<1>. QED
  BY <1>0, <1>15, <1>16, <1>17, <1>18, <1>19 DEF ThreadInv, Unmoved

\* What is before and what is behind in a text of two parts.
Parts(p, z, x) ==
    /\ Len(x) = Len(p) + Len(z) /\ Len(p) \in Nat /\ Len(z) \in Nat
    /\ \A i \in 1 .. Len(p) : x[i] = p[i]
    /\ \A i \in 1 .. Len(z) : x[Len(p) + i] = z[i]

\* What is at each place of two sequences that are joined.
LEMMA TwoParts ==
    ASSUME NEW p \in Seq(Byte), NEW z \in Seq(Byte), NEW x, x = p \o z
    PROVE  Parts(p, z, x)
<1>1. Len(p) \in Nat /\ Len(z) \in Nat
  OBVIOUS
<1>2. /\ Len(x) = Len(p) + Len(z)
      /\ \A i \in 1 .. Len(p) + Len(z) :
            x[i] = IF i <= Len(p) THEN p[i] ELSE z[i - Len(p)]
  BY ConcatProperties
<1>3. ASSUME NEW i \in 1 .. Len(z) PROVE x[Len(p) + i] = z[i]
  <2>1. Len(p) + i \in 1 .. Len(p) + Len(z) /\ ~(Len(p) + i <= Len(p)) /\ (Len(p) + i) - Len(p) = i
    BY <1>1
  <2>. QED
    BY <1>2, <2>1
<1>4. ASSUME NEW i \in 1 .. Len(p) PROVE x[i] = p[i]
  <2>1. i \in 1 .. Len(p) + Len(z) /\ i <= Len(p)
    BY <1>1
  <2>. QED
    BY <1>2, <2>1
<1>. QED
  BY <1>1, <1>2, <1>3, <1>4 DEF Parts

\* A part of a text.
PartIs(x, m, n, y) == y \in Seq(Byte) /\ Len(y) = n /\ \A i \in 1 .. n : y[i] = x[m + i]

\* SubSeq gives it.
LEMMA PartOf ==
    ASSUME NEW x \in Seq(Byte), NEW m \in Nat, NEW n \in Nat, m + n <= Len(x),
           NEW y, y = next_bytes(x, m, n)
    PROVE  PartIs(x, m, n, y)
<1>1. y = SubSeq(x, m + 1, m + n)
  BY DEF next_bytes
<1>2. m + 1 \in Int /\ m + n \in Int /\ \A i \in (m + 1) .. (m + n) : x[i] \in Byte
  <2>1. \A i \in (m + 1) .. (m + n) : i \in 1 .. Len(x)
    OBVIOUS
  <2>. QED
    BY <2>1, ElementOfSeq
<1>3. /\ y \in Seq(Byte)
      /\ Len(y) = IF m + 1 <= m + n THEN (m + n) - (m + 1) + 1 ELSE 0
      /\ \A i \in 1 .. (m + n) - (m + 1) + 1 : y[i] = x[(m + 1) + i - 1]
  BY <1>1, <1>2, SubSeqProperties
<1>4. Len(y) = n /\ (m + n) - (m + 1) + 1 = n /\ \A i \in 1 .. n : (m + 1) + i - 1 = m + i
  BY <1>3
<1>. QED
  BY <1>3, <1>4 DEF PartIs

\* What stands in the middle of a text.
InMiddle(x, m, n, g) == m + n <= Len(x) /\ next_bytes(x, m, n) = g

\* It is found there.
LEMMA Middle ==
    ASSUME NEW p \in Seq(Byte), NEW g \in Seq(Byte), NEW k \in Seq(Byte), NEW x \in Seq(Byte),
           x = p \o (g \o k), NEW m, m = Len(p), NEW n, n = Len(g)
    PROVE  InMiddle(x, m, n, g)
<1>. DEFINE z == g \o k
<1>1. /\ z \in Seq(Byte) /\ Len(z) = n + Len(k) /\ \A i \in 1 .. n : z[i] = g[i]
  <2>1. Parts(g, k, z)
    BY ONLY g \in Seq(Byte), k \in Seq(Byte), TwoParts DEF z
  <2>2. z \in Seq(Byte)
    BY BytesJoined
  <2>. QED
    BY ONLY <2>1, <2>2, n = Len(g) DEF Parts
<1>2. x = p \o z
  OBVIOUS
<1>. HIDE DEF z
<1>3. Len(x) = m + Len(z) /\ \A i \in 1 .. Len(z) : x[m + i] = z[i]
  <2>1. Parts(p, z, x)
    BY ONLY p \in Seq(Byte), <1>1, <1>2, TwoParts
  <2>. QED
    BY ONLY <2>1, m = Len(p) DEF Parts
<1>4. m \in Nat /\ n \in Nat /\ Len(k) \in Nat
  BY ONLY p \in Seq(Byte), g \in Seq(Byte), k \in Seq(Byte), m = Len(p), n = Len(g)
<1>5. m + n <= Len(x)
  BY <1>1, <1>3, <1>4
<1>6. next_bytes(x, m, n) \in Seq(Byte) /\ Len(next_bytes(x, m, n)) = n
      /\ \A i \in 1 .. n : next_bytes(x, m, n)[i] = x[m + i]
  <2>1. PartIs(x, m, n, next_bytes(x, m, n))
    <3>. DEFINE y == next_bytes(x, m, n)
    <3>1. x \in Seq(Byte) /\ m \in Nat /\ n \in Nat /\ m + n <= Len(x) /\ y = next_bytes(x, m, n)
      BY <1>4, <1>5
    <3>. HIDE DEF y
    <3>2. PartIs(x, m, n, y)
      BY ONLY <3>1, PartOf
    <3>. QED
      BY <3>2 DEF y
  <2>. QED
    BY <2>1 DEF PartIs
<1>7. ASSUME NEW i \in 1 .. n PROVE next_bytes(x, m, n)[i] = g[i]
  <2>1. i \in 1 .. Len(z)
    BY ONLY <1>1, <1>4, i \in 1 .. n
  <2>. QED
    BY ONLY <1>1, <1>3, <1>6, <2>1, i \in 1 .. n
<1>8. next_bytes(x, m, n) = g
  BY ONLY <1>6, <1>7, g \in Seq(Byte), n = Len(g), SeqEqual
<1>. QED
  BY ONLY <1>5, <1>8 DEF InMiddle

\* What is taken from the channel are the bytes that come next.
LEMMA TakeBytes ==
    ASSUME NEW bw \in Nat, bw <= Len(Input), NEW up, NEW ch, up.data \in Seq(Byte),
           NEW o \in Seq(Byte), Account(bw, up, o),
           NEW n \in Nat, n <= Len(up.data), ch.data = behind(up.data, n)
    PROVE  /\ bw + n <= Len(Input) /\ front(up.data, n) = next_bytes(Input, bw, n)
           /\ Account(bw + n, ch, o)
           /\ up.data = << >> /\ o = << >> => bw = Len(Input)
<1>. DEFINE p == front(Input, bw)
            q == up.data
            g == front(q, n)
            h == behind(q, n)
            k == h \o o
<1>1. p \in Seq(Byte) /\ Len(p) = bw /\ q \in Seq(Byte) /\ Input \in Seq(Byte)
  BY SocketTexts, MoveBytes
<1>2. g \in Seq(Byte) /\ h \in Seq(Byte) /\ Len(g) = n
  BY MoveBytes
<1>3. (p \o g) \o h = p \o q
  BY ONLY <1>1, n \in Nat, n <= Len(up.data), MoveBytes, ZenonT(40)
<1>4. (p \o g) \o (h \o o) = p \o (q \o o)
  <2>1. g = front(q, n) /\ h = behind(q, n) /\ n <= Len(q)
    OBVIOUS
  <2>. HIDE DEF p, q, g, h
  <2>2. (p \o front(q, n)) \o (behind(q, n) \o o) = p \o (q \o o)
    <3>1. p \in Seq(Byte) /\ q \in Seq(Byte) /\ o \in Seq(Byte) /\ n \in Nat /\ n <= Len(q)
      BY <1>1, <2>1
    <3>. QED
      BY ONLY <3>1, Through, ZenonT(40)
  <2>. QED
    BY <2>1, <2>2
<1>5. k \in Seq(Byte) /\ q \o o \in Seq(Byte)
  BY <1>1, <1>2, BytesJoined
<1>6. (p \o q) \o o = Input
  BY DEF Account
<1>d. p = front(Input, bw) /\ q = up.data /\ g = front(q, n) /\ h = behind(q, n) /\ k = h \o o
  OBVIOUS
<1>. HIDE DEF p, q, g, h
<1>7. (p \o q) \o o = p \o (q \o o)
  BY <1>1, Regrouped, ZenonT(40)
<1>11. Input = (p \o g) \o k
  BY <1>4, <1>6, <1>7, <1>d
<1>12. (p \o g) \o k = p \o (g \o k)
  <2>1. p \in Seq(Byte) /\ g \in Seq(Byte) /\ k \in Seq(Byte)
    BY <1>1, <1>2, <1>5
  <2>. HIDE DEF k
  <2>. QED
    BY ONLY <2>1, Regrouped
<1>13. Input = p \o (g \o k)
  BY ONLY <1>11, <1>12
<1>14. bw + n <= Len(Input) /\ next_bytes(Input, bw, n) = g
  <2>1. p \in Seq(Byte) /\ g \in Seq(Byte) /\ k \in Seq(Byte) /\ Input \in Seq(Byte)
        /\ bw = Len(p) /\ n = Len(g)
    BY <1>1, <1>2, <1>5
  <2>. HIDE DEF k
  <2>2. InMiddle(Input, bw, n, g)
    BY ONLY <2>1, <1>13, Middle
  <2>. QED
    BY ONLY <2>2 DEF InMiddle
<1>15. front(Input, bw + n) = p \o g
  <2>1. 1 \in 1 .. Len(Input) + 1 /\ bw \in 1 - 1 .. Len(Input) /\ bw + n \in bw .. Len(Input)
    BY <1>14, <1>1
  <2>2. SubSeq(Input, 1, bw) \o SubSeq(Input, bw + 1, bw + n) = SubSeq(Input, 1, bw + n)
    BY ONLY <2>1, <1>1, ConcatAdjacentSubSeq
  <2>. QED
    BY <2>2, <1>14, <1>d DEF front, next_bytes
<1>16. front(Input, bw + n) \o ch.data \o o = Input
  BY <1>15, <1>3, <1>6, <1>d
<1>17. ASSUME up.data = << >>, o = << >> PROVE bw = Len(Input)
  <2>1. Len(q) = 0 /\ Len(o) = 0 /\ Len((p \o q) \o o) = Len(p \o q) + Len(o)
    <3>. DEFINE z == p \o q
    <3>1. z \in Seq(Byte)
      BY <1>1, BytesJoined
    <3>. HIDE DEF z
    <3>2. Len(z \o o) = Len(z) + Len(o)
      BY <3>1, BytesJoined
    <3>. QED
      BY <3>2, <1>17, <1>d DEF z
  <2>2. Len(p \o q) = Len(p) + Len(q)
    BY <1>1, BytesJoined
  <2>. QED
    BY <1>1, <1>6, <2>1, <2>2
<1>. QED
  BY <1>14, <1>16, <1>17, <1>d DEF Account

\* Rule 2 writes to the connection what the owner wrote, and ends its stream.
LEMMA ThreadTakes ==
    ASSUME NEW w, NEW e, ThreadInv(w, e), Looping(w), w.fate = "alive",
           ~w.sock.outbound_shutdown, readable(w.pair.up), NEW v, v = bytes_from_owner(w)
    PROVE  ThreadInv(v, e) /\ Unmoved(w, v)
<1>. DEFINE c == w.sock.tcp
            o == c.sender.stream
            bw == o.bytes_w
            up == w.pair.up
            limit == remaining_capacity(o)
            got == fd_read(up, limit)
            data == got.data
            ch == got.channel
            x == write(c, data)
            f == IF amount_written(c, data) # Len(data) THEN "threw" ELSE got.fate
            t == e.g \o w.pair.down.data
<1>e. PICK ef \in BOOLEAN : ef = (w.sock.eof \/ got.eof)
  OBVIOUS
<1>f. PICK os \in BOOLEAN : os = (w.sock.outbound_shutdown \/ (w.sock.eof \/ got.eof))
  OBVIOUS
<1>. DEFINE d == ended_if(ef, x)
<1>0. /\ w \in ThreadWorld /\ Net(c, e.b, t, e.y, w.wire.rx, w.wire.tx) /\ UpOK(w, e)
      /\ Accounted(w, e) /\ Ends(w.sock) /\ Strange(w.wire.rx, e.rs) /\ Gives(w, e)
      /\ Bounded(w.pair) /\ e.g \in Seq(Byte) /\ e.o \in Seq(Byte)
  BY ThreadFacts
<1>1. v = after_taking(w, d, os, ef, ch, f)
  BY <1>e, <1>f DEF bytes_from_owner, after_taking
<1>2. /\ Between(Input, Reply, c, t, PeerISN, e.b.sender) /\ Steady(Input, Reply, c, t, PeerISN)
      /\ c \in ConnectionType(Byte)
  BY <1>0, NetFacts
<1>3. /\ o \in ByteStreamType(Byte) /\ bw \in Nat /\ bw <= Len(Input) /\ limit \in Nat
  <2>1. Idle(Input, c.sender)
    BY <1>2 DEF Steady
  <2>. QED
    BY <2>1, SocketTexts, OutFacts
<1>4. up \in ChannelType(Byte) /\ up.data \in Seq(Byte) /\ up.shut \in BOOLEAN
  BY <1>0, ThreadParts
<1>5. PICK n \in Nat : WasRead(up, limit, got, n)
  BY <1>3, <1>4, FdRead
<1>6. /\ n <= Len(up.data) /\ n <= limit /\ data = front(up.data, n)
      /\ got.fate \in Fates /\ got.eof \in BOOLEAN /\ (got.eof => n = 0 /\ up.data = << >>)
      /\ ch \in ChannelType(Byte) /\ ch.shut = up.shut /\ ch.data = behind(up.data, n)
  BY <1>5 DEF WasRead
<1>d. /\ c = w.sock.tcp /\ o = c.sender.stream /\ bw = c.sender.stream.bytes_w /\ up = w.pair.up
      /\ limit = remaining_capacity(c.sender.stream) /\ x = write(c, data) /\ d = ended_if(ef, x)
      /\ f = (IF amount_written(c, data) # Len(data) THEN "threw" ELSE got.fate)
      /\ t = e.g \o w.pair.down.data
  OBVIOUS
<1>. HIDE DEF c, o, bw, up, limit, got, data, ch, x, f, t, d
<1>7. Account(bw, up, e.o)
  BY <1>0, <1>d DEF Accounted
<1>8. /\ bw + n <= Len(Input) /\ front(up.data, n) = next_bytes(Input, bw, n)
      /\ Account(bw + n, ch, e.o)
      /\ up.data = << >> /\ e.o = << >> => bw = Len(Input)
  BY <1>0, <1>3, <1>4, <1>6, <1>7, TakeBytes
<1>9. ~c.sender.stream.end_input /\ ~w.sock.eof
  BY <1>0, <1>d DEF Ends
<1>10. (ef <=> got.eof) /\ (os <=> ef)
  BY <1>e, <1>f, <1>9
<1>11. /\ c.sender.stream.bytes_w + n <= Len(Input)
       /\ data = next_bytes(Input, c.sender.stream.bytes_w, n)
       /\ n <= remaining_capacity(c.sender.stream)
  BY <1>6, <1>8, <1>d
<1>12. /\ Behaves(c, x) /\ ~x.sender.stream.end_input
       /\ c.isactive => x.sender.stream.bytes_w = bw + n
       /\ ~c.isactive => x = c
       /\ amount_written(c, data) = IF c.isactive THEN n ELSE 0
       /\ Len(data) = n
  <2>1. AllWritten(c, x, data, n)
    BY <1>2, <1>9, <1>11, <1>d, SocketTexts, WriteFrame
  <2>. QED
    BY ONLY <1>9, <1>d, <2>1 DEF AllWritten
<1>13. Called(Input, Reply, c, x, t, PeerISN, e.b.sender) /\ x.sender.last_ackno = c.sender.last_ackno
  <2>1. /\ Input \in Texts /\ Reply \in Texts /\ n \in Nat
        /\ Between(Input, Reply, c, t, PeerISN, e.b.sender) /\ ~c.sender.stream.end_input
        /\ c.sender.stream.bytes_w + n <= Len(Input)
        /\ data = next_bytes(Input, c.sender.stream.bytes_w, n) /\ x = write(c, data)
    BY <1>2, <1>9, <1>11, <1>d, SocketTexts, ZenonT(40)
  <2>. QED
    BY ONLY <2>1, WriteNextCall
<1>14. Net(x, e.b, t, e.y, w.wire.rx, w.wire.tx)
  BY <1>0, <1>13, NetCalled DEF AckKept
<1>15. f = "alive" => x.sender.stream.bytes_w = bw + n
  BY <1>3, <1>12, <1>d
<1>16. /\ Net(d, e.b, t, e.y, w.wire.rx, w.wire.tx) /\ Behaves(x, d)
       /\ d.sender.stream.bytes_w = x.sender.stream.bytes_w /\ (d.sender.stream.end_input <=> ef)
       /\ Loud(x.segments_out) => Loud(d.segments_out)
  <2>1. CASE ~ef
    <3>1. d = x
      BY <2>1, <1>d DEF ended_if
    <3>. QED
      BY <2>1, <3>1, <1>12, <1>14 DEF Behaves
  <2>2. CASE ef
    <3>1. d = end_input_stream(x)
      BY <2>2, <1>d DEF ended_if
    <3>2. n = 0 /\ up.data = << >>
      BY <2>2, <1>6, <1>10
    <3>3. e.o = << >>
      <4>1. up.shut
        BY <3>2, <1>d DEF readable
      <4>. QED
        BY <1>0, <1>d, <4>1 DEF UpOK, Looping
    <3>4. x.sender.stream.bytes_w = Len(Input)
      <4>1. bw = Len(Input) /\ bw + n = bw
        BY ONLY <1>3, <1>8, <3>2, <3>3
      <4>2. bw = c.sender.stream.bytes_w
        BY <1>d
      <4>. QED
        BY ONLY <1>12, <4>1, <4>2
    <3>5. Between(Input, Reply, x, t, PeerISN, e.b.sender) /\ Steady(Input, Reply, x, t, PeerISN)
          /\ x \in ConnectionType(Byte)
      BY <1>14, NetFacts
    <3>6. /\ Called(Input, Reply, x, d, t, PeerISN, e.b.sender)
          /\ d.sender.last_ackno = x.sender.last_ackno
      BY <3>1, <3>4, <3>5, SocketTexts, EndCall
    <3>7. /\ Behaves(x, d) /\ d.sender.stream.end_input
          /\ d.sender.stream.bytes_w = x.sender.stream.bytes_w
      BY <3>1, <3>4, <3>5, SocketTexts, EndFrame
    <3>8. Net(d, e.b, t, e.y, w.wire.rx, w.wire.tx)
      BY <1>14, <3>6, NetCalled DEF AckKept
    <3>9. Loud(x.segments_out) => Loud(d.segments_out)
      BY <3>5, <3>6, CallLoud
    <3>. QED
      BY <2>2, <3>7, <3>8, <3>9
  <2>. QED
    BY <2>1, <2>2
<1>17. d \in ConnectionType(Byte) /\ f \in Fates
  <2>1. d \in ConnectionType(Byte)
    BY <1>16, NetFacts
  <2>. QED
    BY <2>1, <1>6, <1>d DEF Fates
<1>18. Served(w, v, d, w.sock.adapter, os, ef, ch, w.pair.down, w.wire.rx, w.wire.tx, f)
  <2>1. /\ w \in ThreadWorld /\ w.sock.adapter \in Adapters /\ w.pair.down \in ChannelType(Byte)
        /\ w.wire.rx \in Seq(Dgrams) /\ w.wire.tx \in Segs /\ ef \in BOOLEAN
        /\ os \in BOOLEAN /\ d \in ConnectionType(Byte)
        /\ ch \in ChannelType(Byte) /\ f \in Fates /\ v = after_taking(w, d, os, ef, ch, f)
    BY <1>0, <1>1, <1>6, <1>17, ThreadParts
  <2>. QED
    BY ONLY <2>1, ThreadUpdates
<1>19. /\ v \in ThreadWorld /\ v.sock.tcp = d /\ v.sock.adapter = w.sock.adapter
       /\ v.sock.outbound_shutdown = os /\ v.sock.eof = ef
       /\ v.pair.up = ch /\ v.pair.down = w.pair.down
       /\ v.wire.rx = w.wire.rx /\ v.wire.tx = w.wire.tx /\ v.fate = f
       /\ v.sock.loop = w.sock.loop /\ v.sock.phase = w.sock.phase /\ v.sock.abort = w.sock.abort
  BY <1>18 DEF Served
<1>20. UpOK(v, e)
  BY <1>0, <1>6, <1>19, <1>d DEF UpOK
<1>21. Accounted(v, e)
  <2>1. f = "alive" => d.sender.stream.bytes_w = bw + n
    BY <1>15, <1>16
  <2>. QED
    BY <1>8, <1>19, <2>1 DEF Accounted
<1>22. Ends(v.sock)
  BY <1>0, <1>10, <1>16, <1>19 DEF Ends
<1>23. Bounded(v.pair)
  <2>1. Len(behind(up.data, n)) = Len(up.data) - n
    <3>1. up.data \in Seq(Byte) /\ n \in Nat /\ n <= Len(up.data) /\ << >> \in Seq(Byte)
      BY <1>4, <1>6
    <3>. QED
      BY ONLY <3>1, MoveBytes
  <2>2. Len(up.data) \in Nat /\ Len(up.data) <= SocketBuffer
    BY <1>0, <1>4, <1>d DEF Bounded
  <2>3. Len(ch.data) <= SocketBuffer
    BY <1>6, <2>1, <2>2, SocketBufferAssumption
  <2>. QED
    BY <1>0, <1>19, <2>3 DEF Bounded
<1>24. Gives(v, e)
  <2>1. Trying(d)
    BY <1>0, <1>12, <1>16, <1>d, BehavesTrying DEF Gives
  <2>2. Failed(d, e.rs) => Failed(c, e.rs)
    BY <1>12, <1>16 DEF Behaves, Failed
  <2>3. Loud(c.segments_out) => Loud(d.segments_out)
    BY <1>2, <1>13, <1>16, CallLoud
  <2>. QED
    BY <1>0, <1>19, <1>d, <2>1, <2>2, <2>3, GivesOn
<1>25. Net(v.sock.tcp, e.b, e.g \o v.pair.down.data, e.y, v.wire.rx, v.wire.tx)
  BY <1>16, <1>19, <1>d
<1>. QED
  BY <1>0, <1>6, <1>19, <1>20, <1>21, <1>22, <1>23, <1>24, <1>25, <1>d DEF ThreadInv, Unmoved

\* A turn of the loop that leaves the connection and the phase.
LEMMA TurnKept ==
    ASSUME NEW w, NEW e, ThreadInv(w, e), NEW l, NEW f, NEW v,
           Turned(w, v, w.sock.tcp, l, w.sock.phase, f),
           l.hangups \subseteq {3}, {1, 4} \subseteq l.rules, f = "alive" => w.fate = "alive"
    PROVE  ThreadInv(v, e)
<1>0. /\ w \in ThreadWorld
      /\ Net(w.sock.tcp, e.b, e.g \o w.pair.down.data, e.y, w.wire.rx, w.wire.tx)
      /\ UpOK(w, e) /\ Accounted(w, e) /\ Ends(w.sock) /\ Strange(w.wire.rx, e.rs)
      /\ Gives(w, e) /\ Bounded(w.pair) /\ e.g \in Seq(Byte) /\ e.o \in Seq(Byte)
  BY ThreadFacts
<1>1. /\ v \in ThreadWorld /\ v.sock.tcp = w.sock.tcp /\ v.sock.loop = l
      /\ v.sock.phase = w.sock.phase /\ v.fate = f
      /\ v.sock.adapter = w.sock.adapter /\ v.sock.outbound_shutdown = w.sock.outbound_shutdown
      /\ v.sock.eof = w.sock.eof /\ v.sock.abort = w.sock.abort /\ v.pair = w.pair
      /\ v.wire = w.wire
  BY DEF Turned
<1>2. UpOK(v, e) /\ Accounted(v, e)
  BY <1>0, <1>1 DEF UpOK, Accounted
<1>3. Ends(v.sock)
  BY <1>0, <1>1 DEF Ends
<1>4. Gives(v, e)
  BY <1>0, <1>1 DEF Gives
<1>5. Net(v.sock.tcp, e.b, e.g \o v.pair.down.data, e.y, v.wire.rx, v.wire.tx)
  BY <1>0, <1>1
<1>. QED
  BY <1>0, <1>1, <1>2, <1>3, <1>4, <1>5 DEF ThreadInv

\* One of the results of poll.
LEMMA ThreadServed ==
    ASSUME NEW w, NEW e, ThreadInv(w, e), Looping(w), w.fate = "alive", Results(w),
           reported(w.sock.loop) # {},
           NEW v, v = serviced(w, TcpLoop!service(w, w.sock.loop))
    PROVE  /\ ThreadInv(v, e) /\ Results(v) /\ v.sock.phase = w.sock.phase
           /\ v.sock.abort = w.sock.abort /\ v.pair.up.shut = w.pair.up.shut
<1>. DEFINE lp == w.sock.loop
            r == this_rule(lp)
            done == TcpLoop!service(w, lp)
            x == done.w
            l == done.loop
<1>0. w \in ThreadWorld /\ Ends(w.sock)
  BY ThreadFacts
<1>1. lp \in EventLoopType(4)
  BY <1>0, ThreadParts
<1>2. r \in reported(lp) /\ r \in 1 .. 4 /\ \A s \in reported(lp) : r <= s
  BY <1>1, ThisRule
<1>3. TcpLoop!this_rule(lp) = r
  BY DEF TcpLoop!this_rule, TcpLoop!reported, this_rule, reported
<1>4. \/ r \in lp.hangups /\ x = socket_cancel(w, r) /\ l = loop_hung(lp, r)
      \/ r \notin lp.hangups /\ x = socket_callback(w, r) /\ l = loop_called(lp, r)
  BY <1>3 DEF TcpLoop!service, loop_hung, loop_called
<1>5. lp.hangups \subseteq {3} /\ {1, 4} \subseteq lp.rules
  BY <1>0 DEF Ends
<1>6. PICK f : f \in {x.fate, "threw"} /\ v = set_results(x, l, f)
  <2>1. v = set_results(x, l, IF r \in lp.ready /\ TcpLoop!busy_wait(x, r, serves(w, r))
                              THEN "threw" ELSE x.fate)
    BY DEF serviced, set_results
  <2>. QED
    BY <2>1
<1>d. lp = w.sock.loop
  OBVIOUS
<1>7. l \in EventLoopType(4)
  BY <1>1, <1>4, LoopFields
<1>. HIDE DEF lp, r, x, l, done
<1>8. /\ l.hangups \subseteq {3} /\ {1, 4} \subseteq l.rules
      /\ 1 \notin l.ready /\ (2 \in l.ready => r = 1 /\ 2 \in lp.ready)
  <2>1. CASE r \in lp.hangups /\ l = loop_hung(lp, r)
    <3>1. r = 3
      BY <2>1, <1>5
    <3>2. 1 \notin lp.ready /\ 2 \notin lp.ready
      BY <1>2, <3>1 DEF reported
    <3>3. l.rules = lp.rules \ {r} /\ l.ready = lp.ready /\ l.hangups = lp.hangups \ {r}
      BY <2>1, <1>1, LoopFields
    <3>. QED
      BY <1>5, <3>1, <3>2, <3>3
  <2>2. CASE r \notin lp.hangups /\ l = loop_called(lp, r)
    <3>1. l.rules = lp.rules /\ l.ready = lp.ready \ {r} /\ l.hangups = lp.hangups
      BY <2>2, <1>1, LoopFields
    <3>2. 1 \in lp.ready => r = 1
      <4>1. 1 \in lp.ready => r <= 1
        BY <1>2 DEF reported
      <4>. QED
        BY <4>1, <1>2
    <3>3. 2 \in lp.ready /\ r # 2 => r = 1
      <4>1. 2 \in lp.ready => r <= 2
        BY <1>2 DEF reported
      <4>. QED
        BY <4>1, <1>2
    <3>. QED
      BY <1>5, <3>1, <3>2, <3>3
  <2>. QED
    BY <1>4, <2>1, <2>2
<1>9. /\ ThreadInv(x, e) /\ Unmoved(w, x)
      /\ r = 1 => x.pair = w.pair /\ x.sock.outbound_shutdown = w.sock.outbound_shutdown
  <2>1. CASE r \in lp.hangups /\ x = socket_cancel(w, r)
    <3>1. r = 3
      BY <2>1, <1>5
    <3>2. x = w
      BY <2>1, <3>1 DEF socket_cancel
    <3>. QED
      BY <3>2 DEF Unmoved
  <2>2. CASE r \notin lp.hangups /\ x = socket_callback(w, r)
    <3>1. r \in lp.ready
      BY <2>2, <1>2 DEF reported
    <3>2. CASE r = 1
      <4>1. x = datagram_in(w) /\ w.wire.rx # << >>
        BY <2>2, <3>1, <3>2, <1>d DEF socket_callback, Results
      <4>. QED
        BY <4>1, ThreadReceives DEF Unmoved
    <3>3. CASE r = 2
      <4>1. x = bytes_from_owner(w) /\ ~w.sock.outbound_shutdown /\ readable(w.pair.up)
        BY <2>2, <3>1, <3>3, <1>d DEF socket_callback, Results
      <4>. QED
        BY <4>1, <3>3, ThreadTakes
    <3>4. CASE r = 3
      <4>1. x = bytes_to_owner(w)
        BY <2>2, <3>4 DEF socket_callback
      <4>. QED
        BY <4>1, <3>4, ThreadGives
    <3>5. CASE r = 4
      <4>1. x = datagrams_out(w)
        BY <2>2, <3>5 DEF socket_callback
      <4>. QED
        BY <4>1, <3>5, ThreadSends
    <3>. QED
      BY <1>2, <3>2, <3>3, <3>4, <3>5
  <2>. QED
    BY <1>4, <2>1, <2>2
<1>10. x \in ThreadWorld
  BY <1>9, ThreadFacts
<1>11. f \in Fates
  BY <1>6, <1>10, ThreadParts DEF Fates
<1>12. Turned(x, v, x.sock.tcp, l, x.sock.phase, f)
  BY <1>6, <1>7, <1>10, <1>11, ThreadParts, ThreadTurns
<1>13. ThreadInv(v, e)
  BY <1>6, <1>8, <1>9, <1>12, TurnKept
<1>14. /\ v.sock.phase = x.sock.phase /\ v.sock.abort = x.sock.abort /\ v.pair = x.pair
       /\ v.sock.loop = l /\ v.sock.outbound_shutdown = x.sock.outbound_shutdown
  BY <1>12 DEF Turned
<1>15. Results(v)
  BY <1>8, <1>9, <1>14, <1>d DEF Results
<1>. QED
  BY <1>9, <1>13, <1>14, <1>15 DEF Unmoved

\* What the end of a turn leaves alone, and where it goes from there.
GoesFrom(w, v) ==
    \/ v.sock.phase = w.sock.phase
    \/ v.sock.phase = "main" /\ w.sock.phase \in {"connect", "listen"}
    \/ v.sock.phase = "leaving" /\ w.sock.phase = "main"
TurnOver(w, v) ==
    /\ v.pair = w.pair /\ v.wire = w.wire /\ v.sock.loop = w.sock.loop /\ v.fate = w.fate
    /\ v.sock.outbound_shutdown = w.sock.outbound_shutdown /\ v.sock.abort = w.sock.abort
    /\ GoesFrom(w, v)

\* The loop is left.
LEMMA ThreadLeaves ==
    ASSUME NEW w, NEW e, ThreadInv(w, e), Looping(w),
           w.sock.abort \/ w.sock.phase # "main"
             \/ (~w.sock.tcp.isactive /\ w.sock.tcp.segments_out = << >>),
           NEW v, v = leave_loop(w)
    PROVE  ThreadInv(v, e) /\ TurnOver(w, v)
<1>0. /\ w \in ThreadWorld
      /\ Net(w.sock.tcp, e.b, e.g \o w.pair.down.data, e.y, w.wire.rx, w.wire.tx)
      /\ UpOK(w, e) /\ Accounted(w, e) /\ Ends(w.sock) /\ Strange(w.wire.rx, e.rs)
      /\ Gives(w, e) /\ Bounded(w.pair) /\ e.g \in Seq(Byte) /\ e.o \in Seq(Byte)
  BY ThreadFacts
<1>. DEFINE h == IF w.sock.phase = "main" THEN "leaving" ELSE "main"
<1>1. v = set_phase(w, h)
  BY DEF leave_loop, set_phase
<1>2. /\ h \in {"main", "leaving"} /\ (h = "leaving" <=> w.sock.phase = "main")
      /\ w.sock.phase \in {"connect", "listen", "main"} /\ h \in Phases
  BY DEF Looping, Phases
<1>. HIDE DEF h
<1>3. Turned(w, v, w.sock.tcp, w.sock.loop, h, w.fate)
  BY <1>0, <1>1, <1>2, ThreadParts, ThreadTurns
<1>4. /\ v \in ThreadWorld /\ v.sock.tcp = w.sock.tcp /\ v.sock.loop = w.sock.loop
      /\ v.sock.phase = h /\ v.fate = w.fate
      /\ v.sock.adapter = w.sock.adapter /\ v.sock.outbound_shutdown = w.sock.outbound_shutdown
      /\ v.sock.eof = w.sock.eof /\ v.sock.abort = w.sock.abort /\ v.pair = w.pair
      /\ v.wire = w.wire
  BY <1>3 DEF Turned
<1>5. UpOK(v, e) /\ Accounted(v, e)
  BY <1>0, <1>2, <1>4 DEF UpOK, Accounted
<1>6. Ends(v.sock)
  BY <1>0, <1>4 DEF Ends
<1>7. Gives(v, e)
  <2>1. Failed(w.sock.tcp, e.rs) => Loud(w.sock.tcp.segments_out) \/ Loud(w.wire.tx) \/ e.told
    BY <1>0, <1>2 DEF Gives
  <2>2. Trying(w.sock.tcp)
    BY <1>0 DEF Gives
  <2>. QED
    BY <1>2, <1>4, <2>1, <2>2 DEF Gives
<1>8. Net(v.sock.tcp, e.b, e.g \o v.pair.down.data, e.y, v.wire.rx, v.wire.tx)
  BY <1>0, <1>4
<1>9. ThreadInv(v, e)
  BY <1>0, <1>4, <1>5, <1>6, <1>7, <1>8 DEF ThreadInv
<1>. QED
  BY <1>2, <1>4, <1>9 DEF TurnOver, GoesFrom

\* The connection is told the time.
LEMMA ThreadTicks ==
    ASSUME NEW w, NEW e, ThreadInv(w, e), Looping(w), NEW ms \in Nat,
           NEW d, d = (IF w.sock.tcp.isactive THEN ticked(w.sock.tcp, ms) ELSE w.sock.tcp),
           NEW v, v = set_tcp(w, d)
    PROVE  ThreadInv(v, e) /\ TurnOver(w, v) /\ v.sock.phase = w.sock.phase
<1>. DEFINE c == w.sock.tcp
            t == e.g \o w.pair.down.data
            x == tick(c, ms)
            m == min(x.time_since_last_segment_received, MaxTime)
<1>0. /\ w \in ThreadWorld /\ Net(c, e.b, t, e.y, w.wire.rx, w.wire.tx) /\ UpOK(w, e)
      /\ Accounted(w, e) /\ Ends(w.sock) /\ Strange(w.wire.rx, e.rs) /\ Gives(w, e)
      /\ Bounded(w.pair) /\ e.g \in Seq(Byte) /\ e.o \in Seq(Byte)
  BY ThreadFacts
<1>1. c.isactive => d = at_time(x, m)
  BY DEF ticked, at_time
<1>2. ~c.isactive => d = c
  OBVIOUS
<1>d. c = w.sock.tcp /\ x = tick(c, ms) /\ t = e.g \o w.pair.down.data
      /\ m = min(x.time_since_last_segment_received, MaxTime)
  OBVIOUS
<1>. HIDE DEF c, t, x, m
<1>3. /\ Between(Input, Reply, c, t, PeerISN, e.b.sender) /\ End(Input, Reply, c, t, PeerISN)
      /\ c \in ConnectionType(Byte)
  BY <1>0, NetFacts
<1>4. Trying(c)
  BY <1>0, <1>d DEF Gives
<1>5. /\ Net(d, e.b, t, e.y, w.wire.rx, w.wire.tx) /\ SameInput(c.sender, d.sender) /\ Trying(d)
      /\ Failed(d, e.rs) => Failed(c, e.rs) \/ Loud(d.segments_out)
      /\ Loud(c.segments_out) => Loud(d.segments_out)
  <2>1. CASE ~c.isactive
    BY <2>1, <1>0, <1>2, <1>4 DEF SameInput
  <2>2. CASE c.isactive
    <3>1. /\ Called(Input, Reply, c, x, t, PeerISN, e.b.sender)
          /\ x.sender.last_ackno = c.sender.last_ackno
      BY <1>3, <1>d, SocketTexts, TickCall
    <3>2. /\ SameInput(c.sender, x.sender) /\ Trying(x)
          /\ inbound_stream(x).error => inbound_stream(c).error \/ Loud(x.segments_out)
      BY <1>3, <1>4, <1>d, SocketTexts, TickFrame
    <3>3. x \in ConnectionType(Byte)
      BY <3>1 DEF Called, End, Steady
    <3>4. m \in Nat
      <4>1. x.time_since_last_segment_received \in Nat /\ MaxTime \in Nat
        BY <3>3, SocketAssumption DEF ConnectionType
      <4>. QED
        BY <4>1, <1>d DEF min
    <3>5. Like(x, d) /\ d.segments_out = x.segments_out
      BY <1>1, <2>2, <3>3, <3>4, LikeFields
    <3>6. Net(d, e.b, t, e.y, w.wire.rx, w.wire.tx)
      BY <1>0, <3>1, <3>5, NetCall DEF AckKept
    <3>7. d.sender = x.sender /\ d.isactive = x.isactive /\ inbound_stream(d) = inbound_stream(x)
      BY <3>5 DEF Like, Around, inbound_stream
    <3>8. Loud(c.segments_out) => Loud(x.segments_out)
      BY <1>3, <3>1, CallLoud
    <3>9. Trying(d)
      BY <3>2, <3>7 DEF Trying
    <3>10. Failed(d, e.rs) => Failed(c, e.rs) \/ Loud(d.segments_out)
      BY <3>2, <3>5, <3>7 DEF Failed
    <3>. QED
      BY <3>2, <3>5, <3>6, <3>7, <3>8, <3>9, <3>10
  <2>. QED
    BY <2>1, <2>2
<1>6. d \in ConnectionType(Byte)
  BY <1>5, NetFacts
<1>7. Turned(w, v, d, w.sock.loop, w.sock.phase, w.fate)
  BY <1>0, <1>6, ThreadParts, ThreadTurns
<1>8. /\ v \in ThreadWorld /\ v.sock.tcp = d /\ v.sock.loop = w.sock.loop
      /\ v.sock.phase = w.sock.phase /\ v.fate = w.fate
      /\ v.sock.adapter = w.sock.adapter /\ v.sock.outbound_shutdown = w.sock.outbound_shutdown
      /\ v.sock.eof = w.sock.eof /\ v.sock.abort = w.sock.abort /\ v.pair = w.pair
      /\ v.wire = w.wire
  BY <1>7 DEF Turned
<1>9. UpOK(v, e) /\ Accounted(v, e)
  BY <1>0, <1>5, <1>8, <1>d DEF UpOK, Accounted, SameInput
<1>10. Ends(v.sock)
  BY <1>0, <1>5, <1>8, <1>d DEF Ends, SameInput
<1>11. Gives(v, e)
  <2>1. /\ Gives(w, e) /\ c = w.sock.tcp /\ d = v.sock.tcp /\ v.sock.phase = w.sock.phase
        /\ v.sock.abort = w.sock.abort
    BY <1>0, <1>8, <1>d
  <2>2. /\ Trying(d) /\ (Failed(d, e.rs) => Failed(c, e.rs) \/ Loud(d.segments_out))
        /\ (Loud(c.segments_out) => Loud(d.segments_out) \/ Loud(v.wire.tx))
        /\ (Loud(w.wire.tx) => Loud(v.wire.tx))
    BY <1>5, <1>8
  <2>. QED
    BY ONLY <2>1, <2>2, Looping(w), GivesOn
<1>12. Net(v.sock.tcp, e.b, e.g \o v.pair.down.data, e.y, v.wire.rx, v.wire.tx)
  BY <1>5, <1>8, <1>d
<1>13. ThreadInv(v, e)
  BY <1>0, <1>8, <1>9, <1>10, <1>11, <1>12 DEF ThreadInv
<1>. QED
  BY <1>8, <1>13 DEF TurnOver, GoesFrom

\* A turn is over.
LEMMA ThreadTurnEnds ==
    ASSUME NEW w, NEW e, ThreadInv(w, e), Looping(w), NEW ms \in Nat, NEW ex \in BOOLEAN,
           ex => ~w.sock.tcp.isactive /\ w.sock.tcp.segments_out = << >>,
           NEW v, v = after_turn(w, ex, ms)
    PROVE  ThreadInv(v, e) /\ TurnOver(w, v)
<1>. DEFINE d == IF w.sock.tcp.isactive THEN ticked(w.sock.tcp, ms) ELSE w.sock.tcp
            x == set_tcp(w, d)
<1>1. CASE ex \/ w.sock.abort
  <2>1. v = leave_loop(w)
    BY <1>1 DEF after_turn, ends_loop
  <2>. QED
    BY <1>1, <2>1, ThreadLeaves
<1>2. CASE ~(ex \/ w.sock.abort)
  <2>1. v = back_to_top(x)
    BY <1>2 DEF after_turn, ends_loop, set_tcp
  <2>2. ThreadInv(x, e) /\ TurnOver(w, x) /\ x.sock.phase = w.sock.phase
    BY ThreadTicks
  <2>. HIDE DEF d, x
  <2>3. CASE v = x
    BY <2>2, <2>3
  <2>4. CASE ~condition(x.sock) /\ v = leave_loop(x)
    <3>1. x.sock.phase # "main"
      BY <2>4 DEF condition
    <3>2. ThreadInv(v, e) /\ TurnOver(x, v)
      BY <2>2, <2>4, <3>1, ThreadLeaves DEF Looping
    <3>. QED
      BY <2>2, <3>2 DEF TurnOver, GoesFrom
  <2>. QED
    BY <2>1, <2>3, <2>4 DEF back_to_top
<1>. QED
  BY <1>1, <1>2

\* A step of the thread from w to v, which may be in the middle of the results of poll.
Serving(w, v, e) ==
    /\ ThreadInv(v, e) /\ Results(v) /\ GoesFrom(w, v)
    /\ v.sock.abort = w.sock.abort /\ v.pair.up.shut = w.pair.up.shut
    /\ reported(v.sock.loop) # {} => v.sock.phase = w.sock.phase

\* A result, and the end of the turn if it is the last.
LEMMA ThreadServes ==
    ASSUME NEW w, NEW e, ThreadInv(w, e), Looping(w), w.fate = "alive", Results(w),
           reported(w.sock.loop) # {}, NEW v, v = serve(w)
    PROVE  Serving(w, v, e)
<1>. DEFINE x == serviced(w, TcpLoop!service(w, w.sock.loop))
<1>1. v = end_of_turn(x)
  BY DEF serve
<1>2. /\ ThreadInv(x, e) /\ Results(x) /\ x.sock.phase = w.sock.phase
      /\ x.sock.abort = w.sock.abort /\ x.pair.up.shut = w.pair.up.shut
  BY ThreadServed
<1>. HIDE DEF x
<1>3. CASE reported(x.sock.loop) # {}
  <2>1. v = x
    BY <1>1, <1>3 DEF end_of_turn
  <2>. QED
    BY <1>2, <2>1 DEF Serving, GoesFrom
<1>4. CASE reported(x.sock.loop) = {}
  <2>1. v = after_turn(x, FALSE, 0)
    BY <1>1, <1>4 DEF end_of_turn
  <2>2. ThreadInv(v, e) /\ TurnOver(x, v)
    <3>1. Looping(x) /\ 0 \in Nat /\ FALSE \in BOOLEAN
      BY <1>2 DEF Looping
    <3>. QED
      BY <1>2, <2>1, <3>1, ThreadTurnEnds
  <2>3. /\ v.pair = x.pair /\ v.sock.loop = x.sock.loop /\ v.sock.abort = x.sock.abort
        /\ GoesFrom(x, v)
    BY <2>2 DEF TurnOver
  <2>4. Results(v)
    BY <1>4, <2>3 DEF Results, reported
  <2>5. GoesFrom(w, v)
    BY <1>2, <2>3 DEF GoesFrom
  <2>. QED
    BY <1>2, <1>4, <2>2, <2>3, <2>4, <2>5 DEF Serving
<1>. QED
  BY <1>3, <1>4

\* And the private results after it.
LEMMA ThreadPrivate ==
    ASSUME NEW w, NEW e, Looping(w), NEW x, Serving(w, x, e), NEW v, v = run_private(x)
    PROVE  Serving(w, v, e)
<1>1. ASSUME NEW z, Serving(w, z, e) PROVE Serving(w, run_one_private(z), e)
  <2>. DEFINE u == run_one_private(z)
  <2>1. CASE u = z
    BY <1>1, <2>1
  <2>2. CASE z.fate = "alive" /\ reported(z.sock.loop) # {} /\ u = serve(z)
    <3>1. /\ ThreadInv(z, e) /\ Results(z) /\ z.sock.phase = w.sock.phase /\ GoesFrom(w, z)
          /\ z.sock.abort = w.sock.abort /\ z.pair.up.shut = w.pair.up.shut
      BY <1>1, <2>2 DEF Serving
    <3>2. Looping(z)
      BY <3>1 DEF Looping
    <3>. HIDE DEF u
    <3>3. Serving(z, u, e)
      BY <2>2, <3>1, <3>2, ThreadServes
    <3>4. Serving(w, u, e)
      BY <3>1, <3>3 DEF Serving, GoesFrom
    <3>. QED
      BY <3>4 DEF u
  <2>. QED
    BY <2>1, <2>2 DEF run_one_private
<1>. QED
  BY <1>1 DEF run_private

\* A rule whose descriptor is at its end is cancelled: the stream has ended already.
LEMMA ThreadCancels ==
    ASSUME NEW w, NEW e, ThreadInv(w, e), Looping(w), w.sock.eof, NEW v, v = socket_cancel(w, 2)
    PROVE  /\ ThreadInv(v, e) /\ v.sock.loop = w.sock.loop /\ v.sock.phase = w.sock.phase
           /\ v.sock.abort = w.sock.abort /\ v.pair = w.pair /\ v.wire = w.wire
           /\ v.fate = w.fate /\ (v.sock.tcp.isactive => w.sock.tcp.isactive)
<1>. DEFINE c == w.sock.tcp
            d == end_input_stream(c)
            t == e.g \o w.pair.down.data
<1>0. /\ w \in ThreadWorld /\ Net(c, e.b, t, e.y, w.wire.rx, w.wire.tx) /\ UpOK(w, e)
      /\ Accounted(w, e) /\ Ends(w.sock) /\ Strange(w.wire.rx, e.rs) /\ Gives(w, e)
      /\ Bounded(w.pair) /\ e.g \in Seq(Byte) /\ e.o \in Seq(Byte)
  BY ThreadFacts
<1>1. v = after_ending(w, d, TRUE)
  BY DEF socket_cancel, after_ending
<1>d. c = w.sock.tcp /\ d = end_input_stream(c) /\ t = e.g \o w.pair.down.data
  OBVIOUS
<1>. HIDE DEF c, d, t
<1>2. /\ Between(Input, Reply, c, t, PeerISN, e.b.sender) /\ Steady(Input, Reply, c, t, PeerISN)
      /\ c \in ConnectionType(Byte)
  BY <1>0, NetFacts
<1>3. c.sender.stream.bytes_w = Len(Input)
  <2>1. Idle(Input, c.sender) /\ c.sender.stream.end_input
    BY <1>0, <1>2, <1>d DEF Steady, Ends
  <2>. QED
    BY <2>1, SocketTexts, OutFacts
<1>4. /\ Called(Input, Reply, c, d, t, PeerISN, e.b.sender)
      /\ d.sender.last_ackno = c.sender.last_ackno
  BY <1>2, <1>3, <1>d, SocketTexts, EndCall
<1>5. /\ Behaves(c, d) /\ d.sender.stream.end_input
      /\ d.sender.stream.bytes_w = c.sender.stream.bytes_w
  BY <1>2, <1>3, <1>d, SocketTexts, EndFrame
<1>6. Net(d, e.b, t, e.y, w.wire.rx, w.wire.tx)
  BY <1>0, <1>4, NetCalled DEF AckKept
<1>7. d \in ConnectionType(Byte) /\ (Loud(c.segments_out) => Loud(d.segments_out))
  BY <1>2, <1>4, <1>6, NetFacts, CallLoud
<1>8. Served(w, v, d, w.sock.adapter, TRUE, w.sock.eof, w.pair.up, w.pair.down, w.wire.rx,
             w.wire.tx, w.fate)
  <2>0. PICK os \in BOOLEAN : os = TRUE
    OBVIOUS
  <2>1. /\ w \in ThreadWorld /\ d \in ConnectionType(Byte) /\ w.sock.adapter \in Adapters
        /\ os \in BOOLEAN /\ w.sock.eof \in BOOLEAN /\ w.pair.up \in ChannelType(Byte)
        /\ w.pair.down \in ChannelType(Byte) /\ w.wire.rx \in Seq(Dgrams) /\ w.wire.tx \in Segs
        /\ w.fate \in Fates /\ v = after_ending(w, d, os)
    BY <1>0, <1>1, <1>7, <2>0, ThreadParts
  <2>2. Served(w, v, d, w.sock.adapter, os, w.sock.eof, w.pair.up, w.pair.down, w.wire.rx,
               w.wire.tx, w.fate)
    BY ONLY <2>1, ThreadUpdates
  <2>. QED
    BY <2>0, <2>2
<1>9. /\ v \in ThreadWorld /\ v.sock.tcp = d /\ v.sock.adapter = w.sock.adapter
      /\ v.sock.outbound_shutdown /\ v.sock.eof = w.sock.eof
      /\ v.pair.up = w.pair.up /\ v.pair.down = w.pair.down
      /\ v.wire.rx = w.wire.rx /\ v.wire.tx = w.wire.tx /\ v.fate = w.fate
      /\ v.sock.loop = w.sock.loop /\ v.sock.phase = w.sock.phase /\ v.sock.abort = w.sock.abort
  BY <1>8 DEF Served
<1>10. v.pair = w.pair /\ v.wire = w.wire
  BY <1>0, <1>1 DEF after_ending, ThreadWorld, ThreadFields
<1>11. UpOK(v, e) /\ Accounted(v, e)
  BY <1>0, <1>5, <1>9, <1>10, <1>d DEF UpOK, Accounted
<1>12. Ends(v.sock)
  BY <1>0, <1>5, <1>9 DEF Ends
<1>13. Gives(v, e)
  <2>1. Trying(d) /\ (Failed(d, e.rs) => Failed(c, e.rs))
    BY <1>0, <1>5, <1>d, BehavesTrying DEF Gives, Behaves, Failed
  <2>. QED
    BY <1>0, <1>7, <1>9, <1>d, <2>1, GivesOn
<1>14. Net(v.sock.tcp, e.b, e.g \o v.pair.down.data, e.y, v.wire.rx, v.wire.tx)
  BY <1>6, <1>9, <1>d
<1>15. ThreadInv(v, e)
  BY <1>0, <1>9, <1>10, <1>11, <1>12, <1>13, <1>14 DEF ThreadInv
<1>. QED
  BY <1>5, <1>9, <1>10, <1>15, <1>d DEF Behaves

\* A rule that is not over is polled if it is interested.
Looks(a) == a = [w |-> a.w, rules |-> a.rules, polled |-> a.polled]

\* One rule is looked at.
LEMMA ThreadLooks ==
    ASSUME NEW a, Looks(a), NEW r, ~socket_over(a.w, r), NEW b, b = TcpLoop!look_at(a, r)
    PROVE  /\ Looks(b) /\ b.w = a.w /\ b.rules = a.rules
           /\ \A s : s \in b.polled <=>
                        s \in a.polled \/ (s = r /\ r \in a.rules /\ socket_interest(a.w, r))
<1>1. a = [w |-> a.w, rules |-> a.rules, polled |-> a.polled]
  BY DEF Looks
<1>2. CASE r \in a.rules /\ socket_interest(a.w, r)
  <2>1. b = [w |-> a.w, rules |-> a.rules, polled |-> a.polled \cup {r}]
    BY <1>1, <1>2 DEF TcpLoop!look_at
  <2>2. b.w = a.w /\ b.rules = a.rules /\ b.polled = a.polled \cup {r}
        /\ b = [w |-> b.w, rules |-> b.rules, polled |-> b.polled]
    BY <2>1
  <2>. QED
    BY <1>2, <2>2 DEF Looks
<1>3. CASE ~(r \in a.rules /\ socket_interest(a.w, r))
  <2>1. b = a
    BY <1>3 DEF TcpLoop!look_at
  <2>. QED
    BY <1>3, <2>1
<1>. QED
  BY <1>2, <1>3

\* The loop sets up the poll.
PollReady(w, set, e) ==
    /\ ThreadInv(set.w, e) /\ set.w.sock.loop = w.sock.loop
    /\ set.w.sock.phase = w.sock.phase /\ set.w.sock.abort = w.sock.abort
    /\ set.w.pair = w.pair /\ set.w.wire = w.wire /\ set.w.fate = w.fate
    /\ {1, 4} \subseteq set.rules /\ set.rules \subseteq 1 .. 4 /\ set.polled \subseteq 1 .. 4
    /\ 2 \in set.polled => ~set.w.sock.outbound_shutdown
    /\ set.polled = {} => ~set.w.sock.tcp.isactive /\ set.w.sock.tcp.segments_out = << >>

\* All four rules are looked at before poll.
LEMMA ThreadSetUp ==
    ASSUME NEW w, NEW e, ThreadInv(w, e), Looping(w),
           NEW set, set = TcpLoop!set_up(w, w.sock.loop)
    PROVE  PollReady(w, set, e)
<1>. DEFINE R == w.sock.loop.rules
            s0 == [w |-> w, rules |-> R, polled |-> {}]
            s1 == TcpLoop!look_at(s0, 1)
            s2 == TcpLoop!look_at(s1, 2)
            s3 == TcpLoop!look_at(s2, 3)
            s4 == TcpLoop!look_at(s3, 4)
<1>0. w \in ThreadWorld /\ Ends(w.sock)
  BY ThreadFacts
<1>1. R \in SUBSET (1 .. 4) /\ {1, 4} \subseteq R
  BY <1>0, ThreadParts DEF EventLoopType, Ends
<1>d. set = s4
  BY DEF TcpLoop!set_up
<1>2. Looks(s0) /\ s0.w = w /\ s0.rules = R /\ s0.polled = {}
  BY DEF Looks
<1>o. \A x : ~socket_over(x, 1) /\ ~socket_over(x, 3) /\ ~socket_over(x, 4)
  BY DEF socket_over
<1>. HIDE DEF R, s0
<1>3. /\ Looks(s1) /\ s1.w = w /\ s1.rules = R
      /\ \A s : s \in s1.polled <=> s = 1 /\ socket_interest(w, 1)
  <2>1. /\ Looks(s1) /\ s1.w = s0.w /\ s1.rules = s0.rules
        /\ \A s : s \in s1.polled <=>
                     s \in s0.polled \/ (s = 1 /\ 1 \in s0.rules /\ socket_interest(s0.w, 1))
    BY <1>2, <1>o, ThreadLooks
  <2>. QED
    BY <1>1, <1>2, <2>1
<1>. HIDE DEF s1
<1>4. /\ Looks(s2) /\ s2.rules \subseteq 1 .. 4 /\ {1, 4} \subseteq s2.rules
      /\ 1 \in s2.polled <=> socket_interest(w, 1)
      /\ s2.polled \subseteq {1, 2}
      /\ ThreadInv(s2.w, e) /\ s2.w.sock.loop = w.sock.loop /\ s2.w.sock.phase = w.sock.phase
      /\ s2.w.sock.abort = w.sock.abort /\ s2.w.pair = w.pair /\ s2.w.wire = w.wire
      /\ s2.w.fate = w.fate /\ (s2.w.sock.tcp.isactive => w.sock.tcp.isactive)
      /\ 2 \in s2.polled => s2.w = w /\ socket_interest(w, 2)
  <2>1. CASE socket_over(w, 2) /\ 2 \in R
    <3>1. w.sock.eof
      BY <2>1 DEF socket_over
    <3>. DEFINE x == socket_cancel(w, 2)
    <3>2. s2 = [w |-> x, rules |-> R \ {2}, polled |-> s1.polled]
      BY <1>3, <2>1 DEF TcpLoop!look_at, Looks
    <3>3. /\ ThreadInv(x, e) /\ x.sock.loop = w.sock.loop /\ x.sock.phase = w.sock.phase
          /\ x.sock.abort = w.sock.abort /\ x.pair = w.pair /\ x.wire = w.wire
          /\ x.fate = w.fate /\ (x.sock.tcp.isactive => w.sock.tcp.isactive)
      BY <3>1, ThreadCancels
    <3>. HIDE DEF x, s2
    <3>4. /\ s2.w = x /\ s2.rules = R \ {2} /\ s2.polled = s1.polled
          /\ s2 = [w |-> s2.w, rules |-> s2.rules, polled |-> s2.polled]
      BY <3>2
    <3>5. /\ s2.polled \subseteq {1} /\ (1 \in s2.polled <=> socket_interest(w, 1))
      BY <1>3, <3>4
    <3>6. s2.rules \subseteq 1 .. 4 /\ {1, 4} \subseteq s2.rules
      BY <1>1, <3>4
    <3>. QED
      BY <3>3, <3>4, <3>5, <3>6 DEF Looks
  <2>2. CASE socket_over(w, 2) /\ 2 \notin R
    <3>1. s2 = s1
      BY <1>3, <2>2 DEF TcpLoop!look_at
    <3>. HIDE DEF s2
    <3>2. s2.polled \subseteq {1} /\ (1 \in s2.polled <=> socket_interest(w, 1))
      BY <1>3, <3>1
    <3>. QED
      BY <1>1, <1>3, <3>1, <3>2
  <2>3. CASE ~socket_over(w, 2)
    <3>1. /\ Looks(s2) /\ s2.w = s1.w /\ s2.rules = s1.rules
          /\ \A s : s \in s2.polled <=>
                       s \in s1.polled \/ (s = 2 /\ 2 \in s1.rules /\ socket_interest(s1.w, 2))
      BY <1>3, <2>3, ThreadLooks
    <3>. HIDE DEF s2
    <3>2. s2.polled \subseteq {1, 2} /\ (1 \in s2.polled <=> socket_interest(w, 1))
          /\ (2 \in s2.polled => socket_interest(w, 2))
      BY <1>3, <3>1
    <3>. QED
      BY <1>1, <1>3, <3>1, <3>2
  <2>. QED
    BY <2>1, <2>2, <2>3
<1>. HIDE DEF s2
<1>5. /\ Looks(s3) /\ s3.w = s2.w /\ s3.rules = s2.rules
      /\ \A s : s \in s3.polled <=>
                   s \in s2.polled \/ (s = 3 /\ 3 \in s2.rules /\ socket_interest(s2.w, 3))
  BY <1>4, <1>o, ThreadLooks
<1>. HIDE DEF s3
<1>6. /\ Looks(s4) /\ s4.w = s3.w /\ s4.rules = s3.rules
      /\ \A s : s \in s4.polled <=>
                   s \in s3.polled \/ (s = 4 /\ 4 \in s3.rules /\ socket_interest(s3.w, 4))
  BY <1>5, <1>o, ThreadLooks
<1>. HIDE DEF s4
<1>7. set.w = s2.w /\ set.rules = s2.rules
  BY <1>5, <1>6, <1>d
<1>8. set.polled \subseteq 1 .. 4
  BY <1>4, <1>5, <1>6, <1>d
<1>9. ASSUME 2 \in set.polled PROVE ~set.w.sock.outbound_shutdown
  <2>1. 2 \in s2.polled
    BY <1>5, <1>6, <1>9, <1>d
  <2>2. socket_interest(w, 2) /\ set.w = w
    BY <1>4, <1>7, <2>1
  <2>. QED
    BY <2>2 DEF socket_interest
<1>10. ASSUME set.polled = {}
       PROVE  ~set.w.sock.tcp.isactive /\ set.w.sock.tcp.segments_out = << >>
  <2>1. 1 \notin set.polled /\ 4 \notin set.polled
    BY <1>10
  <2>2. ~socket_interest(w, 1)
    BY <1>4, <1>5, <1>6, <1>d, <2>1
  <2>3. ~socket_interest(set.w, 4)
    BY <1>4, <1>5, <1>6, <1>7, <1>d, <2>1
  <2>4. ~w.sock.tcp.isactive
    BY <2>2 DEF socket_interest
  <2>5. set.w.sock.tcp.segments_out = << >>
    BY <2>3 DEF socket_interest, has_datagrams
  <2>. QED
    BY <1>4, <1>7, <2>4, <2>5
<1>. QED
  BY <1>4, <1>7, <1>8, <1>9, <1>10 DEF PollReady

\* poll has answered, for the loop l.
LEMMA ThreadPolls ==
    ASSUME NEW w, NEW e, NEW set, PollReady(w, set, e), NEW l, l = polled(set)
    PROVE  /\ l \in EventLoopType(4) /\ l.hangups \subseteq {3} /\ {1, 4} \subseteq l.rules
           /\ 1 \in l.ready => w.wire.rx # << >>
           /\ 2 \in l.ready => ~set.w.sock.outbound_shutdown /\ readable(w.pair.up)
<1>1. /\ {1, 4} \subseteq set.rules /\ set.rules \subseteq 1 .. 4 /\ set.polled \subseteq 1 .. 4
      /\ 2 \in set.polled => ~set.w.sock.outbound_shutdown
      /\ set.w.pair = w.pair /\ set.w.wire = w.wire
  BY DEF PollReady
<1>2. l = [rules |-> set.rules, ready |-> {r \in set.polled : socket_ready(set.w, r)},
           hangups |-> {r \in set.polled : socket_hup(set.w, r) /\ ~socket_ready(set.w, r)}]
  BY DEF polled, TcpLoop!polled_loop
<1>3. /\ l.rules = set.rules
      /\ l.ready = {r \in set.polled : socket_ready(set.w, r)}
      /\ l.hangups = {r \in set.polled : socket_hup(set.w, r) /\ ~socket_ready(set.w, r)}
      /\ l = [rules |-> l.rules, ready |-> l.ready, hangups |-> l.hangups]
  BY <1>2
<1>. HIDE DEF polled
<1>4. l \in EventLoopType(4)
  BY <1>1, <1>3 DEF EventLoopType
<1>5. l.hangups \subseteq {3}
  <2>1. ASSUME NEW r \in l.hangups PROVE r = 3
    <3>1. socket_hup(set.w, r) /\ ~socket_ready(set.w, r)
      BY <1>3, <2>1
    <3>2. r \in {2, 3} /\ hung_up(set.w.pair)
      BY <3>1 DEF socket_hup
    <3>3. readable(set.w.pair.up)
      BY <3>2 DEF hung_up, readable
    <3>. QED
      BY <3>1, <3>2, <3>3 DEF socket_ready
  <2>. QED
    BY <2>1
<1>6. 1 \in l.ready => w.wire.rx # << >>
  BY <1>1, <1>3 DEF socket_ready
<1>7. 2 \in l.ready => ~set.w.sock.outbound_shutdown /\ readable(w.pair.up)
  BY <1>1, <1>3 DEF socket_ready
<1>. QED
  BY <1>1, <1>3, <1>4, <1>5, <1>6, <1>7

\* A step of the thread.
LoopStepped(w, v, e) ==
    /\ ThreadInv(v, e) /\ Results(v) /\ GoesFrom(w, v)
    /\ v.sock.abort = w.sock.abort /\ v.pair.up.shut = w.pair.up.shut

\* The loop with the results of poll.
LEMMA ThreadPolled ==
    ASSUME NEW w, NEW e, Looping(w), NEW set, PollReady(w, set, e), NEW l, l = polled(set),
           NEW v, v = set_loop(set.w, l)
    PROVE  Serving(w, v, e) /\ v.sock.phase = w.sock.phase
<1>1. /\ l \in EventLoopType(4) /\ l.hangups \subseteq {3} /\ {1, 4} \subseteq l.rules
      /\ 1 \in l.ready => w.wire.rx # << >>
      /\ 2 \in l.ready => ~set.w.sock.outbound_shutdown /\ readable(w.pair.up)
  BY ThreadPolls
<1>2. /\ ThreadInv(set.w, e) /\ set.w.sock.phase = w.sock.phase /\ set.w.pair = w.pair
      /\ set.w.sock.abort = w.sock.abort /\ set.w.wire = w.wire
  BY DEF PollReady
<1>3. Turned(set.w, v, set.w.sock.tcp, l, set.w.sock.phase, set.w.fate)
  BY <1>1, <1>2, ThreadFacts, ThreadParts, ThreadTurns
<1>4. ThreadInv(v, e)
  BY <1>1, <1>2, <1>3, TurnKept
<1>5. /\ v.sock.loop = l /\ v.sock.phase = w.sock.phase /\ v.sock.abort = w.sock.abort
      /\ v.pair = w.pair /\ v.wire = w.wire
      /\ v.sock.outbound_shutdown = set.w.sock.outbound_shutdown
  BY <1>2, <1>3 DEF Turned
<1>6. Results(v)
  BY <1>1, <1>5 DEF Results
<1>. QED
  BY <1>4, <1>5, <1>6 DEF Serving, GoesFrom

\* poll has found something.
LEMMA PollStep ==
    ASSUME NEW w, NEW e, ThreadInv(w, e), Looping(w),
           NEW set, set = TcpLoop!set_up(w, w.sock.loop), NEW l, l = polled(set),
           NEW v, v = run_private([set.w EXCEPT !.sock.loop = l])
    PROVE  LoopStepped(w, v, e)
<1>. DEFINE x == set_loop(set.w, l)
<1>1. v = run_private(x)
  BY DEF set_loop
<1>2. PollReady(w, set, e)
  BY ThreadSetUp
<1>. HIDE DEF x
<1>3. Serving(w, x, e)
  BY <1>2, ThreadPolled DEF x
<1>4. Serving(w, v, e)
  BY <1>1, <1>3, ThreadPrivate
<1>. QED
  BY <1>4 DEF Serving, LoopStepped

\* It has found nothing.
LEMMA IdleStep ==
    ASSUME NEW w, NEW e, ThreadInv(w, e), Looping(w), NEW ms \in Nat,
           NEW set, set = TcpLoop!set_up(w, w.sock.loop), NEW l, l = polled(set),
           reported(l) = {}, NEW v, v = after_turn([set.w EXCEPT !.sock.loop = l], FALSE, ms)
    PROVE  LoopStepped(w, v, e)
<1>. DEFINE x == set_loop(set.w, l)
<1>1. v = after_turn(x, FALSE, ms)
  BY DEF set_loop
<1>2. PollReady(w, set, e)
  BY ThreadSetUp
<1>x. x = set_loop(set.w, l)
  OBVIOUS
<1>. HIDE DEF x
<1>3. Serving(w, x, e) /\ x.sock.phase = w.sock.phase
  BY <1>2, <1>x, ThreadPolled
<1>4. x.sock.loop = l
  <2>1. Turned(set.w, x, set.w.sock.tcp, l, set.w.sock.phase, set.w.fate)
    <3>1. l \in EventLoopType(4)
      BY <1>2, ThreadPolls
    <3>2. set.w \in ThreadWorld
      BY <1>2, ThreadFacts DEF PollReady
    <3>. QED
      BY <1>x, <3>1, <3>2, ThreadParts, ThreadTurns
  <2>. QED
    BY <2>1 DEF Turned
<1>5. ThreadInv(x, e) /\ Looping(x)
  BY <1>3 DEF Serving, Looping
<1>6. ThreadInv(v, e) /\ TurnOver(x, v)
  <2>1. PICK ex \in BOOLEAN : ex = FALSE
    OBVIOUS
  <2>2. v = after_turn(x, ex, ms)
    BY <1>1, <2>1
  <2>3. /\ ex => ~x.sock.tcp.isactive /\ x.sock.tcp.segments_out = << >>
        /\ ThreadInv(x, e) /\ Looping(x) /\ ms \in Nat /\ ex \in BOOLEAN
    BY <1>5, <2>1
  <2>. QED
    BY ONLY <2>2, <2>3, ThreadTurnEnds
<1>7. Results(v)
  BY <1>4, <1>6 DEF TurnOver, Results, reported
<1>. QED
  BY <1>3, <1>6, <1>7 DEF Serving, LoopStepped, TurnOver, GoesFrom

\* There is nothing to poll.
LEMMA ExitStep ==
    ASSUME NEW w, NEW e, ThreadInv(w, e), Looping(w), reported(w.sock.loop) = {},
           NEW set, set = TcpLoop!set_up(w, w.sock.loop), set.polled = {},
           NEW v, v = after_turn([set.w EXCEPT !.sock.loop.rules = set.rules], TRUE, 0)
    PROVE  LoopStepped(w, v, e)
<1>. DEFINE l == [set.w.sock.loop EXCEPT !.rules = set.rules]
            x == set_loop(set.w, l)
<1>2. PollReady(w, set, e)
  BY ThreadSetUp
<1>3. /\ ThreadInv(set.w, e) /\ set.w.sock.phase = w.sock.phase /\ set.w.pair = w.pair
      /\ set.w.sock.abort = w.sock.abort /\ set.w.wire = w.wire
      /\ set.w.sock.loop = w.sock.loop /\ set.w.fate = w.fate
      /\ {1, 4} \subseteq set.rules /\ set.rules \subseteq 1 .. 4
      /\ ~set.w.sock.tcp.isactive /\ set.w.sock.tcp.segments_out = << >>
  BY <1>2 DEF PollReady
<1>4. set.w \in ThreadWorld /\ set.w.sock.loop \in EventLoopType(4) /\ Ends(set.w.sock)
  BY <1>3, ThreadFacts, ThreadParts
<1>1. v = after_turn(x, TRUE, 0)
  BY <1>4 DEF set_loop, ThreadWorld, ThreadFields
<1>5. /\ l \in EventLoopType(4) /\ l.ready = {} /\ l.hangups = {} /\ l.rules = set.rules
  BY <1>3, <1>4 DEF EventLoopType, reported
<1>x. x = set_loop(set.w, l)
  OBVIOUS
<1>. HIDE DEF x, l
<1>6. Turned(set.w, x, set.w.sock.tcp, l, set.w.sock.phase, set.w.fate)
  BY <1>4, <1>5, <1>x, ThreadParts, ThreadTurns
<1>7. ThreadInv(x, e)
  BY <1>3, <1>5, <1>6, TurnKept
<1>8. /\ x.sock.loop = l /\ x.sock.phase = w.sock.phase /\ x.sock.abort = w.sock.abort
      /\ x.pair = w.pair /\ x.wire = w.wire /\ x.sock.tcp = set.w.sock.tcp
  BY <1>3, <1>6 DEF Turned
<1>9. Looping(x)
  BY <1>8 DEF Looping
<1>10. ThreadInv(v, e) /\ TurnOver(x, v)
  <2>1. PICK ex \in BOOLEAN : ex = TRUE
    OBVIOUS
  <2>2. v = after_turn(x, ex, 0)
    BY <1>1, <2>1
  <2>. QED
    BY <1>3, <1>7, <1>8, <1>9, <2>1, <2>2, ThreadTurnEnds
<1>11. Results(v)
  BY <1>5, <1>8, <1>10 DEF TurnOver, Results
<1>. QED
  BY <1>8, <1>10, <1>11 DEF LoopStepped, TurnOver, GoesFrom

\* A result of poll.
LEMMA ServiceStep ==
    ASSUME NEW w, NEW e, ThreadInv(w, e), Looping(w), Results(w), w.fate = "alive",
           reported(w.sock.loop) # {}, NEW v, v = run_private(serve(w))
    PROVE  LoopStepped(w, v, e)
<1>. DEFINE x == serve(w)
<1>1. Serving(w, x, e)
  BY ThreadServes
<1>. HIDE DEF x
<1>2. Serving(w, v, e)
  BY <1>1, ThreadPrivate DEF x
<1>. QED
  BY <1>2 DEF Serving, LoopStepped

\* The end of the thread.
after_leaving(w, c, p) ==
    [sock |-> [w.sock EXCEPT !.phase = "ended", !.tcp = c], pair |-> p, wire |-> w.wire,
     fate |-> w.fate]

\* The fields after it.
LEMMA LeavingFields ==
    ASSUME NEW w \in ThreadWorld, NEW c \in ConnectionType(Byte), NEW p, NEW up \in ChannelType(Byte),
           NEW dn \in ChannelType(Byte), p = [up |-> up, down |-> dn],
           NEW v, v = after_leaving(w, c, p)
    PROVE  /\ v \in ThreadWorld /\ v.sock.tcp = c /\ v.sock.loop = w.sock.loop
           /\ v.sock.phase = "ended" /\ v.fate = w.fate /\ v.sock.adapter = w.sock.adapter
           /\ v.sock.outbound_shutdown = w.sock.outbound_shutdown
           /\ v.sock.eof = w.sock.eof /\ v.sock.abort = w.sock.abort /\ v.pair = p
           /\ v.wire = w.wire /\ v.pair.up = up /\ v.pair.down = dn
<1>1. ASSUME NEW C, NEW L, NEW A, NEW H, NEW Q, NEW D, NEW S, w \in ThreadFields(C, L, A, H, Q, D, S),
             c \in C, p \in [up : Q, down : Q], "ended" \in H
      PROVE  /\ v \in ThreadFields(C, L, A, H, Q, D, S) /\ v.sock.tcp = c /\ v.sock.loop = w.sock.loop
             /\ v.sock.phase = "ended" /\ v.fate = w.fate /\ v.sock.adapter = w.sock.adapter
             /\ v.sock.outbound_shutdown = w.sock.outbound_shutdown
             /\ v.sock.eof = w.sock.eof /\ v.sock.abort = w.sock.abort /\ v.pair = p
             /\ v.wire = w.wire
  BY <1>1 DEF ThreadFields, after_leaving
<1>2. p \in [up : ChannelType(Byte), down : ChannelType(Byte)] /\ p.up = up /\ p.down = dn
  OBVIOUS
<1>3. "ended" \in Phases
  BY DEF Phases
<1>. QED
  BY <1>1, <1>2, <1>3 DEF ThreadWorld

\* A channel that is shut holds what it held.
LEMMA Shutting ==
    ASSUME NEW ch \in ChannelType(Byte), NEW x, x = shutdown_wr(ch)
    PROVE  x \in ChannelType(Byte) /\ x.data = ch.data /\ x.shut /\ readable(x)
  BY DEF ChannelType, shutdown_wr, readable

\* _tcp_main ends.
LEMMA LeaveStep ==
    ASSUME NEW w, NEW e, ThreadInv(w, e), Results(w), w.sock.phase = "leaving",
           NEW v, v = after_leaving(w, destruct(w.sock.tcp), shutdown_rdwr(w.pair))
    PROVE  /\ ThreadInv(v, e) /\ Results(v) /\ v.sock.phase = "ended"
           /\ v.sock.abort = w.sock.abort
<1>. DEFINE c == w.sock.tcp
            d == destruct(c)
            t == e.g \o w.pair.down.data
            up == shutdown_wr(w.pair.up)
            dn == shutdown_wr(w.pair.down)
<1>0. /\ w \in ThreadWorld /\ Net(c, e.b, t, e.y, w.wire.rx, w.wire.tx)
      /\ Accounted(w, e) /\ Ends(w.sock) /\ Strange(w.wire.rx, e.rs) /\ Gives(w, e)
      /\ Bounded(w.pair) /\ e.g \in Seq(Byte) /\ e.o \in Seq(Byte)
  BY ThreadFacts
<1>1. /\ up \in ChannelType(Byte) /\ up.data = w.pair.up.data /\ readable(up)
      /\ dn \in ChannelType(Byte) /\ dn.data = w.pair.down.data
  BY <1>0, ThreadParts, Shutting
<1>2. shutdown_rdwr(w.pair) = [up |-> up, down |-> dn]
  BY DEF shutdown_rdwr
<1>d. c = w.sock.tcp /\ d = destruct(c) /\ t = e.g \o w.pair.down.data
  OBVIOUS
<1>. HIDE DEF c, d, t, up, dn
<1>3. /\ Between(Input, Reply, c, t, PeerISN, e.b.sender) /\ Steady(Input, Reply, c, t, PeerISN)
      /\ c \in ConnectionType(Byte)
  BY <1>0, NetFacts
<1>4. /\ Called(Input, Reply, c, d, t, PeerISN, e.b.sender)
      /\ d.sender.last_ackno = c.sender.last_ackno
  BY <1>3, <1>d, SocketTexts, DestructCall
<1>5. SameInput(c.sender, d.sender) /\ ~d.isactive /\ (~c.isactive => d = c)
  BY <1>3, <1>d, SocketTexts, DestructFrame
<1>6. Net(d, e.b, t, e.y, w.wire.rx, w.wire.tx)
  BY <1>0, <1>4, NetCalled DEF AckKept
<1>7. d \in ConnectionType(Byte)
  BY <1>6, NetFacts
<1>8. /\ v \in ThreadWorld /\ v.sock.tcp = d /\ v.sock.loop = w.sock.loop
      /\ v.sock.phase = "ended" /\ v.fate = w.fate /\ v.sock.adapter = w.sock.adapter
      /\ v.sock.outbound_shutdown = w.sock.outbound_shutdown
      /\ v.sock.eof = w.sock.eof /\ v.sock.abort = w.sock.abort
      /\ v.wire = w.wire /\ v.pair.up = up /\ v.pair.down = dn
  BY <1>0, <1>1, <1>2, <1>7, <1>d, LeavingFields
<1>9. UpOK(v, e)
  BY <1>8 DEF UpOK
<1>10. Accounted(v, e)
  BY <1>0, <1>1, <1>5, <1>8, <1>d DEF Accounted, Account, SameInput
<1>11. Ends(v.sock)
  BY <1>0, <1>5, <1>8, <1>d DEF Ends, SameInput
<1>12. Gives(v, e)
  <2>1. Trying(d)
    BY <1>5 DEF Trying
  <2>2. ASSUME ~w.sock.abort
        PROVE  /\ d = c /\ ~c.isactive /\ c.segments_out = << >>
               /\ Failed(c, e.rs) => Loud(c.segments_out) \/ Loud(w.wire.tx) \/ e.told
    BY <1>0, <1>5, <1>d, <2>2 DEF Gives
  <2>. QED
    BY <1>8, <2>1, <2>2 DEF Gives
<1>13. Net(v.sock.tcp, e.b, e.g \o v.pair.down.data, e.y, v.wire.rx, v.wire.tx)
  BY <1>1, <1>6, <1>8, <1>d
<1>14. Bounded(v.pair)
  BY <1>0, <1>1, <1>8 DEF Bounded
<1>15. ThreadInv(v, e)
  BY <1>0, <1>8, <1>9, <1>10, <1>11, <1>12, <1>13, <1>14 DEF ThreadInv
<1>16. Results(v)
  BY <1>1, <1>8 DEF Results
<1>. QED
  BY <1>8, <1>15, <1>16

-----------------------------------------------------------------------------
(* The peer *)

\* A step stays one when the queue is sent after it.
LEMMA GoesLike ==
    ASSUME NEW own, NEW text, NEW i, NEW c, NEW d, NEW u, NEW b, Goes(own, text, i, c, d, u, b),
           NEW x, Like(d, x)
    PROVE  Goes(own, text, i, c, x, u, b)
<1>1. End(own, text, d, u, i)
  BY DEF Goes
<1>2. End(own, text, x, u, i)
  BY <1>1, EndLike
<1>. QED
  BY <1>2 DEF Goes, Like, AckKept

\* The peer writes its stream at once or not at all, and makes no resets by itself.
PeerSays(b) ==
    /\ b.sender.stream.bytes_w \in {0, Len(Reply)} /\ b.sender.stream.capacity = Len(Reply)
    /\ Silent(b)

\* What a call of the peer's leaves: y has been read, and x was the connection before.
PeerGoes(x, d, u, c) ==
    /\ Goes(Reply, Input, LocalISN, x, d, u, c)
    /\ AllPost(Reply, d, LocalISN, d.segments_out) /\ PeerSays(d)

\* One more call.
LEMMA PeerGoesOn ==
    ASSUME NEW b, NEW d, NEW t, NEW c, PeerGoes(b, d, t, c), NEW y,
           ReceiverOK(Input, b.receiver, y, LocalISN), NEW x, NEW u,
           Called(Reply, Input, d, x, u, LocalISN, c.sender),
           x.sender.last_ackno = d.sender.last_ackno, PeerSays(x)
    PROVE  PeerGoes(b, x, u, c)
<1>1. /\ Goes(Reply, Input, LocalISN, b, d, t, c) /\ AllPost(Reply, d, LocalISN, d.segments_out)
  BY DEF PeerGoes
<1>2. ReceiverOK(Input, d.receiver, t, LocalISN)
  BY <1>1 DEF Goes, End, Steady
<1>3. AllPost(Reply, x, LocalISN, x.segments_out)
  BY <1>1, <1>2, SocketTexts, CallPosts
<1>4. Goes(Reply, Input, LocalISN, b, x, u, c)
  BY <1>1, SocketTexts, GoesOn
<1>. QED
  BY <1>3, <1>4 DEF PeerGoes

\* What it needs.
LEMMA PeerFacts ==
    ASSUME NEW b, NEW d, NEW t, NEW c, PeerGoes(b, d, t, c)
    PROVE  /\ Between(Reply, Input, d, t, LocalISN, c.sender) /\ d \in ConnectionType(Byte)
           /\ Steady(Reply, Input, d, t, LocalISN) /\ Idle(Reply, d.sender) /\ PeerSays(d)
  BY DEF PeerGoes, Goes, Between, End, Steady

\* A segment arrives.
LEMMA PeerHears ==
    ASSUME NEW c, NEW b, NEW t, NEW y, NEW rx, NEW tx, Net(c, b, t, y, rx, tx),
           PeerSays(b), b.segments_out = << >>, NEW seg, Post(Input, c, PeerISN, seg),
           NEW h, h = segment_received(b, seg)
    PROVE  PeerGoes(b, h, y, c)
<1>1. /\ Half(Input, Reply, LocalISN, PeerISN, c, b, t)
      /\ Half(Reply, Input, PeerISN, LocalISN, b, c, y)
  BY DEF Net
<1>2. Called(Reply, Input, b, h, y, LocalISN, c.sender) /\ AckKept(b, h, c)
  BY <1>1, SocketTexts, PostArrives
<1>3. PICK a : Arrival(Reply, Input, b, y, LocalISN, c.sender, seg, a)
  BY <1>1, SocketTexts, PostArrival
<1>4. SameInput(b.sender, h.sender) /\ (Silent(b) => Silent(h))
  BY <1>3, SocketTexts, ReceiveFrame
<1>5. PeerSays(h)
  BY <1>4 DEF PeerSays, SameInput
<1>6. h \in ConnectionType(Byte) /\ Like(h, h)
  BY <1>2 DEF Called, End, Steady, Like, Around
<1>7. Goes(Reply, Input, LocalISN, b, h, y, c)
  BY <1>2, <1>6, CalledGoes
<1>8. AllPost(Reply, b, LocalISN, b.segments_out)
  BY DEF AllPost, Segs
<1>9. ReceiverOK(Input, b.receiver, y, LocalISN)
  BY NetFacts
<1>10. AllPost(Reply, h, LocalISN, h.segments_out)
  BY <1>2, <1>8, <1>9, SocketTexts, CallPosts
<1>. QED
  BY <1>5, <1>7, <1>10 DEF PeerGoes

\* The peer reads all there is.
LEMMA PeerReads ==
    ASSUME NEW b, NEW h, NEW y, NEW c, PeerGoes(b, h, y, c),
           ReceiverOK(Input, b.receiver, y, LocalISN), NEW x, x = peer_reads(h),
           NEW u, u = y \o inbound_stream(h).buff
    PROVE  PeerGoes(b, x, u, c)
<1>1. /\ Between(Reply, Input, h, y, LocalISN, c.sender) /\ Steady(Reply, Input, h, y, LocalISN)
      /\ h \in ConnectionType(Byte) /\ PeerSays(h)
  BY PeerFacts
<1>. DEFINE o == inbound_stream(h)
            n == buffer_size(o)
<1>2. o \in ByteStreamType(Byte) /\ n = Len(o.buff) /\ n \in Nat
  <2>1. ReceiverOK(Input, h.receiver, y, LocalISN)
    BY <1>1 DEF Steady
  <2>2. h.receiver.reassembler \in ReassemblerType(Byte)
    BY <2>1 DEF ReceiverOK, Good, Written, OutOK
  <2>3. h.receiver.reassembler.output \in ByteStreamType(Byte)
    BY <2>2 DEF ReassemblerType
  <2>4. o \in ByteStreamType(Byte)
    BY <2>3 DEF inbound_stream, stream_out
  <2>. QED
    BY <2>4 DEF buffer_size, ByteStreamType
<1>3. x = read_from(h, n)
  BY <1>1 DEF peer_reads, read_from, received_with, reading, bs_read, stream_out, inbound_stream,
              ConnectionType
<1>4. u = read_too(y, h, n)
  <2>1. bs_read(o, n).data = SubSeq(o.buff, 1, n)
    BY <1>2 DEF bs_read, peek_output, min
  <2>2. SubSeq(o.buff, 1, n) = o.buff
    BY <1>2 DEF ByteStreamType
  <2>. QED
    BY <2>1, <2>2 DEF read_too
<1>. HIDE DEF n
<1>5. /\ Called(Reply, Input, h, x, u, LocalISN, c.sender)
      /\ x.sender.last_ackno = h.sender.last_ackno
  BY <1>1, <1>2, <1>3, <1>4, SocketTexts, ReadCall
<1>6. Keeps(h, x) /\ x.sender = h.sender
  BY <1>1, <1>2, <1>3, SocketTexts, ReadFrame
<1>7. PeerSays(x)
  BY <1>1, <1>6 DEF PeerSays, Keeps, Behaves
<1>. QED
  BY <1>5, <1>7, PeerGoesOn

\* It writes its stream, once.
LEMMA PeerWrites ==
    ASSUME NEW b, NEW h, NEW y, NEW c, PeerGoes(b, h, y, c), NEW z,
           ReceiverOK(Input, b.receiver, z, LocalISN), NEW x, x = peer_writes(h)
    PROVE  /\ PeerGoes(b, x, y, c)
           /\ peer_opened(x) => x.sender.stream.bytes_w = Len(Reply)
<1>1. /\ Between(Reply, Input, h, y, LocalISN, c.sender) /\ Steady(Reply, Input, h, y, LocalISN)
      /\ h \in ConnectionType(Byte) /\ PeerSays(h) /\ Idle(Reply, h.sender)
  BY PeerFacts
<1>2. CASE peer_opened(h) /\ h.sender.stream.bytes_w = 0 /\ Reply # << >>
  <2>1. x = write(h, Reply) /\ h.isactive
    BY <1>2 DEF peer_writes, bytes_written, peer_opened
  <2>2. /\ h.sender.stream \in ByteStreamType(Byte) /\ Len(Reply) \in Nat /\ Len(Reply) # 0
        /\ h.sender.stream.end_input => h.sender.stream.bytes_w = Len(Reply)
    BY <1>1, <1>2, SocketTexts, OutFacts
  <2>3. ~h.sender.stream.end_input
    BY <1>2, <2>2
  <2>4. Reply = next_bytes(Reply, h.sender.stream.bytes_w, Len(Reply))
    BY <1>2, SocketTexts, SubSeqFull DEF next_bytes
  <2>5. remaining_capacity(h.sender.stream) = Len(Reply)
    <3>1. StreamOK(Reply, h.sender.stream)
      BY <1>1, SocketTexts, TextBoth, IdleFacts DEF SenderOK
    <3>2. Len(h.sender.stream.buff) = 0
      BY <1>2, <2>2, <3>1 DEF StreamOK, ByteStreamType
    <3>. QED
      BY <1>1, <2>2, <3>2 DEF PeerSays, remaining_capacity, buffer_size
  <2>6. /\ Called(Reply, Input, h, x, y, LocalISN, c.sender)
        /\ x.sender.last_ackno = h.sender.last_ackno
    <3>1. /\ h.sender.stream.bytes_w + Len(Reply) <= Len(Reply) /\ Len(Reply) \in Nat
      BY <1>2, <2>2
    <3>. QED
      BY <1>1, <2>1, <2>3, <2>4, <3>1, SocketTexts, WriteNextCall
  <2>7. AllWritten(h, x, Reply, Len(Reply))
    <3>1. /\ h.sender.stream.bytes_w + Len(Reply) <= Len(Reply) /\ Len(Reply) \in Nat
          /\ Len(Reply) <= remaining_capacity(h.sender.stream)
      BY <1>2, <2>2, <2>5
    <3>. QED
      BY <1>1, <2>1, <2>3, <2>4, <3>1, SocketTexts, WriteFrame
  <2>8. PeerSays(x) /\ x.sender.stream.bytes_w = Len(Reply)
    BY <1>1, <1>2, <2>1, <2>2, <2>7 DEF AllWritten, Behaves, PeerSays
  <2>. QED
    BY <2>6, <2>8, PeerGoesOn
<1>3. CASE ~(peer_opened(h) /\ h.sender.stream.bytes_w = 0 /\ Reply # << >>)
  <2>1. x = h
    BY <1>3 DEF peer_writes, bytes_written, write
  <2>2. peer_opened(x) => x.sender.stream.bytes_w = Len(Reply)
    BY <1>1, <1>3, <2>1, SocketTexts DEF PeerSays
  <2>. QED
    BY <2>1, <2>2
<1>. QED
  BY <1>2, <1>3

\* And ends it.
LEMMA PeerEnds ==
    ASSUME NEW b, NEW h, NEW y, NEW c, PeerGoes(b, h, y, c), NEW z,
           ReceiverOK(Input, b.receiver, z, LocalISN),
           peer_opened(h) => h.sender.stream.bytes_w = Len(Reply), NEW x, x = peer_ends(h)
    PROVE  PeerGoes(b, x, y, c)
<1>1. /\ Between(Reply, Input, h, y, LocalISN, c.sender) /\ Steady(Reply, Input, h, y, LocalISN)
      /\ h \in ConnectionType(Byte) /\ PeerSays(h) /\ Idle(Reply, h.sender)
  BY PeerFacts
<1>2. CASE peer_opened(h) /\ x = end_input_stream(h)
  <2>1. /\ Called(Reply, Input, h, x, y, LocalISN, c.sender)
        /\ x.sender.last_ackno = h.sender.last_ackno
    BY <1>1, <1>2, SocketTexts, EndCall
  <2>2. /\ Behaves(h, x) /\ x.sender.stream.bytes_w = h.sender.stream.bytes_w
        /\ x.sender.stream.capacity = h.sender.stream.capacity
    BY <1>1, <1>2, SocketTexts, EndFrame
  <2>3. PeerSays(x)
    BY <1>1, <2>2 DEF PeerSays, Behaves
  <2>. QED
    BY <2>1, <2>3, PeerGoesOn
<1>3. CASE x = h
  BY <1>3
<1>. QED
  BY <1>2, <1>3 DEF peer_ends

\* All of that.
LEMMA PeerAnswers ==
    ASSUME NEW c, NEW b, NEW t, NEW y, NEW rx, NEW tx, Net(c, b, t, y, rx, tx),
           PeerSays(b), b.segments_out = << >>, NEW seg, Post(Input, c, PeerISN, seg),
           NEW h, h = segment_received(b, seg), NEW u, u = y \o inbound_stream(h).buff,
           NEW x, x = peer_ends(peer_writes(peer_reads(h)))
    PROVE  PeerGoes(b, x, u, c)
<1>. DEFINE h1 == peer_reads(h)
            h2 == peer_writes(h1)
<1>1. ReceiverOK(Input, b.receiver, y, LocalISN)
  BY NetFacts
<1>2. PeerGoes(b, h, y, c)
  BY PeerHears
<1>3. PeerGoes(b, h1, u, c)
  BY <1>1, <1>2, PeerReads
<1>d. x = peer_ends(h2) /\ h2 = peer_writes(h1)
  OBVIOUS
<1>. HIDE DEF h1, h2
<1>4. PeerGoes(b, h2, u, c) /\ (peer_opened(h2) => h2.sender.stream.bytes_w = Len(Reply))
  BY <1>1, <1>3, <1>d, PeerWrites
<1>. QED
  BY <1>1, <1>4, <1>d, PeerEnds

\* Nothing happens to it.
LEMMA PeerStays ==
    ASSUME NEW c, NEW b, NEW t, NEW y, NEW rx, NEW tx, Net(c, b, t, y, rx, tx),
           PeerSays(b), b.segments_out = << >>
    PROVE  PeerGoes(b, b, y, c)
<1>1. Half(Reply, Input, PeerISN, LocalISN, b, c, y)
  BY DEF Net
<1>2. Goes(Reply, Input, LocalISN, b, b, y, c)
  BY <1>1, SocketTexts, HalfStays
<1>3. AllPost(Reply, b, LocalISN, b.segments_out)
  BY DEF AllPost, Segs
<1>. QED
  BY <1>2, <1>3 DEF PeerGoes

\* It connects.
LEMMA PeerConnects ==
    ASSUME NEW c, NEW b, NEW t, NEW y, NEW rx, NEW tx, Net(c, b, t, y, rx, tx),
           PeerSays(b), b.segments_out = << >>, NEW x, x = connect(b)
    PROVE  PeerGoes(b, x, y, c)
<1>1. /\ Between(Reply, Input, b, y, LocalISN, c.sender) /\ Steady(Reply, Input, b, y, LocalISN)
      /\ ReceiverOK(Input, b.receiver, y, LocalISN)
  BY NetFacts
<1>2. PeerGoes(b, b, y, c)
  BY PeerStays
<1>3. /\ Called(Reply, Input, b, x, y, LocalISN, c.sender)
      /\ x.sender.last_ackno = b.sender.last_ackno
  BY <1>1, SocketTexts, ConnectCall
<1>4. Keeps(b, x)
  BY <1>1, SocketTexts, ConnectFrame
<1>5. PeerSays(x)
  BY <1>4 DEF PeerSays, Keeps, Behaves, SameInput
<1>. QED
  BY <1>1, <1>2, <1>3, <1>5, PeerGoesOn

\* It is reset by its owner.
LEMMA PeerStops ==
    ASSUME NEW c, NEW b, NEW t, NEW y, NEW rx, NEW tx, Net(c, b, t, y, rx, tx),
           PeerSays(b), b.segments_out = << >>, NEW x, x = unclean_shutdown(b)
    PROVE  PeerGoes(b, x, y, c) /\ x.segments_out = << >>
<1>1. /\ Between(Reply, Input, b, y, LocalISN, c.sender) /\ Steady(Reply, Input, b, y, LocalISN)
      /\ ReceiverOK(Input, b.receiver, y, LocalISN) /\ b \in ConnectionType(Byte)
  BY NetFacts
<1>2. PeerGoes(b, b, y, c)
  BY PeerStays
<1>3. /\ Called(Reply, Input, b, x, y, LocalISN, c.sender)
      /\ x.sender.last_ackno = b.sender.last_ackno
  <2>1. Grows(b.sender, b.sender)
    BY <1>1, SocketTexts, TextBoth, SameGrows DEF Steady
  <2>2. Adds(Reply, b, b) /\ Around(b, b)
    BY <1>1, NoneAdded DEF Around
  <2>. QED
    BY <1>1, <2>1, <2>2, SocketTexts, UncleanCall
<1>4. /\ SameInput(b.sender, x.sender) /\ x.segments_out = b.segments_out
      /\ Silent(b) => Silent(x)
  BY <1>1, SocketTexts, UncleanFrame
<1>5. PeerSays(x)
  BY <1>4 DEF PeerSays, SameInput
<1>. QED
  BY <1>1, <1>2, <1>3, <1>4, <1>5, PeerGoesOn

-----------------------------------------------------------------------------
(* The state of the system *)

\* The worlds of the thread and of the application, and what the thread does not touch.
the_world(s, p, x, f) == [sock |-> s, pair |-> p, wire |-> x, fate |-> f]
copy_of(a, p, f, m) == [app |-> a, pair |-> p, fate |-> f, room |-> m]
rest_of(q, a, ft) ==
    [b |-> q.tcp, y |-> q.taken, g |-> shown(a), o |-> owed(a),
     told |-> q.told, rs |-> ft = "reset"]
Wires == [rx : Seq(Dgrams), tx : Segs]

\* The parts of the thread's world, and when it is one.
LEMMA WorldIs ==
    ASSUME NEW s, NEW p, NEW x, NEW f, NEW w, w = the_world(s, p, x, f)
    PROVE  /\ w.sock = s /\ w.pair = p /\ w.wire = x /\ w.fate = f
           /\ w \in ThreadWorld <=> /\ s \in SocketType(Byte, Hosts) /\ p \in PairType(Byte)
                                    /\ x \in Wires /\ f \in Fates
<1>1. w.sock = s /\ w.pair = p /\ w.wire = x /\ w.fate = f
  BY DEF the_world
<1>2. ASSUME NEW C, NEW L, NEW A, NEW H, NEW Q, NEW D, NEW S
      PROVE  w \in ThreadFields(C, L, A, H, Q, D, S) <=>
                /\ s \in [tcp : C, loop : L, adapter : A, phase : H, abort : BOOLEAN,
                          outbound_shutdown : BOOLEAN, inbound_shutdown : BOOLEAN, eof : BOOLEAN]
                /\ p \in [up : Q, down : Q] /\ x \in [rx : D, tx : S] /\ f \in Fates
  <2>. DEFINE SS == [tcp : C, loop : L, adapter : A, phase : H, abort : BOOLEAN,
                     outbound_shutdown : BOOLEAN, inbound_shutdown : BOOLEAN, eof : BOOLEAN]
              PP == [up : Q, down : Q]
              XX == [rx : D, tx : S]
  <2>1. ThreadFields(C, L, A, H, Q, D, S) = [sock : SS, pair : PP, wire : XX, fate : Fates]
    BY DEF ThreadFields
  <2>2. w = [sock |-> s, pair |-> p, wire |-> x, fate |-> f]
    BY DEF the_world
  <2>. HIDE DEF SS, PP, XX
  <2>3. w \in [sock : SS, pair : PP, wire : XX, fate : Fates]
           <=> s \in SS /\ p \in PP /\ x \in XX /\ f \in Fates
    BY ONLY <2>2
  <2>. QED
    BY <2>1, <2>3 DEF SS, PP, XX
<1>. QED
  BY <1>1, <1>2 DEF ThreadWorld, SocketType, Adapters, PairType, Wires

\* The parts of the application's world, and when it is one.
LEMMA CopyIs ==
    ASSUME NEW a, NEW p, NEW f, NEW m \in Nat, NEW w, w = copy_of(a, p, f, m)
    PROVE  /\ w.app = a /\ w.pair = p /\ w.fate = f
           /\ w \in CopyWorld <=> a \in AppType(Byte) /\ p \in PairType(Byte) /\ f \in Fates
<1>1. w.app = a /\ w.pair = p /\ w.fate = f
  BY DEF copy_of
<1>2. ASSUME NEW L, NEW O, NEW Q, NEW E, NEW C
      PROVE  w \in CopyFields(L, O, Q, E, C) <=>
                /\ a \in [loop : L, outbound : O, inbound : O, outbound_shutdown : BOOLEAN,
                          inbound_shutdown : BOOLEAN, coming : Q, stdin : Q, dropped : Q,
                          stdin_end : E, input_eof : BOOLEAN, socket_eof : BOOLEAN,
                          output_closed : BOOLEAN, printed : Q]
                /\ p \in [up : C, down : C] /\ f \in Fates
  <2>. DEFINE AA == [loop : L, outbound : O, inbound : O, outbound_shutdown : BOOLEAN,
                     inbound_shutdown : BOOLEAN, coming : Q, stdin : Q, dropped : Q,
                     stdin_end : E, input_eof : BOOLEAN, socket_eof : BOOLEAN,
                     output_closed : BOOLEAN, printed : Q]
              PP == [up : C, down : C]
  <2>1. CopyFields(L, O, Q, E, C) = [app : AA, pair : PP, fate : Fates, room : Nat]
    BY DEF CopyFields
  <2>2. w = [app |-> a, pair |-> p, fate |-> f, room |-> m] /\ m \in Nat
    BY DEF copy_of
  <2>. HIDE DEF AA, PP
  <2>3. w \in [app : AA, pair : PP, fate : Fates, room : Nat]
           <=> a \in AA /\ p \in PP /\ f \in Fates
    BY ONLY <2>2
  <2>. QED
    BY <2>1, <2>3 DEF AA, PP
<1>. QED
  BY <1>1, <1>2 DEF CopyWorld, AppType, PairType

\* The parts of the rest.
LEMMA RestIs ==
    ASSUME NEW q, NEW a, NEW ft, NEW e, e = rest_of(q, a, ft)
    PROVE  /\ e.b = q.tcp /\ e.y = q.taken /\ e.g = shown(a) /\ e.o = owed(a)
           /\ e.told = q.told
           /\ e.rs <=> ft = "reset"
  BY DEF rest_of

\* What holds of the application until wait_until_closed; en: the thread has ended.
Copying(a, en, up) == CopyOK(a) /\ OutboundEnd(a, en) /\ UpEnd(a, en, TRUE, up)
DroppedLate(a, h) == a.dropped # << >> => h = "ended" /\ 2 \notin a.loop.rules
AppOK(a, p, h, ow) ==
    /\ DroppedLate(a, h)
    /\ ow \notin {"joining", "done"} =>
          \E en \in BOOLEAN : (en <=> h = "ended") /\ Copying(a, en, p.up)

\* Where the owner and the thread are.
Owners == {"none", "opening", "copying", "joining", "done"}
Owned(ow, h) ==
    ow \in Owners /\ (ow = "none" <=> h = "none") /\ (ow = "opening" <=> h \in {"connect", "listen"})

\* What holds of the peer.
Peers == [tcp : ConnectionType(Byte), taken : Seq(Byte), gone : BOOLEAN, told : BOOLEAN]
PeerOK(q, ft) ==
    /\ q \in Peers /\ PeerSays(q.tcp) /\ q.tcp.segments_out = << >>
    /\ q.gone => ft = "vanish"

\* The inductive invariant.
rest == rest_of(peer, app, fault)
SocketInv ==
    /\ ThreadInv(world, rest) /\ Results(world)
    /\ app \in AppType(Byte) /\ AppOK(app, pair, sock.phase, owner) /\ Owned(owner, sock.phase)
    /\ PeerOK(peer, fault) /\ scenario \in Scenarios /\ fault \in Faults \cup {"none"}

\* The parts of the world.
LEMMA InWorld ==
    ASSUME SocketInv
    PROVE  /\ world.sock = sock /\ world.pair = pair /\ world.wire = wire /\ world.fate = fate
           /\ world \in ThreadWorld /\ sock \in SocketType(Byte, Hosts) /\ pair \in PairType(Byte)
           /\ wire \in Wires /\ fate \in Fates
<1>1. world = the_world(sock, pair, wire, fate)
  BY DEF world, the_world
<1>2. world \in ThreadWorld
  BY ThreadFacts DEF SocketInv
<1>. QED
  BY <1>1, <1>2, WorldIs

\* A step of the thread's loop.
LEMMA ThreadKeeps ==
    ASSUME SocketInv, looping, NEW v, LoopStepped(world, v, rest), ThreadBecomes(v)
    PROVE  SocketInv'
<1>. DEFINE ow == IF owner = "opening" /\ v.sock.phase = "main" THEN "copying" ELSE owner
<1>1. /\ ThreadInv(v, rest) /\ Results(v) /\ GoesFrom(world, v) /\ v.pair.up.shut = pair.up.shut
  BY InWorld DEF LoopStepped
<1>2. sock.phase \in {"connect", "listen", "main"} /\ Looping(world)
  BY InWorld DEF looping, Looping
<1>3. /\ sock' = v.sock /\ pair' = v.pair /\ wire' = v.wire /\ fate' = v.fate /\ owner' = ow
      /\ app' = app /\ peer' = peer /\ scenario' = scenario /\ fault' = fault
  BY DEF ThreadBecomes
<1>. HIDE DEF ow
<1>4. v = [sock |-> v.sock, pair |-> v.pair, wire |-> v.wire, fate |-> v.fate]
  <2>1. v \in ThreadWorld
    BY <1>1, ThreadFacts
  <2>. QED
    BY <2>1 DEF ThreadWorld, ThreadFields
<1>5. world' = v /\ rest' = rest
  BY <1>3, <1>4 DEF world, rest
<1>6. ThreadInv(world', rest') /\ Results(world')
  BY <1>1, <1>5
<1>7. /\ v.sock.phase # "ended" /\ sock.phase # "ended"
      /\ Owned(owner, sock.phase) => Owned(ow, v.sock.phase)
  BY <1>1, <1>2, InWorld DEF GoesFrom, Owned, ow, Owners
<1>8. ow \notin {"joining", "done"} => owner \notin {"joining", "done"}
  BY DEF ow
<1>9. AppOK(app', pair', sock'.phase, owner')
  <2>0. DroppedLate(app, v.sock.phase)
    BY <1>7 DEF SocketInv, AppOK, DroppedLate
  <2>. SUFFICES ASSUME ow \notin {"joining", "done"}
                PROVE  \E en \in BOOLEAN : (en <=> v.sock.phase = "ended") /\ Copying(app, en, v.pair.up)
    BY <1>3, <2>0 DEF AppOK
  <2>1. PICK en \in BOOLEAN : (en <=> sock.phase = "ended") /\ Copying(app, en, pair.up)
    BY <1>8 DEF SocketInv, AppOK
  <2>2. Copying(app, en, v.pair.up)
    BY <1>1, <2>1 DEF Copying, UpEnd
  <2>. QED
    BY <1>7, <2>1, <2>2
<1>. QED
  BY <1>3, <1>6, <1>7, <1>9 DEF SocketInv

\* Each of the loop's steps is one.
LEMMA LoopKeeps ==
    ASSUME SocketInv, LoopExit \/ LoopPoll \/ LoopIdle \/ LoopService
    PROVE  SocketInv'
<1>1. ThreadInv(world, rest) /\ Results(world) /\ world.sock = sock /\ world.fate = fate
  BY InWorld DEF SocketInv
<1>. DEFINE set == TcpLoop!set_up(world, world.sock.loop)
<1>2. waiting = set
  BY <1>1 DEF waiting
<1>3. ASSUME looping PROVE Looping(world) /\ world.fate = "alive"
  BY <1>1, <1>3 DEF looping, Looping, alive
<1>4. TickMs \in Nat /\ 0 \in Nat
  BY SocketSpecAssumption
<1>5. CASE LoopExit
  <2>. DEFINE v == after_turn([set.w EXCEPT !.sock.loop.rules = set.rules], TRUE, 0)
  <2>1. looping /\ reported(world.sock.loop) = {} /\ set.polled = {} /\ ThreadBecomes(v)
    BY <1>1, <1>2, <1>5 DEF LoopExit, at_top
  <2>d. v = after_turn([set.w EXCEPT !.sock.loop.rules = set.rules], TRUE, 0)
        /\ set = TcpLoop!set_up(world, world.sock.loop)
    OBVIOUS
  <2>. HIDE DEF set, v
  <2>2. LoopStepped(world, v, rest)
    BY <1>1, <1>3, <2>1, <2>d, ExitStep
  <2>. QED
    BY <2>1, <2>2, ThreadKeeps
<1>6. CASE LoopPoll
  <2>. DEFINE l == polled(set)
              v == run_private([set.w EXCEPT !.sock.loop = l])
  <2>1. looping /\ ThreadBecomes(v)
    BY <1>2, <1>6 DEF LoopPoll, at_top
  <2>d. v = run_private([set.w EXCEPT !.sock.loop = l]) /\ l = polled(set)
        /\ set = TcpLoop!set_up(world, world.sock.loop)
    OBVIOUS
  <2>. HIDE DEF set, l, v
  <2>2. LoopStepped(world, v, rest)
    BY <1>1, <1>3, <2>1, <2>d, PollStep
  <2>. QED
    BY <2>1, <2>2, ThreadKeeps
<1>7. CASE LoopIdle
  <2>. DEFINE l == polled(set)
              ms == IF quiet THEN TickMs ELSE 0
              v == after_turn([set.w EXCEPT !.sock.loop = l], FALSE, ms)
  <2>1. looping /\ reported(l) = {} /\ ThreadBecomes(v)
    BY <1>2, <1>7 DEF LoopIdle, at_top, idle_turn
  <2>2. ms \in Nat
    BY <1>4
  <2>d. v = after_turn([set.w EXCEPT !.sock.loop = l], FALSE, ms) /\ l = polled(set)
        /\ set = TcpLoop!set_up(world, world.sock.loop)
    OBVIOUS
  <2>. HIDE DEF set, l, v, ms
  <2>3. LoopStepped(world, v, rest)
    BY <1>1, <1>3, <2>1, <2>2, <2>d, IdleStep
  <2>. QED
    BY <2>1, <2>3, ThreadKeeps
<1>8. CASE LoopService
  <2>. DEFINE v == run_private(serve(world))
  <2>1. looping /\ reported(world.sock.loop) # {} /\ ThreadBecomes(v)
    BY <1>1, <1>8 DEF LoopService
  <2>d. v = run_private(serve(world))
    OBVIOUS
  <2>. HIDE DEF v
  <2>2. LoopStepped(world, v, rest)
    BY <1>1, <1>3, <2>1, <2>d, ServiceStep
  <2>. QED
    BY <2>1, <2>2, ThreadKeeps
<1>. QED
  BY <1>5, <1>6, <1>7, <1>8

\* When the thread has ended less is asked of the application.
LEMMA EndedCopying ==
    ASSUME NEW a, NEW en \in BOOLEAN, NEW up, Copying(a, en, up), NEW em \in BOOLEAN, em,
           NEW ch
    PROVE  Copying(a, em, ch)
  BY DEF Copying, OutboundEnd, UpEnd

\* The thread ends.
LEMMA LeaveKeeps ==
    ASSUME SocketInv, LoopLeave
    PROVE  SocketInv'
<1>. DEFINE v == after_leaving(world, destruct(world.sock.tcp), shutdown_rdwr(world.pair))
<1>1. /\ world.sock = sock /\ world.pair = pair /\ world.wire = wire /\ world.fate = fate
      /\ ThreadInv(world, rest) /\ Results(world) /\ Owned(owner, sock.phase)
  BY InWorld DEF SocketInv
<1>2. /\ sock.phase = "leaving" /\ pair' = shutdown_rdwr(pair)
      /\ sock' = [sock EXCEPT !.phase = "ended", !.tcp = destruct(@)]
      /\ wire' = wire /\ fate' = fate /\ owner' = owner /\ app' = app /\ peer' = peer
      /\ scenario' = scenario /\ fault' = fault
  BY DEF LoopLeave
<1>3. v = [sock |-> [sock EXCEPT !.phase = "ended", !.tcp = destruct(@)],
           pair |-> shutdown_rdwr(pair), wire |-> wire, fate |-> fate]
  BY <1>1 DEF after_leaving
<1>4. world' = v /\ rest' = rest
  BY <1>2, <1>3 DEF world, rest
<1>d. v = after_leaving(world, destruct(world.sock.tcp), shutdown_rdwr(world.pair))
  OBVIOUS
<1>. HIDE DEF v
<1>5. ThreadInv(v, rest) /\ Results(v) /\ v.sock.phase = "ended"
  BY <1>1, <1>2, <1>d, LeaveStep
<1>6. v.sock = sock'
  BY <1>2, <1>3
<1>7. Owned(owner', sock'.phase)
  BY <1>1, <1>2, <1>5, <1>6 DEF Owned
<1>8. AppOK(app', pair', sock'.phase, owner')
  <2>0. DroppedLate(app, sock'.phase)
    BY <1>5, <1>6 DEF SocketInv, AppOK, DroppedLate
  <2>. SUFFICES ASSUME owner \notin {"joining", "done"}
                PROVE  \E en \in BOOLEAN : (en <=> sock'.phase = "ended") /\ Copying(app, en, pair'.up)
    BY <1>2, <2>0 DEF AppOK
  <2>1. PICK en \in BOOLEAN : Copying(app, en, pair.up)
    BY DEF SocketInv, AppOK
  <2>2. PICK em \in BOOLEAN : em
    OBVIOUS
  <2>3. Copying(app, em, pair'.up)
    BY <2>1, <2>2, EndedCopying
  <2>. QED
    BY <1>5, <1>6, <2>2, <2>3
<1>. QED
  BY <1>2, <1>4, <1>5, <1>7, <1>8 DEF SocketInv

\* Something changes that the thread sees only through the pair of sockets.
Seen(w, v, e, f) ==
    /\ v \in ThreadWorld /\ v.sock = w.sock /\ v.wire = w.wire /\ Bounded(v.pair)
    /\ f.b = e.b /\ f.y = e.y /\ (e.told => f.told) /\ (f.rs <=> e.rs)
    /\ f.g \in Seq(Byte) /\ f.o \in Seq(Byte)
    /\ UpOK(v, f) /\ Accounted(v, f)
    /\ 2 \in v.sock.loop.ready => readable(v.pair.up)

\* Such a change keeps the invariant of the thread.
LEMMA PairChanges ==
    ASSUME NEW w, NEW e, ThreadInv(w, e), Results(w), NEW v, NEW f, Seen(w, v, e, f), NEW t,
           t = e.g \o w.pair.down.data, t = f.g \o v.pair.down.data
    PROVE  ThreadInv(v, f) /\ Results(v)
<1>1. /\ Net(w.sock.tcp, e.b, t, e.y, w.wire.rx, w.wire.tx)
      /\ Ends(w.sock) /\ Strange(w.wire.rx, e.rs) /\ Gives(w, e)
  BY ThreadFacts
<1>2. Net(v.sock.tcp, f.b, f.g \o v.pair.down.data, f.y, v.wire.rx, v.wire.tx)
  BY <1>1 DEF Seen
<1>3. Ends(v.sock) /\ Strange(v.wire.rx, f.rs)
  BY <1>1 DEF Seen, Strange
<1>4. Gives(v, f)
  BY <1>1 DEF Seen, Gives, Failed
<1>5. Results(v)
  BY DEF Seen, Results
<1>. QED
  BY <1>2, <1>3, <1>4, <1>5 DEF ThreadInv, Seen

\* The application's invariant is part of the system's.
now_in == shown(app) \o pair.down.data

\* Until the copy is over it holds.
LEMMA CopyHolds ==
    ASSUME SocketInv, owner \notin {"joining", "done"}, NEW m \in Nat
    PROVE  \E en \in BOOLEAN, ru \in BOOLEAN :
               /\ en <=> sock.phase = "ended"
               /\ ru <=> 2 \in sock.loop.ready
               /\ CopyInv(copy_world(m), en, sock.tcp.sender.stream.bytes_w, now_in, ru)
<1>1. PICK en \in BOOLEAN : (en <=> sock.phase = "ended") /\ Copying(app, en, pair.up)
  BY DEF SocketInv, AppOK
<1>2. PICK ru \in BOOLEAN : ru <=> 2 \in sock.loop.ready
  OBVIOUS
<1>3. copy_world(m) = copy_of(app, pair, fate, m)
  BY DEF copy_world, copy_of
<1>4. /\ copy_world(m).app = app /\ copy_world(m).pair = pair /\ copy_world(m).fate = fate
      /\ copy_world(m) \in CopyWorld
  BY <1>3, InWorld, CopyIs DEF SocketInv
<1>5. /\ world.sock = sock /\ world.pair = pair /\ world.fate = fate
      /\ Accounted(world, rest) /\ Bounded(world.pair) /\ Results(world)
  BY InWorld, ThreadFacts DEF SocketInv
<1>6. rest.o = owed(app)
  BY RestIs DEF rest
<1>7. fate = "alive" => Account(sock.tcp.sender.stream.bytes_w, pair.up, owed(app))
  BY <1>5, <1>6 DEF Accounted, Account
<1>8. ru => readable(pair.up)
  BY <1>2, <1>5 DEF Results
<1>9. CopyInv(copy_world(m), en, sock.tcp.sender.stream.bytes_w, now_in, ru)
  BY <1>1, <1>4, <1>5, <1>7, <1>8 DEF CopyInv, Copying, now_in
<1>. QED
  BY <1>1, <1>2, <1>9

\* Where the writing is.
LEMMA WrittenSoFar ==
    ASSUME SocketInv
    PROVE  /\ sock.tcp.sender.stream.bytes_w \in Nat
           /\ sock.tcp.sender.stream.bytes_w <= Len(Input)
<1>1. Net(sock.tcp, rest.b, rest.g \o pair.down.data, rest.y, wire.rx, wire.tx)
  BY InWorld, ThreadFacts DEF SocketInv
<1>2. Steady(Input, Reply, sock.tcp, rest.g \o pair.down.data, PeerISN)
  BY <1>1, NetFacts
<1>. QED
  BY <1>2, SocketTexts, OutFacts DEF Steady

\* What is shown and owed are bytes.
LEMMA ShownBytes ==
    ASSUME NEW a \in AppType(Byte)
    PROVE  shown(a) \in Seq(Byte) /\ owed(a) \in Seq(Byte)
<1>1. /\ a.outbound \in ByteStreamType(Byte) /\ a.inbound \in ByteStreamType(Byte)
      /\ a.stdin \in Seq(Byte) /\ a.coming \in Seq(Byte) /\ a.dropped \in Seq(Byte)
      /\ a.printed \in Seq(Byte)
  BY DEF AppType
<1>2. a.outbound.buff \in Seq(Byte) /\ a.inbound.buff \in Seq(Byte)
  BY <1>1 DEF ByteStreamType
<1>3. shown(a) \in Seq(Byte)
  BY <1>1, <1>2, BytesJoined DEF shown
<1>4. a.stdin \o a.coming \in Seq(Byte)
  BY ONLY <1>1, BytesJoined
<1>5. a.dropped \o (a.stdin \o a.coming) \in Seq(Byte)
  BY ONLY <1>1, <1>4, BytesJoined
<1>6. a.outbound.buff \o (a.dropped \o (a.stdin \o a.coming)) \in Seq(Byte)
  BY ONLY <1>2, <1>5, BytesJoined
<1>. QED
  BY <1>3, <1>6 DEF owed, unsent

\* The application does something, and with it the pair of sockets.
LEMMA AppStep ==
    ASSUME SocketInv, NEW a \in AppType(Byte), NEW p \in PairType(Byte), NEW fa \in Fates,
           app' = a, pair' = p, fate' = fa, UNCHANGED << sock, wire, peer, fault >>, Bounded(p),
           shown(a) \o p.down.data = now_in,
           p.up.shut => sock.phase = "ended" \/ owed(a) = << >>,
           fa = "alive" => Account(sock.tcp.sender.stream.bytes_w, p.up, owed(a)),
           2 \in sock.loop.ready => readable(p.up)
    PROVE  ThreadInv(world', rest') /\ Results(world')
<1>. DEFINE w == the_world(sock, p, wire, fa)
            f == rest_of(peer, a, fault)
<1>4. world' = w /\ rest' = f
  BY DEF world, rest, the_world
<1>5. /\ w.sock = sock /\ w.pair = p /\ w.wire = wire /\ w.fate = fa /\ w \in ThreadWorld
  BY InWorld, WorldIs
<1>6. /\ f.b = peer.tcp /\ f.y = peer.taken /\ f.g = shown(a) /\ f.o = owed(a)
      /\ f.told = peer.told
      /\ f.rs <=> fault = "reset"
  BY RestIs
<1>7. /\ rest.b = peer.tcp /\ rest.y = peer.taken /\ rest.g = shown(app)
      /\ rest.told = peer.told /\ (rest.rs <=> fault = "reset")
  BY RestIs DEF rest
<1>8. /\ world.sock = sock /\ world.pair = pair /\ world.wire = wire /\ Results(world)
      /\ ThreadInv(world, rest)
  BY InWorld DEF SocketInv
<1>. HIDE DEF w, f
<1>9. f.g \in Seq(Byte) /\ f.o \in Seq(Byte)
  BY <1>6, ShownBytes
<1>10. UpOK(w, f)
  BY <1>5, <1>6 DEF UpOK
<1>11. Accounted(w, f)
  BY <1>5, <1>6 DEF Accounted, Account
<1>12. Seen(world, w, rest, f)
  BY <1>5, <1>6, <1>7, <1>8, <1>9, <1>10, <1>11 DEF Seen
<1>13. now_in = rest.g \o world.pair.down.data /\ now_in = f.g \o w.pair.down.data
  BY <1>5, <1>6, <1>7, <1>8 DEF now_in
<1>14. ThreadInv(w, f) /\ Results(w)
  BY <1>8, <1>12, <1>13, PairChanges
<1>. QED
  BY <1>4, <1>14

\* A step of the application's loop.
LEMMA CopyKeeps ==
    ASSUME SocketInv, copying, NEW v, CopyBecomes(v),
           NEW en \in BOOLEAN, en <=> sock.phase = "ended", NEW ru \in BOOLEAN,
           ru <=> 2 \in sock.loop.ready,
           CopyInv(v, en, sock.tcp.sender.stream.bytes_w, now_in, ru)
    PROVE  SocketInv'
<1>1. /\ app' = v.app /\ pair' = v.pair /\ fate' = v.fate /\ sock' = sock /\ wire' = wire
      /\ owner' = owner /\ peer' = peer /\ scenario' = scenario /\ fault' = fault
  BY DEF CopyBecomes
<1>2. /\ v \in CopyWorld /\ CopyOK(v.app) /\ OutboundEnd(v.app, en)
      /\ UpEnd(v.app, en, TRUE, v.pair.up)
      /\ v.fate = "alive" => Account(sock.tcp.sender.stream.bytes_w, v.pair.up, owed(v.app))
      /\ shown(v.app) \o v.pair.down.data = now_in
      /\ (ru => readable(v.pair.up)) /\ Bounded(v.pair)
  BY DEF CopyInv
<1>3. v.app \in AppType(Byte) /\ v.pair \in PairType(Byte) /\ v.fate \in Fates
  BY <1>2 DEF CopyWorld, CopyFields, AppType, PairType
<1>4. v.pair.up.shut => sock.phase = "ended" \/ owed(v.app) = << >>
  BY <1>2 DEF UpEnd
<1>5. ThreadInv(world', rest') /\ Results(world')
  BY <1>1, <1>2, <1>3, <1>4, AppStep
<1>6. AppOK(app', pair', sock'.phase, owner')
  <2>1. DroppedLate(v.app, sock.phase)
    BY <1>2 DEF DroppedLate, OutboundEnd
  <2>. QED
    BY <1>1, <1>2, <2>1 DEF AppOK, Copying
<1>. QED
  BY <1>1, <1>3, <1>5, <1>6 DEF SocketInv

\* The copy goes on.
LEMMA CopyGoesOn ==
    ASSUME SocketInv, CopyPoll \/ CopyService
    PROVE  SocketInv'
<1>0. copying /\ fate = "alive" /\ owner \notin {"joining", "done"}
  BY DEF CopyPoll, CopyService, copying, alive
<1>. DEFINE bw == sock.tcp.sender.stream.bytes_w
<1>1. ASSUME NEW m \in Nat
      PROVE  \E en \in BOOLEAN, ru \in BOOLEAN :
                /\ en <=> sock.phase = "ended"
                /\ ru <=> 2 \in sock.loop.ready
                /\ CopyInv(copy_world(m), en, bw, now_in, ru)
  BY <1>0, CopyHolds
<1>2. bw \in Nat /\ bw <= Len(Input)
  BY WrittenSoFar
<1>3. ASSUME NEW m PROVE copy_world(m).app = app /\ copy_world(m).fate = "alive"
  BY <1>0 DEF copy_world
<1>4. ASSUME NEW v, CopyBecomes(v), NEW en \in BOOLEAN, NEW ru \in BOOLEAN,
             en <=> sock.phase = "ended", ru <=> 2 \in sock.loop.ready,
             CopyInv(v, en, bw, now_in, ru)
      PROVE  SocketInv'
  BY <1>0, <1>4, CopyKeeps
<1>. HIDE DEF bw
<1>5. CASE CopyPoll
  <2>1. PICK m \in 1 .. CopyBuffer : \E set \in {copy_waiting(m)} : \E loop \in {copy_polled(set)} :
           CopyBecomes(copy_private([set.w EXCEPT !.app.loop = loop]))
    BY <1>5 DEF CopyPoll
  <2>0. m \in Nat
    BY CopyBufferAssumption
  <2>. DEFINE set == CopyLoop!set_up(copy_world(m), copy_world(m).app.loop)
              x == [set.w EXCEPT !.app.loop = copy_polled(set)]
              v == copy_private(x)
  <2>2. CopyBecomes(v)
    BY <1>3, <2>1 DEF copy_waiting
  <2>d. /\ set = CopyLoop!set_up(copy_world(m), copy_world(m).app.loop) /\ v = copy_private(x)
        /\ x = [set.w EXCEPT !.app.loop = copy_polled(set)]
    OBVIOUS
  <2>. HIDE DEF set, x, v
  <2>3. PICK en \in BOOLEAN, ru \in BOOLEAN :
           /\ en <=> sock.phase = "ended"
           /\ ru <=> 2 \in sock.loop.ready
           /\ CopyInv(copy_world(m), en, bw, now_in, ru)
    BY <1>1, <2>0
  <2>4. CopyInv(x, en, bw, now_in, ru)
    <3>1. copy_world(m).fate = "alive"
      BY <1>3
    <3>. QED
      BY <1>2, <2>3, <2>d, <3>1, CopyPolled
  <2>5. CopyInv(v, en, bw, now_in, ru)
    BY <1>2, <2>4, <2>d, CopyPrivate
  <2>. QED
    BY <1>4, <2>2, <2>3, <2>5
<1>6. CASE CopyService
  <2>1. PICK m \in 1 .. CopyBuffer : CopyBecomes(copy_private(copy_serve(copy_world(m))))
    BY <1>6 DEF CopyService
  <2>0. m \in Nat
    BY CopyBufferAssumption
  <2>. DEFINE x == copy_serve(copy_world(m))
              v == copy_private(x)
  <2>2. /\ CopyBecomes(v) /\ reported(copy_world(m).app.loop) # {}
        /\ copy_world(m).fate = "alive"
    BY <1>3, <1>6, <2>1 DEF CopyService
  <2>d. x = copy_serve(copy_world(m)) /\ v = copy_private(x)
    OBVIOUS
  <2>. HIDE DEF x, v
  <2>3. PICK en \in BOOLEAN, ru \in BOOLEAN :
           /\ en <=> sock.phase = "ended"
           /\ ru <=> 2 \in sock.loop.ready
           /\ CopyInv(copy_world(m), en, bw, now_in, ru)
    BY <1>1, <2>0
  <2>4. CopyInv(x, en, bw, now_in, ru)
    BY <1>2, <2>2, <2>3, <2>d, CopyServe
  <2>5. CopyInv(v, en, bw, now_in, ru)
    BY <1>2, <2>4, <2>d, CopyPrivate
  <2>. QED
    BY <1>4, <2>2, <2>3, <2>5
<1>. QED
  BY <1>5, <1>6

\* The application with other rules, other input or another end of it.
with_rules(a, r) == [a EXCEPT !.loop.rules = r]
with_stdin(a, q, r) == [a EXCEPT !.stdin = q, !.coming = r]
with_end(a, x) == [a EXCEPT !.stdin_end = x]
AppAlike(a, b) ==
    /\ b \in AppType(Byte) /\ b.printed = a.printed /\ b.inbound = a.inbound
    /\ b.outbound = a.outbound /\ b.socket_eof = a.socket_eof
    /\ b.input_eof = a.input_eof /\ b.output_closed = a.output_closed
    /\ b.outbound_shutdown = a.outbound_shutdown /\ b.dropped = a.dropped
app_of(L, O, Q, E) ==
    [loop : L, outbound : O, inbound : O, outbound_shutdown : BOOLEAN,
     inbound_shutdown : BOOLEAN, coming : Q, stdin : Q, dropped : Q, stdin_end : E,
     input_eof : BOOLEAN, socket_eof : BOOLEAN, output_closed : BOOLEAN, printed : Q]
AppTypeIs == AppType(Byte) =
    app_of(EventLoopType(4), ByteStreamType(Byte), Seq(Byte), {"open", "eof", "hup"})

\* Cancelling rules changes the rules only.
LEMMA AppRules ==
    ASSUME NEW a \in AppType(Byte), NEW r \in SUBSET (1 .. 4), NEW b, b = with_rules(a, r)
    PROVE  AppAlike(a, b) /\ b.stdin = a.stdin /\ b.coming = a.coming /\ b.loop.rules = r
<1>. DEFINE l == [a.loop EXCEPT !.rules = r]
<1>1. l \in EventLoopType(4) /\ l.rules = r
  <2>1. a.loop \in EventLoopType(4)
    BY DEF AppType
  <2>. QED
    BY <2>1 DEF EventLoopType
<1>2. b = [a EXCEPT !.loop = l]
  BY DEF with_rules
<1>. HIDE DEF l
<1>3. AppTypeIs
  BY DEF AppTypeIs, AppType, app_of
<1>4. ASSUME NEW L, NEW O, NEW Q, NEW E, a \in app_of(L, O, Q, E), l \in L
      PROVE  /\ b \in app_of(L, O, Q, E) /\ b.printed = a.printed /\ b.inbound = a.inbound
             /\ b.outbound = a.outbound /\ b.socket_eof = a.socket_eof
             /\ b.input_eof = a.input_eof /\ b.output_closed = a.output_closed
             /\ b.outbound_shutdown = a.outbound_shutdown /\ b.stdin = a.stdin
             /\ b.dropped = a.dropped /\ b.coming = a.coming /\ b.loop = l
  BY <1>2, <1>4 DEF app_of
<1>. QED
  BY <1>1, <1>3, <1>4 DEF AppTypeIs, AppAlike

\* Typing changes the input only.
LEMMA AppTypes ==
    ASSUME NEW a \in AppType(Byte), NEW q \in Seq(Byte), NEW r \in Seq(Byte), NEW b,
           b = with_stdin(a, q, r)
    PROVE  /\ AppAlike(a, b) /\ b.stdin = q /\ b.coming = r /\ b.loop = a.loop
           /\ b.stdin_end = a.stdin_end
<1>3. AppTypeIs
  BY DEF AppTypeIs, AppType, app_of
<1>4. ASSUME NEW L, NEW O, NEW Q, NEW E, a \in app_of(L, O, Q, E), q \in Q, r \in Q
      PROVE  /\ b \in app_of(L, O, Q, E) /\ b.printed = a.printed /\ b.inbound = a.inbound
             /\ b.outbound = a.outbound /\ b.socket_eof = a.socket_eof
             /\ b.input_eof = a.input_eof /\ b.output_closed = a.output_closed
             /\ b.outbound_shutdown = a.outbound_shutdown /\ b.stdin = q
             /\ b.loop = a.loop /\ b.stdin_end = a.stdin_end /\ b.dropped = a.dropped
             /\ b.coming = r
  BY <1>4 DEF app_of, with_stdin
<1>. QED
  BY <1>3, <1>4 DEF AppTypeIs, AppAlike

\* Ending the input changes its end only.
LEMMA AppCloses ==
    ASSUME NEW a \in AppType(Byte), NEW x \in {"open", "eof", "hup"}, NEW b, b = with_end(a, x)
    PROVE  /\ AppAlike(a, b) /\ b.stdin = a.stdin /\ b.coming = a.coming /\ b.loop = a.loop
           /\ b.stdin_end = x
<1>3. AppTypeIs
  BY DEF AppTypeIs, AppType, app_of
<1>4. ASSUME NEW L, NEW O, NEW Q, NEW E, a \in app_of(L, O, Q, E), x \in E
      PROVE  /\ b \in app_of(L, O, Q, E) /\ b.printed = a.printed /\ b.inbound = a.inbound
             /\ b.outbound = a.outbound /\ b.socket_eof = a.socket_eof
             /\ b.input_eof = a.input_eof /\ b.output_closed = a.output_closed
             /\ b.outbound_shutdown = a.outbound_shutdown /\ b.stdin = a.stdin
             /\ b.loop = a.loop /\ b.stdin_end = x /\ b.dropped = a.dropped
             /\ b.coming = a.coming
  BY <1>4 DEF app_of, with_end
<1>. QED
  BY <1>3, <1>4 DEF AppTypeIs, AppAlike

\* wait_until_closed.
LEMMA ClosedKeeps ==
    ASSUME SocketInv, WaitUntilClosed
    PROVE  SocketInv'
<1>. DEFINE bw == sock.tcp.sender.stream.bytes_w
            set == CopyLoop!set_up(copy_world(1), copy_world(1).app.loop)
            up == shutdown_wr(pair.up)
            dn == shutdown_wr(pair.down)
<1>0. /\ owner = "copying" /\ fate = "alive" /\ set.polled = {} /\ owner' = "joining"
      /\ app' = [set.w.app EXCEPT !.loop.rules = set.rules] /\ pair' = shutdown_rdwr(pair)
      /\ UNCHANGED << sock, wire, fate, peer, scenario, fault >>
  BY DEF WaitUntilClosed, copying, alive, copy_waiting, copy_world
<1>1. PICK en \in BOOLEAN, ru \in BOOLEAN :
         /\ en <=> sock.phase = "ended"
         /\ ru <=> 2 \in sock.loop.ready
         /\ CopyInv(copy_world(1), en, bw, now_in, ru)
  BY <1>0, CopyHolds
<1>d. set = CopyLoop!set_up(copy_world(1), copy_world(1).app.loop)
  OBVIOUS
<1>w. copy_world(1).app = app /\ copy_world(1).pair = pair /\ copy_world(1).fate = fate
  BY DEF copy_world
<1>. HIDE DEF set
<1>2. /\ en \/ owed(app) = << >>
      /\ set.w = copy_world(1) /\ set.rules \in SUBSET (1 .. 4) /\ set.rules \subseteq app.loop.rules
  <2>1. CopyInv(copy_world(1), en, bw, now_in, ru) /\ set.polled = {}
    BY <1>0, <1>1
  <2>. HIDE DEF bw
  <2>2. CopyOver(copy_world(1), en, set)
    BY ONLY <1>d, <2>1, en \in BOOLEAN, CopyIsOver
  <2>. QED
    BY <1>w, <2>2 DEF CopyOver
<1>. DEFINE a == with_rules(app, set.rules)
<1>3. app' = a
  BY <1>0, <1>2, <1>w DEF with_rules
<1>4. /\ a \in AppType(Byte) /\ a.printed = app.printed /\ a.inbound = app.inbound
      /\ a.outbound = app.outbound /\ a.stdin = app.stdin /\ a.coming = app.coming
      /\ a.dropped = app.dropped /\ a.loop.rules = set.rules
  <2>1. /\ app \in AppType(Byte) /\ << >> \in Seq(Byte) /\ "open" \in {"open", "eof", "hup"}
        /\ set.rules \in SUBSET (1 .. 4)
    BY <1>2 DEF SocketInv
  <2>. HIDE DEF a
  <2>2. a = with_rules(app, set.rules)
    BY DEF a
  <2>. QED
    <3>1. AppAlike(app, a) /\ a.stdin = app.stdin /\ a.coming = app.coming /\ a.loop.rules = set.rules
      BY ONLY <2>1, <2>2, AppRules
    <3>. QED
      BY <3>1 DEF AppAlike
<1>. HIDE DEF a
<1>5. shown(a) = shown(app) /\ owed(a) = owed(app)
  BY <1>4 DEF shown, owed, unsent
<1>6. pair \in PairType(Byte) /\ pair.up \in ChannelType(Byte) /\ pair.down \in ChannelType(Byte)
  BY InWorld DEF PairType
<1>7. /\ up \in ChannelType(Byte) /\ up.data = pair.up.data /\ readable(up)
      /\ dn \in ChannelType(Byte) /\ dn.data = pair.down.data
  BY <1>6, Shutting
<1>. DEFINE p == [up |-> up, down |-> dn]
<1>8. pair' = p
  BY <1>0 DEF shutdown_rdwr
<1>9. p \in PairType(Byte) /\ p.up = up /\ p.down = dn
  BY <1>7 DEF PairType
<1>. HIDE DEF p, up, dn
<1>10. /\ Account(bw, pair.up, owed(app)) /\ Bounded(pair)
  BY <1>0, <1>1, <1>w DEF CopyInv
<1>11. /\ Bounded(p) /\ shown(a) \o p.down.data = now_in /\ readable(p.up)
       /\ p.up.shut => sock.phase = "ended" \/ owed(a) = << >>
       /\ fate = "alive" => Account(bw, p.up, owed(a))
  BY <1>1, <1>2, <1>5, <1>7, <1>9, <1>10 DEF Bounded, now_in, Account
<1>12. ThreadInv(world', rest') /\ Results(world')
  <2>1. fate \in Fates /\ fate' = fate
    BY <1>0, InWorld
  <2>. QED
    BY <1>0, <1>3, <1>4, <1>8, <1>9, <1>11, <2>1, AppStep
<1>13. AppOK(app', pair', sock'.phase, owner') /\ Owned(owner', sock'.phase)
  <2>1. DroppedLate(app, sock.phase)
    BY DEF SocketInv, AppOK
  <2>2. DroppedLate(a, sock.phase)
    BY <1>2, <1>4, <2>1 DEF DroppedLate
  <2>. QED
    BY <1>0, <1>3, <2>2 DEF AppOK, Owned, Owners, SocketInv
<1>. QED
  BY <1>0, <1>3, <1>4, <1>12, <1>13 DEF SocketInv

\* Something is typed, or the input ends.
LEMMA UserKeeps ==
    ASSUME SocketInv, Type \/ CloseInput
    PROVE  SocketInv'
<1>. DEFINE bw == sock.tcp.sender.stream.bytes_w
<1>0. /\ owner = "copying" /\ fate = "alive" /\ reported(app.loop) = {} /\ app.stdin_end = "open"
      /\ UNCHANGED << sock, pair, fate, owner, scenario, wire, peer, fault >>
  BY DEF Type, CloseInput, copying, alive, EnvironmentChanges
<1>1. PICK en \in BOOLEAN, ru \in BOOLEAN :
         /\ en <=> sock.phase = "ended"
         /\ ru <=> 2 \in sock.loop.ready
         /\ CopyInv(copy_world(1), en, bw, now_in, ru)
  BY <1>0, CopyHolds
<1>w. copy_world(1).app = app /\ copy_world(1).pair = pair /\ copy_world(1).fate = fate
  BY DEF copy_world
<1>2. /\ CopyOK(app) /\ OutboundEnd(app, en) /\ UpEnd(app, en, TRUE, pair.up)
      /\ Account(bw, pair.up, owed(app)) /\ Bounded(pair)
      /\ ru => readable(pair.up)
  BY <1>0, <1>1, <1>w DEF CopyInv
<1>3. /\ app \in AppType(Byte) /\ pair \in PairType(Byte) /\ fate \in Fates
      /\ scenario.end \in {"open", "eof", "hup"} /\ Input \in Seq(Byte)
  BY InWorld, SocketTexts, SocketSpecAssumption DEF SocketInv
<1>4. app.loop.ready = {} /\ app.loop.hangups = {}
  BY <1>0 DEF reported
<1>5. ASSUME NEW a, a \in AppType(Byte), app' = a, a.loop = app.loop, shown(a) = shown(app),
             CopyOK(a), OutboundEnd(a, en), UpEnd(a, en, TRUE, pair.up),
             Account(bw, pair.up, owed(a))
      PROVE  SocketInv'
  <2>1. pair.up.shut => sock.phase = "ended" \/ owed(a) = << >>
    BY <1>1, <1>5 DEF UpEnd
  <2>2. shown(a) \o pair.down.data = now_in /\ (2 \in sock.loop.ready => readable(pair.up))
    BY <1>1, <1>2, <1>5 DEF now_in
  <2>3. ThreadInv(world', rest') /\ Results(world')
    BY <1>0, <1>2, <1>3, <1>5, <2>1, <2>2, AppStep
  <2>4. AppOK(app', pair', sock'.phase, owner')
    <3>1. DroppedLate(a, sock.phase)
      BY <1>1, <1>5 DEF DroppedLate, OutboundEnd
    <3>. QED
      BY <1>0, <1>1, <1>5, <3>1 DEF AppOK, Copying
  <2>. QED
    BY <1>0, <1>5, <2>3, <2>4 DEF SocketInv
<1>6. CASE CloseInput
  <2>. DEFINE a == with_end(app, scenario.end)
  <2>1. app' = a /\ app.coming = << >>
    BY <1>6 DEF CloseInput, with_end
  <2>2. /\ a \in AppType(Byte) /\ a.printed = app.printed /\ a.inbound = app.inbound
        /\ a.outbound = app.outbound /\ a.stdin = app.stdin /\ a.loop = app.loop
        /\ a.socket_eof = app.socket_eof /\ a.input_eof = app.input_eof
        /\ a.output_closed = app.output_closed /\ a.outbound_shutdown = app.outbound_shutdown
        /\ a.coming = app.coming /\ a.dropped = app.dropped
    <3>1. /\ {} \in SUBSET (1 .. 4) /\ app \in AppType(Byte) /\ Input \in Seq(Byte)
          /\ scenario.end \in {"open", "eof", "hup"} /\ a = with_end(app, scenario.end)
      BY <1>3
    <3>. HIDE DEF a
    <3>2. AppAlike(app, a) /\ a.stdin = app.stdin /\ a.coming = app.coming /\ a.loop = app.loop
      BY ONLY <3>1, AppCloses
    <3>. QED
      BY <3>2 DEF AppAlike
  <2>. HIDE DEF a
  <2>3. shown(a) = shown(app) /\ owed(a) = owed(app)
    BY <2>2 DEF shown, owed, unsent
  <2>4. CopyOK(a)
    BY <1>2, <1>4, <2>1, <2>2, <2>3 DEF CopyOK
  <2>5. OutboundEnd(a, en) /\ UpEnd(a, en, TRUE, pair.up)
    BY <1>2, <2>2, <2>3 DEF OutboundEnd, UpEnd
  <2>6. Account(bw, pair.up, owed(a))
    BY <1>2, <2>3
  <2>. QED
    BY <1>5, <2>1, <2>2, <2>3, <2>4, <2>5, <2>6
<1>7. CASE Type
  <2>1. PICK n \in 1 .. Len(app.coming) :
           app' = [app EXCEPT !.stdin = @ \o SubSeq(app.coming, 1, n),
                              !.coming = SubSeq(@, n + 1, Len(@))]
    BY <1>7 DEF Type
  <2>. DEFINE q == app.stdin
              r == app.coming
              y == q \o front(r, n)
              z == behind(r, n)
              a == with_stdin(app, y, z)
  <2>2. app' = a
    BY <2>1 DEF with_stdin, front, behind
  <2>3. q \in Seq(Byte) /\ r \in Seq(Byte) /\ n \in Nat /\ n <= Len(r) /\ r # << >>
    <3>1. q \in Seq(Byte) /\ r \in Seq(Byte)
      BY <1>3 DEF AppType
    <3>. QED
      BY <2>1, <3>1
  <2>d. q = app.stdin /\ r = app.coming /\ y = q \o front(r, n) /\ z = behind(r, n)
        /\ a = with_stdin(app, y, z)
    OBVIOUS
  <2>. HIDE DEF q, r, y, z, a
  <2>4. y \in Seq(Byte) /\ z \in Seq(Byte) /\ y \o z = q \o r
    <3>1. q \in Seq(Byte) /\ r \in Seq(Byte) /\ n \in Nat /\ n <= Len(r)
      BY <2>3
    <3>2. /\ (q \o front(r, n)) \o behind(r, n) = q \o r /\ q \o front(r, n) \in Seq(Byte)
          /\ behind(r, n) \in Seq(Byte)
      BY ONLY <3>1, MoveBytes
    <3>. QED
      BY ONLY <2>d, <3>2
  <2>5. /\ a \in AppType(Byte) /\ a.printed = app.printed /\ a.inbound = app.inbound
        /\ a.outbound = app.outbound /\ a.stdin = y /\ a.coming = z /\ a.loop = app.loop
        /\ a.dropped = app.dropped /\ a.outbound_shutdown = app.outbound_shutdown
        /\ a.socket_eof = app.socket_eof /\ a.input_eof = app.input_eof
        /\ a.output_closed = app.output_closed /\ a.stdin_end = app.stdin_end
    <3>1. /\ app \in AppType(Byte) /\ y \in Seq(Byte) /\ z \in Seq(Byte)
          /\ a = with_stdin(app, y, z)
      BY <1>3, <2>4, <2>d
    <3>2. AppAlike(app, a) /\ a.stdin = y /\ a.coming = z /\ a.loop = app.loop
          /\ a.stdin_end = app.stdin_end
      BY ONLY <3>1, AppTypes
    <3>. QED
      BY <3>2 DEF AppAlike
  <2>6. shown(a) = shown(app) /\ owed(a) = owed(app)
    BY <2>4, <2>5, <2>d DEF shown, owed, unsent
  <2>7. CopyOK(a)
    BY <1>0, <1>2, <1>4, <2>5 DEF CopyOK
  <2>8. OutboundEnd(a, en)
    BY <1>2, <2>3, <2>5, <2>d DEF OutboundEnd
  <2>9. UpEnd(a, en, TRUE, pair.up) /\ Account(bw, pair.up, owed(a))
    BY <1>2, <2>5, <2>6 DEF UpEnd
  <2>. QED
    BY <1>5, <2>2, <2>5, <2>6, <2>7, <2>8, <2>9
<1>. QED
  BY <1>6, <1>7

-----------------------------------------------------------------------------
(* The peer and the network, in the system *)

\* The peer or the network does something.
LEMMA PeerStep ==
    ASSUME SocketInv, NEW q, NEW x \in Wires, NEW ft, peer' = q, wire' = x, fault' = ft,
           UNCHANGED << sock, pair, fate, owner, scenario, app >>,
           PeerOK(q, ft), ft \in Faults \cup {"none"}, ft = fault \/ fault = "none",
           Net(sock.tcp, q.tcp, now_in, q.taken, x.rx, x.tx),
           NEW rs \in BOOLEAN, rs <=> ft = "reset", Strange(x.rx, rs),
           Loud(wire.tx) \/ peer.told => Loud(x.tx) \/ q.told,
           wire.rx # << >> => x.rx # << >>
    PROVE  SocketInv'
<1>. DEFINE w == the_world(sock, pair, x, fate)
            f == rest_of(q, app, ft)
<1>1. world' = w /\ rest' = f
  BY DEF world, rest, the_world
<1>2. w.sock = sock /\ w.pair = pair /\ w.wire = x /\ w.fate = fate /\ w \in ThreadWorld
  BY InWorld, WorldIs
<1>3. /\ f.b = q.tcp /\ f.y = q.taken /\ f.g = shown(app) /\ f.o = owed(app)
      /\ f.told = q.told /\ (f.rs <=> ft = "reset")
  BY RestIs
<1>4. /\ rest.b = peer.tcp /\ rest.y = peer.taken /\ rest.g = shown(app) /\ rest.o = owed(app)
      /\ rest.told = peer.told /\ (rest.rs <=> fault = "reset")
  BY RestIs DEF rest
<1>5. /\ world.sock = sock /\ world.pair = pair /\ world.wire = wire /\ world.fate = fate
      /\ Results(world) /\ UpOK(world, rest) /\ Accounted(world, rest) /\ Ends(sock)
      /\ Gives(world, rest) /\ Bounded(pair) /\ rest.g \in Seq(Byte) /\ rest.o \in Seq(Byte)
  BY InWorld, ThreadFacts DEF SocketInv
<1>. HIDE DEF w, f
<1>6. Net(w.sock.tcp, f.b, f.g \o w.pair.down.data, f.y, w.wire.rx, w.wire.tx)
  BY <1>2, <1>3 DEF now_in
<1>7. UpOK(w, f) /\ Accounted(w, f)
  BY <1>2, <1>3, <1>4, <1>5 DEF UpOK, Accounted
<1>8. Strange(w.wire.rx, f.rs)
  BY <1>2, <1>3 DEF Strange
<1>9. Gives(w, f)
  <2>1. Failed(sock.tcp, f.rs) => Failed(sock.tcp, rest.rs)
    BY <1>3, <1>4 DEF Failed
  <2>. QED
    BY <1>2, <1>3, <1>4, <1>5, <2>1 DEF Gives
<1>10. ThreadInv(w, f)
  BY <1>2, <1>3, <1>4, <1>5, <1>6, <1>7, <1>8, <1>9 DEF ThreadInv
<1>11. Results(w)
  BY <1>2, <1>5 DEF Results
<1>. QED
  BY <1>1, <1>10, <1>11 DEF SocketInv

\* Datagrams of the peer's.
PeerSent(b, rx, z, rs) ==
    z \in Seq(Dgrams) /\ FromPeer(b, z) /\ Strange(z, rs) /\ (rx # << >> => z # << >>)

\* They follow the datagrams that are on their way.
LEMMA PeerSends ==
    ASSUME NEW b, NEW rx \in Seq(Dgrams), FromPeer(b, rx), NEW q, AllPost(Reply, b, LocalISN, q),
           NEW rs \in BOOLEAN, Strange(rx, rs), Loud(q) => rs, NEW z, z = rx \o from_peer(q)
    PROVE  PeerSent(b, rx, z, rs)
<1>. DEFINE p == from_peer(q)
<1>1. q \in Seq(SegmentType(Byte)) /\ \A k \in 1 .. Len(q) : Post(Reply, b, LocalISN, q[k])
  BY DEF AllPost, Segs
<1>2. Len(q) \in Nat /\ \A k \in 1 .. Len(q) : q[k] \in SegmentType(Byte)
  BY <1>1
<1>3. \A k \in 1 .. Len(q) : p[k] \in Dgrams /\ p[k].source = "peer" /\ p[k].seg = q[k]
  BY <1>2 DEF from_peer, Dgrams, Hosts
<1>4. p = [k \in 1 .. Len(q) |-> p[k]]
  BY DEF from_peer
<1>d. z = rx \o p
  OBVIOUS
<1>. HIDE DEF p
<1>5. p \in [1 .. Len(q) -> Dgrams]
  BY <1>3, <1>4
<1>6. p \in Seq(Dgrams) /\ Len(p) = Len(q)
  BY <1>2, <1>5, IsASeq
<1>. DEFINE D == Dgrams
<1>a. rx \in Seq(D) /\ p \in Seq(D)
  BY <1>6
<1>. HIDE DEF D
<1>b. z \in Seq(D) /\ Len(z) = Len(rx) + Len(p) /\ Len(rx) \in Nat
  BY <1>a, <1>d
<1>7. z \in Seq(Dgrams) /\ Len(z) = Len(rx) + Len(q) /\ Len(rx) \in Nat
  BY <1>6, <1>b DEF D
<1>c. rx # << >> => Len(z) # 0
  BY <1>2, <1>7, EmptySeq
<1>8. ASSUME NEW k \in 1 .. Len(z)
      PROVE  \/ k \in 1 .. Len(rx) /\ z[k] = rx[k]
             \/ k - Len(rx) \in 1 .. Len(q) /\ z[k] = p[k - Len(rx)]
  BY <1>2, <1>6, <1>7, <1>d
<1>9. FromPeer(b, z)
  <2>. SUFFICES ASSUME NEW k \in 1 .. Len(z), z[k].source = "peer"
                PROVE  Post(Reply, b, LocalISN, z[k].seg)
    BY DEF FromPeer
  <2>. QED
    BY <1>1, <1>3, <1>8 DEF FromPeer
<1>10. Strange(z, rs)
  <2>. SUFFICES ASSUME NEW k \in 1 .. Len(z)
                PROVE  /\ z[k].source \in {"peer", "stranger"}
                       /\ z[k].source = "stranger" => z[k].seg.rst
                       /\ z[k].source = "peer" /\ z[k].seg.rst => rs
    BY DEF Strange
  <2>1. \A j \in 1 .. Len(q) : q[j].rst => rs
    BY DEF Loud
  <2>. QED
    BY <1>3, <1>8, <2>1 DEF Strange
<1>. QED
  BY <1>2, <1>6, <1>7, <1>9, <1>10 DEF PeerSent

\* What the network and the peer are in a state of the system.
LEMMA PeerState ==
    ASSUME SocketInv
    PROVE  /\ Net(sock.tcp, peer.tcp, now_in, peer.taken, wire.rx, wire.tx)
           /\ wire \in Wires
           /\ \E rs \in BOOLEAN : (rs <=> fault = "reset") /\ Strange(wire.rx, rs)
           /\ peer = [tcp |-> peer.tcp, taken |-> peer.taken, gone |-> peer.gone, told |-> peer.told]
           /\ peer \in Peers /\ PeerSays(peer.tcp) /\ peer.tcp.segments_out = << >>
           /\ wire = [rx |-> wire.rx, tx |-> wire.tx]
           /\ wire.rx \in Seq(Dgrams) /\ AllPost(Input, sock.tcp, PeerISN, wire.tx)
<1>1. /\ rest.b = peer.tcp /\ rest.y = peer.taken /\ rest.g = shown(app)
      /\ rest.rs <=> fault = "reset"
  BY RestIs DEF rest
<1>2. /\ Net(world.sock.tcp, rest.b, rest.g \o world.pair.down.data, rest.y, world.wire.rx,
             world.wire.tx)
      /\ Strange(world.wire.rx, rest.rs)
  BY ThreadFacts DEF SocketInv
<1>3. /\ Net(sock.tcp, peer.tcp, now_in, peer.taken, wire.rx, wire.tx)
      /\ Strange(wire.rx, rest.rs)
  BY <1>1, <1>2, InWorld DEF now_in
<1>4. peer \in Peers /\ PeerSays(peer.tcp) /\ peer.tcp.segments_out = << >>
  BY DEF SocketInv, PeerOK
<1>5. wire \in Wires
  BY InWorld
<1>6. peer = [tcp |-> peer.tcp, taken |-> peer.taken, gone |-> peer.gone, told |-> peer.told]
  BY <1>4 DEF Peers
<1>7. wire = [rx |-> wire.rx, tx |-> wire.tx] /\ wire.rx \in Seq(Dgrams)
  BY <1>5 DEF Wires
<1>8. PICK rs \in BOOLEAN : rs <=> fault = "reset"
  OBVIOUS
<1>9. Strange(wire.rx, rs)
  BY <1>1, <1>3, <1>8 DEF Strange
<1>. QED
  BY <1>3, <1>4, <1>5, <1>6, <1>7, <1>8, <1>9 DEF Net

\* The peer does something and sends what comes of it; the queue of segments for it becomes vx.
LEMMA PeerActs ==
    ASSUME SocketInv, NEW d, NEW u, PeerGoes(peer.tcp, d, u, sock.tcp),
           NEW vx, AllPost(Input, sock.tcp, PeerISN, vx), NEW td \in BOOLEAN,
           Loud(wire.tx) \/ peer.told => Loud(vx) \/ td,
           peer' = [tcp |-> sent_all(d), taken |-> u, gone |-> peer.gone, told |-> td],
           wire' = [rx |-> wire.rx \o from_peer(d.segments_out), tx |-> vx],
           UNCHANGED << sock, pair, fate, owner, scenario, app, fault >>
    PROVE  SocketInv'
<1>. DEFINE x == sent_all(d)
            q == [tcp |-> x, taken |-> u, gone |-> peer.gone, told |-> td]
            z == wire.rx \o from_peer(d.segments_out)
            y == [rx |-> z, tx |-> vx]
<1>1. Net(sock.tcp, peer.tcp, now_in, peer.taken, wire.rx, wire.tx)
  BY PeerState
<1>r. PICK rs \in BOOLEAN : (rs <=> fault = "reset") /\ Strange(wire.rx, rs)
  BY PeerState
<1>2. /\ peer \in Peers /\ (peer.gone => fault = "vanish") /\ fault \in Faults \cup {"none"}
      /\ wire.rx \in Seq(Dgrams) /\ wire \in Wires
  BY InWorld DEF SocketInv, PeerOK, Wires
<1>3. d \in ConnectionType(Byte) /\ PeerSays(d) /\ AllPost(Reply, d, LocalISN, d.segments_out)
  BY PeerFacts DEF PeerGoes
<1>d. /\ x = sent_all(d) /\ z = wire.rx \o from_peer(d.segments_out)
      /\ q = [tcp |-> x, taken |-> u, gone |-> peer.gone, told |-> td]
      /\ y = [rx |-> z, tx |-> vx] /\ peer' = q /\ wire' = y
  OBVIOUS
<1>. HIDE DEF x, q, z, y
<1>4. Like(d, x) /\ x.segments_out = << >>
  <2>1. 0 \in Nat
    OBVIOUS
  <2>. QED
    BY <1>3, <1>d, <2>1, LikeFields
<1>5. Goes(Reply, Input, LocalISN, peer.tcp, x, u, sock.tcp)
  BY <1>4, GoesLike DEF PeerGoes
<1>6. Net(sock.tcp, x, now_in, u, wire.rx, wire.tx)
  BY <1>1, <1>5, NetPeer
<1>7. AllPost(Reply, x, LocalISN, d.segments_out)
  BY <1>3, <1>4 DEF Like, AllPost, Post
<1>8. ~Loud(d.segments_out)
  BY <1>3 DEF PeerSays, Silent, NoRst, Loud
<1>9. /\ z \in Seq(Dgrams) /\ FromPeer(x, z) /\ Strange(z, rs) /\ (wire.rx # << >> => z # << >>)
  <2>1. FromPeer(x, wire.rx)
    BY <1>6 DEF Net
  <2>2. /\ wire.rx \in Seq(Dgrams) /\ rs \in BOOLEAN /\ Strange(wire.rx, rs)
        /\ Loud(d.segments_out) => rs
    BY <1>r, <1>2, <1>8
  <2>3. PeerSent(x, wire.rx, z, rs)
    BY ONLY <1>7, <1>d, <2>1, <2>2, PeerSends
  <2>. QED
    BY <2>3 DEF PeerSent
<1>10. Net(sock.tcp, x, now_in, u, z, vx)
  BY <1>6, <1>9, NetWire
<1>11. /\ x \in ConnectionType(Byte) /\ u \in Seq(Byte)
  BY <1>10, NetFacts
<1>12. PeerSays(x)
  <2>1. x.sender = d.sender
    BY <1>4 DEF Like
  <2>2. Silent(x)
    BY <1>3, <1>4, <2>1 DEF PeerSays, Silent, NoRst
  <2>. QED
    BY <1>3, <2>1, <2>2 DEF PeerSays
<1>13. q.tcp = x /\ q.taken = u /\ q.gone = peer.gone /\ q.told = td /\ q \in Peers
  BY <1>2, <1>11, <1>d DEF Peers
<1>14. PeerOK(q, fault)
  BY <1>2, <1>4, <1>12, <1>13 DEF PeerOK
<1>15. y.rx = z /\ y.tx = vx /\ y \in Wires
  BY <1>9, <1>d DEF Wires, AllPost
<1>. QED
  BY <1>2, <1>r, <1>9, <1>10, <1>13, <1>14, <1>15, <1>d, PeerStep

\* The peer's record after a step.
told_after(q, seg) == q.told \/ seg.rst
after_peer(q, c, u, td) == [q EXCEPT !.tcp = c, !.taken = u, !.told = td]
taken_after(q, h) == IF q.gone THEN q.taken ELSE q.taken \o inbound_stream(h).buff

\* Field by field.
LEMMA PeerRecord ==
    ASSUME NEW q \in Peers, NEW c, NEW u, NEW td
    PROVE  after_peer(q, c, u, td) = [tcp |-> c, taken |-> u, gone |-> q.gone, told |-> td]
<1>1. q = [tcp |-> q.tcp, taken |-> q.taken, gone |-> q.gone, told |-> q.told]
  BY DEF Peers
<1>. DEFINE z == [q EXCEPT !.tcp = c]
<1>2. z = [tcp |-> c, taken |-> q.taken, gone |-> q.gone, told |-> q.told]
  BY <1>1
<1>. HIDE DEF z
<1>. DEFINE v == [z EXCEPT !.taken = u]
<1>3. v = [tcp |-> c, taken |-> u, gone |-> q.gone, told |-> q.told]
  BY <1>2
<1>4. after_peer(q, c, u, td) = [v EXCEPT !.told = td]
  BY DEF after_peer, z
<1>. HIDE DEF v
<1>. QED
  BY <1>3, <1>4

\* A segment reaches the peer.
LEMMA ReceiveKeeps ==
    ASSUME SocketInv, PeerReceive
    PROVE  SocketInv'
<1>. DEFINE seg == Head(wire.tx)
            h == segment_received(peer.tcp, seg)
            d == IF peer.gone THEN peer.tcp ELSE peer_ends(peer_writes(peer_reads(h)))
            u == taken_after(peer, h)
            tb == told_after(peer, seg)
<1>0. /\ wire.tx # << >>
      /\ UNCHANGED << sock, pair, fate, owner, scenario, app, fault >>
      /\ peer' = after_peer(peer, sent_all(d), u, tb)
      /\ wire' = [rx |-> wire.rx \o from_peer(d.segments_out), tx |-> Tail(wire.tx)]
  BY DEF PeerReceive, EnvironmentChanges, after_peer, sent_all, taken_after, told_after
<1>1. /\ Net(sock.tcp, peer.tcp, now_in, peer.taken, wire.rx, wire.tx)
      /\ peer \in Peers /\ PeerSays(peer.tcp) /\ peer.tcp.segments_out = << >>
      /\ AllPost(Input, sock.tcp, PeerISN, wire.tx)
  BY PeerState
<1>2. AllPost(Input, sock.tcp, PeerISN, Tail(wire.tx)) /\ Post(Input, sock.tcp, PeerISN, seg)
  BY <1>0, <1>1, AllPostTail
<1>3. PICK td \in BOOLEAN : td = tb
  <2>1. peer.told \in BOOLEAN /\ seg \in SegmentType(Byte)
    BY <1>1, <1>2 DEF Peers, Post
  <2>2. seg.rst \in BOOLEAN
    BY <2>1 DEF SegmentType
  <2>. QED
    BY <2>1, <2>2 DEF told_after
<1>4. Loud(wire.tx) \/ peer.told => Loud(Tail(wire.tx)) \/ td
  <2>1. CASE peer.told
    BY <1>3, <2>1 DEF told_after
  <2>2. CASE Loud(wire.tx)
    <3>1. PICK k \in 1 .. Len(wire.tx) : wire.tx[k].rst
      BY <2>2 DEF Loud
    <3>2. wire.tx \in Seq(SegmentType(Byte))
      BY <1>1 DEF AllPost, Segs
    <3>3. CASE k = 1
      <4>1. seg = wire.tx[1]
        BY <1>0, <3>2
      <4>. QED
        BY <1>3, <3>1, <3>3, <4>1 DEF told_after
    <3>4. CASE k # 1
      <4>. DEFINE j == k - 1
      <4>1. j \in 1 .. Len(Tail(wire.tx)) /\ Tail(wire.tx)[j] = wire.tx[k]
        BY <1>0, <3>1, <3>2, <3>4
      <4>. HIDE DEF j
      <4>. QED
        BY <3>1, <4>1 DEF Loud
    <3>. QED
      BY <3>3, <3>4
  <2>. QED
    BY <2>1, <2>2
<1>5. PeerGoes(peer.tcp, d, u, sock.tcp)
  <2>1. CASE peer.gone
    <3>1. d = peer.tcp /\ u = peer.taken
      BY <2>1 DEF taken_after
    <3>. QED
      BY <1>1, <3>1, PeerStays
  <2>2. CASE ~peer.gone
    <3>1. d = peer_ends(peer_writes(peer_reads(h))) /\ u = peer.taken \o inbound_stream(h).buff
      BY <2>2 DEF taken_after
    <3>2. h = segment_received(peer.tcp, seg)
      OBVIOUS
    <3>. HIDE DEF d, u, h, seg
    <3>. QED
      BY <1>1, <1>2, <3>1, <3>2, PeerAnswers
  <2>. QED
    BY <2>1, <2>2
<1>. HIDE DEF d, u, tb, seg
<1>6. peer' = [tcp |-> sent_all(d), taken |-> u, gone |-> peer.gone, told |-> td]
  BY <1>0, <1>1, <1>3, PeerRecord
<1>. QED
  BY <1>0, <1>2, <1>4, <1>5, <1>6, PeerActs

\* The peer connects.
LEMMA PeerConnectKeeps ==
    ASSUME SocketInv, PeerConnect
    PROVE  SocketInv'
<1>. DEFINE d == connect(peer.tcp)
<1>1. /\ Net(sock.tcp, peer.tcp, now_in, peer.taken, wire.rx, wire.tx)
      /\ peer \in Peers /\ PeerSays(peer.tcp) /\ peer.tcp.segments_out = << >> /\ wire \in Wires
      /\ AllPost(Input, sock.tcp, PeerISN, wire.tx)
  BY PeerState
<1>0. /\ UNCHANGED << sock, pair, fate, owner, scenario, app, fault >>
      /\ peer' = [peer EXCEPT !.tcp = sent_all(d)]
      /\ wire' = [wire EXCEPT !.rx = @ \o from_peer(d.segments_out)]
  BY DEF PeerConnect, EnvironmentChanges, sent_all
<1>d. d = connect(peer.tcp)
  OBVIOUS
<1>. HIDE DEF d
<1>2. wire' = [rx |-> wire.rx \o from_peer(d.segments_out), tx |-> wire.tx]
  BY <1>0, <1>1 DEF Wires
<1>3. peer' = [tcp |-> sent_all(d), taken |-> peer.taken, gone |-> peer.gone, told |-> peer.told]
  BY <1>0, <1>1 DEF Peers
<1>4. PeerGoes(peer.tcp, d, peer.taken, sock.tcp)
  BY <1>1, <1>d, PeerConnects
<1>5. peer.told \in BOOLEAN
  BY <1>1 DEF Peers
<1>. QED
  BY <1>0, <1>1, <1>2, <1>3, <1>4, <1>5, PeerActs

\* A bare reset.
LEMMA Resets ==
    /\ RST \in SegmentType(Byte) /\ RST.rst
    /\ \A b : Post(Reply, b, LocalISN, RST)
<1>. DEFINE W == WrappingInt32
            S == Seq(Byte)
            z == new_TCPSegment
            T == [seqno : W, ackno : W, win : Nat, syn : BOOLEAN, ack : BOOLEAN,
                  fin : BOOLEAN, rst : BOOLEAN, payload : S]
<1>1. 0 \in W /\ 0 \in Nat /\ << >> \in S
  BY Moduli DEF WrappingInt32
<1>. HIDE DEF W, S
<1>2. /\ z \in T /\ z.syn = FALSE /\ z.ack = FALSE /\ z.fin = FALSE /\ z.payload = << >>
  BY <1>1 DEF new_TCPSegment
<1>. HIDE DEF z
<1>3. ASSUME NEW b \in BOOLEAN
      PROVE  LET seg == [z EXCEPT !.rst = b]
             IN  /\ seg \in T /\ seg.syn = FALSE /\ seg.ack = FALSE /\ seg.fin = FALSE
                 /\ seg.payload = << >> /\ seg.rst = b
  BY <1>1, <1>2
<1>4. /\ RST \in T /\ RST.syn = FALSE /\ RST.ack = FALSE /\ RST.fin = FALSE
      /\ RST.payload = << >> /\ RST.rst = TRUE
  BY <1>3 DEF RST, z
<1>5. RST \in SegmentType(Byte)
  BY <1>4 DEF W, S, SegmentType
<1>6. \A b : Post(Reply, b, LocalISN, RST)
  BY <1>4, <1>5 DEF Post, OnWay, Bare
<1>. QED
  BY <1>4, <1>5, <1>6

\* The peer resets the connection.
LEMMA ResetKeeps ==
    ASSUME SocketInv, PeerReset
    PROVE  SocketInv'
<1>. DEFINE x == unclean_shutdown(peer.tcp)
            z == wire.rx \o from_peer(<< RST >>)
            q == [peer EXCEPT !.tcp = x]
            y == [rx |-> z, tx |-> wire.tx]
<1>1. /\ Net(sock.tcp, peer.tcp, now_in, peer.taken, wire.rx, wire.tx)
      /\ peer \in Peers /\ PeerSays(peer.tcp) /\ peer.tcp.segments_out = << >> /\ wire \in Wires
      /\ AllPost(Input, sock.tcp, PeerISN, wire.tx) /\ wire.rx \in Seq(Dgrams)
  BY PeerState
<1>r. PICK rr \in BOOLEAN : (rr <=> fault = "reset") /\ Strange(wire.rx, rr)
  BY PeerState
<1>0. /\ UNCHANGED << sock, pair, fate, owner, scenario, app >>
      /\ fault = "none" /\ fault' = "reset" /\ "reset" \in Faults \cup {"none"}
      /\ peer' = q /\ wire' = [wire EXCEPT !.rx = z]
  BY DEF PeerReset, EnvironmentChanges, Happens
<1>d. x = unclean_shutdown(peer.tcp) /\ z = wire.rx \o from_peer(<< RST >>)
  OBVIOUS
<1>2. PeerGoes(peer.tcp, x, peer.taken, sock.tcp) /\ x.segments_out = << >>
  BY <1>1, PeerStops
<1>. HIDE DEF x, z
<1>3. PeerSays(x) /\ Net(sock.tcp, x, now_in, peer.taken, wire.rx, wire.tx)
  BY <1>1, <1>2, NetPeer DEF PeerGoes
<1>4. x \in ConnectionType(Byte) /\ FromPeer(x, wire.rx)
  BY <1>3, NetFacts DEF Net
<1>5. q \in Peers /\ q.tcp = x /\ q.taken = peer.taken /\ q.gone = peer.gone /\ q.told = peer.told
  BY <1>1, <1>4 DEF Peers
<1>6. ~peer.gone
  BY <1>0 DEF SocketInv, PeerOK
<1>. HIDE DEF q
<1>7. PICK ft : ft = "reset"
  OBVIOUS
<1>8. PeerOK(q, ft)
  BY <1>2, <1>3, <1>5, <1>6 DEF PeerOK
<1>9. PICK rs \in BOOLEAN : rs
  OBVIOUS
<1>10. /\ Strange(wire.rx, rs) /\ (Loud(<< RST >>) => rs)
       /\ AllPost(Reply, x, LocalISN, << RST >>)
  <2>1. << RST >> \in Segs /\ Len(<< RST >>) = 1 /\ << RST >>[1] = RST
    BY Resets DEF Segs
  <2>. QED
    BY <1>r, <1>9, <2>1, Resets DEF Strange, AllPost
<1>11. PeerSent(x, wire.rx, z, rs)
  BY ONLY <1>1, <1>4, <1>d, <1>10, rs \in BOOLEAN, PeerSends
<1>12. /\ z \in Seq(Dgrams) /\ FromPeer(x, z) /\ Strange(z, rs) /\ (wire.rx # << >> => z # << >>)
  BY <1>11 DEF PeerSent
<1>13. Net(sock.tcp, x, now_in, peer.taken, z, wire.tx)
  BY <1>1, <1>3, <1>12, NetWire
<1>14. y \in Wires /\ y.rx = z /\ y.tx = wire.tx /\ wire' = y
  BY <1>0, <1>1, <1>12 DEF Wires
<1>. HIDE DEF y
<1>. QED
  BY <1>0, <1>5, <1>7, <1>8, <1>9, <1>12, <1>13, <1>14, PeerStep

\* The peer vanishes.
LEMMA VanishKeeps ==
    ASSUME SocketInv, PeerVanish
    PROVE  SocketInv'
<1>. DEFINE q == [peer EXCEPT !.gone = TRUE]
<1>1. /\ Net(sock.tcp, peer.tcp, now_in, peer.taken, wire.rx, wire.tx)
      /\ peer \in Peers /\ PeerSays(peer.tcp) /\ peer.tcp.segments_out = << >> /\ wire \in Wires
  BY PeerState
<1>r. PICK rr \in BOOLEAN : (rr <=> fault = "reset") /\ Strange(wire.rx, rr)
  BY PeerState
<1>0. /\ UNCHANGED << sock, pair, fate, owner, scenario, app >>
      /\ fault = "none" /\ fault' = "vanish" /\ "vanish" \in Faults \cup {"none"}
      /\ peer' = q /\ wire' = wire
  BY DEF PeerVanish, EnvironmentChanges, Happens
<1>5. q \in Peers /\ q.tcp = peer.tcp /\ q.taken = peer.taken /\ q.told = peer.told
  BY <1>1 DEF Peers
<1>. HIDE DEF q
<1>7. PICK ft : ft = "vanish"
  OBVIOUS
<1>8. PeerOK(q, ft) /\ (rr <=> ft = "reset")
  BY <1>0, <1>1, <1>5, <1>7, <1>r DEF PeerOK
<1>. QED
  BY <1>0, <1>1, <1>5, <1>7, <1>8, <1>r, PeerStep

\* A stranger's datagram.
LEMMA StrayKeeps ==
    ASSUME SocketInv, Stray
    PROVE  SocketInv'
<1>. DEFINE g == [source |-> "stranger", seg |-> RST]
            z == << g >>
            y == [rx |-> z, tx |-> wire.tx]
<1>1. /\ Net(sock.tcp, peer.tcp, now_in, peer.taken, wire.rx, wire.tx)
      /\ peer \in Peers /\ PeerSays(peer.tcp) /\ peer.tcp.segments_out = << >> /\ wire \in Wires
      /\ AllPost(Input, sock.tcp, PeerISN, wire.tx) /\ wire.rx \in Seq(Dgrams)
  BY PeerState
<1>r. PICK rr \in BOOLEAN : (rr <=> fault = "reset") /\ Strange(wire.rx, rr)
  BY PeerState
<1>0. /\ UNCHANGED << sock, pair, fate, owner, scenario, app, peer >>
      /\ fault = "none" /\ fault' = "stray" /\ "stray" \in Faults \cup {"none"}
      /\ wire' = [wire EXCEPT !.rx = z]
  BY DEF Stray, EnvironmentChanges, Happens
<1>2. g \in Dgrams /\ g.source = "stranger" /\ g.seg = RST
  BY Resets DEF Dgrams, Hosts
<1>. HIDE DEF g
<1>3. z \in Seq(Dgrams) /\ Len(z) = 1 /\ z[1] = g /\ z # << >>
  BY <1>2
<1>4. FromPeer(peer.tcp, z) /\ Strange(z, rr)
  BY <1>2, <1>3, Resets DEF FromPeer, Strange
<1>. HIDE DEF z
<1>5. Net(sock.tcp, peer.tcp, now_in, peer.taken, z, wire.tx)
  BY <1>1, <1>3, <1>4, NetWire
<1>6. y \in Wires /\ y.rx = z /\ y.tx = wire.tx /\ wire' = y
  BY <1>0, <1>1, <1>3 DEF Wires
<1>. HIDE DEF y
<1>7. PICK ft : ft = "stray"
  OBVIOUS
<1>8. PeerOK(peer, ft) /\ (rr <=> ft = "reset")
  BY <1>0, <1>1, <1>7, <1>r DEF PeerOK, SocketInv
<1>. QED
  BY <1>0, <1>3, <1>4, <1>5, <1>6, <1>7, <1>8, PeerStep

-----------------------------------------------------------------------------
(* The owner opens the socket, and closes it *)

\* The owner does something to the socket itself.
Reset(s, x) ==
    /\ x.loop = s.loop /\ x.eof = s.eof /\ x.outbound_shutdown = s.outbound_shutdown
    /\ x.adapter.destination # "stranger" /\ (s.abort => x.abort)
    /\ s.phase = "ended" => x.phase = "ended"
    /\ x.phase \in {"leaving", "ended"} => x.tcp = s.tcp /\ x.phase = s.phase
    /\ SameInput(s.tcp.sender, x.tcp.sender) /\ Trying(x.tcp)
    /\ inbound_stream(x.tcp).error = inbound_stream(s.tcp).error
    /\ Loud(s.tcp.segments_out) => Loud(x.tcp.segments_out)

\* Such a change keeps the invariant.
LEMMA SockStep ==
    ASSUME SocketInv, NEW s \in SocketType(Byte, Hosts), Reset(sock, s), NEW fa \in Fates,
           fa = "alive" => fate = "alive", NEW ft \in Faults \cup {"none"},
           ft = "reset" <=> fault = "reset", NEW ow,
           sock' = s, fate' = fa, fault' = ft, owner' = ow,
           UNCHANGED << pair, wire, peer, app, scenario >>,
           Net(s.tcp, peer.tcp, now_in, peer.taken, wire.rx, wire.tx),
           AppOK(app, pair, s.phase, ow), Owned(ow, s.phase), PeerOK(peer, ft)
    PROVE  SocketInv'
<1>. DEFINE w == the_world(s, pair, wire, fa)
            f == rest_of(peer, app, ft)
<1>1. world' = w /\ rest' = f
  BY DEF world, rest, the_world
<1>2. w.sock = s /\ w.pair = pair /\ w.wire = wire /\ w.fate = fa /\ w \in ThreadWorld
  BY InWorld, WorldIs
<1>3. /\ f.b = peer.tcp /\ f.y = peer.taken /\ f.g = shown(app) /\ f.o = owed(app)
      /\ f.told = peer.told /\ (f.rs <=> ft = "reset")
  BY RestIs
<1>4. /\ rest.b = peer.tcp /\ rest.y = peer.taken /\ rest.g = shown(app) /\ rest.o = owed(app)
      /\ rest.told = peer.told /\ (rest.rs <=> fault = "reset")
  BY RestIs DEF rest
<1>5. /\ world.sock = sock /\ world.pair = pair /\ world.wire = wire /\ world.fate = fate
      /\ Results(world) /\ UpOK(world, rest) /\ Accounted(world, rest) /\ Ends(sock)
      /\ Gives(world, rest) /\ Bounded(pair) /\ rest.g \in Seq(Byte) /\ rest.o \in Seq(Byte)
      /\ Strange(wire.rx, rest.rs)
  BY InWorld, ThreadFacts DEF SocketInv
<1>. HIDE DEF w, f
<1>6. Net(w.sock.tcp, f.b, f.g \o w.pair.down.data, f.y, w.wire.rx, w.wire.tx)
  BY <1>2, <1>3 DEF now_in
<1>7. UpOK(w, f) /\ Accounted(w, f)
  BY <1>2, <1>3, <1>4, <1>5 DEF UpOK, Accounted, Reset, SameInput
<1>8. Strange(w.wire.rx, f.rs) /\ Ends(w.sock)
  BY <1>2, <1>3, <1>4, <1>5 DEF Strange, Ends, Reset, SameInput
<1>9. Gives(w, f)
  <2>1. Failed(s.tcp, f.rs) => Failed(sock.tcp, rest.rs)
    BY <1>3, <1>4 DEF Failed, Reset
  <2>. QED
    BY <1>2, <1>3, <1>4, <1>5, <2>1 DEF Gives, Reset
<1>10. ThreadInv(w, f)
  BY <1>2, <1>3, <1>4, <1>5, <1>6, <1>7, <1>8, <1>9 DEF ThreadInv
<1>11. Results(w)
  BY <1>2, <1>5 DEF Results, Reset
<1>. QED
  BY <1>1, <1>10, <1>11 DEF SocketInv

\* The fields of the socket after it.
opened(s, c, ad, h) == [s EXCEPT !.phase = h, !.tcp = c, !.adapter = ad]
aborted(s) == [s EXCEPT !.abort = TRUE]
SockLike(s, x) ==
    /\ x \in SocketType(Byte, Hosts) /\ x.loop = s.loop /\ x.eof = s.eof
    /\ x.outbound_shutdown = s.outbound_shutdown

\* The fields after each.
LEMMA SockFields ==
    ASSUME NEW s \in SocketType(Byte, Hosts), NEW c \in ConnectionType(Byte), NEW ad \in Adapters,
           NEW h \in Phases, NEW x
    PROVE  /\ x = opened(s, c, ad, h) =>
                 SockLike(s, x) /\ x.tcp = c /\ x.adapter = ad /\ x.phase = h /\ x.abort = s.abort
           /\ x = aborted(s) => /\ SockLike(s, x) /\ x.tcp = s.tcp /\ x.adapter = s.adapter
                                /\ x.phase = s.phase /\ x.abort
<1>. DEFINE ST(C, L, A, H) ==
         [tcp : C, loop : L, adapter : A, phase : H, abort : BOOLEAN,
          outbound_shutdown : BOOLEAN, inbound_shutdown : BOOLEAN, eof : BOOLEAN]
<1>1. SocketType(Byte, Hosts) = ST(ConnectionType(Byte), EventLoopType(4), Adapters, Phases)
  BY DEF SocketType, Adapters
<1>2. ASSUME NEW C, NEW L, NEW A, NEW H, s \in ST(C, L, A, H), c \in C, ad \in A, h \in H
      PROVE  /\ x = opened(s, c, ad, h) =>
                  /\ x \in ST(C, L, A, H) /\ x.loop = s.loop /\ x.eof = s.eof
                  /\ x.outbound_shutdown = s.outbound_shutdown
                  /\ x.tcp = c /\ x.adapter = ad /\ x.phase = h /\ x.abort = s.abort
             /\ x = aborted(s) =>
                  /\ x \in ST(C, L, A, H) /\ x.loop = s.loop /\ x.eof = s.eof
                  /\ x.outbound_shutdown = s.outbound_shutdown /\ x.tcp = s.tcp
                  /\ x.adapter = s.adapter /\ x.phase = s.phase /\ x.abort = TRUE
  BY <1>2 DEF opened, aborted
<1>3. s \in ST(ConnectionType(Byte), EventLoopType(4), Adapters, Phases)
  BY <1>1
<1>. HIDE DEF ST
<1>. QED
  BY <1>1, <1>2, <1>3 DEF SockLike

\* The socket before.
LEMMA SockState ==
    ASSUME SocketInv
    PROVE  /\ sock \in SocketType(Byte, Hosts) /\ sock.tcp \in ConnectionType(Byte)
           /\ sock.adapter \in Adapters /\ sock.phase \in Phases /\ fate \in Fates
           /\ Trying(sock.tcp) /\ sock.adapter.destination # "stranger"
           /\ Net(sock.tcp, peer.tcp, now_in, peer.taken, wire.rx, wire.tx)
           /\ Owned(owner, sock.phase) /\ AppOK(app, pair, sock.phase, owner)
           /\ PeerOK(peer, fault) /\ fault \in Faults \cup {"none"}
<1>1. world.sock = sock /\ sock \in SocketType(Byte, Hosts) /\ fate \in Fates
  BY InWorld
<1>2. Ends(world.sock) /\ Gives(world, rest)
  BY ThreadFacts DEF SocketInv
<1>3. /\ sock.tcp \in ConnectionType(Byte) /\ sock.adapter \in Adapters /\ sock.phase \in Phases
  BY <1>1 DEF SocketType, Adapters
<1>. QED
  BY <1>1, <1>2, <1>3, PeerState DEF SocketInv, Ends, Gives

\* The destructor sets _abort.
LEMMA DestroyKeeps ==
    ASSUME SocketInv, Destroy
    PROVE  SocketInv'
<1>0. /\ owner = "copying" /\ fault = "none" /\ fault' = "destroy" /\ owner' = "joining"
      /\ "destroy" \in Faults \cup {"none"} /\ sock' = aborted(sock)
      /\ UNCHANGED << pair, wire, fate, app, peer, scenario >>
  BY DEF Destroy, copying, Happens, aborted
<1>1. /\ sock \in SocketType(Byte, Hosts) /\ sock.tcp \in ConnectionType(Byte)
      /\ sock.adapter \in Adapters /\ sock.phase \in Phases /\ fate \in Fates
      /\ Trying(sock.tcp) /\ sock.adapter.destination # "stranger"
      /\ Net(sock.tcp, peer.tcp, now_in, peer.taken, wire.rx, wire.tx)
      /\ Owned(owner, sock.phase) /\ PeerOK(peer, fault)
  BY SockState
<1>. DEFINE s == aborted(sock)
<1>2. /\ SockLike(sock, s) /\ s.tcp = sock.tcp /\ s.adapter = sock.adapter
      /\ s.phase = sock.phase /\ s.abort
  BY <1>1, SockFields
<1>. HIDE DEF s
<1>3. s \in SocketType(Byte, Hosts) /\ Reset(sock, s)
  BY <1>1, <1>2 DEF SockLike, Reset, SameInput
<1>4. PICK ft : ft = "destroy"
  OBVIOUS
<1>5. PICK ow : ow = "joining"
  OBVIOUS
<1>6. /\ PeerOK(peer, ft) /\ AppOK(app, pair, s.phase, ow) /\ Owned(ow, s.phase)
      /\ ft \in Faults \cup {"none"} /\ (ft = "reset" <=> fault = "reset")
  <2>1. DroppedLate(app, sock.phase)
    BY SockState DEF AppOK
  <2>. QED
    BY <1>0, <1>1, <1>2, <1>4, <1>5, <2>1 DEF PeerOK, AppOK, Owned, Owners
<1>7. /\ sock' = s /\ fate' = fate /\ fault' = ft /\ owner' = ow
      /\ UNCHANGED << pair, wire, peer, app, scenario >>
  BY <1>0, <1>4, <1>5 DEF s
<1>. QED
  BY <1>1, <1>2, <1>3, <1>6, <1>7, SockStep

\* listen_and_accept.
LEMMA ListenKeeps ==
    ASSUME SocketInv, ListenAndAccept
    PROVE  SocketInv'
<1>. DEFINE ad == [sock.adapter EXCEPT !.listening = TRUE]
<1>1. /\ sock \in SocketType(Byte, Hosts) /\ sock.tcp \in ConnectionType(Byte)
      /\ sock.adapter \in Adapters /\ sock.phase \in Phases /\ fate \in Fates
      /\ Trying(sock.tcp) /\ sock.adapter.destination # "stranger"
      /\ Net(sock.tcp, peer.tcp, now_in, peer.taken, wire.rx, wire.tx)
      /\ Owned(owner, sock.phase) /\ AppOK(app, pair, sock.phase, owner)
      /\ PeerOK(peer, fault) /\ fault \in Faults \cup {"none"}
  BY SockState
<1>2. ad \in Adapters /\ ad.destination = sock.adapter.destination
  BY <1>1 DEF Adapters
<1>. DEFINE s == opened(sock, sock.tcp, ad, "listen")
<1>0. /\ owner = "none" /\ owner' = "opening"
      /\ sock' = [sock EXCEPT !.phase = "listen", !.adapter = ad]
      /\ UNCHANGED << pair, wire, fate, app, peer, scenario, fault >>
  BY DEF ListenAndAccept, start_listen
<1>. HIDE DEF ad
<1>3. sock' = s
  BY <1>0, <1>1 DEF opened, SocketType
<1>d. s = opened(sock, sock.tcp, ad, "listen") /\ "listen" \in Phases
  BY DEF Phases
<1>. HIDE DEF s
<1>4. /\ SockLike(sock, s) /\ s.tcp = sock.tcp /\ s.adapter = ad
      /\ s.phase = "listen" /\ s.abort = sock.abort
  BY <1>1, <1>2, <1>d, SockFields
<1>5. s \in SocketType(Byte, Hosts) /\ sock.phase = "none"
  BY <1>0, <1>1, <1>4 DEF SockLike, Owned
<1>6. Reset(sock, s)
  BY <1>1, <1>2, <1>4, <1>5 DEF SockLike, Reset, SameInput
<1>7. PICK ow : ow = "opening"
  OBVIOUS
<1>8. AppOK(app, pair, s.phase, ow) /\ Owned(ow, s.phase)
  BY <1>0, <1>1, <1>4, <1>5, <1>7 DEF AppOK, DroppedLate, Owned, Owners
<1>9. Net(s.tcp, peer.tcp, now_in, peer.taken, wire.rx, wire.tx)
  BY <1>1, <1>4
<1>. QED
  BY <1>0, <1>1, <1>3, <1>5, <1>6, <1>7, <1>8, <1>9, SockStep

\* connect.
LEMMA ConnectKeeps ==
    ASSUME SocketInv, Connect
    PROVE  SocketInv'
<1>. DEFINE c == connect(sock.tcp)
            ad == [sock.adapter EXCEPT !.destination = "peer"]
            s == opened(sock, c, ad, "connect")
<1>1. /\ sock \in SocketType(Byte, Hosts) /\ sock.tcp \in ConnectionType(Byte)
      /\ sock.adapter \in Adapters /\ sock.phase \in Phases /\ fate \in Fates
      /\ Trying(sock.tcp) /\ Net(sock.tcp, peer.tcp, now_in, peer.taken, wire.rx, wire.tx)
      /\ Owned(owner, sock.phase) /\ AppOK(app, pair, sock.phase, owner)
      /\ PeerOK(peer, fault) /\ fault \in Faults \cup {"none"}
  BY SockState
<1>2. ad \in Adapters /\ ad.destination = "peer"
  BY <1>1 DEF Adapters, Hosts
<1>0. /\ owner = "none" /\ owner' = "opening" /\ sock' = s
      /\ fate' = fate \/ fate' = "threw"
      /\ UNCHANGED << pair, wire, app, peer, scenario, fault >>
  BY DEF Connect, start_connect, opened
<1>3. /\ Between(Input, Reply, sock.tcp, now_in, PeerISN, peer.tcp.sender)
      /\ Steady(Input, Reply, sock.tcp, now_in, PeerISN)
  BY <1>1, NetFacts
<1>d. c = connect(sock.tcp) /\ s = opened(sock, c, ad, "connect") /\ "connect" \in Phases
  BY DEF Phases
<1>. HIDE DEF c, ad, s
<1>4. /\ Called(Input, Reply, sock.tcp, c, now_in, PeerISN, peer.tcp.sender)
      /\ c.sender.last_ackno = sock.tcp.sender.last_ackno
  BY <1>3, <1>d, SocketTexts, ConnectCall
<1>5. Keeps(sock.tcp, c)
  BY <1>3, <1>d, SocketTexts, ConnectFrame
<1>6. Net(c, peer.tcp, now_in, peer.taken, wire.rx, wire.tx)
  BY <1>1, <1>4, NetCalled DEF AckKept
<1>7. /\ c \in ConnectionType(Byte) /\ Trying(c)
      /\ Loud(sock.tcp.segments_out) => Loud(c.segments_out)
  BY <1>1, <1>4, <1>5, <1>6, NetFacts, BehavesTrying, CallLoud DEF Keeps
<1>8. /\ SockLike(sock, s) /\ s.tcp = c /\ s.adapter = ad
      /\ s.phase = "connect" /\ s.abort = sock.abort
  BY <1>1, <1>2, <1>7, <1>d, SockFields
<1>9. s \in SocketType(Byte, Hosts) /\ sock.phase = "none"
  BY <1>0, <1>1, <1>8 DEF SockLike, Owned
<1>10. Reset(sock, s)
  BY <1>1, <1>2, <1>5, <1>7, <1>8, <1>9 DEF SockLike, Reset, Keeps, Behaves
<1>11. PICK ow : ow = "opening"
  OBVIOUS
<1>12. PICK fa \in Fates : fa = fate' /\ (fa = "alive" => fate = "alive")
  BY <1>0, <1>1 DEF Fates
<1>13. AppOK(app, pair, s.phase, ow) /\ Owned(ow, s.phase)
  BY <1>0, <1>1, <1>8, <1>9, <1>11 DEF AppOK, DroppedLate, Owned, Owners
<1>14. Net(s.tcp, peer.tcp, now_in, peer.taken, wire.rx, wire.tx)
  BY <1>6, <1>8
<1>. QED
  BY <1>0, <1>1, <1>9, <1>10, <1>11, <1>12, <1>13, <1>14, SockStep

\* The thread is joined.
LEMMA JoinKeeps ==
    ASSUME SocketInv, Join
    PROVE  SocketInv'
<1>0. /\ sock.phase = "ended" /\ owner' = "done"
      /\ UNCHANGED << sock, pair, wire, fate, app, peer, scenario, fault >>
  BY DEF Join
<1>1. world' = world /\ rest' = rest
  BY <1>0 DEF world, rest
<1>2. AppOK(app', pair', sock'.phase, owner') /\ Owned(owner', sock'.phase)
  <2>1. DroppedLate(app, sock.phase)
    BY DEF SocketInv, AppOK
  <2>. QED
    BY <1>0, <2>1 DEF AppOK, Owned, Owners
<1>. QED
  BY <1>0, <1>1, <1>2 DEF SocketInv

-----------------------------------------------------------------------------
(* The beginning *)

\* A new stream and a new connection.
LEMMA FreshStream ==
    ASSUME NEW n \in Nat, NEW o, o = new_ByteStream(n)
    PROVE  /\ o \in ByteStreamType(Byte) /\ o.buff = << >> /\ Plain(o, n) /\ ~o.end_input
           /\ o.capacity = n /\ o.bytes_w = 0 /\ ~o.error
<1>1. o = [buff |-> << >>, capacity |-> n, bytes_r |-> 0, bytes_w |-> 0,
           end_input |-> FALSE, error |-> FALSE]
  BY DEF new_ByteStream
<1>2. /\ o.buff = << >> /\ o.end_input = FALSE /\ o.capacity = n /\ o.bytes_w = 0
      /\ o.error = FALSE
  BY <1>1
<1>. DEFINE Q == Seq(Byte)
<1>3. << >> \in Q
  OBVIOUS
<1>. HIDE DEF Q
<1>4. o \in [buff : Q, capacity : Nat, bytes_r : Nat, bytes_w : Nat, end_input : BOOLEAN,
             error : BOOLEAN]
  BY <1>1, <1>3
<1>5. o \in ByteStreamType(Byte)
  BY <1>4 DEF ByteStreamType, Q
<1>6. Len(o.buff) <= n
  BY <1>2
<1>. QED
  BY <1>2, <1>5, <1>6 DEF Plain

\* A new connection has made no error and sent no reset.
LEMMA QuietAtFirst ==
    ASSUME NEW cap \in Nat, NEW isn, NEW c, c = new_TCPConnection(cap, Capacity, RetxTimeout, isn)
    PROVE  /\ Silent(c) /\ Trying(c) /\ c.sender.stream.capacity = cap
           /\ ~inbound_stream(c).error
<1>. DEFINE v == new_TCPReceiver(Capacity)
            s == new_TCPSender(cap, RetxTimeout, isn)
<1>1. /\ c.receiver = v /\ c.sender = s /\ c.segments_out = << >>
  BY DEF new_TCPConnection
<1>2. /\ s.segments_out = << >> /\ s.retransmission_count = 0 /\ s.stream = new_ByteStream(cap)
  BY DEF new_TCPSender
<1>3. inbound_stream(c) = new_ByteStream(Capacity)
  BY <1>1 DEF inbound_stream, stream_out, new_TCPReceiver, new_StreamReassembler
<1>4. s.stream.capacity = cap /\ ~inbound_stream(c).error
  BY <1>2, <1>3, CapacityAssumption, FreshStream
<1>. HIDE DEF s, v
<1>5. Silent(c)
  BY <1>1, <1>2 DEF Silent, NoRst
<1>6. 0 <= MAX_RETX_ATTEMPTS
  BY ConnectionAssumption
<1>. QED
  BY <1>1, <1>2, <1>4, <1>5, <1>6 DEF Trying

\* A new application.
LEMMA NewApp ==
    ASSUME NEW a, a = new_app(Input)
    PROVE  /\ a \in AppType(Byte) /\ shown(a) = << >> /\ owed(a) = Input /\ a.dropped = << >>
           /\ \E en \in BOOLEAN : ~en /\ Copying(a, en, socket_pair.up)
<1>. DEFINE o == new_ByteStream(CopyBuffer)
            l == new_EventLoop(4)
<1>0. Input \in Seq(Byte)
  BY SocketTexts
<1>1. /\ o \in ByteStreamType(Byte) /\ o.buff = << >> /\ Plain(o, CopyBuffer) /\ ~o.end_input
      /\ o.bytes_w = 0
  BY CopyBufferAssumption, FreshStream
<1>2. l \in EventLoopType(4) /\ l.rules = 1 .. 4 /\ l.ready = {} /\ l.hangups = {}
  BY DEF new_EventLoop, EventLoopType
<1>3. a = [loop |-> l, outbound |-> o, inbound |-> o, outbound_shutdown |-> FALSE,
           inbound_shutdown |-> FALSE, coming |-> Input, stdin |-> << >>, dropped |-> << >>,
           stdin_end |-> "open", input_eof |-> FALSE, socket_eof |-> FALSE,
           output_closed |-> FALSE, printed |-> << >>]
  BY DEF new_app
<1>. HIDE DEF o, l
<1>4. /\ a.coming = Input /\ a.dropped = << >>
      /\ a.loop = l /\ a.outbound = o /\ a.inbound = o /\ a.stdin = << >> /\ a.stdin_end = "open"
      /\ ~a.input_eof /\ ~a.socket_eof /\ ~a.output_closed /\ a.printed = << >>
  BY <1>3
<1>5. a \in AppType(Byte)
  <2>1. AppTypeIs
    BY DEF AppTypeIs, AppType, app_of
  <2>. DEFINE L == EventLoopType(4)
              O == ByteStreamType(Byte)
              Q == Seq(Byte)
              E == {"open", "eof", "hup"}
  <2>2. l \in L /\ o \in O /\ << >> \in Q /\ Input \in Q /\ "open" \in E
    BY <1>0, <1>1, <1>2
  <2>. HIDE DEF L, O, Q, E
  <2>3. a \in app_of(L, O, Q, E)
    BY <1>3, <2>2 DEF app_of
  <2>. QED
    BY <2>1, <2>3 DEF AppTypeIs, L, O, Q, E
<1>6. shown(a) = << >> /\ owed(a) = Input
  <2>1. << >> \o << >> = << >> /\ << >> \o Input = Input
    BY <1>0
  <2>. QED
    BY <1>1, <1>4, <2>1 DEF shown, owed, unsent
<1>7. CopyOK(a)
  BY <1>1, <1>2, <1>4, <1>6 DEF CopyOK
<1>8. PICK en \in BOOLEAN : ~en
  OBVIOUS
<1>9. OutboundEnd(a, en)
  BY <1>1, <1>2, <1>4 DEF OutboundEnd
<1>10. UpEnd(a, en, TRUE, socket_pair.up)
  BY DEF UpEnd, socket_pair, new_channel
<1>. QED
  BY <1>4, <1>5, <1>6, <1>7, <1>8, <1>9, <1>10 DEF Copying

\* Nothing has happened.
LEMMA SocketBegins ==
    ASSUME Init
    PROVE  SocketInv
<1>. DEFINE c == new_TCPConnection(SendCapacity, Capacity, RetxTimeout, LocalISN)
            b == new_TCPConnection(Len(Reply), Capacity, RetxTimeout, PeerISN)
            l == new_EventLoop(4)
            ad == new_FdAdapter("local", "nobody", FALSE)
            ch == new_channel
<1>0. /\ sock = new_socket(ad) /\ pair = socket_pair /\ wire = [rx |-> << >>, tx |-> << >>]
      /\ fate = "alive" /\ owner = "none" /\ app = new_app(Input) /\ scenario \in Scenarios
      /\ peer = [tcp |-> b, taken |-> << >>, gone |-> FALSE, told |-> FALSE] /\ fault = "none"
  BY DEF Init
<1>t. /\ Input \in Texts /\ Reply \in Texts /\ SendCapacity \in Nat /\ Len(Reply) \in Nat
      /\ LocalISN \in WrappingInt32 /\ PeerISN \in WrappingInt32
  BY SocketTexts, SocketAssumption
<1>1. /\ Half(Input, Reply, LocalISN, PeerISN, c, b, << >>)
      /\ Half(Reply, Input, PeerISN, LocalISN, b, c, << >>)
  BY <1>t, NewHalf
<1>2. /\ c.segments_out = << >> /\ b.segments_out = << >> /\ c.sender.stream.bytes_w = 0
      /\ b.sender.stream.bytes_w = 0 /\ ~c.sender.stream.end_input
  BY <1>t, NewConnection
<1>3. /\ Silent(b) /\ Trying(c) /\ b.sender.stream.capacity = Len(Reply)
      /\ ~inbound_stream(c).error
  BY <1>t, QuietAtFirst
<1>4. /\ sock = [tcp |-> c, loop |-> l, adapter |-> ad, phase |-> "none", abort |-> FALSE,
                 outbound_shutdown |-> FALSE, inbound_shutdown |-> FALSE, eof |-> FALSE]
  BY <1>0 DEF new_socket
<1>5. l \in EventLoopType(4) /\ l.rules = 1 .. 4 /\ l.ready = {} /\ l.hangups = {}
  BY DEF new_EventLoop, EventLoopType
<1>6. ad \in Adapters /\ ad.destination = "nobody"
  BY DEF new_FdAdapter, Adapters, Hosts
<1>. HIDE DEF c, b, l, ad
<1>7. c \in ConnectionType(Byte) /\ b \in ConnectionType(Byte)
  BY <1>1, <1>t, HalfFacts
<1>8. /\ sock.tcp = c /\ sock.loop = l /\ sock.adapter = ad /\ sock.phase = "none"
      /\ ~sock.abort /\ ~sock.eof
  BY <1>4
<1>9. sock \in SocketType(Byte, Hosts)
  <2>1. ASSUME NEW C, NEW L, NEW A, NEW H, c \in C, l \in L, ad \in A, "none" \in H
        PROVE  sock \in [tcp : C, loop : L, adapter : A, phase : H, abort : BOOLEAN,
                         outbound_shutdown : BOOLEAN, inbound_shutdown : BOOLEAN, eof : BOOLEAN]
    BY <1>4, <2>1
  <2>2. "none" \in Phases
    BY DEF Phases
  <2>. QED
    BY <1>5, <1>6, <1>7, <2>1, <2>2 DEF SocketType, Adapters
<1>10. /\ pair.up = ch /\ pair.down = ch /\ ch.data = << >> /\ ~ch.shut /\ ch \in ChannelType(Byte)
  BY <1>0 DEF socket_pair, new_channel, ChannelType
<1>11. pair \in PairType(Byte)
  BY <1>0, <1>10 DEF PairType, socket_pair
<1>. HIDE DEF ch
<1>12. wire \in Wires /\ wire.rx = << >> /\ wire.tx = << >>
  BY <1>0 DEF Wires, Segs
<1>13. world = the_world(sock, pair, wire, fate) /\ fate \in Fates
  BY <1>0 DEF world, the_world, Fates
<1>14. /\ world.sock = sock /\ world.pair = pair /\ world.wire = wire /\ world.fate = fate
       /\ world \in ThreadWorld
  BY <1>9, <1>11, <1>12, <1>13, WorldIs
<1>15. /\ app \in AppType(Byte) /\ shown(app) = << >> /\ owed(app) = Input /\ app.dropped = << >>
       /\ \E en \in BOOLEAN : ~en /\ Copying(app, en, pair.up)
  BY <1>0, NewApp
<1>16. /\ peer.tcp = b /\ peer.taken = << >> /\ ~peer.gone /\ ~peer.told /\ peer \in Peers
  BY <1>0, <1>7 DEF Peers
<1>17. /\ rest.b = peer.tcp /\ rest.y = peer.taken /\ rest.g = shown(app) /\ rest.o = owed(app)
  BY RestIs DEF rest
<1>18. Net(world.sock.tcp, rest.b, rest.g \o world.pair.down.data, rest.y, world.wire.rx, world.wire.tx)
  <2>1. AllPost(Input, c, PeerISN, << >>) /\ FromPeer(b, << >>) /\ << >> \in Seq(Dgrams)
    BY DEF AllPost, Segs, FromPeer
  <2>2. Net(c, b, << >>, << >>, << >>, << >>)
    BY <1>1, <1>2, <2>1 DEF Net
  <2>3. << >> \o << >> = << >>
    OBVIOUS
  <2>. QED
    BY <1>8, <1>10, <1>12, <1>14, <1>15, <1>16, <1>17, <2>2, <2>3
<1>19. UpOK(world, rest) /\ Bounded(world.pair)
  BY <1>10, <1>14, SocketBufferAssumption DEF UpOK, Bounded
<1>20. Accounted(world, rest)
  <2>0. Input \in Seq(Byte)
    BY SocketTexts
  <2>1. front(Input, 0) = << >> /\ << >> \o << >> \o Input = Input
    BY <2>0 DEF front
  <2>. QED
    BY <1>2, <1>8, <1>10, <1>14, <1>15, <1>17, <2>1 DEF Accounted, Account
<1>21. Ends(world.sock)
  BY <1>2, <1>5, <1>6, <1>8, <1>14 DEF Ends
<1>22. Strange(world.wire.rx, rest.rs) /\ Gives(world, rest)
  BY <1>3, <1>8, <1>12, <1>14 DEF Strange, Gives, Failed
<1>23. rest.g \in Seq(Byte) /\ rest.o \in Seq(Byte)
  BY <1>15, <1>17, SocketTexts
<1>24. ThreadInv(world, rest)
  BY <1>14, <1>17, <1>18, <1>19, <1>20, <1>21, <1>22, <1>23 DEF ThreadInv
<1>25. Results(world)
  BY <1>5, <1>8, <1>14 DEF Results
<1>26. PeerOK(peer, fault)
  BY <1>2, <1>3, <1>16 DEF PeerOK, PeerSays
<1>27. AppOK(app, pair, sock.phase, owner) /\ Owned(owner, sock.phase)
  BY <1>0, <1>8, <1>15 DEF AppOK, DroppedLate, Owned, Owners
<1>. QED
  BY <1>0, <1>15, <1>24, <1>25, <1>26, <1>27 DEF SocketInv

-----------------------------------------------------------------------------
(* The theorems *)

\* Everything the system does keeps the invariant.
LEMMA SocketGoesOn ==
    ASSUME SocketInv, [Next]_vars
    PROVE  SocketInv'
<1>1. CASE Thread
  BY <1>1, LoopKeeps, LeaveKeeps DEF Thread
<1>2. CASE Owner
  BY <1>2, ConnectKeeps, ListenKeeps, CopyGoesOn, ClosedKeeps, JoinKeeps DEF Owner
<1>3. CASE User
  BY <1>3, UserKeeps DEF User
<1>4. CASE Peer
  BY <1>4, ReceiveKeeps, PeerConnectKeeps DEF Peer
<1>5. CASE Fault
  BY <1>5, DestroyKeeps, ResetKeeps, VanishKeeps, StrayKeeps DEF Fault
<1>6. CASE UNCHANGED vars
  <2>1. /\ world' = world /\ rest' = rest /\ app' = app /\ pair' = pair /\ sock' = sock
        /\ owner' = owner /\ peer' = peer /\ fault' = fault /\ scenario' = scenario
    BY <1>6 DEF vars, world, rest
  <2>. QED
    BY <2>1 DEF SocketInv
<1>. QED
  BY <1>1, <1>2, <1>3, <1>4, <1>5, <1>6 DEF Next, Terminated

\* The strengthening of the invariants below.  What the thread, the application and the peer
\* hold between them, and what the application has dropped, is accounted for byte by byte; it
\* drops something only after the thread has ended and its rule 2 is cancelled; each loop's pending poll results are still
\* true when it comes to them; a channel is shut only behind its last byte, or at the end of
\* the thread; and every datagram on its way is of its sender's stream.
THEOREM SocketInductive == Spec => []SocketInv
<1>1. Init => SocketInv
  BY SocketBegins
<1>2. SocketInv /\ [Next]_vars => SocketInv'
  BY SocketGoesOn
<1>. QED
  BY <1>1, <1>2, PTL DEF Spec

\* The two loops, the callbacks in them and the peer keep every variable of its type.
THEOREM SocketTypes == Spec => []TypeOK
<1>1. SocketInv => TypeOK
  <2>. SUFFICES ASSUME SocketInv PROVE TypeOK
    OBVIOUS
  <2>1. /\ sock \in SocketType(Byte, Hosts) /\ pair \in PairType(Byte) /\ wire \in Wires
        /\ fate \in {"alive", "threw", "sigpipe"}
    BY InWorld DEF Fates
  <2>2. wire.rx \in Seq([source : Hosts, seg : SegmentType(Byte)]) /\ wire.tx \in Seq(SegmentType(Byte))
    BY <2>1 DEF Wires, Dgrams, Segs
  <2>3. /\ app \in AppType(Byte) /\ scenario \in Scenarios /\ fault \in Faults \cup {"none"}
        /\ owner \in {"none", "opening", "copying", "joining", "done"} /\ peer \in Peers
    BY DEF SocketInv, Owned, Owners, PeerOK
  <2>. QED
    BY <2>1, <2>2, <2>3 DEF TypeOK, Peers
<1>. QED
  BY <1>1, SocketInductive, PTL

\* What has been read and what waits to be are the first bytes of the stream.
StartOf(text, t, o) ==
    /\ t \o o.buff = SubSeq(text, 1, o.bytes_w) /\ t = SubSeq(text, 1, Len(t))
    /\ o.buff \in Seq(Byte) /\ t \in Seq(Byte)

\* The receiver keeps them so.
LEMMA SoFar ==
    ASSUME NEW text \in Texts, NEW v, NEW t, NEW i, ReceiverOK(text, v, t, i),
           NEW o, o = v.reassembler.output
    PROVE  StartOf(text, t, o)
<1>. DEFINE q == o.buff
            n == o.bytes_w
<1>1. OutOK(text, v.reassembler, t) /\ text \in Seq(Byte)
  BY TextBoth DEF ReceiverOK, Good, Written, Texts, OutStreams
<1>2. /\ t \in Seq(Byte) /\ n = Len(t) + Len(q) /\ n <= Len(text)
      /\ \A k \in 1 .. Len(t) : t[k] = text[k]
      /\ \A k \in 1 .. Len(q) : q[k] = text[Len(t) + k]
  BY <1>1 DEF OutOK
<1>3. q \in Seq(Byte)
  BY <1>1 DEF OutOK, ReassemblerType, ByteStreamType
<1>. HIDE DEF q, n
<1>4. Len(t) \in Nat /\ Len(q) \in Nat /\ n \in Nat /\ Len(t) <= n
  BY <1>2, <1>3
<1>5. t \o q \in Seq(Byte) /\ Len(t \o q) = n
  BY <1>2, <1>3
<1>6. /\ SubSeq(text, 1, n) \in Seq(Byte) /\ Len(SubSeq(text, 1, n)) = n
      /\ \A k \in 1 .. n : SubSeq(text, 1, n)[k] = text[k]
  BY <1>1, <1>2, <1>4
<1>7. ASSUME NEW k \in 1 .. n PROVE (t \o q)[k] = text[k]
  <2>1. CASE k <= Len(t)
    BY <1>2, <1>3, <1>4, <2>1
  <2>2. CASE k > Len(t)
    <3>1. k - Len(t) \in 1 .. Len(q) /\ (t \o q)[k] = q[k - Len(t)]
      BY <1>2, <1>3, <1>4, <2>2
    <3>2. q[k - Len(t)] = text[Len(t) + (k - Len(t))] /\ Len(t) + (k - Len(t)) = k
      BY <1>2, <1>4, <3>1
    <3>. QED
      BY <3>1, <3>2
  <2>3. k <= Len(t) \/ k > Len(t)
    BY <1>4
  <2>. QED
    BY <2>1, <2>2, <2>3
<1>8. t \o q = SubSeq(text, 1, n)
  BY <1>5, <1>6, <1>7, SeqEqual
<1>9. t = SubSeq(text, 1, Len(t))
  <2>1. /\ SubSeq(text, 1, Len(t)) \in Seq(Byte) /\ Len(SubSeq(text, 1, Len(t))) = Len(t)
        /\ \A k \in 1 .. Len(t) : SubSeq(text, 1, Len(t))[k] = text[k]
    BY <1>1, <1>2, <1>4
  <2>. QED
    BY <1>2, <2>1, SeqEqual
<1>. QED
  BY <1>2, <1>3, <1>8, <1>9 DEF q, n, StartOf

\* The same of five.
Five(h, q, g, z, y) == (((h \o q) \o g) \o z) \o y = h \o (q \o (g \o (z \o y)))

\* It holds of bytes.
LEMMA FiveJoined ==
    ASSUME NEW h \in Seq(Byte), NEW q \in Seq(Byte), NEW g \in Seq(Byte), NEW z \in Seq(Byte),
           NEW y \in Seq(Byte)
    PROVE  Five(h, q, g, z, y)
<1>. DEFINE a == h \o q
            b == a \o g
            c == z \o y
            d == g \o c
<1>1. a \in Seq(Byte)
  BY BytesJoined
<1>2. c \in Seq(Byte)
  BY BytesJoined
<1>. HIDE DEF a, c
<1>3. b \in Seq(Byte) /\ d \in Seq(Byte)
  BY <1>1, <1>2, BytesJoined
<1>4. b \o c = a \o (g \o c)
  BY ONLY <1>1, <1>2, g \in Seq(Byte), Regrouped, ZenonT(40) DEF b
<1>. HIDE DEF b, d
<1>5. (b \o z) \o y = b \o c
  <2>1. b \in Seq(Byte) /\ z \in Seq(Byte) /\ y \in Seq(Byte)
    BY <1>3
  <2>2. (b \o z) \o y = b \o (z \o y)
    BY ONLY <2>1, Regrouped, ZenonT(40)
  <2>. QED
    BY ONLY <2>2 DEF c
<1>6. a \o d = h \o (q \o d)
  <2>1. h \in Seq(Byte) /\ q \in Seq(Byte) /\ d \in Seq(Byte)
    BY <1>3
  <2>. QED
    BY ONLY <2>1, Regrouped, ZenonT(40) DEF a
<1>. QED
  BY ONLY <1>4, <1>5, <1>6 DEF a, b, c, d, Five

\* From standard input to the peer's program and from it to standard output, over both event
\* loops, the pair of sockets, the two connections and the network, no byte is repeated or
\* moved, whatever the sizes of the buffers, in whatever pieces the input comes and in whatever
\* order the threads run, through partial reads and writes, shutdowns, resets and a peer that
\* vanishes.  None is lost either, as long as rule 2 of the application has not been cancelled
\* after the end of the thread; what rule 1 reads after that is, and nothing before it.
THEOREM NoByteLost == Spec => []NothingLost
<1>1. SocketInv => NothingLost
  <2>. SUFFICES ASSUME SocketInv, fate = "alive" PROVE NothingLost
    BY DEF NothingLost, alive
  <2>. DEFINE o == in_tcp
              bw == sock.tcp.sender.stream.bytes_w
              p == app.printed
              i == app.inbound.buff
              d == pair.down.data
              x == pair.up.data
              q == app.outbound.buff
              g == app.dropped
              z == app.stdin
              y == app.coming
  <2>1. Net(sock.tcp, peer.tcp, now_in, peer.taken, wire.rx, wire.tx)
    BY PeerState
  <2>2. /\ ReceiverOK(Reply, sock.tcp.receiver, now_in, PeerISN)
        /\ ReceiverOK(Input, peer.tcp.receiver, peer.taken, LocalISN)
    BY <2>1, NetFacts
  <2>3. o = sock.tcp.receiver.reassembler.output
    BY DEF in_tcp, inbound_stream, stream_out
  <2>4. now_in \o o.buff = SubSeq(Reply, 1, o.bytes_w) /\ o.buff \in Seq(Byte)
    <3>. HIDE DEF o
    <3>1. StartOf(Reply, now_in, o)
      BY <2>2, <2>3, SocketTexts, SoFar
    <3>. QED
      BY <3>1 DEF StartOf
  <2>5. peer.taken = SubSeq(Input, 1, Len(peer.taken))
    <3>1. StartOf(Input, peer.taken, peer.tcp.receiver.reassembler.output)
      BY <2>2, SocketTexts, SoFar
    <3>. QED
      BY <3>1 DEF StartOf
  <2>6. /\ p \in Seq(Byte) /\ i \in Seq(Byte) /\ q \in Seq(Byte) /\ z \in Seq(Byte)
        /\ g \in Seq(Byte) /\ y \in Seq(Byte)
    <3>1. app \in AppType(Byte)
      BY DEF SocketInv
    <3>2. /\ p \in Seq(Byte) /\ z \in Seq(Byte) /\ g \in Seq(Byte) /\ y \in Seq(Byte)
          /\ app.inbound \in ByteStreamType(Byte) /\ app.outbound \in ByteStreamType(Byte)
      BY <3>1 DEF AppType
    <3>. QED
      BY <3>2 DEF ByteStreamType
  <2>7. d \in Seq(Byte) /\ x \in Seq(Byte)
    BY InWorld DEF PairType, ChannelType
  <2>8. now_in = p \o i \o d
    BY DEF now_in, shown
  <2>9. front(Input, bw) \o x \o (q \o (g \o (z \o y))) = Input
    <3>1. world.sock = sock /\ world.pair = pair /\ world.fate = fate /\ Accounted(world, rest)
      BY InWorld, ThreadFacts DEF SocketInv
    <3>2. rest.o = owed(app)
      BY RestIs DEF rest
    <3>3. Account(bw, pair.up, owed(app))
      BY <3>1, <3>2 DEF Accounted
    <3>. QED
      BY <3>3 DEF Account, owed, unsent
  <2>10. front(Input, bw) \in Seq(Byte)
    <3>1. bw \in Nat /\ bw <= Len(Input) /\ << >> \in Seq(Byte)
      BY WrittenSoFar
    <3>. HIDE DEF bw
    <3>. QED
      BY <3>1, SocketTexts, MoveBytes
  <2>11. up_to(Input, bw) \o x \o q \o g \o z \o y = Input
    <3>. DEFINE f == front(Input, bw)
                h == f \o x
    <3>1. h \in Seq(Byte) /\ f = up_to(Input, bw)
      BY <2>7, <2>10, BytesJoined DEF front, up_to
    <3>2. h \o (q \o (g \o (z \o y))) = Input
      BY <2>9
    <3>3. q \in Seq(Byte) /\ g \in Seq(Byte) /\ z \in Seq(Byte) /\ y \in Seq(Byte)
      BY <2>6
    <3>. HIDE DEF h, q, g, z, y
    <3>4. (((h \o q) \o g) \o z) \o y = h \o (q \o (g \o (z \o y)))
      <4>1. h \in Seq(Byte) /\ q \in Seq(Byte) /\ g \in Seq(Byte) /\ z \in Seq(Byte)
            /\ y \in Seq(Byte)
        BY <3>1, <3>3
      <4>2. Five(h, q, g, z, y)
        BY ONLY <4>1, FiveJoined
      <4>. QED
        BY ONLY <4>2 DEF Five
    <3>. QED
      BY <3>1, <3>2, <3>4 DEF h
  <2>12. app.dropped # << >> => sock.phase = "ended" /\ 2 \notin app.loop.rules
    BY DEF SocketInv, AppOK, DroppedLate
  <2>. HIDE DEF o, bw, p, i, d, x, q, z, g, y
  <2>13. p \o i \o d \o o.buff = up_to(Reply, o.bytes_w)
    BY <2>4, <2>8 DEF up_to
  <2>. QED
    BY <2>5, <2>11, <2>12, <2>13
    DEF NothingLost, up_to, bytes_written, o, bw, p, i, d, x, q, z, g, y
<1>. QED
  BY <1>1, SocketInductive, PTL

\* At the end of a stream all of it has been taken or waits.
WholeIf(text, t, o) == o.end_input => t \o o.buff = text

\* It is so of a receiver.
LEMMA AllThere ==
    ASSUME NEW text \in Texts, NEW v, NEW t, NEW i, ReceiverOK(text, v, t, i),
           NEW o, o = v.reassembler.output
    PROVE  WholeIf(text, t, o)
<1>. SUFFICES ASSUME o.end_input PROVE t \o o.buff = text
  BY DEF WholeIf
<1>1. StartOf(text, t, o)
  BY SoFar
<1>2. o.bytes_w = Len(text)
  BY DEF ReceiverOK, Good, input_ended, first_unassembled, bytes_written
<1>3. text \in Seq(Byte)
  BY DEF Texts, OutStreams
<1>4. SubSeq(text, 1, Len(text)) = text
  BY <1>3, SubSeqFull
<1>. QED
  BY <1>1, <1>2, <1>4 DEF StartOf

\* No connection, neither the owner's nor the peer's, sees the end of a stream before all of
\* it, through resets, hangups, a destroyed socket and a peer that vanishes: the rules of both
\* event loops end what they carry only behind its last byte.
THEOREM WholeEnds == Spec => []EndsAreWhole
<1>1. SocketInv => EndsAreWhole
  <2>. SUFFICES ASSUME SocketInv PROVE EndsAreWhole
    OBVIOUS
  <2>. DEFINE o == sock.tcp.receiver.reassembler.output
              q == peer.tcp.receiver.reassembler.output
              s == sock.tcp.sender.stream
  <2>1. Net(sock.tcp, peer.tcp, now_in, peer.taken, wire.rx, wire.tx)
    BY PeerState
  <2>2. /\ ReceiverOK(Reply, sock.tcp.receiver, now_in, PeerISN)
        /\ ReceiverOK(Input, peer.tcp.receiver, peer.taken, LocalISN)
        /\ Steady(Input, Reply, sock.tcp, now_in, PeerISN)
    BY <2>1, NetFacts
  <2>3. s.end_input => s.bytes_w = Len(Input)
    BY <2>2, SocketTexts, OutFacts DEF Steady
  <2>4. WholeIf(Reply, now_in, o)
    BY <2>2, SocketTexts, AllThere
  <2>5. WholeIf(Input, peer.taken, q)
    BY <2>2, SocketTexts, AllThere
  <2>6. now_in = app.printed \o app.inbound.buff \o pair.down.data
    BY DEF now_in, shown
  <2>7. in_tcp = o /\ inbound_stream(peer.tcp) = q
    BY DEF in_tcp, inbound_stream, stream_out
  <2>. HIDE DEF o, q, s
  <2>8. input_ended(s) => bytes_written(s) = Len(Input)
    BY <2>3 DEF input_ended, bytes_written
  <2>9. input_ended(q) => peer.taken \o q.buff = Input
    BY <2>5 DEF input_ended, WholeIf
  <2>10. input_ended(o) => app.printed \o app.inbound.buff \o pair.down.data \o o.buff = Reply
    BY <2>4, <2>6 DEF input_ended, WholeIf
  <2>. QED
    BY <2>7, <2>8, <2>9, <2>10 DEF EndsAreWhole, s
<1>. QED
  BY <1>1, SocketInductive, PTL

\* A connection that retransmitted to a peer that is gone, and gave up, sent a reset before
\* its thread ended: the end of _tcp_main drops none.
THEOREM LoudFailure == Spec => []GivesUpLoudly
<1>1. SocketInv => GivesUpLoudly
  <2>. SUFFICES ASSUME SocketInv, peer.gone, ~sock.abort, sock.phase = "ended", in_tcp.error
                PROVE  peer.told \/ \E i \in 1 .. Len(wire.tx) : wire.tx[i].rst
    BY DEF GivesUpLoudly
  <2>1. world.sock = sock /\ world.wire = wire /\ Gives(world, rest)
    BY InWorld, ThreadFacts DEF SocketInv
  <2>2. fault = "vanish"
    BY DEF SocketInv, PeerOK
  <2>3. rest.told = peer.told /\ (rest.rs <=> fault = "reset")
    BY RestIs DEF rest
  <2>4. Failed(sock.tcp, rest.rs)
    BY <2>2, <2>3 DEF Failed, in_tcp
  <2>5. sock.tcp.segments_out = << >>
    BY <2>1 DEF Gives
  <2>6. ~Loud(sock.tcp.segments_out)
    BY <2>5 DEF Loud
  <2>7. Loud(wire.tx) \/ peer.told
    BY <2>1, <2>3, <2>4, <2>6 DEF Gives
  <2>. QED
    BY <2>7 DEF Loud
<1>. QED
  BY <1>1, SocketInductive, PTL

=============================================================================
