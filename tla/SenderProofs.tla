---------------------------- MODULE SenderProofs ----------------------------
(***************************************************************************)
(* The TCPSender for every stream, window, capacity and payload size.      *)
(***************************************************************************)
EXTENDS SenderSpec, ConnectionLemmas

USE StreamAssumption DEF N

-----------------------------------------------------------------------------
(* The inductive invariant *)

IInv ==
    /\ SenderOK(Stream, snd) /\ WindowFull(snd) /\ snd.segments_out = << >>
    /\ out \in Segs /\ AllAt(Stream, snd, out) /\ snd.isn \in ISNs
    /\ \A a \in acks : a.ack \in 1 .. snd.next_seqno /\ a.win \in 0 .. MaxWin

\* The constants are numbers, and the whole stream fits half the sequence space.
LEMMA SenderSizes ==
    /\ N \in Nat /\ Half32 \in Nat /\ Mod32 \in Nat /\ Mod64 \in Nat /\ MaxWin \in Nat
    /\ Mod32 = 2 * Half32 /\ N + 2 <= Half32 /\ Half32 + Mod32 < Mod64 /\ MaxWin < Mod64
    /\ MAX_PAYLOAD_SIZE \in Nat \ {0} /\ RetxTimeout \in Nat \ {0} /\ Stream \in Seq(Byte)
  BY Widths, TextSizes, SenderAssumption

-----------------------------------------------------------------------------
(* The steps *)

\* A new sender.
LEMMA InitGood == Init => IInv
<1>. SUFFICES ASSUME Init PROVE IInv
  OBVIOUS
<1>1. PICK isn \in ISNs : snd = new_TCPSender(SendCapacity, RetxTimeout, isn)
  BY DEF Init
<1>2. isn \in WrappingInt32 /\ SendCapacity \in Nat
  BY SenderAssumption
<1>3. /\ SenderOK(Stream, snd) /\ WindowFull(snd) /\ snd.segments_out = << >>
      /\ snd.isn = isn
  BY <1>1, <1>2, NewSender
<1>4. out = << >> /\ acks = {}
  BY DEF Init
<1>. QED
  BY <1>3, <1>4 DEF IInv, AllAt, Segs

\* A call that makes s of the sender, and takes what it queued.
LEMMA BecomesGood ==
    ASSUME IInv, NEW s, Stepped(Stream, snd, s), Becomes(s),
           \A a \in acks' : a.ack \in 1 .. snd.next_seqno /\ a.win \in 0 .. MaxWin
    PROVE  /\ IInv'
           /\ (/\ 0 < snd.next_seqno /\ snd.next_seqno < snd'.next_seqno
               /\ snd.next_seqno - snd'.last_ackno <= in_window(snd'))
                => bytes_in_flight(snd') <= in_window(snd')
<1>1. snd' = emptied(s) /\ out' = s.segments_out
  BY DEF Becomes, emptied
<1>2. /\ SenderOK(Stream, s) /\ WindowFull(s) /\ Grows(snd, s)
      /\ (/\ 0 < snd.next_seqno /\ snd.next_seqno < s.next_seqno
          /\ snd.next_seqno - s.last_ackno <= in_window(s))
           => s.next_seqno - s.last_ackno <= in_window(s)
  BY DEF Stepped
<1>3. /\ SenderOK(Stream, snd') /\ WindowFull(snd') /\ snd'.segments_out = << >>
      /\ out' \in Segs /\ AllAt(Stream, snd', out')
      /\ snd'.isn = s.isn /\ snd'.next_seqno = s.next_seqno /\ snd'.last_ackno = s.last_ackno
      /\ in_window(snd') = in_window(s)
  BY <1>1, <1>2, EmptiedKeeps
<1>4. snd'.isn \in ISNs
  BY <1>2, <1>3 DEF IInv, Grows
<1>5. ASSUME NEW a \in acks' PROVE a.ack \in 1 .. snd'.next_seqno /\ a.win \in 0 .. MaxWin
  <2>1. /\ a.ack \in 1 .. snd.next_seqno /\ a.win \in 0 .. MaxWin
        /\ snd.next_seqno \in Nat /\ snd'.next_seqno \in Nat
        /\ snd.next_seqno <= snd'.next_seqno
    BY <1>2, <1>3 DEF Grows
  <2>. QED
    BY <2>1
<1>6. IInv'
  BY <1>3, <1>4, <1>5 DEF IInv
<1>7. bytes_in_flight(snd') = snd'.next_seqno - snd'.last_ackno
  BY DEF bytes_in_flight
<1>. QED
  BY <1>2, <1>3, <1>6, <1>7

\* Every step of the specification keeps the invariant and stops at the window.
LEMMA NextGood ==
    ASSUME IInv, [Next]_vars
    PROVE  /\ IInv'
           /\ (/\ 0 < snd.next_seqno /\ snd.next_seqno < snd'.next_seqno
               /\ snd.next_seqno - snd'.last_ackno <= in_window(snd'))
                => bytes_in_flight(snd') <= in_window(snd')
<1>. DEFINE Keeps == /\ IInv'
                     /\ (/\ 0 < snd.next_seqno /\ snd.next_seqno < snd'.next_seqno
                         /\ snd.next_seqno - snd'.last_ackno <= in_window(snd'))
                          => bytes_in_flight(snd') <= in_window(snd')
            AcksOK(A) == \A a \in A : a.ack \in 1 .. snd.next_seqno /\ a.win \in 0 .. MaxWin
<1>0. /\ SenderOK(Stream, snd) /\ WindowFull(snd) /\ snd.next_seqno \in Nat /\ AcksOK(acks)
      /\ snd.stream.bytes_w \in Nat
  BY SenderNumbers DEF IInv
<1>1. ASSUME NEW s, Stepped(Stream, snd, s), Becomes(s), AcksOK(acks') PROVE Keeps
  BY <1>1, BecomesGood
<1>. SUFFICES Keeps
  OBVIOUS
<1>. HIDE DEF Keeps, AcksOK
<1>2. CASE Connect
  <2>1. Grows(snd, snd)
    BY <1>0 DEF Grows
  <2>2. Stepped(Stream, snd, fill_window(snd))
    BY <2>1, <1>0, FilledStep
  <2>. QED
    BY <2>2, <1>0, <1>1, <1>2 DEF Connect
<1>3. CASE EndInput
  <2>1. Stepped(Stream, snd, fill_window([snd EXCEPT !.stream = end_input(snd.stream)]))
    BY <1>0, EndStep
  <2>. QED
    BY <2>1, <1>0, <1>1, <1>3 DEF EndInput
<1>4. ASSUME NEW len \in 1 .. N, Write(len) PROVE Keeps
  <2>. DEFINE data == SubSeq(Stream, snd.stream.bytes_w + 1, snd.stream.bytes_w + len)
  <2>1. len \in Nat /\ snd.stream.bytes_w + len <= N
    BY <1>4, SenderSizes DEF Write, bytes_written
  <2>2. Stepped(Stream, snd, fill_window([snd EXCEPT !.stream = bs_write(snd.stream, data)]))
    BY <2>1, <1>0, WriteStep
  <2>. QED
    BY <2>2, <1>0, <1>1, <1>4 DEF Write, bytes_written
<1>5. ASSUME NEW ms \in TickMs, Tick(ms) PROVE Keeps
  <2>1. ms \in Nat
    BY SenderAssumption
  <2>2. Stepped(Stream, snd, sender_tick(snd, ms))
    BY <2>1, <1>0, TickKeeps
  <2>. QED
    BY <2>2, <1>0, <1>1, <1>5 DEF Tick
<1>6. ASSUME NEW ack \in 1 .. (N + 2), NEW win \in 0 .. MaxWin, AckArrives(ack, win) PROVE Keeps
  <2>1. ack \in 1 .. snd.next_seqno
    BY <1>0, <1>6, SenderSizes DEF AckArrives
  <2>2. Stepped(Stream, snd, ack_received(snd, wrap(ack, snd.isn), win))
    <3>1. win \in Nat /\ win < Mod64
      BY SenderSizes
    <3>. QED
      BY <3>1, <2>1, <1>0, AckKeeps
  <2>3. acks' \subseteq acks \cup {[ack |-> ack, win |-> win]}
    BY <1>6 DEF AckArrives
  <2>4. AcksOK(acks')
    BY <2>1, <2>3, <1>0 DEF AcksOK
  <2>5. Becomes(ack_received(snd, wrap(ack, snd.isn), win))
    BY <1>6 DEF AckArrives
  <2>. QED
    BY <2>2, <2>4, <2>5, <1>1
<1>7. CASE StaleAckArrives
  <2>1. PICK a \in acks : Becomes(ack_received(snd, wrap(a.ack, snd.isn), a.win))
    BY <1>7 DEF StaleAckArrives
  <2>2. a.ack \in 1 .. snd.next_seqno /\ a.win \in 0 .. MaxWin /\ acks' = acks
    BY <1>0, <1>7 DEF AcksOK, StaleAckArrives
  <2>3. Stepped(Stream, snd, ack_received(snd, wrap(a.ack, snd.isn), a.win))
    <3>1. a.win \in Nat /\ a.win < Mod64
      BY <2>2, SenderSizes
    <3>. QED
      BY <3>1, <2>2, <1>0, AckKeeps
  <2>. QED
    BY <2>1, <2>2, <2>3, <1>0, <1>1
<1>8. CASE ImpossibleAckArrives
  <2>1. ack_received(snd, wrap(snd.next_seqno + 1, snd.isn), MaxWin) = snd
    BY <1>0, ImpossibleAck
  <2>2. Stepped(Stream, snd, snd) /\ Becomes(snd) /\ acks' = acks
    BY <2>1, <1>0, <1>8, SameStep DEF ImpossibleAckArrives
  <2>. QED
    BY <2>2, <1>0, <1>1
<1>9. CASE UNCHANGED vars
  <2>1. snd' = snd /\ out' = out /\ acks' = acks
    BY <1>9 DEF vars
  <2>2. IInv'
    BY <2>1 DEF IInv
  <2>3. ~(snd.next_seqno < snd'.next_seqno)
    BY <2>1, <1>0
  <2>. QED
    BY <2>2, <2>3 DEF Keeps
<1>. QED
  BY <1>2, <1>3, <1>4, <1>5, <1>6, <1>7, <1>8, <1>9 DEF Next

\* Where the raw numbers do not wrap, a seqno is the ISN plus the absolute number.
LEMMA NoWrap ==
    ASSUME NEW i \in WrappingInt32, NoRawWrap(Stream, i), NEW x \in Nat, x <= N + 2
    PROVE  wrap(x, i) = i + x /\ i + x < Mod32 /\ i \in Nat
<1>1. N \in Nat /\ Mod32 \in Nat \ {0} /\ i \in 0 .. (Mod32 - 1) /\ i + N + 2 < Mod32
  BY SenderSizes, Moduli DEF NoRawWrap, WrappingInt32
<1>2. /\ i + x = i + x + Mod32 * 0 /\ i + x \in 0 .. (Mod32 - 1) /\ 0 \in Int /\ x \in Int
      /\ i \in Nat /\ i + x < Mod32
  BY ONLY <1>1, x \in Nat, x <= N + 2
<1>3. i + x \in WrappingInt32
  BY <1>2 DEF WrappingInt32
<1>. QED
  BY ONLY <1>2, <1>3, i \in WrappingInt32, WrapCongruent

\* The queue and what is in flight, for a sender whose numbers do not wrap.
LEMMA QueueInFlight ==
    ASSUME SenderOK(Stream, snd), NoRawWrap(Stream, snd.isn)
    PROVE  OutstandingIsInFlight
<1>. DEFINE q == snd.outstanding_seg
            m == Len(q)
            i == snd.isn
            nx == snd.next_seqno
            la == snd.last_ackno
            l(k) == length_in_sequence_space(q[k])
<1>1. /\ nx \in Nat /\ la \in Nat /\ i \in WrappingInt32
      /\ la <= nx /\ nx <= N + 2
  BY SenderNumbers
<1>2. q \in Segs /\ m \in Nat /\ (q = << >> <=> m = 0)
  BY DEF SenderOK, SenderType, Segs
<1>3. PICK P : Follows(Stream, snd, q, P) /\ P[m + 1] = nx /\ HoldsOldest(snd, P)
  BY DEF SenderOK, Outstanding
<1>4. IF q = << >> THEN la = nx ELSE P[1] <= la /\ la < P[2]
  BY <1>3 DEF HoldsOldest
<1>5. ASSUME NEW k \in 1 .. m
      PROVE  /\ P[k] \in Nat /\ P[k + 1] \in Nat /\ l(k) \in Nat
             /\ P[k + 1] = P[k] + l(k) /\ q[k].seqno = wrap(P[k], i) /\ P[k + 1] <= nx
  <2>1. k \in 1 .. (m + 1) /\ k + 1 \in 1 .. (m + 1)
    BY <1>2
  <2>2. P[k] \in Nat /\ P[k + 1] \in Nat /\ At(Stream, snd, q[k], P[k]) /\ P[k + 1] = P[k] + l(k)
    BY <2>1, <1>3 DEF Follows
  <2>3. q[k] \in SegmentType(Byte)
    BY <1>2 DEF Segs
  <2>4. l(k) \in Nat
    BY <2>3, SegmentLength
  <2>. QED
    BY <2>2, <2>4 DEF At
<1>6. ASSUME NEW k \in 1 .. m
      PROVE  ends(q[k]) = wrap(P[k + 1], i)
  <2>0. /\ P[k] \in Nat /\ P[k + 1] \in Nat /\ l(k) \in Nat
        /\ P[k + 1] = P[k] + l(k) /\ q[k].seqno = wrap(P[k], i) /\ P[k + 1] <= nx
    BY <1>5
  <2>1. P[k] <= N + 2 /\ P[k + 1] <= N + 2
    <3>1. N \in Nat
      BY SenderSizes
    <3>. HIDE DEF l
    <3>. QED
      BY ONLY <2>0, <3>1, <1>1
  <2>2. /\ wrap(P[k], i) = i + P[k] /\ wrap(P[k + 1], i) = i + P[k + 1]
        /\ i + P[k + 1] < Mod32 /\ i \in Nat
    <3>. HIDE DEF i
    <3>. QED
      BY <2>1, <1>1, <1>5, NoWrap DEF i
  <2>3. ends(q[k]) = (q[k].seqno + l(k)) % Mod32
    BY DEF ends, U32
  <2>. DEFINE v == i + P[k + 1]
  <2>4. q[k].seqno + l(k) = v /\ v \in Nat /\ v < Mod32
    <3>. HIDE DEF l, i, q
    <3>. QED
      BY ONLY <2>2, <2>0
  <2>. HIDE DEF v
  <2>5. Mod32 \in Nat \ {0}
    BY Moduli
  <2>6. v % Mod32 = v
    BY <2>4, <2>5
  <2>. QED
    BY <2>2, <2>3, <2>4, <2>6 DEF v
<1>. DEFINE ln == l(1)
            s1 == q[1].seqno
<1>7. q # << >> => U32(wrap(la, i) - s1) < ln /\ la < nx
  <2>. SUFFICES ASSUME q # << >> PROVE U32(wrap(la, i) - s1) < ln /\ la < nx
    OBVIOUS
  <2>1. 1 \in 1 .. m /\ 1 + 1 = 2
    BY <1>2
  <2>2. /\ P[1] \in Nat /\ P[2] \in Nat /\ ln \in Nat /\ P[2] = P[1] + ln
        /\ s1 = wrap(P[1], i) /\ P[2] <= nx /\ P[1] <= la /\ la < P[2]
    BY <2>1, <1>4, <1>5
  <2>3. P[1] <= N + 2 /\ la <= N + 2
    <3>. DEFINE a == P[1]
                b == P[2]
                n == N
    <3>1. a <= la /\ la < b /\ b <= nx /\ nx <= n + 2 /\ {a, b, la, nx, n} \subseteq Nat
      BY <2>2, <1>1, SenderSizes
    <3>. HIDE DEF a, b, la, nx, n
    <3>2. a <= n + 2 /\ la <= n + 2
      BY ONLY <3>1
    <3>. QED
      BY <3>2 DEF a, n
  <2>4. /\ wrap(P[1], i) = i + P[1] /\ wrap(la, i) = i + la /\ i + la < Mod32 /\ i \in Nat
    <3>. HIDE DEF i, la
    <3>. QED
      BY <2>2, <2>3, <1>1, NoWrap DEF i
  <2>. DEFINE d == la - P[1]
              x == wrap(la, i) - s1
  <2>. HIDE DEF q, m, i, nx, la, l, ln, s1
  <2>5. d \in Nat /\ d < ln /\ d < Mod32 /\ Mod32 \in Nat \ {0}
    BY <2>2, <2>4, <1>1, Moduli, SMTT(40)
  <2>6. x = d
    BY <2>2, <2>4, <1>1
  <2>. HIDE DEF d, x
  <2>7. d % Mod32 = d
    BY <2>5
  <2>8. U32(x) = d
    BY <2>6, <2>7 DEF U32
  <2>. QED
    BY <2>2, <2>5, <2>8, <1>1 DEF x
<1>8. (queue = << >> <=> bytes_in_flight(snd) = 0)
  BY <1>1, <1>4, <1>7 DEF queue, bytes_in_flight
<1>9. \A k \in 1 .. Len(queue) :
            ends(queue[k]) = IF k = Len(queue) THEN wrap(snd.next_seqno, snd.isn)
                             ELSE queue[k + 1].seqno
  <2>. SUFFICES ASSUME NEW k \in 1 .. m
                PROVE  ends(q[k]) = IF k = m THEN wrap(nx, i) ELSE q[k + 1].seqno
    BY DEF queue
  <2>1. CASE k = m
    BY <2>1, <1>3, <1>6
  <2>2. CASE k # m
    <3>1. k + 1 \in 1 .. m
      BY <2>2, <1>2
    <3>. QED
      BY <3>1, <2>2, <1>5, <1>6
  <2>. QED
    BY <2>1, <2>2
<1>10. queue # << >> =>
            U32(wrap(snd.last_ackno, snd.isn) - queue[1].seqno)
                < length_in_sequence_space(queue[1])
  BY <1>7 DEF queue
<1>. QED
  BY <1>8, <1>9, <1>10 DEF OutstandingIsInFlight

-----------------------------------------------------------------------------
(* The theorems *)

\* IInv is an inductive invariant of the specification.
THEOREM Inductive == Spec => []IInv
<1>1. Init => IInv
  BY InitGood
<1>2. IInv /\ [Next]_vars => IInv'
  BY NextGood
<1>. QED
  BY <1>1, <1>2, PTL DEF Spec

\* The sender's fields keep their types, and the connection always finds its queue empty.
THEOREM SenderTypes == Spec => []TypeOK
<1>1. IInv => TypeOK
  BY DEF IInv, SenderOK, TypeOK, Segs
<1>. QED
  BY <1>1, Inductive, PTL

\* Whatever is acknowledged, lost or late, the timer runs if and only if something is
\* outstanding, and the timeout has doubled once per retransmission in a row.
THEOREM TimerRuns == Spec => []TimerFollowsOutstanding
<1>1. IInv => TimerFollowsOutstanding
  BY DEF IInv, SenderOK, TimerOK, TimerFollowsOutstanding, queue
<1>. QED
  BY <1>1, Inductive, PTL

\* Every segment sent, sent again or kept for it carries the SYN, the bytes and the FIN of its
\* own place in the stream.
THEOREM InPlace == Spec => []SegmentsInPlace
<1>1. IInv => SegmentsInPlace
  <2>. SUFFICES ASSUME IInv PROVE SegmentsInPlace
    OBVIOUS
  <2>1. SenderOK(Stream, snd) /\ out \in Segs /\ AllAt(Stream, snd, out)
    BY DEF IInv
  <2>2. queue \in Segs /\ AllAt(Stream, snd, queue)
    <3>1. queue \in Segs
      BY <2>1 DEF SenderOK, SenderType, Segs, queue
    <3>2. PICK P : Follows(Stream, snd, queue, P)
      BY <2>1 DEF SenderOK, Outstanding, queue
    <3>. QED
      BY <3>1, <3>2, FollowsAllAt
  <2>3. ASSUME NEW seg \in {out[i] : i \in 1 .. Len(out)} \cup {queue[i] : i \in 1 .. Len(queue)}
        PROVE  seg \in SegmentType(Byte) /\ \E a : At(Stream, snd, seg, a)
    BY <2>1, <2>2 DEF Segs, AllAt
  <2>. QED
    BY <2>1, <2>3, PlaceOfSegment DEF SegmentsInPlace
<1>. QED
  BY <1>1, Inductive, PTL

\* After the SYN is acknowledged nothing waits that the window has room for, bytes or FIN.
THEOREM NothingWaits == Spec => []WindowUsed
<1>1. IInv => WindowUsed
  BY DEF IInv, WindowFull, WindowUsed, buffer_empty, input_ended, bytes_written, all_sent,
         bytes_in_flight
<1>. QED
  BY <1>1, Inductive, PTL

\* No step of any actor sends beyond the window last offered, unless more was in flight.
THEOREM WindowEdge == Spec => StopsAtWindow
<1>1. IInv /\ [Next]_vars =>
        [(/\ 0 < snd.next_seqno /\ snd.next_seqno < snd'.next_seqno
          /\ snd.next_seqno - snd'.last_ackno <= in_window(snd'))
           => bytes_in_flight(snd') <= in_window(snd')]_vars
  <2>. SUFFICES ASSUME IInv, [Next]_vars, 0 < snd.next_seqno, snd.next_seqno < snd'.next_seqno,
                       snd.next_seqno - snd'.last_ackno <= in_window(snd')
                PROVE  bytes_in_flight(snd') <= in_window(snd')
    OBVIOUS
  <2>. QED
    BY NextGood
<1>. QED
  BY <1>1, Inductive, PTL DEF Spec, StopsAtWindow

\* If no initial sequence number lets a raw number of the stream wrap, the queue is always
\* exactly what is in flight: fully_acked compares raw 32-bit numbers, so that without the
\* hypothesis segments are dropped or kept wrongly.
THEOREM QueueIsInFlight ==
    ASSUME \A isn \in ISNs : NoRawWrap(Stream, isn)
    PROVE  Spec => []OutstandingIsInFlight
<1>1. IInv => OutstandingIsInFlight
  <2>. SUFFICES ASSUME IInv PROVE OutstandingIsInFlight
    OBVIOUS
  <2>1. SenderOK(Stream, snd) /\ NoRawWrap(Stream, snd.isn)
    BY DEF IInv
  <2>. QED
    BY <2>1, QueueInFlight
<1>. QED
  BY <1>1, Inductive, PTL

=============================================================================
