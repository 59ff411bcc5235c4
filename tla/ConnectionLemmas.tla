-------------------------- MODULE ConnectionLemmas --------------------------
(***************************************************************************)
(* What each call of the TCPSender does to a sender in a state it can be   *)
(* in, whatever the stream it sends, and each call of the TCPConnection to *)
(* a connection with that sender and the peer's stream to receive: the     *)
(* lemmas SenderProofs, PairProofs and SocketProofs rest on.               *)
(***************************************************************************)
EXTENDS TCPConnection, OutboundStream, InboundLemmas, SequenceTheorems

-----------------------------------------------------------------------------
(* The states of a sender *)

Segs == Seq(SegmentType(Byte))

\* seg occupies the numbers from abs on: the SYN alone, or its own bytes of the stream,
\* and the FIN if and only if it reaches the number behind the last byte.
At(text, s, seg, abs) ==
    /\ abs \in Nat /\ seg.seqno = wrap(abs, s.isn) /\ ~seg.ack
    /\ 1 <= length_in_sequence_space(seg)
    /\ abs + length_in_sequence_space(seg) <= s.next_seqno
    /\ seg.syn <=> abs = 0
    /\ seg.syn => seg.payload = << >> /\ ~seg.fin
    /\ Len(seg.payload) <= MAX_PAYLOAD_SIZE
    /\ \A i \in 1 .. Len(seg.payload) : seg.payload[i] = text[abs + i - 1]
    /\ seg.fin => /\ s.stream.end_input
                  /\ abs + length_in_sequence_space(seg) = s.stream.bytes_w + 2
    /\ ~seg.fin => abs + length_in_sequence_space(seg) <= s.stream.bytes_w + 1

\* The segments of q stand at P[1], P[2] and so on without a gap, from a number on.
Follows(text, s, q, P) ==
    /\ P \in [1 .. (Len(q) + 1) -> Nat]
    /\ \A k \in 1 .. Len(q) :
          At(text, s, q[k], P[k]) /\ P[k + 1] = P[k] + length_in_sequence_space(q[k])

\* The 32-bit numbers of the whole stream do not wrap.
NoRawWrap(text, isn) == isn + Len(text) + 2 < Mod32

\* The oldest number not acknowledged is in the first segment, if there is one.
HoldsOldest(s, P) ==
    IF s.outstanding_seg = << >> THEN s.last_ackno = s.next_seqno
    ELSE P[1] <= s.last_ackno /\ s.last_ackno < P[2]

Outstanding(text, s) ==
    \E P : /\ Follows(text, s, s.outstanding_seg, P)
           /\ P[Len(s.outstanding_seg) + 1] = s.next_seqno
           /\ NoRawWrap(text, s.isn) => HoldsOldest(s, P)

\* What the stream holds, what was sent of it, and what was acknowledged.
StreamOK(text, o) ==
    /\ o.bytes_w <= Len(text) /\ o.bytes_r + Len(o.buff) = o.bytes_w
    /\ Len(o.buff) <= o.capacity
    /\ \A i \in 1 .. Len(o.buff) : o.buff[i] = text[o.bytes_r + i]

NumbersOK(s) ==
    /\ \/ s.next_seqno = 0 /\ s.stream.bytes_r = 0
       \/ s.next_seqno = s.stream.bytes_r + 1
       \/ s.next_seqno = s.stream.bytes_r + 2 /\ s.stream.end_input /\ s.stream.buff = << >>
    /\ s.last_ackno <= s.next_seqno
    /\ s.last_ackno = 0 => s.next_seqno <= 1
    /\ s.last_win < Mod64

TimerOK(s) ==
    /\ s.timer.is_started <=> s.outstanding_seg # << >>
    /\ ~s.timer.is_expired
    /\ s.initial_retransmission_timeout = RetxTimeout
    /\ s.RTO = doubled[s.retransmission_count]
    /\ s.timer.remaining_time <= s.RTO

AllAt(text, s, segs) == \A i \in 1 .. Len(segs) : \E abs : At(text, s, segs[i], abs)

SenderOK(text, s) ==
    /\ s \in SenderType(Byte)
    /\ StreamOK(text, s.stream) /\ NumbersOK(s) /\ TimerOK(s) /\ Outstanding(text, s)
    /\ AllAt(text, s, s.segments_out)

WindowFull(s) ==
    s.last_ackno > 0 /\ (\/ s.stream.buff # << >>
                         \/ s.stream.end_input /\ s.next_seqno # s.stream.bytes_w + 2)
        => s.next_seqno - s.last_ackno >= in_window(s)

-----------------------------------------------------------------------------
(* Numbers *)

\* The constants are numbers, and half the sequence space is far from the end of size_t.
LEMMA Widths ==
    /\ Half32 \in Nat /\ Mod32 \in Nat /\ Mod64 \in Nat
    /\ Mod32 = 2 * Half32 /\ Half32 + Mod32 < Mod64
    /\ MAX_PAYLOAD_SIZE \in Nat \ {0} /\ RetxTimeout \in Nat \ {0}
<1>1. Half32 \in Nat /\ Mod32 = 2 * Half32 /\ Mod32 \in Nat
  BY Half32Assumption DEF Mod32
<1>2. Mod64 = 4 * (Half32 * Half32) /\ Half32 * Half32 >= Half32
  BY <1>1, Half32Assumption DEF Mod64
<1>. QED
  BY <1>1, <1>2, TimeoutAssumption, PayloadAssumption, Half32Assumption

\* The whole stream fits half the sequence space.
LEMMA TextSizes ==
    ASSUME NEW text \in OutStreams
    PROVE  text \in Seq(Byte) /\ Len(text) \in Nat /\ Len(text) + 2 <= Half32
  BY DEF OutStreams

\* The recursive function doubled is what its definition says, on every natural.
LEMMA Doubled ==
    /\ doubled[0] = RetxTimeout
    /\ \A n \in Nat : doubled[n] \in Nat \ {0} /\ doubled[n + 1] = 2 * doubled[n]
<1>. DEFINE R == RetxTimeout
            Table(m, f) == /\ f \in [0 .. m -> Nat \ {0}] /\ f[0] = R
                           /\ \A i \in 1 .. m : f[i] = 2 * f[i - 1]
            Tabled == {m \in Nat : \E f : Table(m, f)}
<1>0. R \in Nat \ {0}
  BY Widths
<1>. HIDE DEF R
<1>1. \A m \in Nat : m \in Tabled
  <2>1. 0 \in Tabled
    <3>1. Table(0, [i \in 0 .. 0 |-> R])
      BY <1>0
    <3>. QED
      BY <3>1
  <2>2. ASSUME NEW m \in Nat, m \in Tabled PROVE m + 1 \in Tabled
    <3>1. PICK f : Table(m, f)
      BY <2>2
    <3>. DEFINE g == [i \in 0 .. (m + 1) |-> IF i = m + 1 THEN 2 * f[m] ELSE f[i]]
    <3>2. \A i \in 0 .. m : f[i] \in Nat \ {0} /\ g[i] = f[i]
      BY <3>1
    <3>3. g[m + 1] = 2 * f[m] /\ m \in 0 .. m
      OBVIOUS
    <3>4. g \in [0 .. (m + 1) -> Nat \ {0}]
      <4>. DEFINE v == f[m]
      <4>1. v \in Nat \ {0} /\ \A i \in 0 .. m : f[i] \in Nat \ {0}
        BY <3>1
      <4>. HIDE DEF v
      <4>2. 2 * v \in Nat \ {0}
        BY <4>1
      <4>3. ASSUME NEW i \in 0 .. (m + 1)
            PROVE  (IF i = m + 1 THEN 2 * v ELSE f[i]) \in Nat \ {0}
        BY <4>1, <4>2
      <4>4. g = [i \in 0 .. (m + 1) |-> IF i = m + 1 THEN 2 * v ELSE f[i]]
        BY DEF v
      <4>. QED
        BY <4>3, <4>4
    <3>. HIDE DEF g
    <3>5. ASSUME NEW i \in 1 .. (m + 1) PROVE g[i] = 2 * g[i - 1]
      <4>1. CASE i = m + 1
        BY <4>1, <3>2, <3>3
      <4>2. CASE i # m + 1
        <5>1. i \in 1 .. m /\ i \in 0 .. m /\ i - 1 \in 0 .. m
          BY <4>2
        <5>. QED
          BY <5>1, <3>1, <3>2
      <4>. QED
        BY <4>1, <4>2
    <3>6. g[0] = R
      BY <3>1, <3>2
    <3>7. Table(m + 1, g)
      BY <3>4, <3>5, <3>6
    <3>. HIDE DEF Table
    <3>. QED
      BY <3>7
  <2>. HIDE DEF Tabled
  <2>. QED
    BY <2>1, <2>2, SetInduction
<1>2. ASSUME NEW m \in Nat, NEW n \in Nat, m <= n, NEW f, NEW g, Table(m, f), Table(n, g)
      PROVE  \A i \in 0 .. m : f[i] = g[i]
  <2>. DEFINE S == {i \in Nat : i <= m => f[i] = g[i]}
  <2>1. 0 \in S
    BY <1>2
  <2>2. ASSUME NEW i \in Nat, i \in S PROVE i + 1 \in S
    <3>. SUFFICES ASSUME i + 1 <= m PROVE f[i + 1] = g[i + 1]
      OBVIOUS
    <3>1. i + 1 \in 1 .. m /\ i + 1 \in 1 .. n /\ (i + 1) - 1 = i /\ f[i] = g[i]
      BY <1>2, <2>2
    <3>2. f[i + 1] = 2 * f[i] /\ g[i + 1] = 2 * g[i]
      BY <3>1, <1>2
    <3>. QED
      BY <3>1, <3>2
  <2>3. \A i \in Nat : i \in S
    <3>. HIDE DEF S
    <3>. QED
      BY <2>1, <2>2, SetInduction
  <2>. QED
    BY <2>3
<1>. DEFINE pick(n) == CHOOSE f : Table(n, f)
            F == [n \in Nat |-> pick(n)[n]]
<1>3. \A n \in Nat : Table(n, pick(n))
  BY <1>1
<1>. HIDE DEF Table, pick
<1>4. F = [n \in Nat |-> IF n = 0 THEN R ELSE 2 * F[n - 1]]
  <2>1. ASSUME NEW n \in Nat
        PROVE  F[n] = IF n = 0 THEN R ELSE 2 * F[n - 1]
    <3>1. CASE n = 0
      BY <3>1, <1>3 DEF Table
    <3>2. CASE n # 0
      <4>1. n - 1 \in Nat /\ n - 1 <= n /\ n \in 1 .. n /\ n - 1 \in 0 .. (n - 1)
        BY <3>2
      <4>2. pick(n)[n] = 2 * pick(n)[n - 1]
        BY <4>1, <1>3 DEF Table
      <4>3. pick(n - 1)[n - 1] = pick(n)[n - 1]
        BY <4>1, <1>2, <1>3
      <4>. QED
        BY <3>2, <4>1, <4>2, <4>3
    <3>. QED
      BY <3>1, <3>2
  <2>. QED
    BY <2>1
<1>. HIDE DEF F
<1>5. doubled = [n \in Nat |-> IF n = 0 THEN R ELSE 2 * doubled[n - 1]]
  BY <1>4 DEF doubled, R
<1>6. doubled[0] = R /\ \A n \in Nat : doubled[n + 1] = 2 * doubled[n]
  <2>1. \A n \in Nat : doubled[n] = IF n = 0 THEN R ELSE 2 * doubled[n - 1]
    BY <1>5
  <2>2. ASSUME NEW n \in Nat PROVE doubled[n + 1] = 2 * doubled[n]
    BY <2>1
  <2>. QED
    BY <2>1, <2>2
<1>7. \A n \in Nat : doubled[n] \in Nat \ {0}
  <2>. DEFINE S == {n \in Nat : doubled[n] \in Nat \ {0}}
  <2>1. 0 \in S /\ \A n \in Nat : n \in S => n + 1 \in S
    BY <1>0, <1>6
  <2>2. \A n \in Nat : n \in S
    <3>. HIDE DEF S
    <3>. QED
      BY <2>1, SetInduction
  <2>. QED
    BY <2>2
<1>. QED
  BY <1>6, <1>7 DEF R

-----------------------------------------------------------------------------
(* Segments in their places *)

\* t is s some calls later: numbers are only used up and bytes only added, none of them
\* once the stream has ended.
Grows(s, t) ==
    /\ t.isn = s.isn
    /\ s.next_seqno \in Nat /\ t.next_seqno \in Nat /\ s.next_seqno <= t.next_seqno
    /\ s.stream.bytes_w \in Nat /\ t.stream.bytes_w \in Nat
    /\ s.stream.bytes_w <= t.stream.bytes_w
    /\ s.stream.end_input => t.stream.end_input /\ t.stream.bytes_w = s.stream.bytes_w

\* The length of a segment is a number.
LEMMA SegmentLength ==
    ASSUME NEW seg \in SegmentType(Byte)
    PROVE  /\ length_in_sequence_space(seg) \in Nat /\ Len(seg.payload) \in Nat
           /\ Len(seg.payload) <= length_in_sequence_space(seg)
<1>1. Len(seg.payload) \in Nat
  BY DEF SegmentType
<1>2. flag(seg.syn) \in Nat /\ flag(seg.fin) \in Nat
  BY DEF flag
<1>. QED
  BY <1>1, <1>2 DEF length_in_sequence_space

\* A segment keeps its place.
LEMMA AtKept ==
    ASSUME NEW text \in OutStreams, NEW s, NEW t, Grows(s, t), NEW seg \in SegmentType(Byte),
           NEW abs, At(text, s, seg, abs)
    PROVE  At(text, t, seg, abs)
<1>. DEFINE l == length_in_sequence_space(seg)
<1>1. l \in Nat
  BY SegmentLength
<1>. HIDE DEF l
<1>. QED
  BY <1>1 DEF At, Grows, l

\* A sequence of segments, and a longer one, in their places.
LEMMA FollowsKept ==
    ASSUME NEW text \in OutStreams, NEW s, NEW t, Grows(s, t), NEW q \in Segs, NEW P,
           Follows(text, s, q, P)
    PROVE  Follows(text, t, q, P)
<1>1. \A k \in 1 .. Len(q) : q[k] \in SegmentType(Byte)
  BY DEF Segs
<1>. QED
  BY <1>1, AtKept DEF Follows

\* A segment in its place stays there when the sender goes on.
LEMMA AllAtKept ==
    ASSUME NEW text \in OutStreams, NEW s, NEW t, Grows(s, t), NEW q \in Segs, AllAt(text, s, q)
    PROVE  AllAt(text, t, q)
<1>1. \A k \in 1 .. Len(q) : q[k] \in SegmentType(Byte)
  BY DEF Segs
<1>. QED
  BY <1>1, AtKept DEF AllAt

\* Two queues of segments in their places make one.
LEMMA AllAtJoined ==
    ASSUME NEW text \in OutStreams, NEW s, NEW q \in Segs, NEW r \in Segs, AllAt(text, s, q),
           AllAt(text, s, r)
    PROVE  q \o r \in Segs /\ AllAt(text, s, q \o r)
<1>1. /\ q \o r \in Segs /\ Len(q \o r) = Len(q) + Len(r) /\ Len(q) \in Nat /\ Len(r) \in Nat
      /\ \A i \in 1 .. Len(q) : (q \o r)[i] = q[i]
      /\ \A i \in 1 .. Len(r) : (q \o r)[Len(q) + i] = r[i]
  BY DEF Segs
<1>2. ASSUME NEW i \in 1 .. Len(q \o r) PROVE \E abs : At(text, s, (q \o r)[i], abs)
  <2>1. CASE i <= Len(q)
    BY <2>1, <1>1 DEF AllAt
  <2>2. CASE i > Len(q)
    <3>1. i - Len(q) \in 1 .. Len(r) /\ (q \o r)[i] = r[i - Len(q)]
      BY <2>2, <1>1
    <3>. QED
      BY <3>1 DEF AllAt
  <2>. QED
    BY <2>1, <2>2, <1>1
<1>. QED
  BY <1>1, <1>2 DEF AllAt

\* Segments that follow one another are each in their place.
LEMMA FollowsAllAt ==
    ASSUME NEW text \in OutStreams, NEW s, NEW q, NEW P, Follows(text, s, q, P)
    PROVE  AllAt(text, s, q)
  BY DEF Follows, AllAt

\* What follows q at the number where q ends.
LEMMA FollowsJoined ==
    ASSUME NEW text \in OutStreams, NEW s, NEW q \in Segs, NEW P, Follows(text, s, q, P),
           NEW r \in Segs, NEW Q, Follows(text, s, r, Q), Q[1] = P[Len(q) + 1]
    PROVE  \E R : /\ Follows(text, s, q \o r, R)
                  /\ R[Len(q \o r) + 1] = Q[Len(r) + 1]
                  /\ R[1] = P[1]
                  /\ q # << >> => R[2] = P[2]
                  /\ q = << >> /\ r # << >> => R[2] = Q[2]
<1>. DEFINE m == Len(q)
            n == Len(r)
            c == q \o r
            R == [k \in 1 .. (Len(c) + 1) |-> IF k <= m THEN P[k] ELSE Q[k - m]]
<1>1. /\ c \in Segs /\ Len(c) = m + n /\ m \in Nat /\ n \in Nat
      /\ \A i \in 1 .. m : c[i] = q[i]
      /\ \A i \in 1 .. n : c[m + i] = r[i]
  BY DEF Segs
<1>2. /\ P \in [1 .. (m + 1) -> Nat] /\ Q \in [1 .. (n + 1) -> Nat]
      /\ \A k \in 1 .. m : At(text, s, q[k], P[k]) /\ P[k + 1] = P[k] + length_in_sequence_space(q[k])
      /\ \A k \in 1 .. n : At(text, s, r[k], Q[k]) /\ Q[k + 1] = Q[k] + length_in_sequence_space(r[k])
      /\ Q[1] = P[m + 1]
  BY DEF Follows
<1>. HIDE DEF m, n, c
<1>3. \A k \in 1 .. (m + 1) : R[k] = P[k]
  BY <1>1, <1>2
<1>4. \A k \in 1 .. (n + 1) : R[m + k] = Q[k]
  BY <1>1, <1>2
<1>5. R \in [1 .. (Len(c) + 1) -> Nat]
  BY <1>1, <1>2
<1>. HIDE DEF R
<1>6. ASSUME NEW k \in 1 .. Len(c)
      PROVE  At(text, s, c[k], R[k]) /\ R[k + 1] = R[k] + length_in_sequence_space(c[k])
  <2>1. CASE k <= m
    <3>1. k \in 1 .. m /\ k \in 1 .. (m + 1) /\ k + 1 \in 1 .. (m + 1)
      BY <2>1, <1>1
    <3>. QED
      BY <3>1, <1>1, <1>2, <1>3
  <2>2. CASE k > m
    <3>. DEFINE j == k - m
    <3>1. j \in 1 .. n /\ j \in 1 .. (n + 1) /\ j + 1 \in 1 .. (n + 1)
      BY <2>2, <1>1
    <3>2. m + j = k /\ m + (j + 1) = k + 1
      BY <1>1
    <3>. HIDE DEF j
    <3>3. c[k] = r[j] /\ R[k] = Q[j] /\ R[k + 1] = Q[j + 1]
      BY <3>1, <3>2, <1>1, <1>4
    <3>. QED
      BY <3>1, <3>3, <1>2
  <2>. QED
    BY <2>1, <2>2, <1>1
<1>7. Follows(text, s, c, R)
  BY <1>5, <1>6 DEF Follows
<1>8. /\ R[Len(c) + 1] = Q[n + 1] /\ R[1] = P[1] /\ (1 < m + 1 => R[2] = P[2])
      /\ m = 0 /\ n # 0 => R[2] = Q[2]
  <2>1. Len(c) + 1 = m + (n + 1) /\ n + 1 \in 1 .. (n + 1) /\ 1 \in 1 .. (m + 1)
    BY <1>1
  <2>2. m = 0 /\ n # 0 => 2 \in 1 .. (n + 1) /\ m + 2 = 2
    BY <1>1
  <2>. QED
    BY <2>1, <2>2, <1>1, <1>3, <1>4
<1>9. (q # << >> => 1 < m + 1) /\ (q = << >> => m = 0) /\ (r # << >> => n # 0)
  BY DEF m, n, Segs
<1>. QED
  BY <1>7, <1>8, <1>9 DEF m, n, c

\* What is left when the first j segments have gone.
LEMMA FollowsDropped ==
    ASSUME NEW text \in OutStreams, NEW s, NEW q \in Segs, NEW P, Follows(text, s, q, P),
           NEW j \in 0 .. Len(q)
    PROVE  LET r == SubSeq(q, j + 1, Len(q))
           IN  /\ r \in Segs /\ Len(r) = Len(q) - j
               /\ \E R : /\ Follows(text, s, r, R)
                         /\ R[Len(r) + 1] = P[Len(q) + 1] /\ R[1] = P[j + 1]
                         /\ j < Len(q) => R[2] = P[j + 2]
<1>. DEFINE m == Len(q)
            r == SubSeq(q, j + 1, m)
            R == [k \in 1 .. (Len(r) + 1) |-> P[j + k]]
<1>1. /\ m \in Nat /\ r \in Segs /\ Len(r) = m - j
      /\ \A i \in 1 .. (m - j) : r[i] = q[j + i]
  BY DEF Segs
<1>2. /\ P \in [1 .. (m + 1) -> Nat]
      /\ \A k \in 1 .. m : At(text, s, q[k], P[k]) /\ P[k + 1] = P[k] + length_in_sequence_space(q[k])
  BY DEF Follows
<1>. HIDE DEF m, r
<1>3. R \in [1 .. (Len(r) + 1) -> Nat]
  BY <1>1, <1>2 DEF m
<1>4. \A k \in 1 .. (Len(r) + 1) : R[k] = P[j + k]
  OBVIOUS
<1>. HIDE DEF R
<1>5. ASSUME NEW k \in 1 .. Len(r)
      PROVE  At(text, s, r[k], R[k]) /\ R[k + 1] = R[k] + length_in_sequence_space(r[k])
  <2>1. j + k \in 1 .. m /\ k \in 1 .. (Len(r) + 1) /\ k + 1 \in 1 .. (Len(r) + 1)
        /\ j + (k + 1) = (j + k) + 1 /\ k \in 1 .. (m - j)
    BY <1>1 DEF m
  <2>2. R[k] = P[j + k] /\ R[k + 1] = P[j + (k + 1)]
    BY ONLY <2>1, <1>4
  <2>3. R[k + 1] = P[(j + k) + 1] /\ r[k] = q[j + k]
    BY <2>1, <2>2, <1>1
  <2>. QED
    BY <2>1, <2>2, <2>3, <1>2
<1>6. Follows(text, s, r, R)
  BY <1>3, <1>5 DEF Follows
<1>7. R[Len(r) + 1] = P[m + 1] /\ R[1] = P[j + 1] /\ (j < m => R[2] = P[j + 2])
  <2>1. /\ Len(r) + 1 \in 1 .. (Len(r) + 1) /\ 1 \in 1 .. (Len(r) + 1)
        /\ j + (Len(r) + 1) = m + 1 /\ (j < m => 2 \in 1 .. (Len(r) + 1))
    BY <1>1 DEF m
  <2>. QED
    BY <2>1, <1>4
<1>. QED
  BY <1>1, <1>6, <1>7 DEF r, m

\* The loop of ack_received stops at the first segment that is not fully acknowledged.
LEMMA AckedCount ==
    ASSUME NEW q \in Segs, NEW a
    PROVE  LET n == acked_count(q, a)
           IN  /\ n \in 0 .. Len(q)
               /\ \A j \in 1 .. n : fully_acked(q[j], a)
               /\ n < Len(q) => ~fully_acked(q[n + 1], a)
<1>. DEFINE m == Len(q)
            OK(k) == /\ \A j \in 1 .. k : fully_acked(q[j], a)
                     /\ k < m => ~fully_acked(q[k + 1], a)
            T == {k \in 0 .. m : k = m \/ ~fully_acked(q[k + 1], a)}
<1>1. m \in Nat
  BY DEF Segs
<1>. HIDE DEF m
<1>2. T \in SUBSET Nat /\ m \in T
  BY <1>1
<1>3. PICK k \in T : \A y \in T : k <= y
  <2>. HIDE DEF T
  <2>. QED
    BY <1>2, LeastNatural
<1>4. k \in 0 .. m /\ (k = m \/ ~fully_acked(q[k + 1], a))
  BY <1>3
<1>5. ASSUME NEW j \in 1 .. k PROVE fully_acked(q[j], a)
  <2>1. j - 1 \in 0 .. m /\ j - 1 # m /\ (j - 1) + 1 = j
    BY <1>1, <1>4
  <2>2. j - 1 \notin T
    BY <1>3, <1>4
  <2>. QED
    BY <2>1, <2>2
<1>6. \E n \in 0 .. m : OK(n)
  BY <1>4, <1>5
<1>7. acked_count(q, a) = CHOOSE n \in 0 .. m : OK(n)
  BY DEF acked_count, m
<1>. HIDE DEF OK
<1>8. acked_count(q, a) \in 0 .. m /\ OK(acked_count(q, a))
  BY <1>6, <1>7
<1>. QED
  BY <1>8 DEF OK, m

-----------------------------------------------------------------------------
(* What fill_window sends *)

\* A number wraps to a 32-bit one.
LEMMA WrapType ==
    ASSUME NEW s \in SenderType(Byte), NEW abs \in Nat
    PROVE  s.isn \in WrappingInt32 /\ wrap(abs, s.isn) \in WrappingInt32
<1>1. s.isn \in WrappingInt32
  BY DEF SenderType
<1>. QED
  BY <1>1, WrapOffset

\* The segments fill_window makes, field by field; f is the length of the FIN, if any.
made(seqno, payload, f) ==
    [new_TCPSegment EXCEPT !.seqno = seqno, !.payload = payload, !.fin = (f = 1)]

\* The fields of a segment that fill_window makes, and its length.
LEMMA MadeFields ==
    ASSUME NEW n \in WrappingInt32, NEW d \in Seq(Byte), NEW f \in 0 .. 1
    PROVE  LET seg == made(n, d, f)
           IN  /\ seg \in SegmentType(Byte)
               /\ seg.seqno = n /\ ~seg.syn /\ ~seg.ack /\ seg.payload = d /\ (seg.fin <=> f = 1)
               /\ length_in_sequence_space(seg) = Len(d) + f
<1>. DEFINE W == WrappingInt32
            S == Seq(Byte)
            z == new_TCPSegment
            T == [seqno : W, ackno : W, win : Nat, syn : BOOLEAN, ack : BOOLEAN,
                  fin : BOOLEAN, rst : BOOLEAN, payload : S]
<1>1. 0 \in W /\ 0 \in Nat /\ Len(d) \in Nat /\ << >> \in S /\ n \in W /\ d \in S
  BY Widths DEF WrappingInt32
<1>. HIDE DEF W, S
<1>2. z \in T /\ z.syn = FALSE /\ z.ack = FALSE
  BY <1>1 DEF new_TCPSegment
<1>. HIDE DEF z
<1>3. ASSUME NEW b \in BOOLEAN
      PROVE  LET seg == [z EXCEPT !.seqno = n, !.payload = d, !.fin = b]
             IN  /\ seg \in T /\ seg.seqno = n /\ seg.syn = FALSE /\ seg.ack = FALSE
                 /\ seg.payload = d /\ seg.fin = b
  BY <1>1, <1>2
<1>. DEFINE seg == made(n, d, f)
<1>4. /\ seg \in T /\ seg.seqno = n /\ seg.syn = FALSE /\ seg.ack = FALSE
      /\ seg.payload = d /\ seg.fin = (f = 1)
  BY <1>3 DEF made, z
<1>. HIDE DEF seg
<1>5. seg \in SegmentType(Byte)
  BY <1>4 DEF W, S, SegmentType
<1>6. flag(seg.syn) = 0 /\ flag(seg.fin) = f
  BY <1>4 DEF flag
<1>7. length_in_sequence_space(seg) = Len(d) + f
  BY <1>1, <1>4, <1>6 DEF length_in_sequence_space
<1>. QED
  BY <1>4, <1>5, <1>7 DEF seg

\* The bytes of the stream from the number abs on.
Carries(text, d, abs) == \A i \in 1 .. Len(d) : d[i] = text[abs + i - 1]

\* What the l numbers from abs on have to do with the end of the stream.
Fits(t, abs, l, f) ==
    /\ abs + l <= t.next_seqno
    /\ f = 1 => t.stream.end_input /\ abs + l = t.stream.bytes_w + 2
    /\ f = 0 => abs + l <= t.stream.bytes_w + 1

\* Such a segment stands at abs if it carries the bytes from there on.
LEMMA MadeAt ==
    ASSUME NEW text \in OutStreams, NEW n \in WrappingInt32, NEW d \in Seq(Byte),
           NEW f \in 0 .. 1,
           NEW abs \in Nat \ {0}, NEW l \in Nat \ {0}, l = Len(d) + f,
           NEW t, n = wrap(abs, t.isn), Fits(t, abs, l, f),
           Len(d) <= MAX_PAYLOAD_SIZE, Carries(text, d, abs),
           NEW seg, seg = made(n, d, f)
    PROVE  /\ seg \in SegmentType(Byte) /\ At(text, t, seg, abs)
           /\ length_in_sequence_space(seg) = l
<1>1. /\ seg \in SegmentType(Byte)
      /\ seg.seqno = n /\ ~seg.syn /\ ~seg.ack /\ seg.payload = d /\ (seg.fin <=> f = 1)
      /\ length_in_sequence_space(seg) = Len(d) + f
  BY MadeFields
<1>2. length_in_sequence_space(seg) = l
  BY <1>1
<1>3. 1 <= l /\ abs # 0 /\ abs \in Nat /\ (f # 1 => f = 0)
  OBVIOUS
<1>4. At(text, t, seg, abs)
  BY <1>1, <1>2, <1>3 DEF At, Carries, Fits
<1>. QED
  BY <1>1, <1>2, <1>4

\* The k-th of the segments of len bytes carries the bytes behind (k - 1) * MAX_PAYLOAD_SIZE.
LEMMA CutSizes ==
    ASSUME NEW len \in Nat \ {0}
    PROVE  LET M == MAX_PAYLOAD_SIZE
               count == (len + M - 1) \div M
           IN  /\ count \in Nat \ {0}
               /\ \A k \in 1 .. count :
                    /\ (k - 1) * M \in Nat /\ (k - 1) * M < len
                    /\ k < count => (k - 1) * M + M = k * M /\ k * M < len
                    /\ k = count => len <= (k - 1) * M + M
<1>. DEFINE M == MAX_PAYLOAD_SIZE
            count == (len + M - 1) \div M
<1>0. M \in Nat \ {0}
  BY Widths
<1>. HIDE DEF M
<1>1. count \in Nat \ {0} /\ len <= count * M /\ (count - 1) * M < len
  BY <1>0
<1>. HIDE DEF count
<1>2. ASSUME NEW k \in 1 .. count
      PROVE  /\ (k - 1) * M \in Nat /\ (k - 1) * M < len
             /\ k < count => (k - 1) * M + M = k * M /\ k * M < len
             /\ k = count => len <= (k - 1) * M + M
  <2>1. (k - 1) * M \in Nat /\ (k - 1) * M + M = k * M /\ k * M \in Nat
    BY <1>0, <1>1
  <2>2. (k - 1) * M <= (count - 1) * M
    BY <1>0, <1>1
  <2>3. k < count => k * M <= (count - 1) * M
    BY <1>0, <1>1
  <2>4. (count - 1) * M \in Nat /\ count * M \in Nat
    BY <1>0, <1>1
  <2>. QED
    BY <2>1, <2>2, <2>3, <2>4, <1>1
<1>. QED
  BY <1>1, <1>2 DEF M, count

\* The bytes b are the ones of the stream behind the first r.
Buffered(text, b, r) == \A i \in 1 .. Len(b) : b[i] = text[r + i]

\* The bytes of one of the segments of fill_window's loop.
LEMMA CutBytes ==
    ASSUME NEW text \in OutStreams, NEW b \in Seq(Byte), NEW r \in Nat, Buffered(text, b, r),
           NEW first \in Nat \ {0}, NEW to \in Nat, first <= to, to <= Len(b),
           NEW abs \in Nat, abs = r + first
    PROVE  LET d == SubSeq(b, first, to)
           IN  d \in Seq(Byte) /\ Len(d) = to - first + 1 /\ Carries(text, d, abs)
<1>. DEFINE m == Len(b)
            d == SubSeq(b, first, to)
<1>1. m \in Nat /\ to <= m /\ \A i \in 1 .. m : b[i] = text[r + i]
  BY DEF Buffered
<1>2. /\ d \in Seq(Byte) /\ Len(d) = to - first + 1
      /\ \A i \in 1 .. (to - first + 1) : d[i] = b[first + i - 1]
  OBVIOUS
<1>. HIDE DEF m, d
<1>3. ASSUME NEW i \in 1 .. (to - first + 1) PROVE d[i] = text[abs + i - 1]
  <2>1. first + i - 1 \in 1 .. m /\ r + (first + i - 1) = abs + i - 1
    BY <1>1
  <2>. QED
    BY <2>1, <1>1, <1>2
<1>. QED
  BY <1>2, <1>3 DEF Carries, d

\* A sender t that has sent the segments: where it stands with respect to the stream.
Sent(t, isn, tn, w, f) ==
    /\ t.isn = isn /\ t.next_seqno = tn /\ t.stream.bytes_w = w
    /\ f = 1 => t.stream.end_input

\* One of the segments of fill_window's loop, in its place, in a stream with w bytes
\* written, r of them sent and the others in the buffer b.
LEMMA CutOne ==
    ASSUME NEW text \in OutStreams, NEW b \in Seq(Byte), NEW r \in Nat, Buffered(text, b, r),
           NEW w \in Nat, r + Len(b) = w, NEW isn \in WrappingInt32,
           NEW first \in Nat \ {0}, NEW to \in Nat, first <= to, to <= Len(b),
           to < first + MAX_PAYLOAD_SIZE,
           NEW f \in 0 .. 1, f = 1 => to = Len(b),
           NEW abs \in Nat, abs = r + first,
           NEW t, NEW tn \in Nat, Sent(t, isn, tn, w, f), abs + (to - first + 1 + f) <= tn
    PROVE  LET seg == made(wrap(abs, isn), SubSeq(b, first, to), f)
           IN  /\ seg \in SegmentType(Byte) /\ At(text, t, seg, abs)
               /\ length_in_sequence_space(seg) = to - first + 1 + f
<1>s. text \in Seq(Byte) /\ Len(text) \in Nat /\ Len(text) + 2 <= Half32
  BY TextSizes
<1>. DEFINE d == SubSeq(b, first, to)
            m == Len(b)
            l == to - first + 1 + f
            seg == made(wrap(abs, isn), d, f)
<1>0. /\ m \in Nat /\ to <= m /\ r + m = w /\ (f = 1 => to = m)
      /\ l \in Nat /\ l = to - first + 1 + f /\ abs + l <= tn
  OBVIOUS
<1>. HIDE DEF l
<1>1. /\ abs # 0 /\ l # 0
      /\ f = 1 => abs + l = w + 2
      /\ f = 0 => abs + l <= w + 1
  <2>. HIDE DEF m
  <2>. QED
    BY <1>0
<1>2. d \in Seq(Byte) /\ Len(d) = to - first + 1 /\ Carries(text, d, abs)
  BY CutBytes
<1>. HIDE DEF d
<1>3. wrap(abs, isn) \in WrappingInt32 /\ wrap(abs, isn) = wrap(abs, t.isn)
  BY WrapOffset DEF Sent
<1>4. l = Len(d) + f /\ Len(d) <= MAX_PAYLOAD_SIZE
  BY <1>0, <1>2, <1>s, Widths
<1>5. Fits(t, abs, l, f)
  BY <1>0, <1>1 DEF Fits, Sent
<1>6. seg \in SegmentType(Byte) /\ At(text, t, seg, abs) /\ length_in_sequence_space(seg) = l
  BY ONLY <1>0, <1>1, <1>2, <1>3, <1>4, <1>5, MadeAt, f \in 0 .. 1, abs \in Nat
<1>. QED
  BY <1>6 DEF d, l

\* The segments of cut_segments; f is the length of the FIN, if any.
cuts(b, nx, isn, len, f) ==
    LET M == MAX_PAYLOAD_SIZE
        count == (len + M - 1) \div M
    IN  [k \in 1 .. count |->
            made(wrap(nx + (k - 1) * M, isn),
                 SubSeq(b, (k - 1) * M + 1, min(len, (k - 1) * M + M)),
                 IF k = count THEN f ELSE 0)]

\* They can be cut from the buffer b, and t is the sender that has sent them.
CutReady(text, t, b, nx, isn, len, f) ==
    /\ b \in Seq(Byte) /\ nx \in Nat \ {0} /\ Buffered(text, b, nx - 1) /\ isn \in WrappingInt32
    /\ len \in Nat \ {0} /\ len <= Len(b) /\ f \in 0 .. 1 /\ (f = 1 => len = Len(b))
    /\ Sent(t, isn, nx + len + f, (nx - 1) + Len(b), f)

\* All of them, one behind the other from next_seqno on.
LEMMA CutFollows ==
    ASSUME NEW text \in OutStreams, NEW t, NEW b, NEW nx, NEW isn, NEW len, NEW f,
           CutReady(text, t, b, nx, isn, len, f)
    PROVE  LET segs == cuts(b, nx, isn, len, f)
           IN  /\ segs \in Segs /\ segs # << >>
               /\ \E Q : /\ Follows(text, t, segs, Q)
                         /\ Q[1] = nx /\ Q[Len(segs) + 1] = nx + len + f
<1>. DEFINE M == MAX_PAYLOAD_SIZE
            m == Len(b)
            r == nx - 1
            w == r + m
            tn == nx + len + f
            count == (len + M - 1) \div M
            from(k) == (k - 1) * M
            to(k) == min(len, from(k) + M)
            fl(k) == IF k = count THEN f ELSE 0
            seg(k) == made(wrap(nx + from(k), isn), SubSeq(b, from(k) + 1, to(k)), fl(k))
            segs == [k \in 1 .. count |-> seg(k)]
            Q == [k \in 1 .. (count + 1) |-> IF k = count + 1 THEN tn ELSE nx + from(k)]
<1>0. /\ b \in Seq(Byte) /\ nx \in Nat /\ nx # 0 /\ Buffered(text, b, r) /\ isn \in WrappingInt32
      /\ f \in 0 .. 1 /\ Sent(t, isn, tn, w, f)
  BY DEF CutReady
<1>2. m \in Nat /\ len \in Nat \ {0} /\ M \in Nat \ {0} /\ len <= m /\ (f = 1 => len = m) /\ m = Len(b)
  BY <1>0, PayloadAssumption DEF CutReady
<1>. HIDE DEF m
<1>3. r \in Nat /\ w \in Nat /\ tn \in Nat /\ nx = r + 1 /\ tn = nx + len + f /\ r + m = w
  BY ONLY <1>0, <1>2
<1>. HIDE DEF r, w, tn
<1>4. /\ count \in Nat \ {0}
      /\ \A k \in 1 .. count :
            /\ from(k) \in Nat /\ from(k) < len
            /\ k < count => from(k) + M = from(k + 1) /\ from(k + 1) < len
            /\ k = count => len <= from(k) + M
  <2>1. /\ count \in Nat \ {0}
        /\ \A k \in 1 .. count :
              /\ (k - 1) * M \in Nat /\ (k - 1) * M < len
              /\ k < count => (k - 1) * M + M = k * M /\ k * M < len
              /\ k = count => len <= (k - 1) * M + M
    BY <1>2, CutSizes
  <2>2. \A k \in 1 .. count : (k + 1) - 1 = k
    BY <2>1
  <2>. QED
    BY <2>1, <2>2
<1>5. from(1) = 0
  BY <1>2
<1>. HIDE DEF count, from, M
<1>6. \A k \in 1 .. count : /\ to(k) \in Nat /\ from(k) < to(k) /\ to(k) <= len /\ to(k) <= from(k) + M
                            /\ k < count => to(k) = from(k + 1)
                            /\ k = count => to(k) = len
  BY ONLY <1>2, <1>4 DEF min
<1>. HIDE DEF to
<1>9. ASSUME NEW k \in 1 .. count
      PROVE  /\ seg(k) \in SegmentType(Byte) /\ At(text, t, seg(k), nx + from(k))
             /\ length_in_sequence_space(seg(k)) = to(k) - from(k) + fl(k)
  <2>. DEFINE g == fl(k)
              fr == from(k)
              first == fr + 1
              last == to(k)
              abs == nx + fr
              sg == made(wrap(abs, isn), SubSeq(b, first, last), g)
  <2>1. /\ fr \in Nat /\ last \in Nat /\ fr < last /\ last <= len
        /\ last <= fr + M /\ (k = count => last = len)
    BY <1>4, <1>6
  <2>2. g \in 0 .. 1 /\ g <= f /\ (g = 1 => f = 1 /\ k = count)
    BY <1>0
  <2>3. sg = seg(k)
    OBVIOUS
  <2>. HIDE DEF g, fr, last, seg
  <2>4. /\ first \in Nat \ {0} /\ first <= last /\ last <= m /\ last < first + M
        /\ (g = 1 => last = m) /\ abs \in Nat /\ abs = r + first
        /\ abs + (last - first + 1 + g) <= tn /\ last - first + 1 + g = last - fr + g
    BY ONLY <1>0, <1>2, <1>3, <2>1, <2>2
  <2>5. Sent(t, isn, tn, w, g)
    BY <1>0, <2>2 DEF Sent
  <2>. HIDE DEF first, abs
  <2>6. sg \in SegmentType(Byte) /\ At(text, t, sg, abs) /\ length_in_sequence_space(sg) = last - first + 1 + g
    BY ONLY <1>0, <1>2, <1>3, <2>1, <2>2, <2>4, <2>5, CutOne, SMTT(40) DEF M
  <2>. HIDE DEF sg
  <2>. QED
    BY <2>3, <2>4, <2>6 DEF g, last, abs, fr
<1>. HIDE DEF seg
<1>10. segs \in Segs /\ Len(segs) = count /\ \A k \in 1 .. count : segs[k] = seg(k)
  BY <1>4, <1>9 DEF Segs
<1>11. Q \in [1 .. (count + 1) -> Nat]
  BY ONLY <1>0, <1>3, <1>4
<1>12. /\ Q[count + 1] = tn /\ \A k \in 1 .. count : Q[k] = nx + from(k)
  BY <1>4
<1>. HIDE DEF Q
<1>13. ASSUME NEW k \in 1 .. count
       PROVE  At(text, t, segs[k], Q[k]) /\ Q[k + 1] = Q[k] + length_in_sequence_space(segs[k])
  <2>1. At(text, t, segs[k], Q[k])
    BY <1>9, <1>10, <1>12
  <2>2. CASE k < count
    <3>1. k + 1 \in 1 .. count /\ fl(k) = 0
      BY <2>2, <1>4
    <3>2. length_in_sequence_space(segs[k]) = to(k) - from(k) + 0 /\ to(k) = from(k + 1)
      BY <2>2, <3>1, <1>6, <1>9, <1>10
    <3>3. Q[k + 1] = nx + from(k + 1) /\ Q[k] = nx + from(k)
      BY <3>1, <1>12
    <3>4. from(k) \in Nat /\ from(k + 1) \in Nat
      BY <3>1, <1>4
    <3>. QED
      BY ONLY <2>1, <3>2, <3>3, <3>4, <1>0
  <2>3. CASE k = count
    <3>1. length_in_sequence_space(segs[k]) = len - from(k) + f
      BY <2>3, <1>6, <1>9, <1>10
    <3>2. Q[k + 1] = nx + len + f /\ Q[k] = nx + from(k) /\ from(k) \in Nat
      BY <2>3, <1>3, <1>4, <1>12
    <3>. QED
      BY ONLY <2>1, <3>1, <3>2, <1>0, <1>2
  <2>. QED
    BY <2>2, <2>3, <1>4
<1>14. Follows(text, t, segs, Q)
  BY <1>10, <1>11, <1>13 DEF Follows
<1>15. Q[1] = nx /\ segs # << >>
  <2>1. 1 \in 1 .. count /\ count # 0
    BY <1>4
  <2>2. Q[1] = nx + 0
    BY <2>1, <1>5, <1>12
  <2>3. segs # << >>
    <3>. HIDE DEF segs
    <3>. QED
      BY ONLY <2>1, <1>10
  <2>. QED
    BY ONLY <2>2, <2>3, <1>0
<1>16. segs \in Segs /\ segs # << >> /\ \E P : Follows(text, t, segs, P) /\ P[1] = nx /\ P[Len(segs) + 1] = tn
  BY <1>10, <1>12, <1>14, <1>15
<1>. QED
  BY <1>16 DEF cuts, seg, to, from, count, M, tn

\* remaining_win is the room left in the window, and beyond every stream when there is none.
LEMMA RemainingWin ==
    ASSUME NEW text \in OutStreams, NEW cw \in Nat \ {0}, cw < Mod64, NEW bif \in Nat,
           bif <= Len(text) + 2
    PROVE  LET rw == U64(cw - bif)
           IN  /\ rw \in Nat
               /\ bif <= cw => rw = cw - bif
               /\ cw < bif => rw > Len(text)
<1>s. text \in Seq(Byte) /\ Len(text) \in Nat /\ Len(text) + 2 <= Half32
  BY TextSizes
<1>1. /\ Len(text) \in Nat /\ Mod64 \in Nat /\ Len(text) + 2 <= Half32 /\ Half32 + Mod32 < Mod64 /\ Mod32 = 2 * Half32
      /\ Half32 \in Nat
  BY <1>s, Widths
<1>2. CASE bif <= cw
  <2>1. cw - bif = Mod64 * 0 + (cw - bif) /\ cw - bif \in 0 .. (Mod64 - 1) /\ Mod64 \in Nat \ {0}
    BY <1>1, <1>2
  <2>2. (cw - bif) % Mod64 = cw - bif
    BY <2>1, ModUnique
  <2>. QED
    BY <1>2, <2>1, <2>2 DEF U64
<1>3. CASE cw < bif
  <2>. DEFINE x == Mod64 + cw - bif
  <2>1. cw - bif = Mod64 * (-1) + x /\ x \in 0 .. (Mod64 - 1) /\ Mod64 \in Nat \ {0} /\ x > Len(text)
    BY <1>1, <1>3
  <2>. HIDE DEF x
  <2>2. (cw - bif) % Mod64 = x
    BY <2>1, ModUnique
  <2>. QED
    BY <1>3, <2>1, <2>2 DEF U64
<1>. QED
  BY <1>2, <1>3

-----------------------------------------------------------------------------
(* send_segment *)

\* What send_segments does to each field.
LEMMA SendFields ==
    ASSUME NEW s \in SenderType(Byte), NEW segs \in Segs, NEW len \in Nat
    PROVE  LET r == send_segments(s, segs, len)
           IN  /\ r \in SenderType(Byte)
               /\ r.isn = s.isn /\ r.stream = s.stream /\ r.next_seqno = s.next_seqno + len
               /\ r.segments_out = s.segments_out \o segs
               /\ r.outstanding_seg = s.outstanding_seg \o segs
               /\ r.initial_retransmission_timeout = s.initial_retransmission_timeout
               /\ r.RTO = s.RTO /\ r.retransmission_count = s.retransmission_count
               /\ r.last_ackno = s.last_ackno /\ r.last_win = s.last_win
               /\ r.timer = IF s.timer.is_started \/ segs = << >> THEN s.timer
                            ELSE timer_start(s.RTO)
<1>. DEFINE W == WrappingInt32
            S == Segs
            B == ByteStreamType(Byte)
            Tm == TimerType
            T == [isn : W, segments_out : S, initial_retransmission_timeout : Nat, stream : B,
                  next_seqno : Nat, RTO : Nat, retransmission_count : Nat, last_ackno : Nat,
                  last_win : Nat, timer : Tm, outstanding_seg : S]
            tm == IF s.timer.is_started \/ segs = << >> THEN s.timer ELSE timer_start(s.RTO)
            so == s.segments_out \o segs
            os == s.outstanding_seg \o segs
            nx == s.next_seqno + len
<1>1. SenderType(Byte) = T
  BY DEF SenderType, Segs
<1>2. so \in S /\ os \in S
  BY DEF Segs, SenderType
<1>3. nx \in Nat /\ s.RTO \in Nat /\ s.timer \in TimerType
  BY DEF SenderType
<1>4. tm \in Tm
  BY <1>3 DEF TimerType, timer_start
<1>5. send_segments(s, segs, len)
        = [s EXCEPT !.next_seqno = nx, !.segments_out = so, !.outstanding_seg = os, !.timer = tm]
  BY DEF send_segments
<1>6. s \in T
  BY <1>1
<1>. HIDE DEF W, S, B, Tm, tm, so, os, nx
<1>7. LET r == [s EXCEPT !.next_seqno = nx, !.segments_out = so, !.outstanding_seg = os, !.timer = tm]
      IN  /\ r \in T
          /\ r.isn = s.isn /\ r.stream = s.stream /\ r.next_seqno = nx
          /\ r.segments_out = so /\ r.outstanding_seg = os
          /\ r.initial_retransmission_timeout = s.initial_retransmission_timeout
          /\ r.RTO = s.RTO /\ r.retransmission_count = s.retransmission_count
          /\ r.last_ackno = s.last_ackno /\ r.last_win = s.last_win /\ r.timer = tm
  BY <1>2, <1>3, <1>4, <1>6
<1>. HIDE DEF T
<1>. QED
  BY <1>1, <1>5, <1>7 DEF tm, so, os, nx

\* All that SenderOK says but for the numbers.
Ready(text, s) ==
    /\ s \in SenderType(Byte)
    /\ StreamOK(text, s.stream) /\ TimerOK(s) /\ Outstanding(text, s) /\ AllAt(text, s, s.segments_out)

\* A segment sent starts the timer, if it is not running.
LEMMA SendTimer ==
    ASSUME NEW s \in SenderType(Byte), TimerOK(s), NEW segs \in Segs, segs # << >>,
           NEW len \in Nat
    PROVE  TimerOK(send_segments(s, segs, len))
<1>. DEFINE r == send_segments(s, segs, len)
            q == s.outstanding_seg
<1>. SUFFICES TimerOK(r)
  OBVIOUS
<1>1. /\ r.outstanding_seg = q \o segs /\ r.RTO = s.RTO
      /\ r.retransmission_count = s.retransmission_count
      /\ r.initial_retransmission_timeout = s.initial_retransmission_timeout
      /\ r.timer = IF s.timer.is_started \/ segs = << >> THEN s.timer ELSE timer_start(s.RTO)
  BY SendFields
<1>. HIDE DEF r
<1>2. q \in Segs /\ s.RTO \in Nat /\ s.timer \in TimerType
  BY DEF SenderType, Segs
<1>3. q \o segs # << >>
  <2>. HIDE DEF q
  <2>1. Len(q \o segs) = Len(q) + Len(segs) /\ Len(q) \in Nat /\ Len(segs) \in Nat /\ Len(segs) # 0
    BY <1>2 DEF Segs
  <2>. QED
    BY <2>1
<1>4. CASE s.timer.is_started
  BY <1>1, <1>3, <1>4 DEF TimerOK
<1>5. CASE ~s.timer.is_started
  <2>1. r.timer = timer_start(s.RTO)
    BY <1>1, <1>5
  <2>2. r.timer.is_started = TRUE /\ r.timer.is_expired = FALSE /\ r.timer.remaining_time = s.RTO
    BY <2>1 DEF timer_start
  <2>. QED
    BY <1>1, <1>2, <1>3, <2>2 DEF TimerOK
<1>. QED
  BY <1>4, <1>5

\* What was outstanding and what is sent behind it stay in their places.
LEMMA SendOutstanding ==
    ASSUME NEW text \in OutStreams, NEW s, NEW r, Grows(s, r), s.outstanding_seg \in Segs,
           Outstanding(text, s),
           NEW segs \in Segs, segs # << >>, r.outstanding_seg = s.outstanding_seg \o segs,
           NEW Q, Follows(text, r, segs, Q), Q[1] = s.next_seqno,
           Q[Len(segs) + 1] = r.next_seqno,
           r.last_ackno = s.last_ackno
    PROVE  Outstanding(text, r)
<1>. DEFINE q == s.outstanding_seg
            c == q \o segs
<1>0. q \in Segs
  OBVIOUS
<1>1. PICK P : /\ Follows(text, s, q, P) /\ P[Len(q) + 1] = s.next_seqno
               /\ NoRawWrap(text, s.isn) => HoldsOldest(s, P)
  BY DEF Outstanding
<1>2. Follows(text, r, q, P)
  BY <1>1, FollowsKept
<1>3. PICK R : /\ Follows(text, r, c, R) /\ R[Len(c) + 1] = Q[Len(segs) + 1] /\ R[1] = P[1]
               /\ q # << >> => R[2] = P[2]
               /\ q = << >> /\ segs # << >> => R[2] = Q[2]
  <2>. HIDE DEF q
  <2>. QED
    BY ONLY <1>0, <1>1, <1>2, FollowsJoined, segs \in Segs, Follows(text, r, segs, Q), Q[1] = s.next_seqno
<1>4. /\ Len(c) = Len(q) + Len(segs) /\ Len(q) \in Nat /\ Len(segs) \in Nat \ {0} /\ c # << >>
      /\ (q = << >> => Len(q) = 0)
  BY DEF Segs
<1>6. ASSUME NoRawWrap(text, r.isn) PROVE HoldsOldest(r, R)
  <2>1. HoldsOldest(s, P)
    BY <1>1, <1>6 DEF Grows
  <2>2. CASE q # << >>
    BY <2>1, <2>2, <1>3, <1>4 DEF HoldsOldest
  <2>3. CASE q = << >>
    <3>1. s.last_ackno = s.next_seqno /\ P[1] = s.next_seqno /\ Q[1] = s.next_seqno
      BY <2>1, <2>3, <1>1, <1>4 DEF HoldsOldest
    <3>2. 1 \in 1 .. Len(segs) /\ 1 + 1 = 2
      BY <1>4
    <3>3. /\ At(text, r, segs[1], Q[1]) /\ Q[2] = Q[1] + length_in_sequence_space(segs[1])
          /\ segs[1] \in SegmentType(Byte)
      BY <3>2 DEF Follows, Segs
    <3>4. length_in_sequence_space(segs[1]) \in Nat /\ length_in_sequence_space(segs[1]) >= 1
          /\ Q[1] \in Nat
      BY <3>3, SegmentLength DEF At
    <3>5. R[1] <= r.last_ackno /\ r.last_ackno < R[2]
      BY ONLY <3>1, <3>3, <3>4, <1>3, <2>3, r.last_ackno = s.last_ackno, segs # << >>
    <3>. QED
      BY <3>5, <1>4 DEF HoldsOldest
  <2>. QED
    BY <2>2, <2>3
<1>. QED
  BY <1>3, <1>6 DEF Outstanding

\* fill_window sends segs: all but the numbers are as they should be.
LEMMA SendKeeps ==
    ASSUME NEW text \in OutStreams, NEW s, Ready(text, s), NEW segs \in Segs, segs # << >>,
           NEW len \in Nat,
           NEW r, r = send_segments(s, segs, len),
           NEW Q, Follows(text, r, segs, Q), Q[1] = s.next_seqno,
           Q[Len(segs) + 1] = r.next_seqno
    PROVE  Ready(text, r) /\ Grows(s, r)
<1>1. /\ r \in SenderType(Byte)
      /\ r.isn = s.isn /\ r.stream = s.stream /\ r.next_seqno = s.next_seqno + len
      /\ r.segments_out = s.segments_out \o segs
      /\ r.outstanding_seg = s.outstanding_seg \o segs
      /\ r.last_ackno = s.last_ackno
  BY SendFields DEF Ready
<1>2. /\ s.stream \in ByteStreamType(Byte) /\ s.next_seqno \in Nat
      /\ s.segments_out \in Segs /\ s.outstanding_seg \in Segs
  BY DEF Ready, SenderType, Segs
<1>3. Grows(s, r)
  BY <1>1, <1>2 DEF Grows, ByteStreamType
<1>4. TimerOK(r)
  BY SendTimer DEF Ready
<1>5. Outstanding(text, r)
  BY <1>1, <1>2, <1>3, SendOutstanding DEF Ready
<1>6. AllAt(text, r, r.segments_out)
  <2>1. AllAt(text, r, s.segments_out)
    BY <1>2, <1>3, AllAtKept DEF Ready
  <2>2. AllAt(text, r, segs)
    BY FollowsAllAt
  <2>. QED
    BY <2>1, <2>2, <1>1, <1>2, AllAtJoined
<1>7. StreamOK(text, r.stream)
  BY <1>1 DEF Ready
<1>. QED
  BY <1>1, <1>3, <1>4, <1>5, <1>6, <1>7 DEF Ready

-----------------------------------------------------------------------------
(* The outbound stream *)

\* The elements of a concatenation.
LEMMA Concatenated ==
    ASSUME NEW S, NEW a \in Seq(S), NEW b \in Seq(S)
    PROVE  /\ a \o b \in Seq(S) /\ Len(a \o b) = Len(a) + Len(b)
           /\ \A i \in 1 .. Len(a) : (a \o b)[i] = a[i]
           /\ \A i \in 1 .. Len(b) : (a \o b)[Len(a) + i] = b[i]
  OBVIOUS

\* pop_output takes the oldest bytes and leaves the others in place.
LEMMA PopKeeps ==
    ASSUME NEW text \in OutStreams, NEW o \in ByteStreamType(Byte), StreamOK(text, o),
           NEW len \in 0 .. Len(o.buff)
    PROVE  LET p == pop_output(o, len)
           IN  /\ p \in ByteStreamType(Byte) /\ StreamOK(text, p)
               /\ p.bytes_r = o.bytes_r + len /\ p.bytes_w = o.bytes_w
               /\ p.end_input = o.end_input
               /\ p.buff = << >> <=> len = Len(o.buff)
<1>. DEFINE b == o.buff
            m == Len(b)
            c == SubSeq(b, len + 1, m)
            n == min(len, m)
            r == o.bytes_r + len
            p == pop_output(o, len)
<1>1. b \in Seq(Byte) /\ o.bytes_r \in Nat /\ o.bytes_w \in Nat /\ o.capacity \in Nat
  BY DEF ByteStreamType
<1>2. m \in Nat /\ len \in Nat /\ len <= m /\ n = len /\ r \in Nat
  BY <1>1 DEF min
<1>3. c \in Seq(Byte) /\ Len(c) = m - len /\ \A i \in 1 .. (m - len) : c[i] = b[len + i]
  BY <1>1, <1>2
<1>4. p = [o EXCEPT !.bytes_r = r, !.buff = c]
  BY <1>2 DEF pop_output
<1>. HIDE DEF c, p, r
<1>5. /\ p \in ByteStreamType(Byte) /\ p.bytes_r = r /\ p.buff = c /\ p.capacity = o.capacity
      /\ p.bytes_w = o.bytes_w /\ p.end_input = o.end_input
  BY <1>2, <1>3, <1>4 DEF ByteStreamType
<1>6. /\ o.bytes_w <= Len(text) /\ o.bytes_r + m = o.bytes_w /\ m <= o.capacity
      /\ \A i \in 1 .. m : b[i] = text[o.bytes_r + i]
  BY DEF StreamOK
<1>. HIDE DEF b, m
<1>7. ASSUME NEW i \in 1 .. (m - len) PROVE c[i] = text[r + i]
  <2>1. len + i \in 1 .. m /\ o.bytes_r + (len + i) = r + i
    BY <1>1, <1>2 DEF r
  <2>. QED
    BY <2>1, <1>3, <1>6
<1>8. r + (m - len) = o.bytes_w /\ m - len <= o.capacity
  BY <1>1, <1>2, <1>6 DEF r
<1>9. StreamOK(text, p)
  BY <1>3, <1>5, <1>6, <1>7, <1>8 DEF StreamOK
<1>10. c = << >> <=> len = m
  BY ONLY <1>2, <1>3
<1>. QED
  BY <1>5, <1>9, <1>10 DEF p, r, b, m

\* write accepts the next bytes of the stream, as many as fit.
LEMMA AppWriteKeeps ==
    ASSUME NEW text \in OutStreams, NEW o \in ByteStreamType(Byte), StreamOK(text, o),
           NEW ln \in Nat, o.bytes_w + ln <= Len(text)
    PROVE  LET p == bs_write(o, SubSeq(text, o.bytes_w + 1, o.bytes_w + ln))
           IN  /\ p \in ByteStreamType(Byte) /\ StreamOK(text, p)
               /\ p.bytes_r = o.bytes_r /\ o.bytes_w <= p.bytes_w /\ p.end_input = o.end_input
               /\ o.end_input => p.bytes_w = o.bytes_w /\ p.buff = o.buff
<1>s. text \in Seq(Byte) /\ Len(text) \in Nat /\ Len(text) + 2 <= Half32
  BY TextSizes
<1>. DEFINE b == o.buff
            m == Len(b)
            w == o.bytes_w
            d == SubSeq(text, w + 1, w + ln)
            n == write_size(o, d)
            e == SubSeq(d, 1, n)
            c == b \o e
            x == w + n
            p == bs_write(o, d)
<1>1. b \in Seq(Byte) /\ o.bytes_r \in Nat /\ w \in Nat /\ o.capacity \in Nat /\ m \in Nat
  BY DEF ByteStreamType
<1>2. /\ w <= Len(text) /\ o.bytes_r + m = w /\ m <= o.capacity
      /\ \A i \in 1 .. m : b[i] = text[o.bytes_r + i]
      /\ w + ln <= Len(text) /\ Len(text) \in Nat
  BY <1>s, Widths DEF StreamOK
<1>3. d \in Seq(Byte) /\ Len(d) = ln /\ \A i \in 1 .. ln : d[i] = text[w + i]
  <2>1. text \in Seq(Byte) /\ Len(text) = Len(text) /\ Len(text) \in Nat
    BY <1>s, Widths
  <2>2. w + ln <= Len(text) /\ w + 1 \in Int /\ w + ln \in Int /\ w \in Nat
    BY <1>1, <2>1
  <2>. HIDE DEF w
  <2>3. \A i \in (w + 1) .. (w + ln) : text[i] \in Byte
    BY <2>1, <2>2
  <2>4. /\ d \in Seq(Byte)
        /\ Len(d) = IF w + 1 <= w + ln THEN w + ln - (w + 1) + 1 ELSE 0
        /\ \A i \in 1 .. (w + ln - (w + 1) + 1) : d[i] = text[w + 1 + i - 1]
    BY <2>2, <2>3, SubSeqProperties
  <2>5. w + ln - (w + 1) + 1 = ln /\ Len(d) = ln
    BY <2>2, <2>4
  <2>6. ASSUME NEW i \in 1 .. ln PROVE d[i] = text[w + i]
    <3>1. w + 1 + i - 1 = w + i /\ i \in 1 .. (w + ln - (w + 1) + 1)
      BY <2>2
    <3>. QED
      BY <3>1, <2>4
  <2>. QED
    BY <2>4, <2>5, <2>6
<1>. HIDE DEF d
<1>4. n \in Nat /\ n <= ln /\ m + n <= o.capacity /\ (o.end_input => n = 0)
  <2>1. remaining_capacity(o) = o.capacity - m
    BY DEF remaining_capacity
  <2>. HIDE DEF m
  <2>. QED
    BY <1>1, <1>2, <1>3, <2>1, SMTT(40) DEF write_size, min, input_ended
<1>. HIDE DEF n
<1>5. e \in Seq(Byte) /\ Len(e) = n /\ \A i \in 1 .. n : e[i] = text[w + i]
  BY <1>3, <1>4
<1>. HIDE DEF e, b, w, m
<1>6. /\ c \in Seq(Byte) /\ Len(c) = m + n
      /\ \A i \in 1 .. m : c[i] = b[i]
      /\ \A i \in 1 .. n : c[m + i] = e[i]
  BY ONLY <1>1, <1>5, Concatenated DEF m
<1>7. x \in Nat /\ w <= x /\ (o.end_input => x = w) /\ o.bytes_r + (m + n) = x /\ x <= Len(text)
  BY ONLY <1>1, <1>2, <1>4, ln \in Nat, SMTT(40)
<1>8. p = [o EXCEPT !.bytes_w = x, !.buff = c]
  BY DEF bs_write, n, e, b, w
<1>. HIDE DEF c, p, x
<1>9. /\ p \in ByteStreamType(Byte) /\ p.bytes_r = o.bytes_r /\ p.buff = c /\ p.capacity = o.capacity
      /\ p.bytes_w = x /\ p.end_input = o.end_input
  BY <1>6, <1>7, <1>8 DEF ByteStreamType
<1>10. ASSUME NEW i \in 1 .. (m + n) PROVE c[i] = text[o.bytes_r + i]
  <2>1. CASE i <= m
    BY <2>1, <1>1, <1>2, <1>6
  <2>2. CASE i > m
    <3>. DEFINE j == i - m
    <3>0. o.bytes_r + m = w /\ o.bytes_r \in Nat /\ m \in Nat /\ n \in Nat
      BY <1>1, <1>2, <1>4
    <3>1. j \in 1 .. n /\ m + j = i /\ w + j = o.bytes_r + i
      BY ONLY <2>2, <3>0, i \in 1 .. (m + n)
    <3>. QED
      BY <3>1, <1>5, <1>6
  <2>. QED
    BY <2>1, <2>2, <1>1
<1>11. StreamOK(text, p)
  BY <1>4, <1>6, <1>7, <1>9, <1>10 DEF StreamOK
<1>12. o.end_input => c = b
  <2>1. ASSUME n = 0 PROVE c = b
    <3>1. e = << >>
      BY <1>5, <2>1
    <3>. QED
      BY <3>1, <1>1 DEF c
  <2>. QED
    BY <2>1, <1>4
<1>. QED
  BY <1>7, <1>9, <1>11, <1>12 DEF p, d, w, b

\* Putting another stream into the sender.
LEMMA StreamFields ==
    ASSUME NEW s \in SenderType(Byte), NEW o \in ByteStreamType(Byte)
    PROVE  LET r == [s EXCEPT !.stream = o]
           IN  /\ r \in SenderType(Byte) /\ r.stream = o
               /\ r.isn = s.isn /\ r.next_seqno = s.next_seqno
               /\ r.segments_out = s.segments_out /\ r.outstanding_seg = s.outstanding_seg
               /\ r.initial_retransmission_timeout = s.initial_retransmission_timeout
               /\ r.RTO = s.RTO /\ r.retransmission_count = s.retransmission_count
               /\ r.last_ackno = s.last_ackno /\ r.last_win = s.last_win /\ r.timer = s.timer
<1>. DEFINE W == WrappingInt32
            S == Segs
            B == ByteStreamType(Byte)
            Tm == TimerType
            T == [isn : W, segments_out : S, initial_retransmission_timeout : Nat, stream : B,
                  next_seqno : Nat, RTO : Nat, retransmission_count : Nat, last_ackno : Nat,
                  last_win : Nat, timer : Tm, outstanding_seg : S]
<1>1. SenderType(Byte) = T /\ s \in T /\ o \in B
  BY DEF SenderType, Segs
<1>. HIDE DEF W, S, B, Tm
<1>. QED
  BY <1>1

\* Nothing else changes by that: what was placed stays placed.
LEMMA StreamKeeps ==
    ASSUME NEW text \in OutStreams, NEW s, Ready(text, s), NEW o \in ByteStreamType(Byte),
           StreamOK(text, o),
           s.stream.bytes_w <= o.bytes_w,
           s.stream.end_input => o.end_input /\ o.bytes_w = s.stream.bytes_w,
           NEW r, r = [s EXCEPT !.stream = o]
    PROVE  Ready(text, r) /\ Grows(s, r)
<1>0. s \in SenderType(Byte) /\ TimerOK(s) /\ Outstanding(text, s) /\ AllAt(text, s, s.segments_out)
  BY DEF Ready
<1>1. /\ r \in SenderType(Byte) /\ r.stream = o
      /\ r.isn = s.isn /\ r.next_seqno = s.next_seqno
      /\ r.segments_out = s.segments_out /\ r.outstanding_seg = s.outstanding_seg
      /\ r.initial_retransmission_timeout = s.initial_retransmission_timeout
      /\ r.RTO = s.RTO /\ r.retransmission_count = s.retransmission_count
      /\ r.last_ackno = s.last_ackno /\ r.last_win = s.last_win /\ r.timer = s.timer
  BY <1>0, StreamFields
<1>2. /\ s.stream.bytes_w \in Nat /\ o.bytes_w \in Nat /\ s.next_seqno \in Nat
      /\ s.segments_out \in Segs /\ s.outstanding_seg \in Segs
  BY <1>0 DEF SenderType, ByteStreamType, Segs
<1>3. Grows(s, r)
  BY <1>1, <1>2 DEF Grows
<1>4. TimerOK(r)
  BY <1>0, <1>1 DEF TimerOK
<1>5. AllAt(text, r, r.segments_out)
  BY <1>0, <1>1, <1>2, <1>3, AllAtKept
<1>6. Outstanding(text, r)
  <2>1. PICK P : /\ Follows(text, s, s.outstanding_seg, P)
                 /\ P[Len(s.outstanding_seg) + 1] = s.next_seqno
                 /\ NoRawWrap(text, s.isn) => HoldsOldest(s, P)
    BY <1>0 DEF Outstanding
  <2>2. Follows(text, r, r.outstanding_seg, P)
    BY <2>1, <1>1, <1>2, <1>3, FollowsKept
  <2>. QED
    BY <2>1, <2>2, <1>1 DEF Outstanding, HoldsOldest
<1>. QED
  BY <1>1, <1>3, <1>4, <1>5, <1>6 DEF Ready

-----------------------------------------------------------------------------
(* fill_window *)

\* The numbers of a sender, typed.
LEMMA SenderNumbers ==
    ASSUME NEW text \in OutStreams, NEW s, SenderOK(text, s)
    PROVE  /\ s.next_seqno \in Nat /\ s.last_ackno \in Nat /\ s.last_win \in Nat
           /\ s.stream \in ByteStreamType(Byte) /\ s.stream.buff \in Seq(Byte)
           /\ s.stream.bytes_r \in Nat /\ s.stream.bytes_w \in Nat /\ s.isn \in WrappingInt32
           /\ Len(s.stream.buff) \in Nat /\ (s.stream.buff = << >> <=> Len(s.stream.buff) = 0)
           /\ s.stream.bytes_r + Len(s.stream.buff) = s.stream.bytes_w /\ s.stream.bytes_w <= Len(text)
           /\ s.last_ackno <= s.next_seqno /\ s.next_seqno <= s.stream.bytes_w + 2
           /\ s.next_seqno <= Len(text) + 2 /\ s.last_win < Mod64
<1>s. text \in Seq(Byte) /\ Len(text) \in Nat /\ Len(text) + 2 <= Half32
  BY TextSizes
<1>1. s \in SenderType(Byte) /\ StreamOK(text, s.stream) /\ NumbersOK(s)
  BY DEF SenderOK
<1>2. /\ s.next_seqno \in Nat /\ s.last_ackno \in Nat /\ s.last_win \in Nat
      /\ s.stream \in ByteStreamType(Byte) /\ s.isn \in WrappingInt32
  BY <1>1 DEF SenderType
<1>3. s.stream.buff \in Seq(Byte) /\ s.stream.bytes_r \in Nat /\ s.stream.bytes_w \in Nat
  BY <1>2 DEF ByteStreamType
<1>4. Len(s.stream.buff) \in Nat /\ (s.stream.buff = << >> <=> Len(s.stream.buff) = 0)
  BY <1>3
<1>5. s.stream.bytes_r + Len(s.stream.buff) = s.stream.bytes_w /\ s.stream.bytes_w <= Len(text)
  BY <1>1 DEF StreamOK
<1>6. /\ \/ s.next_seqno = 0
         \/ s.next_seqno = s.stream.bytes_r + 1
         \/ s.next_seqno = s.stream.bytes_r + 2
      /\ s.last_ackno <= s.next_seqno /\ s.last_win < Mod64
  BY <1>1 DEF NumbersOK
<1>7. s.next_seqno <= s.stream.bytes_w + 2 /\ s.next_seqno <= Len(text) + 2
  <2>. DEFINE m == Len(s.stream.buff)
  <2>1. s.stream.bytes_r \in Nat /\ s.stream.bytes_w \in Nat /\ m \in Nat /\ Len(text) \in Nat
    BY <1>3, <1>4, <1>s, Widths
  <2>2. s.stream.bytes_r + m = s.stream.bytes_w /\ s.stream.bytes_w <= Len(text)
    BY <1>5
  <2>. HIDE DEF m
  <2>3. s.stream.bytes_r <= s.stream.bytes_w
    BY ONLY <2>1, <2>2
  <2>. DEFINE n == Len(text)
              nx == s.next_seqno
              br == s.stream.bytes_r
              bw == s.stream.bytes_w
  <2>4. /\ n \in Nat /\ br \in Nat /\ bw \in Nat /\ bw <= n /\ br <= bw /\ nx \in Nat
        /\ nx = 0 \/ nx = br + 1 \/ nx = br + 2
    BY <2>1, <2>2, <2>3, <1>2, <1>6
  <2>. HIDE DEF n, nx, br, bw
  <2>5. nx <= bw + 2 /\ nx <= n + 2
    BY ONLY <2>4
  <2>. QED
    BY <2>5 DEF n, nx, bw
<1>. QED
  BY <1>2, <1>3, <1>4, <1>5, <1>6, <1>7

\* One segment alone.
LEMMA OneFollows ==
    ASSUME NEW text \in OutStreams, NEW r, NEW seg \in SegmentType(Byte), NEW a \in Nat,
           At(text, r, seg, a), NEW b,
           b = a + length_in_sequence_space(seg)
    PROVE  /\ << seg >> \in Segs /\ << seg >> # << >> /\ Len(<< seg >>) = 1
           /\ \E Q : Follows(text, r, << seg >>, Q) /\ Q[1] = a /\ Q[Len(<< seg >>) + 1] = b
<1>1. << seg >> \in Segs /\ << seg >> # << >> /\ Len(<< seg >>) = 1 /\ << seg >>[1] = seg
  BY DEF Segs
<1>2. b \in Nat
  BY SegmentLength
<1>. DEFINE Q == [k \in 1 .. 2 |-> IF k = 1 THEN a ELSE b]
            q == << seg >>
<1>3. Q \in [1 .. 2 -> Nat] /\ Q[1] = a /\ Q[2] = b
  BY <1>2
<1>. HIDE DEF Q, q
<1>4. Len(q) = 1 /\ q[1] = seg
  BY <1>1 DEF q
<1>5. ASSUME NEW k \in 1 .. Len(q)
      PROVE  At(text, r, q[k], Q[k]) /\ Q[k + 1] = Q[k] + length_in_sequence_space(q[k])
  <2>1. k = 1 /\ k + 1 = 2
    BY <1>4
  <2>. QED
    BY <2>1, <1>3, <1>4
<1>6. Follows(text, r, q, Q)
  BY <1>3, <1>4, <1>5 DEF Follows
<1>. QED
  BY <1>1, <1>3, <1>6 DEF q

\* What fill_window does: r is s with what fits the window sent.
Filled(text, s, r) ==
    /\ SenderOK(text, r) /\ WindowFull(r) /\ Grows(s, r)
    /\ r.last_ackno = s.last_ackno /\ r.last_win = s.last_win
    /\ (/\ 0 < s.next_seqno /\ s.next_seqno < r.next_seqno
        /\ s.next_seqno - s.last_ackno <= in_window(s))
         => r.next_seqno - r.last_ackno <= in_window(r)

\* The SYN.
LEMMA SynSent ==
    ASSUME NEW text \in OutStreams, NEW s, SenderOK(text, s), s.next_seqno = 0,
           NEW syn,
           syn = [new_TCPSegment EXCEPT !.seqno = wrap(s.next_seqno, s.isn), !.syn = TRUE]
    PROVE  Filled(text, s, send_segments(s, << syn >>, 1))
<1>s. text \in Seq(Byte) /\ Len(text) \in Nat /\ Len(text) + 2 <= Half32
  BY TextSizes
<1>. DEFINE r == send_segments(s, << syn >>, 1)
<1>0. s \in SenderType(Byte) /\ Ready(text, s) /\ NumbersOK(s)
  BY DEF SenderOK, Ready
<1>1. wrap(0, s.isn) \in WrappingInt32 /\ 0 \in WrappingInt32
  <2>1. 0 \in WrappingInt32
    BY ONLY Moduli DEF WrappingInt32
  <2>. QED
    BY <1>0, <2>1, WrapType
<1>2. /\ syn \in SegmentType(Byte) /\ syn.seqno = wrap(0, s.isn) /\ syn.syn = TRUE /\ syn.ack = FALSE /\ syn.fin = FALSE
      /\ syn.payload = << >>
  <2>. DEFINE W == WrappingInt32
              S == Seq(Byte)
              w == wrap(0, s.isn)
  <2>1. syn = [seqno |-> w, ackno |-> 0, win |-> 0, syn |-> TRUE, ack |-> FALSE,
               fin |-> FALSE, rst |-> FALSE, payload |-> << >>]
    BY DEF new_TCPSegment
  <2>2. << >> \in S /\ w \in W /\ 0 \in W
    BY <1>1
  <2>. HIDE DEF W, S, w
  <2>3. syn \in [seqno : W, ackno : W, win : Nat, syn : BOOLEAN, ack : BOOLEAN,
                 fin : BOOLEAN, rst : BOOLEAN, payload : S]
        /\ syn.seqno = w /\ syn.syn = TRUE /\ syn.ack = FALSE /\ syn.fin = FALSE /\ syn.payload = << >>
    BY ONLY <2>1, <2>2
  <2>. QED
    BY <2>3 DEF SegmentType, W, S, w
<1>3. length_in_sequence_space(syn) = 1
  BY ONLY <1>2 DEF length_in_sequence_space, flag
<1>4. << syn >> \in Segs
  BY <1>2 DEF Segs
<1>5. /\ r \in SenderType(Byte)
      /\ r.isn = s.isn /\ r.stream = s.stream /\ r.next_seqno = 1
      /\ r.last_ackno = s.last_ackno /\ r.last_win = s.last_win
  BY <1>0, <1>4, SendFields
<1>. HIDE DEF r
<1>6. /\ s.stream.bytes_w \in Nat /\ s.stream.bytes_r = 0 /\ s.last_ackno = 0
      /\ s.last_win < Mod64
  <2>1. s.stream.bytes_w \in Nat /\ s.stream.bytes_r \in Nat /\ s.last_ackno \in Nat
    BY SenderNumbers
  <2>. QED
    BY <2>1, <1>0 DEF NumbersOK
<1>7. At(text, r, syn, 0)
  <2>1. 0 + 1 <= s.stream.bytes_w + 1
    BY <1>6
  <2>2. \A i \in 1 .. Len(<< >>) : syn.payload[i] = text[0 + i - 1]
    OBVIOUS
  <2>. QED
    BY <2>1, <2>2, <1>2, <1>3, <1>5, <1>s, Widths DEF At
<1>8. PICK Q : Follows(text, r, << syn >>, Q) /\ Q[1] = 0 /\ Q[Len(<< syn >>) + 1] = 1
  BY <1>2, <1>3, <1>7, OneFollows
<1>9. Ready(text, r) /\ Grows(s, r)
  BY <1>0, <1>4, <1>5, <1>8, SendKeeps DEF r
<1>10. NumbersOK(r)
  BY <1>5, <1>6 DEF NumbersOK
<1>. QED
  BY <1>5, <1>6, <1>9, <1>10 DEF Filled, SenderOK, Ready, WindowFull, r

\* The FIN alone.
LEMMA FinSent ==
    ASSUME NEW text \in OutStreams, NEW s, SenderOK(text, s), 0 < s.next_seqno,
           0 < s.last_ackno,
           s.next_seqno - s.last_ackno # in_window(s),
           s.stream.end_input, s.stream.buff = << >>, s.next_seqno < s.stream.bytes_w + 2,
           NEW fin,
           fin = [new_TCPSegment EXCEPT !.seqno = wrap(s.next_seqno, s.isn), !.fin = TRUE]
    PROVE  Filled(text, s, send_segments(s, << fin >>, 1))
<1>. DEFINE r == send_segments(s, << fin >>, 1)
            nx == s.next_seqno
<1>0. s \in SenderType(Byte) /\ Ready(text, s) /\ NumbersOK(s)
  BY DEF SenderOK, Ready
<1>1. /\ nx \in Nat /\ s.last_ackno \in Nat /\ s.last_win \in Nat /\ s.stream.bytes_r \in Nat
      /\ s.stream.bytes_w \in Nat /\ s.last_ackno <= nx /\ s.last_win < Mod64
      /\ s.stream.bytes_r = s.stream.bytes_w
  <2>1. /\ nx \in Nat /\ s.last_ackno \in Nat /\ s.last_win \in Nat /\ s.stream.bytes_r \in Nat
        /\ s.stream.bytes_w \in Nat /\ s.last_ackno <= nx /\ s.last_win < Mod64
        /\ Len(s.stream.buff) = 0 /\ s.stream.bytes_r + Len(s.stream.buff) = s.stream.bytes_w
    BY SenderNumbers
  <2>. QED
    BY ONLY <2>1
<1>2. nx = s.stream.bytes_w + 1
  <2>1. nx # 0 /\ nx < s.stream.bytes_w + 2 /\ \/ nx = 0 \/ nx = s.stream.bytes_r + 1 \/ nx = s.stream.bytes_r + 2
    BY <1>0, <1>1 DEF NumbersOK
  <2>. QED
    BY ONLY <2>1, <1>1
<1>3. wrap(nx, s.isn) \in WrappingInt32 /\ 0 \in WrappingInt32
  <2>1. 0 \in WrappingInt32
    BY ONLY Moduli DEF WrappingInt32
  <2>. QED
    BY <1>0, <1>1, <2>1, WrapType
<1>4. /\ fin \in SegmentType(Byte) /\ fin.seqno = wrap(nx, s.isn) /\ fin.syn = FALSE /\ fin.ack = FALSE /\ fin.fin = TRUE
      /\ fin.payload = << >>
  <2>. DEFINE W == WrappingInt32
              S == Seq(Byte)
              w == wrap(nx, s.isn)
  <2>1. fin = [seqno |-> w, ackno |-> 0, win |-> 0, syn |-> FALSE, ack |-> FALSE,
               fin |-> TRUE, rst |-> FALSE, payload |-> << >>]
    BY DEF new_TCPSegment
  <2>2. << >> \in S /\ w \in W /\ 0 \in W
    BY <1>3
  <2>. HIDE DEF W, S, w
  <2>3. fin \in [seqno : W, ackno : W, win : Nat, syn : BOOLEAN, ack : BOOLEAN,
                 fin : BOOLEAN, rst : BOOLEAN, payload : S]
        /\ fin.seqno = w /\ fin.syn = FALSE /\ fin.ack = FALSE /\ fin.fin = TRUE /\ fin.payload = << >>
    BY ONLY <2>1, <2>2
  <2>. QED
    BY <2>3 DEF SegmentType, W, S, w
<1>5. length_in_sequence_space(fin) = 1
  BY ONLY <1>4 DEF length_in_sequence_space, flag
<1>6. << fin >> \in Segs
  BY <1>4 DEF Segs
<1>7. /\ r \in SenderType(Byte)
      /\ r.isn = s.isn /\ r.stream = s.stream /\ r.next_seqno = nx + 1
      /\ r.last_ackno = s.last_ackno /\ r.last_win = s.last_win
  BY <1>0, <1>6, SendFields
<1>. HIDE DEF r
<1>8. At(text, r, fin, nx)
  <2>1. /\ nx \in Nat /\ nx # 0 /\ nx + 1 = s.stream.bytes_w + 2 /\ nx + 1 <= r.next_seqno
        /\ Len(<< >>) <= MAX_PAYLOAD_SIZE
    BY ONLY <1>1, <1>2, <1>7, PayloadAssumption
  <2>2. \A i \in 1 .. Len(<< >>) : fin.payload[i] = text[nx + i - 1]
    OBVIOUS
  <2>. HIDE DEF nx
  <2>. QED
    BY <2>1, <2>2, <1>4, <1>5, <1>7 DEF At
<1>9. PICK Q : Follows(text, r, << fin >>, Q) /\ Q[1] = nx /\ Q[Len(<< fin >>) + 1] = nx + 1
  BY <1>1, <1>4, <1>5, <1>8, OneFollows
<1>10. Ready(text, r) /\ Grows(s, r)
  BY <1>0, <1>6, <1>7, <1>9, SendKeeps DEF r
<1>11. r.next_seqno = s.stream.bytes_w + 2 /\ s.last_ackno <= nx + 1 /\ s.last_ackno # 0
  BY ONLY <1>1, <1>2, <1>7, 0 < s.last_ackno
<1>12. NumbersOK(r)
  BY <1>1, <1>7, <1>11 DEF NumbersOK
<1>13. WindowFull(r)
  BY <1>7, <1>11 DEF WindowFull
<1>14. nx - s.last_ackno <= in_window(s) => r.next_seqno - r.last_ackno <= in_window(r)
  <2>1. in_window(r) = in_window(s) /\ in_window(s) \in Nat /\ nx - s.last_ackno # in_window(s)
    BY <1>1, <1>7 DEF in_window
  <2>. QED
    BY ONLY <2>1, <1>1, <1>7
<1>. QED
  BY <1>7, <1>10, <1>12, <1>13, <1>14 DEF Filled, SenderOK, Ready, r

\* The segments of cut_segments are the ones of CutFollows.
LEMMA CutSegments ==
    ASSUME NEW s, NEW len, NEW is_fin, NEW f \in 0 .. 1, is_fin <=> f = 1
    PROVE  cut_segments(s, len, is_fin) = cuts(s.stream.buff, s.next_seqno, s.isn, len, f)
<1>. DEFINE M == MAX_PAYLOAD_SIZE
            count == (len + M - 1) \div M
            b == s.stream.buff
            nx == s.next_seqno
<1>. HIDE DEF M
<1>1. cut_segments(s, len, is_fin)
        = [k \in 1 .. count |->
              [new_TCPSegment EXCEPT
                  !.seqno = wrap(nx + (k - 1) * M, s.isn),
                  !.payload = SubSeq(b, (k - 1) * M + 1, min(len, (k - 1) * M + M)),
                  !.fin = (is_fin /\ k = count)]]
  BY DEF cut_segments, M
<1>. HIDE DEF count
<1>2. \A k \in 1 .. count : (is_fin /\ k = count) = ((IF k = count THEN f ELSE 0) = 1)
  OBVIOUS
<1>. QED
  BY <1>1, <1>2 DEF made, cuts, count, M

\* They can be cut when the SYN has been sent and the FIN has not.
LEMMA CanCut ==
    ASSUME NEW text \in OutStreams, NEW s, SenderOK(text, s),
           s.next_seqno = s.stream.bytes_r + 1,
           NEW len \in Nat \ {0}, len <= Len(s.stream.buff), NEW f \in 0 .. 1,
           f = 1 => len = Len(s.stream.buff),
           NEW t, Sent(t, s.isn, s.next_seqno + len + f, s.stream.bytes_w, f)
    PROVE  CutReady(text, t, s.stream.buff, s.next_seqno, s.isn, len, f)
<1>. DEFINE b == s.stream.buff
            r == s.stream.bytes_r
            w == s.stream.bytes_w
            nx == s.next_seqno
<1>1. /\ b \in Seq(Byte) /\ r \in Nat /\ w \in Nat /\ r + Len(b) = w /\ s.isn \in WrappingInt32
      /\ nx \in Nat /\ nx = r + 1
  BY SenderNumbers
<1>2. Buffered(text, b, r)
  BY DEF SenderOK, StreamOK, Buffered
<1>3. len <= Len(b) /\ (f = 1 => len = Len(b)) /\ Sent(t, s.isn, nx + len + f, w, f)
  OBVIOUS
<1>. SUFFICES CutReady(text, t, b, nx, s.isn, len, f)
  OBVIOUS
<1>. HIDE DEF b, r, w, nx
<1>4. nx \in Nat \ {0} /\ nx - 1 = r /\ r + Len(b) = w
  BY ONLY <1>1
<1>. QED
  BY ONLY <1>1, <1>2, <1>3, <1>4, len \in Nat \ {0}, f \in 0 .. 1 DEF CutReady

\* Bytes, with the FIN behind them if it fits.
LEMMA BytesSent ==
    ASSUME NEW text \in OutStreams, NEW s, SenderOK(text, s), 0 < s.next_seqno,
           0 < s.last_ackno,
           NEW rw \in Nat \ {0},
           s.next_seqno - s.last_ackno <= in_window(s)
              => rw = in_window(s) - (s.next_seqno - s.last_ackno),
           in_window(s) < s.next_seqno - s.last_ackno => rw > Len(text),
           NEW len, len = min(Len(s.stream.buff), rw), len # 0,
           NEW is_fin, is_fin <=> s.stream.end_input /\ len = Len(s.stream.buff) /\ len < rw
    PROVE  Filled(text, s, send_segments([s EXCEPT !.stream = pop_output(@, len)],
                                   cut_segments(s, len, is_fin), len + flag(is_fin)))
<1>s. text \in Seq(Byte) /\ Len(text) \in Nat /\ Len(text) + 2 <= Half32
  BY TextSizes
<1>. DEFINE o == pop_output(s.stream, len)
            p == [s EXCEPT !.stream = o]
            segs == cut_segments(s, len, is_fin)
            f == IF is_fin THEN 1 ELSE 0
            r == send_segments(p, segs, len + f)
            m == Len(s.stream.buff)
            nx == s.next_seqno
<1>0. s \in SenderType(Byte) /\ Ready(text, s) /\ NumbersOK(s) /\ StreamOK(text, s.stream)
  BY DEF SenderOK, Ready
<1>1. /\ nx \in Nat /\ s.last_ackno \in Nat /\ s.last_win \in Nat /\ s.stream.bytes_r \in Nat
      /\ s.stream.bytes_w \in Nat /\ s.last_ackno <= nx /\ s.last_win < Mod64
      /\ s.stream \in ByteStreamType(Byte) /\ s.isn \in WrappingInt32
      /\ s.stream.bytes_r + m = s.stream.bytes_w /\ m \in Nat /\ s.stream.bytes_w <= Len(text)
      /\ (s.stream.buff = << >> <=> m = 0)
  BY SenderNumbers
<1>2. len = min(m, rw) /\ len # 0 /\ Len(text) \in Nat
  BY <1>s, Widths
<1>3. (is_fin <=> f = 1) /\ f \in 0 .. 1 /\ flag(is_fin) = f /\ (f = 1 => s.stream.end_input /\ len = m /\ len < rw)
      /\ (f = 0 /\ s.stream.end_input /\ len = m => ~(len < rw))
  BY DEF flag
<1>. HIDE DEF f
<1>4. len \in 1 .. m /\ len \in Nat /\ len <= rw /\ (len < m => len = rw)
  <2>. HIDE DEF m
  <2>. QED
    BY ONLY <1>1, <1>2, rw \in Nat \ {0} DEF min
<1>5. nx = s.stream.bytes_r + 1
  <2>1. m # 0
    BY <1>1, <1>4
  <2>. QED
    BY <2>1, <1>0, <1>1 DEF NumbersOK
<1>6. /\ o \in ByteStreamType(Byte) /\ StreamOK(text, o)
      /\ o.bytes_r = s.stream.bytes_r + len /\ o.bytes_w = s.stream.bytes_w
      /\ o.end_input = s.stream.end_input /\ (o.buff = << >> <=> len = m)
  <2>1. len \in 0 .. Len(s.stream.buff)
    BY ONLY <1>1, <1>4
  <2>. QED
    BY <2>1, <1>0, <1>1, PopKeeps
<1>. HIDE DEF o
<1>7. Ready(text, p) /\ Grows(s, p)
  <2>1. s.stream.bytes_w <= o.bytes_w
    BY ONLY <1>1, <1>6
  <2>. QED
    BY <2>1, <1>0, <1>6, StreamKeeps
<1>8. /\ p \in SenderType(Byte) /\ p.stream = o
      /\ p.isn = s.isn /\ p.next_seqno = nx
      /\ p.last_ackno = s.last_ackno /\ p.last_win = s.last_win
  BY <1>0, <1>6, StreamFields
<1>. HIDE DEF p
<1>9. len + f \in Nat /\ nx + (len + f) = nx + len + f
  BY ONLY <1>1, <1>3, <1>4, SMTT(40)
<1>10. ASSUME segs \in Segs
       PROVE  /\ r.isn = s.isn /\ r.stream = o /\ r.next_seqno = nx + (len + f)
              /\ r.last_ackno = s.last_ackno /\ r.last_win = s.last_win
  <2>. HIDE DEF segs, nx
  <2>. QED
    BY ONLY <1>8, <1>9, <1>10, SendFields
<1>. DEFINE tn == s.next_seqno + len + f
            t == [isn |-> s.isn, next_seqno |-> tn, stream |-> o]
            cs == cuts(s.stream.buff, s.next_seqno, s.isn, len, f)
<1>a. segs = cs
  BY <1>3, CutSegments
<1>b. ASSUME NEW x, Sent(x, s.isn, tn, s.stream.bytes_w, f)
      PROVE  CutReady(text, x, s.stream.buff, s.next_seqno, s.isn, len, f)
  <2>1. /\ s.next_seqno = s.stream.bytes_r + 1 /\ (f = 1 => len = Len(s.stream.buff))
        /\ len \in Nat \ {0} /\ len <= Len(s.stream.buff)
    BY <1>1, <1>3, <1>4, <1>5
  <2>. QED
    BY ONLY <2>1, <1>b, <1>3, CanCut, SenderOK(text, s)
<1>11. Sent(t, s.isn, tn, s.stream.bytes_w, f)
  BY <1>3, <1>6 DEF Sent
<1>12. segs \in Segs /\ segs # << >>
  <2>. HIDE DEF t, tn
  <2>1. CutReady(text, t, s.stream.buff, s.next_seqno, s.isn, len, f)
    BY <1>b, <1>11
  <2>. QED
    BY ONLY <2>1, <1>a, CutFollows
<1>13. Sent(r, s.isn, tn, s.stream.bytes_w, f) /\ r.next_seqno = tn
  BY <1>3, <1>6, <1>9, <1>10, <1>12 DEF Sent
<1>14. PICK Q : Follows(text, r, segs, Q) /\ Q[1] = s.next_seqno /\ Q[Len(segs) + 1] = tn
  <2>. HIDE DEF r
  <2>1. CutReady(text, r, s.stream.buff, s.next_seqno, s.isn, len, f)
    BY <1>b, <1>13
  <2>. QED
    BY ONLY <2>1, <1>a, CutFollows
<1>15. Ready(text, r) /\ Grows(p, r)
  <2>. HIDE DEF segs
  <2>. QED
    BY <1>7, <1>8, <1>9, <1>12, <1>13, <1>14, SendKeeps
<1>16. /\ r.isn = s.isn /\ r.stream = o /\ r.next_seqno = nx + len + f
       /\ r.last_ackno = s.last_ackno /\ r.last_win = s.last_win
  BY <1>10, <1>12, <1>13
<1>. HIDE DEF r, segs
<1>17. Grows(s, r)
  BY <1>7, <1>15 DEF Grows
<1>18. /\ in_window(r) = in_window(s) /\ in_window(s) \in Nat
       /\ nx - s.last_ackno <= in_window(s) => rw = in_window(s) - (nx - s.last_ackno)
       /\ in_window(s) < nx - s.last_ackno => rw > Len(text)
  BY <1>1, <1>16 DEF in_window
<1>. HIDE DEF m, nx
<1>19. /\ r.next_seqno = o.bytes_r + 1 + f /\ s.last_ackno <= r.next_seqno /\ r.next_seqno \in Nat
       /\ (len = m => o.bytes_r = s.stream.bytes_w)
  <2>1. /\ nx \in Nat /\ s.last_ackno \in Nat /\ s.stream.bytes_r \in Nat /\ s.stream.bytes_w \in Nat
        /\ m \in Nat /\ len \in Nat /\ f \in Nat /\ s.last_ackno <= nx
    BY <1>1, <1>3, <1>4
  <2>2. /\ s.stream.bytes_r + m = s.stream.bytes_w /\ nx = s.stream.bytes_r + 1
        /\ o.bytes_r = s.stream.bytes_r + len /\ r.next_seqno = nx + len + f
    BY <1>1, <1>5, <1>6, <1>16
  <2>. QED
    BY ONLY <2>1, <2>2
<1>20. NumbersOK(r)
  <2>1. CASE f = 0
    <3>1. r.next_seqno = o.bytes_r + 1
      BY ONLY <2>1, <1>1, <1>4, <1>6, <1>19
    <3>. QED
      BY <3>1, <1>1, <1>16, <1>19 DEF NumbersOK
  <2>2. CASE f = 1
    <3>1. r.next_seqno = o.bytes_r + 2
      BY ONLY <2>2, <1>1, <1>4, <1>6, <1>19
    <3>2. o.end_input /\ o.buff = << >>
      BY <2>2, <1>3, <1>6
    <3>. QED
      BY <3>1, <3>2, <1>1, <1>16, <1>19 DEF NumbersOK
  <2>. QED
    BY <1>3, <2>1, <2>2
<1>21. ASSUME \/ r.stream.buff # << >>
              \/ r.stream.end_input /\ r.next_seqno # r.stream.bytes_w + 2
       PROVE  r.next_seqno - r.last_ackno >= in_window(r)
  <2>1. len = rw
    <3>1. CASE len # m
      BY ONLY <3>1, <1>1, <1>4
    <3>2. CASE len = m
      <4>1. s.stream.end_input /\ r.next_seqno # s.stream.bytes_w + 2
        BY <3>2, <1>6, <1>16, <1>21
      <4>2. f # 1
        <5>. SUFFICES ASSUME f = 1 PROVE FALSE
          OBVIOUS
        <5>. QED
          BY ONLY f = 1, <4>1, <3>2, <1>1, <1>19, <1>6, <1>4
      <4>3. ~(len < rw)
        BY <4>1, <4>2, <3>2, <1>3
      <4>. QED
        BY ONLY <4>3, <1>4, rw \in Nat \ {0}
    <3>. QED
      BY <3>1, <3>2
  <2>2. CASE nx - s.last_ackno <= in_window(s)
    BY ONLY <2>1, <2>2, <1>1, <1>3, <1>4, <1>16, <1>18
  <2>3. CASE in_window(s) < nx - s.last_ackno
    BY ONLY <2>3, <1>1, <1>3, <1>4, <1>16, <1>18
  <2>. QED
    BY ONLY <2>2, <2>3, <1>1, <1>18
<1>22. nx - s.last_ackno <= in_window(s) => r.next_seqno - r.last_ackno <= in_window(r)
  <2>1. len + f <= rw
    BY ONLY <1>3, <1>4, rw \in Nat \ {0}
  <2>. QED
    BY ONLY <2>1, <1>1, <1>3, <1>4, <1>16, <1>18
<1>23. Filled(text, s, r)
  BY <1>15, <1>16, <1>17, <1>20, <1>21, <1>22 DEF Filled, SenderOK, Ready, WindowFull, nx
<1>24. [s EXCEPT !.stream = pop_output(@, len)] = p
  BY DEF p, o
<1>. QED
  BY <1>3, <1>23, <1>24 DEF r, segs

\* With an empty buffer the loop of fill_window does nothing.
LEMMA NothingSent ==
    ASSUME NEW text \in OutStreams, NEW s, SenderOK(text, s), s.stream.buff = << >>,
           ~s.stream.end_input, NEW is_fin, ~is_fin
    PROVE  Filled(text, s, send_segments([s EXCEPT !.stream = pop_output(@, 0)],
                                   cut_segments(s, 0, is_fin), 0 + flag(is_fin)))
<1>. DEFINE o == pop_output(s.stream, 0)
            p == [s EXCEPT !.stream = o]
            segs == cut_segments(s, 0, is_fin)
            r == send_segments(p, segs, 0)
<1>0. s \in SenderType(Byte) /\ Ready(text, s) /\ NumbersOK(s) /\ StreamOK(text, s.stream)
  BY DEF SenderOK, Ready
<1>1. /\ s.next_seqno \in Nat /\ s.stream.bytes_r \in Nat /\ s.stream.bytes_w \in Nat
      /\ s.stream \in ByteStreamType(Byte) /\ Len(s.stream.buff) = 0
  BY SenderNumbers
<1>2. /\ o \in ByteStreamType(Byte) /\ StreamOK(text, o)
      /\ o.bytes_r = s.stream.bytes_r /\ o.bytes_w = s.stream.bytes_w
      /\ o.end_input = s.stream.end_input /\ o.buff = << >>
  <2>1. 0 \in 0 .. Len(s.stream.buff) /\ s.stream.bytes_r + 0 = s.stream.bytes_r
    BY ONLY <1>1
  <2>. QED
    BY <2>1, <1>0, <1>1, PopKeeps
<1>3. segs = << >>
  <2>. DEFINE M == MAX_PAYLOAD_SIZE
  <2>1. M \in Nat \ {0}
    BY PayloadAssumption
  <2>. HIDE DEF M
  <2>2. (0 + M - 1) \div M = 0
    BY ONLY <2>1
  <2>. DEFINE e(k) == made(wrap(s.next_seqno + (k - 1) * M, s.isn),
                           SubSeq(s.stream.buff, (k - 1) * M + 1, min(0, (k - 1) * M + M)),
                           IF k = (0 + M - 1) \div M THEN 0 ELSE 0)
  <2>3. segs = cuts(s.stream.buff, s.next_seqno, s.isn, 0, 0)
    BY CutSegments
  <2>4. segs = [k \in 1 .. ((0 + M - 1) \div M) |-> e(k)]
    BY <2>3 DEF cuts, M
  <2>. HIDE DEF e, segs
  <2>5. segs = [k \in 1 .. 0 |-> e(k)]
    BY <2>2, <2>4
  <2>. QED
    BY ONLY <2>5
<1>. HIDE DEF o, segs
<1>4. Ready(text, p) /\ Grows(s, p)
  <2>1. s.stream.bytes_w <= o.bytes_w
    BY ONLY <1>1, <1>2
  <2>. QED
    BY <2>1, <1>0, <1>2, StreamKeeps
<1>5. /\ p \in SenderType(Byte) /\ p.stream = o
      /\ p.isn = s.isn /\ p.next_seqno = s.next_seqno
      /\ p.last_ackno = s.last_ackno /\ p.last_win = s.last_win
      /\ p.segments_out \in Segs /\ p.outstanding_seg \in Segs
  <2>1. p \in SenderType(Byte) /\ p.stream = o
        /\ p.isn = s.isn /\ p.next_seqno = s.next_seqno
        /\ p.last_ackno = s.last_ackno /\ p.last_win = s.last_win
    BY <1>0, <1>2, StreamFields
  <2>. HIDE DEF p
  <2>. QED
    BY <2>1 DEF SenderType, Segs
<1>. HIDE DEF p
<1>6. /\ p.segments_out \o << >> = p.segments_out /\ p.outstanding_seg \o << >> = p.outstanding_seg
      /\ p.next_seqno + 0 = p.next_seqno /\ << >> \in Segs
  BY <1>1, <1>5 DEF Segs
<1>7. /\ r \in SenderType(Byte)
      /\ r.isn = p.isn /\ r.stream = p.stream /\ r.next_seqno = p.next_seqno
      /\ r.segments_out = p.segments_out /\ r.outstanding_seg = p.outstanding_seg
      /\ r.initial_retransmission_timeout = p.initial_retransmission_timeout
      /\ r.RTO = p.RTO /\ r.retransmission_count = p.retransmission_count
      /\ r.last_ackno = p.last_ackno /\ r.last_win = p.last_win /\ r.timer = p.timer
  BY ONLY <1>3, <1>5, <1>6, SendFields, 0 \in Nat, ZenonT(40)
<1>. HIDE DEF r
<1>8. Grows(p, r) /\ Grows(s, r)
  BY <1>4, <1>7 DEF Grows
<1>9. Ready(text, r)
  <2>1. StreamOK(text, r.stream) /\ TimerOK(r)
    BY <1>4, <1>7 DEF Ready, TimerOK
  <2>2. AllAt(text, r, r.segments_out)
    BY <1>4, <1>5, <1>7, <1>8, AllAtKept DEF Ready
  <2>3. Outstanding(text, r)
    <3>1. PICK P : /\ Follows(text, p, p.outstanding_seg, P)
                   /\ P[Len(p.outstanding_seg) + 1] = p.next_seqno
                   /\ NoRawWrap(text, p.isn) => HoldsOldest(p, P)
      BY <1>4 DEF Ready, Outstanding
    <3>2. Follows(text, r, r.outstanding_seg, P)
      BY <3>1, <1>5, <1>7, <1>8, FollowsKept
    <3>. QED
      BY <3>1, <3>2, <1>7 DEF Outstanding, HoldsOldest
  <2>. QED
    BY <2>1, <2>2, <2>3, <1>7 DEF Ready
<1>10. NumbersOK(r)
  BY <1>0, <1>2, <1>5, <1>7 DEF NumbersOK
<1>11. WindowFull(r)
  BY <1>2, <1>5, <1>7 DEF WindowFull
<1>12. ~(s.next_seqno < r.next_seqno)
  BY <1>1, <1>5, <1>7
<1>13. Filled(text, s, r)
  BY <1>5, <1>7, <1>8, <1>9, <1>10, <1>11, <1>12 DEF Filled, SenderOK, Ready
<1>14. [s EXCEPT !.stream = pop_output(@, 0)] = p /\ 0 + flag(is_fin) = 0
  BY DEF p, o, flag
<1>. QED
  BY <1>13, <1>14 DEF r, segs

\* fill_window keeps the invariant, uses the window, and stops at its edge.
LEMMA FillKeeps ==
    ASSUME NEW text \in OutStreams, NEW s, SenderOK(text, s)
    PROVE  Filled(text, s, fill_window(s))
<1>s. text \in Seq(Byte) /\ Len(text) \in Nat /\ Len(text) + 2 <= Half32
  BY TextSizes
<1>. DEFINE syn == [new_TCPSegment EXCEPT !.seqno = wrap(s.next_seqno, s.isn), !.syn = TRUE]
            fin == [new_TCPSegment EXCEPT !.seqno = wrap(s.next_seqno, s.isn), !.fin = TRUE]
            bif == s.next_seqno - s.last_ackno
            cw == in_window(s)
            rw == U64(cw - bif)
            len == min(Len(s.stream.buff), rw)
            is_fin == s.stream.end_input /\ len = Len(s.stream.buff) /\ len < rw
            r == send_segments([s EXCEPT !.stream = pop_output(@, len)],
                               cut_segments(s, len, is_fin), len + flag(is_fin))
<1>1. /\ s.next_seqno \in Nat /\ s.last_ackno \in Nat /\ s.last_win \in Nat
      /\ s.stream.bytes_w \in Nat /\ Len(s.stream.buff) \in Nat
      /\ (s.stream.buff = << >> <=> Len(s.stream.buff) = 0)
      /\ s.last_ackno <= s.next_seqno /\ s.next_seqno <= s.stream.bytes_w + 2
      /\ s.next_seqno <= Len(text) + 2 /\ s.last_win < Mod64
  BY SenderNumbers
<1>2. fill_window(s)
        = IF s.next_seqno = 0 THEN send_segments(s, << syn >>, 1)
          ELSE IF s.next_seqno = bif \/ rw = 0 THEN s
          ELSE IF s.stream.end_input /\ s.stream.buff = << >>
               THEN IF s.next_seqno < s.stream.bytes_w + 2
                    THEN send_segments(s, << fin >>, 1) ELSE s
          ELSE r
  BY DEF fill_window, bytes_in_flight, cur_win, in_window, buffer_size, fin_fits, input_ended,
         eof, buffer_empty, bytes_written
<1>3. bif \in Nat /\ bif <= Len(text) + 2 /\ cw \in Nat \ {0} /\ cw < Mod64
  <2>1. /\ Len(text) \in Nat /\ 1 < Mod64 /\ cw = IF s.last_win = 0 THEN 1 ELSE s.last_win
    BY <1>s, Widths DEF in_window
  <2>. HIDE DEF cw
  <2>. QED
    BY ONLY <2>1, <1>1
<1>4. rw \in Nat /\ (bif <= cw => rw = cw - bif) /\ (cw < bif => rw > Len(text))
  <2>. HIDE DEF cw, bif
  <2>. QED
    BY ONLY <1>3, RemainingWin
<1>. HIDE DEF rw, syn, fin, r, cw
<1>5. ASSUME \/ s.last_ackno = 0
             \/ s.next_seqno - s.last_ackno >= in_window(s)
             \/ s.stream.buff = << >> /\ s.next_seqno = s.stream.bytes_w + 2
      PROVE  Filled(text, s, s)
  <2>1. WindowFull(s)
    BY <1>1, <1>5 DEF WindowFull
  <2>2. Grows(s, s)
    BY <1>1 DEF Grows
  <2>3. ~(s.next_seqno < s.next_seqno)
    BY <1>1
  <2>. QED
    BY <2>1, <2>2, <2>3 DEF Filled
<1>6. CASE s.next_seqno = 0
  BY <1>2, <1>6, SynSent DEF syn
<1>7. CASE s.next_seqno # 0 /\ (s.next_seqno = bif \/ rw = 0)
  <2>1. s.next_seqno = bif => s.last_ackno = 0
    BY ONLY <1>1
  <2>2. rw = 0 => s.next_seqno - s.last_ackno >= in_window(s)
    <3>1. Len(text) \in Nat /\ cw = in_window(s)
      BY <1>s, Widths DEF cw
    <3>. QED
      BY ONLY <3>1, <1>3, <1>4
  <2>. QED
    BY <2>1, <2>2, <1>2, <1>5, <1>7
<1>8. ASSUME s.next_seqno # 0, s.next_seqno # bif, rw # 0
      PROVE  Filled(text, s, fill_window(s))
  <2>1. 0 < s.next_seqno /\ 0 < s.last_ackno
    BY ONLY <1>1, <1>8
  <2>2. s.next_seqno - s.last_ackno # in_window(s)
    <3>1. cw = in_window(s)
      BY DEF cw
    <3>. QED
      BY ONLY <3>1, <1>3, <1>4, <1>8
  <2>3. CASE s.stream.end_input /\ s.stream.buff = << >> /\ s.next_seqno < s.stream.bytes_w + 2
    BY <2>1, <2>2, <2>3, <1>2, <1>8, FinSent DEF fin
  <2>4. CASE s.stream.end_input /\ s.stream.buff = << >> /\ ~(s.next_seqno < s.stream.bytes_w + 2)
    <3>1. s.next_seqno = s.stream.bytes_w + 2
      BY ONLY <2>4, <1>1
    <3>. QED
      BY <3>1, <2>4, <1>2, <1>5, <1>8
  <2>5. CASE ~(s.stream.end_input /\ s.stream.buff = << >>)
    <3>1. fill_window(s) = r
      BY <2>5, <1>2, <1>8
    <3>2. CASE len # 0
      <4>1. rw \in Nat \ {0}
        BY <1>4, <1>8
      <4>2. /\ s.next_seqno - s.last_ackno <= in_window(s)
                 => rw = in_window(s) - (s.next_seqno - s.last_ackno)
            /\ in_window(s) < s.next_seqno - s.last_ackno => rw > Len(text)
        BY <1>4 DEF cw
      <4>3. len = min(Len(s.stream.buff), rw)
            /\ (is_fin <=> s.stream.end_input /\ len = Len(s.stream.buff) /\ len < rw)
        OBVIOUS
      <4>. HIDE DEF len, is_fin
      <4>4. Filled(text, s, r)
        BY <4>1, <4>2, <4>3, <3>2, <2>1, BytesSent DEF r
      <4>. QED
        BY <3>1, <4>4
    <3>3. CASE len = 0
      <4>1. Len(s.stream.buff) = 0
        BY ONLY <3>3, <1>1, <1>4, <1>8 DEF min
      <4>2. s.stream.buff = << >> /\ ~s.stream.end_input
        BY <4>1, <1>1, <2>5
      <4>3. ~is_fin
        BY <4>2
      <4>. HIDE DEF is_fin, len
      <4>4. Filled(text, s, r)
        BY <3>3, <4>2, <4>3, NothingSent DEF r
      <4>. QED
        BY <3>1, <4>4
    <3>. QED
      BY <3>2, <3>3
  <2>. QED
    BY <2>3, <2>4, <2>5
<1>. QED
  BY <1>6, <1>7, <1>8

-----------------------------------------------------------------------------
(* ack_received *)

\* The fields of a sender, with the types of the larger ones left abstract.
Fields(W, S, B, T) ==
    [isn : W, segments_out : S, initial_retransmission_timeout : Nat, stream : B,
     next_seqno : Nat, RTO : Nat, retransmission_count : Nat, last_ackno : Nat,
     last_win : Nat, timer : T, outstanding_seg : S]

\* The type of a sender, its parts named apart.
LEMMA SenderFields ==
    SenderType(Byte) = Fields(WrappingInt32, Segs, ByteStreamType(Byte), TimerType)
  BY DEF SenderType, Fields, Segs

\* A new window.
LEMMA WinKeeps ==
    ASSUME NEW text \in OutStreams, NEW s, SenderOK(text, s), NEW win \in Nat, win < Mod64
    PROVE  LET r == [s EXCEPT !.last_win = win]
           IN  /\ SenderOK(text, r) /\ Grows(s, r) /\ r.last_win = win /\ r.last_ackno = s.last_ackno
               /\ r.next_seqno = s.next_seqno
<1>s. text \in Seq(Byte) /\ Len(text) \in Nat /\ Len(text) + 2 <= Half32
  BY TextSizes
<1>. DEFINE r == [s EXCEPT !.last_win = win]
<1>0. s \in SenderType(Byte) /\ Ready(text, s) /\ NumbersOK(s) /\ win \in Nat /\ win < Mod64
  BY <1>s, Widths DEF SenderOK, Ready
<1>1. /\ r \in SenderType(Byte) /\ r.stream = s.stream
      /\ r.isn = s.isn /\ r.next_seqno = s.next_seqno
      /\ r.segments_out = s.segments_out /\ r.outstanding_seg = s.outstanding_seg
      /\ r.initial_retransmission_timeout = s.initial_retransmission_timeout
      /\ r.RTO = s.RTO /\ r.retransmission_count = s.retransmission_count
      /\ r.last_ackno = s.last_ackno /\ r.last_win = win /\ r.timer = s.timer
  BY <1>0, SenderFields DEF Fields
<1>. HIDE DEF r
<1>2. /\ s.stream.bytes_w \in Nat /\ s.next_seqno \in Nat /\ s.segments_out \in Segs
      /\ s.outstanding_seg \in Segs
  BY <1>0 DEF SenderType, ByteStreamType, Segs
<1>3. Grows(s, r)
  BY <1>1, <1>2 DEF Grows
<1>4. StreamOK(text, r.stream) /\ TimerOK(r) /\ NumbersOK(r)
  BY <1>0, <1>1 DEF Ready, TimerOK, NumbersOK
<1>5. AllAt(text, r, r.segments_out)
  BY <1>0, <1>1, <1>2, <1>3, AllAtKept DEF Ready
<1>6. Outstanding(text, r)
  <2>1. PICK P : /\ Follows(text, s, s.outstanding_seg, P)
                 /\ P[Len(s.outstanding_seg) + 1] = s.next_seqno
                 /\ NoRawWrap(text, s.isn) => HoldsOldest(s, P)
    BY <1>0 DEF Ready, Outstanding
  <2>2. Follows(text, r, r.outstanding_seg, P)
    BY <2>1, <1>1, <1>2, <1>3, FollowsKept
  <2>. QED
    BY <2>1, <2>2, <1>1 DEF Outstanding, HoldsOldest
<1>. QED
  BY <1>1, <1>3, <1>4, <1>5, <1>6 DEF SenderOK, r

\* Without wrapping the raw numbers of the queue compare like the absolute ones.
LEMMA RawCompare ==
    ASSUME NEW text \in OutStreams, NEW s, s.isn \in WrappingInt32, NoRawWrap(text, s.isn),
           s.next_seqno \in Nat,
           s.next_seqno <= Len(text) + 2,
           NEW seg \in SegmentType(Byte), NEW a \in Nat, At(text, s, seg, a),
           NEW abs \in Nat, abs <= s.next_seqno
    PROVE  fully_acked(seg, wrap(abs, s.isn)) <=> a + length_in_sequence_space(seg) <= abs
<1>s. text \in Seq(Byte) /\ Len(text) \in Nat /\ Len(text) + 2 <= Half32
  BY TextSizes
<1>. DEFINE l == length_in_sequence_space(seg)
            i == s.isn
<1>1. l \in Nat /\ a + l <= s.next_seqno /\ seg.seqno = wrap(a, i)
  BY SegmentLength DEF At
<1>. HIDE DEF l
<1>2. Len(text) \in Nat /\ Mod32 \in Nat \ {0} /\ i \in 0 .. (Mod32 - 1) /\ i + Len(text) + 2 < Mod32
  BY <1>s, Widths, Moduli DEF NoRawWrap, WrappingInt32
<1>3. ASSUME NEW x \in Nat, x <= Len(text) + 2 PROVE wrap(x, i) = i + x
  <2>. HIDE DEF i
  <2>1. i + x = i + x + Mod32 * 0 /\ i + x \in 0 .. (Mod32 - 1) /\ 0 \in Int /\ x \in Int
    BY ONLY <1>2, <1>3
  <2>2. i \in WrappingInt32 /\ i + x \in WrappingInt32
    BY <2>1, <1>2 DEF WrappingInt32
  <2>. QED
    BY ONLY <2>1, <2>2, WrapCongruent
<1>4. a <= Len(text) + 2 /\ abs <= Len(text) + 2
  BY <1>1, <1>2
<1>5. seg.seqno = i + a /\ wrap(abs, i) = i + abs
  BY <1>1, <1>3, <1>4
<1>6. fully_acked(seg, wrap(abs, i)) <=> seg.seqno + l <= wrap(abs, i)
  BY DEF fully_acked, l
<1>7. seg.seqno + l <= wrap(abs, i) <=> a + l <= abs
  <2>. HIDE DEF i
  <2>. QED
    BY ONLY <1>1, <1>2, <1>5, a \in Nat, abs \in Nat
<1>. QED
  BY <1>6, <1>7 DEF l, i

\* What is left in the queue after an ackno still follows one another up to next_seqno, and
\* without wrapping the first of it holds the ackno.
LEMMA Dropped ==
    ASSUME NEW text \in OutStreams, NEW s, s.isn \in WrappingInt32, s.next_seqno \in Nat,
           s.next_seqno <= Len(text) + 2,
           NEW q \in Segs, NEW P, Follows(text, s, q, P), P[Len(q) + 1] = s.next_seqno,
           NEW last \in Nat,
           NoRawWrap(text, s.isn) => IF q = << >> THEN last = s.next_seqno
                               ELSE P[1] <= last /\ last < P[2],
           NEW abs \in Nat, last < abs, abs <= s.next_seqno
    PROVE  LET rest == SubSeq(q, acked_count(q, wrap(abs, s.isn)) + 1, Len(q))
           IN  /\ rest \in Segs
               /\ \E R : /\ Follows(text, s, rest, R) /\ R[Len(rest) + 1] = s.next_seqno
                         /\ NoRawWrap(text, s.isn) => IF rest = << >> THEN abs = s.next_seqno
                                                ELSE R[1] <= abs /\ abs < R[2]
<1>. DEFINE n == acked_count(q, wrap(abs, s.isn))
            rest == SubSeq(q, n + 1, Len(q))
            m == Len(q)
<1>1. /\ n \in 0 .. m
      /\ \A j \in 1 .. n : fully_acked(q[j], wrap(abs, s.isn))
      /\ n < m => ~fully_acked(q[n + 1], wrap(abs, s.isn))
  BY AckedCount
<1>. HIDE DEF n
<1>2. PICK R : /\ Follows(text, s, rest, R) /\ R[Len(rest) + 1] = s.next_seqno /\ R[1] = P[n + 1]
               /\ n < m => R[2] = P[n + 2]
  BY <1>1, FollowsDropped
<1>3. rest \in Segs /\ Len(rest) = m - n /\ m \in Nat
  <2>1. rest \in Segs /\ Len(rest) = m - n
    BY <1>1, FollowsDropped
  <2>. QED
    BY <2>1 DEF Segs
<1>. HIDE DEF rest
<1>4. rest = << >> <=> n = m
  <2>1. rest = << >> <=> Len(rest) = 0
    BY <1>3 DEF Segs
  <2>. QED
    BY <2>1, <1>1, <1>3
<1>5. q = << >> <=> m = 0
  BY DEF Segs
<1>6. ASSUME NEW k \in 1 .. m
      PROVE  /\ P[k] \in Nat /\ P[k + 1] \in Nat
             /\ P[k + 1] = P[k] + length_in_sequence_space(q[k])
             /\ At(text, s, q[k], P[k]) /\ q[k] \in SegmentType(Byte)
  <2>1. k \in 1 .. (m + 1) /\ k + 1 \in 1 .. (m + 1)
    BY <1>3
  <2>. QED
    BY <2>1, SMTT(40) DEF Follows, Segs
<1>7. ASSUME NoRawWrap(text, s.isn), NEW k \in 1 .. m
      PROVE  fully_acked(q[k], wrap(abs, s.isn)) <=> P[k + 1] <= abs
  BY <1>6, <1>7, RawCompare, SMTT(40)
<1>. HIDE DEF m
<1>8. ASSUME NoRawWrap(text, s.isn)
      PROVE  IF rest = << >> THEN abs = s.next_seqno ELSE R[1] <= abs /\ abs < R[2]
  <2>1. CASE n = m
    <3>1. m # 0
      <4>. SUFFICES ASSUME m = 0 PROVE FALSE
        OBVIOUS
      <4>1. last = s.next_seqno
        BY <1>5, <1>8
      <4>. QED
        BY <4>1
    <3>2. m \in 1 .. m /\ m \in 1 .. n
      BY <3>1, <2>1, <1>3
    <3>3. P[m + 1] <= abs /\ P[m + 1] = s.next_seqno
      BY <3>2, <1>1, <1>7, <1>8 DEF m
    <3>. QED
      BY <3>3, <2>1, <1>4
  <2>2. CASE n # m
    <3>1. n < m /\ n + 1 \in 1 .. m /\ (n + 1) + 1 = n + 2
      BY <2>2, <1>1, <1>3
    <3>2. ~(P[n + 2] <= abs) /\ P[n + 2] \in Nat /\ P[n + 1] \in Nat
      BY <3>1, <1>1, <1>6, <1>7, <1>8
    <3>3. P[n + 1] <= abs
      <4>1. CASE n = 0
        <5>1. P[1] <= last
          BY <4>1, <3>1, <1>5, <1>8
        <5>. QED
          BY <5>1, <4>1, <3>2
      <4>2. CASE n # 0
        <5>1. n \in 1 .. m /\ n \in 1 .. n
          BY <4>2, <3>1, <1>1
        <5>. QED
          BY <5>1, <1>1, <1>7, <1>8
      <4>. QED
        BY <4>1, <4>2
    <3>. QED
      BY <3>1, <3>2, <3>3, <2>2, <1>2, <1>4
  <2>. QED
    BY <2>1, <2>2
<1>. QED
  BY <1>2, <1>3, <1>8 DEF rest, n, m

\* An ackno that acknowledges something new.
LEMMA NewAck ==
    ASSUME NEW text \in OutStreams, NEW s, SenderOK(text, s), NEW abs \in Nat,
           s.last_ackno < abs, abs <= s.next_seqno
    PROVE  LET r == new_ack(s, abs, wrap(abs, s.isn))
           IN  /\ SenderOK(text, r) /\ Grows(s, r)
               /\ r.last_ackno = abs /\ r.next_seqno = s.next_seqno
<1>. DEFINE q == s.outstanding_seg
            rest == SubSeq(q, acked_count(q, wrap(abs, s.isn)) + 1, Len(q))
            tm == IF rest # << >> THEN timer_start(s.initial_retransmission_timeout)
                  ELSE timer_stop
            r == [s EXCEPT !.last_ackno = abs, !.outstanding_seg = rest,
                           !.retransmission_count = 0,
                           !.RTO = s.initial_retransmission_timeout, !.timer = tm]
<1>0. s \in SenderType(Byte) /\ Ready(text, s) /\ NumbersOK(s)
  BY DEF SenderOK, Ready
<1>1. /\ s.isn \in WrappingInt32 /\ s.next_seqno \in Nat /\ s.last_ackno \in Nat
      /\ s.segments_out \in Segs /\ q \in Segs /\ s.stream.bytes_w \in Nat
      /\ s.initial_retransmission_timeout \in Nat /\ s.next_seqno <= Len(text) + 2
  <2>1. s.next_seqno <= Len(text) + 2
    BY SenderNumbers
  <2>. QED
    BY <2>1, <1>0 DEF SenderType, ByteStreamType, Segs
<1>2. PICK P : /\ Follows(text, s, q, P) /\ P[Len(q) + 1] = s.next_seqno
               /\ NoRawWrap(text, s.isn) => HoldsOldest(s, P)
  BY <1>0 DEF Ready, Outstanding
<1>3. /\ rest \in Segs
      /\ \E R : /\ Follows(text, s, rest, R) /\ R[Len(rest) + 1] = s.next_seqno
                /\ NoRawWrap(text, s.isn) => IF rest = << >> THEN abs = s.next_seqno
                                       ELSE R[1] <= abs /\ abs < R[2]
  <2>1. NoRawWrap(text, s.isn) => IF q = << >> THEN s.last_ackno = s.next_seqno
                            ELSE P[1] <= s.last_ackno /\ s.last_ackno < P[2]
    BY <1>2 DEF HoldsOldest
  <2>. HIDE DEF q
  <2>. QED
    BY <2>1, <1>1, <1>2, Dropped
<1>. HIDE DEF rest, q
<1>4. tm \in TimerType /\ (tm.is_started <=> rest # << >>) /\ ~tm.is_expired
      /\ tm.remaining_time <= s.initial_retransmission_timeout
  BY <1>1 DEF TimerType, timer_start, timer_stop
<1>. HIDE DEF tm
<1>5. /\ r \in SenderType(Byte) /\ r.stream = s.stream
      /\ r.isn = s.isn /\ r.next_seqno = s.next_seqno
      /\ r.segments_out = s.segments_out /\ r.outstanding_seg = rest
      /\ r.initial_retransmission_timeout = s.initial_retransmission_timeout
      /\ r.RTO = s.initial_retransmission_timeout /\ r.retransmission_count = 0
      /\ r.last_ackno = abs /\ r.last_win = s.last_win /\ r.timer = tm
  <2>1. s \in Fields(WrappingInt32, Segs, ByteStreamType(Byte), TimerType) /\ 0 \in Nat
    BY <1>0, SenderFields
  <2>2. rest \in Segs /\ tm \in TimerType /\ s.initial_retransmission_timeout \in Nat
    BY <1>1, <1>3, <1>4
  <2>. DEFINE rto == s.initial_retransmission_timeout
              F == Fields(WrappingInt32, Segs, ByteStreamType(Byte), TimerType)
              u == [s EXCEPT !.last_ackno = abs, !.outstanding_seg = rest,
                             !.retransmission_count = 0, !.RTO = rto, !.timer = tm]
  <2>3. r = u
    OBVIOUS
  <2>. HIDE DEF rto, r
  <2>4. /\ u \in F /\ u.stream = s.stream
        /\ u.isn = s.isn /\ u.next_seqno = s.next_seqno
        /\ u.segments_out = s.segments_out /\ u.outstanding_seg = rest
        /\ u.initial_retransmission_timeout = s.initial_retransmission_timeout
        /\ u.RTO = rto /\ u.retransmission_count = 0
        /\ u.last_ackno = abs /\ u.last_win = s.last_win /\ u.timer = tm
    <3>. DEFINE W == WrappingInt32
                S == Segs
                B == ByteStreamType(Byte)
                T == TimerType
    <3>1. s \in Fields(W, S, B, T) /\ rest \in S /\ tm \in T /\ rto \in Nat /\ abs \in Nat
      BY <2>1, <2>2 DEF rto
    <3>2. F = Fields(W, S, B, T)
      OBVIOUS
    <3>. HIDE DEF W, S, B, T, F
    <3>. QED
      BY ONLY <3>1, <3>2 DEF Fields
  <2>. HIDE DEF u
  <2>. QED
    BY <2>3, <2>4, SenderFields DEF rto
<1>6. r = new_ack(s, abs, wrap(abs, s.isn))
  BY DEF new_ack, tm, rest, q
<1>. HIDE DEF r
<1>7. Grows(s, r)
  BY <1>1, <1>5 DEF Grows
<1>8. StreamOK(text, r.stream) /\ NumbersOK(r)
  BY <1>0, <1>1, <1>5 DEF Ready, NumbersOK
<1>9. TimerOK(r)
  BY <1>0, <1>4, <1>5, Doubled DEF Ready, TimerOK
<1>10. AllAt(text, r, r.segments_out)
  BY <1>0, <1>1, <1>5, <1>7, AllAtKept DEF Ready
<1>11. Outstanding(text, r)
  <2>1. PICK R : /\ Follows(text, s, rest, R) /\ R[Len(rest) + 1] = s.next_seqno
                 /\ NoRawWrap(text, s.isn) => IF rest = << >> THEN abs = s.next_seqno
                                        ELSE R[1] <= abs /\ abs < R[2]
    BY <1>3
  <2>2. Follows(text, r, rest, R)
    BY <2>1, <1>3, <1>7, FollowsKept
  <2>. QED
    BY <2>1, <2>2, <1>5 DEF Outstanding, HoldsOldest
<1>. QED
  BY <1>5, <1>6, <1>7, <1>8, <1>9, <1>10, <1>11 DEF SenderOK

\* What a call of the sender does: the invariant, a window used up to its edge, and nothing
\* sent beyond it.
Stepped(text, s, r) ==
    /\ SenderOK(text, r) /\ WindowFull(r) /\ Grows(s, r)
    /\ (/\ 0 < s.next_seqno /\ s.next_seqno < r.next_seqno
        /\ s.next_seqno - r.last_ackno <= in_window(r))
         => r.next_seqno - r.last_ackno <= in_window(r)

\* fill_window ends a step that has sent nothing before it.
LEMMA FilledStep ==
    ASSUME NEW text \in OutStreams, NEW s, NEW t, SenderOK(text, t), Grows(s, t),
           t.next_seqno = s.next_seqno
    PROVE  Stepped(text, s, fill_window(t))
<1>. DEFINE r == fill_window(t)
<1>1. Filled(text, t, r)
  BY FillKeeps
<1>. HIDE DEF r
<1>2. /\ SenderOK(text, r) /\ WindowFull(r) /\ Grows(t, r)
      /\ r.last_ackno = t.last_ackno /\ in_window(r) = in_window(t)
      /\ (/\ 0 < t.next_seqno /\ t.next_seqno < r.next_seqno
          /\ t.next_seqno - t.last_ackno <= in_window(t))
           => r.next_seqno - r.last_ackno <= in_window(r)
  BY <1>1 DEF Filled, in_window
<1>3. Grows(s, r)
  BY <1>2 DEF Grows
<1>. QED
  BY <1>2, <1>3 DEF Stepped, r

\* ack_received of an ackno the peer can send.
LEMMA AckKeeps ==
    ASSUME NEW text \in OutStreams, NEW s, SenderOK(text, s), NEW ack \in 1 .. s.next_seqno,
           NEW win \in Nat, win < Mod64
    PROVE  Stepped(text, s, ack_received(s, wrap(ack, s.isn), win))
<1>s. text \in Seq(Byte) /\ Len(text) \in Nat /\ Len(text) + 2 <= Half32
  BY TextSizes
<1>1. /\ s.next_seqno \in Nat /\ s.last_ackno \in Nat /\ s.isn \in WrappingInt32
      /\ s.last_ackno <= s.next_seqno /\ s.next_seqno <= Len(text) + 2 /\ s.stream.bytes_w \in Nat
  BY SenderNumbers
<1>2. ack \in Nat /\ ack <= s.next_seqno /\ 0 < ack
  BY <1>1
<1>3. unwrap(wrap(ack, s.isn), s.isn, s.last_ackno) = ack
  <2>1. /\ s.last_ackno + Mod32 < Mod64
        /\ s.last_ackno < ack + Half32 /\ ack <= s.last_ackno + Half32
    BY <1>1, <1>2, <1>s, Widths, SMTT(40)
  <2>. QED
    BY <2>1, <1>1, <1>2, UnwrapRecovers
<1>. DEFINE t == IF ack > s.last_ackno THEN new_ack(s, ack, wrap(ack, s.isn)) ELSE s
            u == [t EXCEPT !.last_win = win]
<1>4. ack_received(s, wrap(ack, s.isn), win) = fill_window(u)
  <2>1. ~(ack > s.next_seqno)
    BY <1>1, <1>2
  <2>. QED
    BY <1>3, <2>1 DEF ack_received, is_new
<1>5. SenderOK(text, t) /\ Grows(s, t) /\ t.next_seqno = s.next_seqno
  <2>1. CASE ack > s.last_ackno
    <3>1. t = new_ack(s, ack, wrap(ack, s.isn)) /\ s.last_ackno < ack
      BY <2>1, <1>1, <1>2
    <3>. QED
      BY <3>1, <1>2, NewAck
  <2>2. CASE ~(ack > s.last_ackno)
    <3>1. Grows(s, s) /\ t = s
      BY <2>2, <1>1 DEF Grows
    <3>. QED
      BY <3>1
  <2>. QED
    BY <2>1, <2>2
<1>. HIDE DEF t
<1>6. SenderOK(text, u) /\ Grows(t, u) /\ u.next_seqno = t.next_seqno
  BY <1>5, WinKeeps
<1>. HIDE DEF u
<1>7. Grows(s, u) /\ u.next_seqno = s.next_seqno
  BY <1>5, <1>6 DEF Grows
<1>. QED
  BY <1>4, <1>6, <1>7, FilledStep

\* An ackno of something never sent changes nothing.
LEMMA ImpossibleAck ==
    ASSUME NEW text \in OutStreams, NEW s, SenderOK(text, s), NEW win
    PROVE  ack_received(s, wrap(s.next_seqno + 1, s.isn), win) = s
<1>s. text \in Seq(Byte) /\ Len(text) \in Nat /\ Len(text) + 2 <= Half32
  BY TextSizes
<1>1. /\ s.next_seqno \in Nat /\ s.last_ackno \in Nat /\ s.isn \in WrappingInt32
      /\ s.last_ackno <= s.next_seqno /\ s.next_seqno <= Len(text) + 2
  BY SenderNumbers
<1>2. s.last_ackno = 0 => s.next_seqno <= 1
  BY DEF SenderOK, NumbersOK
<1>. DEFINE a == s.next_seqno + 1
<1>3. /\ a \in Nat /\ s.last_ackno + Mod32 < Mod64
      /\ s.last_ackno < a + Half32 /\ a <= s.last_ackno + Half32 /\ a > s.next_seqno
  BY <1>1, <1>2, <1>s, Widths, SMTT(40)
<1>. HIDE DEF a
<1>4. unwrap(wrap(a, s.isn), s.isn, s.last_ackno) = a
  BY <1>1, <1>3, UnwrapRecovers
<1>5. ack_received(s, wrap(a, s.isn), win) = s
  BY <1>3, <1>4 DEF ack_received
<1>. QED
  BY <1>5 DEF a

\* A call that changes nothing is a step.
LEMMA SameStep ==
    ASSUME NEW text \in OutStreams, NEW s, SenderOK(text, s), WindowFull(s)
    PROVE  Stepped(text, s, s)
<1>1. s.next_seqno \in Nat /\ s.stream.bytes_w \in Nat
  BY SenderNumbers
<1>2. ~(s.next_seqno < s.next_seqno) /\ Grows(s, s)
  BY <1>1 DEF Grows
<1>. QED
  BY <1>2 DEF Stepped

-----------------------------------------------------------------------------
(* The application's calls *)

\* More bytes or the end of the input, then fill_window.
LEMMA NewStream ==
    ASSUME NEW text \in OutStreams, NEW s, SenderOK(text, s), NEW o \in ByteStreamType(Byte),
           StreamOK(text, o),
           o.bytes_r = s.stream.bytes_r, s.stream.bytes_w <= o.bytes_w,
           s.stream.end_input =>
              o.end_input /\ o.bytes_w = s.stream.bytes_w /\ o.buff = s.stream.buff
    PROVE  Stepped(text, s, fill_window([s EXCEPT !.stream = o]))
<1>. DEFINE t == [s EXCEPT !.stream = o]
<1>0. s \in SenderType(Byte) /\ Ready(text, s) /\ NumbersOK(s)
  BY DEF SenderOK, Ready
<1>1. Ready(text, t) /\ Grows(s, t)
  BY <1>0, StreamKeeps
<1>2. /\ t.stream = o /\ t.next_seqno = s.next_seqno
      /\ t.last_ackno = s.last_ackno /\ t.last_win = s.last_win
  BY <1>0, StreamFields
<1>. HIDE DEF t
<1>3. NumbersOK(t)
  BY <1>0, <1>2 DEF NumbersOK
<1>4. SenderOK(text, t)
  BY <1>1, <1>3 DEF SenderOK, Ready
<1>5. Stepped(text, s, fill_window(t))
  BY <1>1, <1>2, <1>4, FilledStep
<1>. QED
  BY <1>5 DEF t

\* write of the stream's next bytes, then fill_window.
LEMMA WriteStep ==
    ASSUME NEW text \in OutStreams, NEW s, SenderOK(text, s), NEW len \in Nat,
           s.stream.bytes_w + len <= Len(text)
    PROVE  LET data == SubSeq(text, s.stream.bytes_w + 1, s.stream.bytes_w + len)
           IN  Stepped(text, s, fill_window([s EXCEPT !.stream = bs_write(s.stream, data)]))
<1>. DEFINE o == bs_write(s.stream, SubSeq(text, s.stream.bytes_w + 1, s.stream.bytes_w + len))
<1>1. s.stream \in ByteStreamType(Byte) /\ StreamOK(text, s.stream)
  BY SenderNumbers DEF SenderOK
<1>2. /\ o \in ByteStreamType(Byte) /\ StreamOK(text, o)
      /\ o.bytes_r = s.stream.bytes_r /\ s.stream.bytes_w <= o.bytes_w
      /\ o.end_input = s.stream.end_input
      /\ s.stream.end_input => o.bytes_w = s.stream.bytes_w /\ o.buff = s.stream.buff
  BY <1>1, AppWriteKeeps
<1>. HIDE DEF o
<1>3. Stepped(text, s, fill_window([s EXCEPT !.stream = o]))
  BY <1>2, NewStream
<1>. QED
  BY <1>3 DEF o

\* end_input of the stream, then fill_window.
LEMMA EndStep ==
    ASSUME NEW text \in OutStreams, NEW s, SenderOK(text, s)
    PROVE  Stepped(text, s, fill_window([s EXCEPT !.stream = end_input(s.stream)]))
<1>. DEFINE o == end_input(s.stream)
<1>1. s.stream \in ByteStreamType(Byte) /\ StreamOK(text, s.stream) /\ s.stream.bytes_w \in Nat
  BY SenderNumbers DEF SenderOK
<1>2. /\ o \in ByteStreamType(Byte) /\ o.bytes_r = s.stream.bytes_r
      /\ o.bytes_w = s.stream.bytes_w /\ o.buff = s.stream.buff
      /\ o.capacity = s.stream.capacity /\ o.end_input
  BY <1>1 DEF end_input, ByteStreamType
<1>. HIDE DEF o
<1>3. StreamOK(text, o) /\ s.stream.bytes_w <= o.bytes_w
  BY <1>1, <1>2 DEF StreamOK
<1>4. Stepped(text, s, fill_window([s EXCEPT !.stream = o]))
  BY <1>2, <1>3, NewStream
<1>. QED
  BY <1>4 DEF o

-----------------------------------------------------------------------------
(* tick *)

\* The sender with another timer, after a retransmission or not.
timed(s, so, n, rto, tm) ==
    [s EXCEPT !.segments_out = so, !.retransmission_count = n, !.RTO = rto, !.timer = tm]

\* The fields of a sender after tick.
LEMMA TimerFields ==
    ASSUME NEW s \in SenderType(Byte), NEW so \in Segs, NEW n \in Nat, NEW rto \in Nat,
           NEW tm \in TimerType,
           NEW r, r = timed(s, so, n, rto, tm)
    PROVE  /\ r \in SenderType(Byte) /\ r.stream = s.stream
           /\ r.isn = s.isn /\ r.next_seqno = s.next_seqno
           /\ r.segments_out = so /\ r.outstanding_seg = s.outstanding_seg
           /\ r.initial_retransmission_timeout = s.initial_retransmission_timeout
           /\ r.RTO = rto /\ r.retransmission_count = n
           /\ r.last_ackno = s.last_ackno /\ r.last_win = s.last_win /\ r.timer = tm
<1>. DEFINE W == WrappingInt32
            S == Segs
            B == ByteStreamType(Byte)
            T == TimerType
            F == Fields(W, S, B, T)
            u == [s EXCEPT !.segments_out = so, !.retransmission_count = n,
                           !.RTO = rto, !.timer = tm]
<1>1. F = SenderType(Byte)
  BY SenderFields
<1>2. s \in Fields(W, S, B, T) /\ so \in S /\ tm \in T /\ F = Fields(W, S, B, T)
  BY <1>1
<1>. HIDE DEF W, S, B, T, F
<1>3. /\ u \in F /\ u.stream = s.stream
      /\ u.isn = s.isn /\ u.next_seqno = s.next_seqno
      /\ u.segments_out = so /\ u.outstanding_seg = s.outstanding_seg
      /\ u.initial_retransmission_timeout = s.initial_retransmission_timeout
      /\ u.RTO = rto /\ u.retransmission_count = n
      /\ u.last_ackno = s.last_ackno /\ u.last_win = s.last_win /\ u.timer = tm
  BY ONLY <1>2, n \in Nat, rto \in Nat DEF Fields
<1>4. r = u
  BY DEF timed
<1>. HIDE DEF u
<1>. QED
  BY <1>1, <1>3, <1>4

\* A step that sends a segment again, or none, and sets the timer.
LEMMA TimerStep ==
    ASSUME NEW text \in OutStreams, NEW s, SenderOK(text, s), WindowFull(s), NEW so \in Segs,
           AllAt(text, s, so),
           NEW n \in Nat, NEW rto \in Nat, rto = doubled[n], NEW tm \in TimerType,
           tm.is_started <=> s.outstanding_seg # << >>, ~tm.is_expired,
           tm.remaining_time <= rto
    PROVE  Stepped(text, s, timed(s, so, n, rto, tm))
<1>. DEFINE r == timed(s, so, n, rto, tm)
<1>0. s \in SenderType(Byte) /\ Ready(text, s) /\ NumbersOK(s)
  BY DEF SenderOK, Ready
<1>1. /\ r \in SenderType(Byte) /\ r.stream = s.stream
      /\ r.isn = s.isn /\ r.next_seqno = s.next_seqno
      /\ r.segments_out = so /\ r.outstanding_seg = s.outstanding_seg
      /\ r.initial_retransmission_timeout = s.initial_retransmission_timeout
      /\ r.RTO = rto /\ r.retransmission_count = n
      /\ r.last_ackno = s.last_ackno /\ r.last_win = s.last_win /\ r.timer = tm
  BY <1>0, TimerFields
<1>. HIDE DEF r
<1>2. s.next_seqno \in Nat /\ s.stream.bytes_w \in Nat /\ s.outstanding_seg \in Segs
  BY <1>0 DEF SenderType, ByteStreamType, Segs
<1>3. Grows(s, r)
  BY <1>1, <1>2 DEF Grows
<1>4. StreamOK(text, r.stream) /\ NumbersOK(r) /\ TimerOK(r)
  BY <1>0, <1>1 DEF Ready, NumbersOK, TimerOK
<1>5. AllAt(text, r, r.segments_out)
  BY <1>1, <1>3, AllAtKept
<1>6. Outstanding(text, r)
  <2>1. PICK P : /\ Follows(text, s, s.outstanding_seg, P)
                 /\ P[Len(s.outstanding_seg) + 1] = s.next_seqno
                 /\ NoRawWrap(text, s.isn) => HoldsOldest(s, P)
    BY <1>0 DEF Ready, Outstanding
  <2>2. Follows(text, r, r.outstanding_seg, P)
    BY <2>1, <1>1, <1>2, <1>3, FollowsKept
  <2>. QED
    BY <2>1, <2>2, <1>1 DEF Outstanding, HoldsOldest
<1>7. SenderOK(text, r)
  BY <1>1, <1>4, <1>5, <1>6 DEF SenderOK
<1>8. WindowFull(r)
  BY <1>1 DEF WindowFull, in_window
<1>9. ~(s.next_seqno < r.next_seqno)
  BY <1>1, <1>2
<1>10. Stepped(text, s, r)
  BY <1>3, <1>7, <1>8, <1>9 DEF Stepped
<1>. QED
  BY <1>10 DEF r

\* tick repeats the oldest segment when the timer fires, and doubles the timeout.
LEMMA TickKeeps ==
    ASSUME NEW text \in OutStreams, NEW s, SenderOK(text, s), WindowFull(s), NEW ms \in Nat
    PROVE  Stepped(text, s, sender_tick(s, ms))
<1>. DEFINE q == s.outstanding_seg
            so == s.segments_out
            n == s.retransmission_count
            rto == s.RTO
            t == timer_tick(s.timer, ms)
<1>1. /\ s \in SenderType(Byte) /\ q \in Segs /\ so \in Segs /\ n \in Nat /\ rto \in Nat
      /\ s.timer \in TimerType /\ s.last_win \in Nat
  BY DEF SenderOK, SenderType, Segs
<1>2. /\ AllAt(text, s, so) /\ (s.timer.is_started <=> q # << >>) /\ ~s.timer.is_expired
      /\ rto = doubled[n] /\ s.timer.remaining_time <= rto /\ Outstanding(text, s)
  BY DEF SenderOK, TimerOK
<1>3. ASSUME NEW tm
      PROVE  [s EXCEPT !.timer = tm] = timed(s, so, n, rto, tm)
  BY <1>1 DEF SenderType, timed
<1>4. CASE q = << >>
  <2>1. sender_tick(s, ms) = [s EXCEPT !.timer = timer_stop]
    BY <1>4 DEF sender_tick
  <2>2. /\ timer_stop \in TimerType /\ ~timer_stop.is_started /\ ~timer_stop.is_expired
        /\ timer_stop.remaining_time <= rto
    BY <1>1 DEF timer_stop, TimerType
  <2>. HIDE DEF q, so, n, rto
  <2>3. Stepped(text, s, timed(s, so, n, rto, timer_stop))
    BY <2>2, <1>1, <1>2, <1>4, TimerStep DEF q
  <2>. QED
    BY <2>1, <2>3, <1>3
<1>5. CASE q # << >> /\ ~timer_expired(t)
  <2>1. sender_tick(s, ms) = [s EXCEPT !.timer = t]
    BY <1>5 DEF sender_tick
  <2>2. t \in TimerType /\ t.is_started /\ ~t.is_expired /\ t.remaining_time <= rto
    <3>. DEFINE x == s.timer
    <3>1. x \in TimerType /\ x.is_started /\ ~x.is_expired /\ x.remaining_time <= rto
      BY <1>1, <1>2, <1>5
    <3>2. ~timer_expired(timer_tick(x, ms))
      BY <1>5
    <3>. HIDE DEF x, rto
    <3>3. timer_tick(x, ms) = IF ms >= x.remaining_time THEN [x EXCEPT !.is_expired = TRUE]
                              ELSE [x EXCEPT !.remaining_time = x.remaining_time - ms]
      BY <3>1 DEF timer_tick
    <3>4. ~(ms >= x.remaining_time)
      BY <3>1, <3>2, <3>3 DEF timer_expired, TimerType
    <3>5. t = [x EXCEPT !.remaining_time = x.remaining_time - ms]
      BY <3>3, <3>4 DEF x
    <3>6. x.remaining_time - ms \in Nat /\ x.remaining_time - ms <= rto
      BY <3>1, <3>4, <1>1 DEF TimerType
    <3>. HIDE DEF t
    <3>. QED
      BY <3>1, <3>5, <3>6 DEF TimerType
  <2>. HIDE DEF q, so, n, rto, t
  <2>3. Stepped(text, s, timed(s, so, n, rto, t))
    BY <2>2, <1>1, <1>2, <1>5, TimerStep DEF q
  <2>. QED
    BY <2>1, <2>3, <1>3
<1>6. CASE q # << >> /\ timer_expired(t)
  <2>. DEFINE h == Head(q)
              so2 == Append(so, h)
              n2 == n + flag(s.last_win > 0)
              rto2 == backed_off(s)
              tm == timer_start(rto2)
  <2>1. sender_tick(s, ms) = timed(s, so2, n2, rto2, tm)
    BY <1>1, <1>6 DEF sender_tick, retransmit, SenderType, timed
  <2>2. rto2 \in Nat /\ n2 \in Nat /\ rto2 = doubled[n2]
    <3>1. CASE s.last_win > 0
      <4>1. rto2 = 2 * rto /\ n2 = n + 1
        BY <3>1 DEF backed_off, flag
      <4>. HIDE DEF rto2, n2, rto, n
      <4>2. doubled[n + 1] = 2 * doubled[n] /\ rto = doubled[n] /\ n \in Nat /\ rto \in Nat
        BY <1>1, <1>2, Doubled
      <4>. QED
        BY ONLY <4>1, <4>2
    <3>2. CASE ~(s.last_win > 0)
      BY <3>2, <1>1, <1>2 DEF backed_off, flag
    <3>. QED
      BY <3>1, <3>2
  <2>3. tm \in TimerType /\ tm.is_started /\ ~tm.is_expired /\ tm.remaining_time <= rto2
    <3>. HIDE DEF rto2
    <3>. QED
      BY <2>2 DEF timer_start, TimerType
  <2>4. so2 \in Segs /\ AllAt(text, s, so2)
    <3>1. PICK P : Follows(text, s, q, P)
      BY <1>2 DEF Outstanding
    <3>2. AllAt(text, s, q)
      BY <3>1, FollowsAllAt
    <3>3. 1 \in 1 .. Len(q) /\ h = q[1] /\ h \in SegmentType(Byte)
      BY <1>1, <1>6 DEF Segs
    <3>4. PICK abs : At(text, s, h, abs)
      BY <3>2, <3>3 DEF AllAt
    <3>. HIDE DEF q, so, h
    <3>5. /\ so2 \in Segs /\ Len(so) \in Nat /\ Len(so2) = Len(so) + 1
          /\ so2[Len(so) + 1] = h /\ \A i \in 1 .. Len(so) : so2[i] = so[i]
      BY <3>3, <1>1 DEF Segs
    <3>. HIDE DEF so2
    <3>6. ASSUME NEW i \in 1 .. Len(so2) PROVE \E a : At(text, s, so2[i], a)
      <4>1. CASE i = Len(so) + 1
        BY <4>1, <3>4, <3>5
      <4>2. CASE i # Len(so) + 1
        <5>1. i \in 1 .. Len(so)
          BY <4>2, <3>5
        <5>. QED
          BY <5>1, <3>5, <1>2 DEF AllAt
      <4>. QED
        BY <4>1, <4>2
    <3>. QED
      BY <3>5, <3>6 DEF AllAt
  <2>. HIDE DEF so2, n2, rto2, tm
  <2>5. Stepped(text, s, timed(s, so2, n2, rto2, tm))
    BY <2>2, <2>3, <2>4, <1>1, <1>6, TimerStep
  <2>. QED
    BY <2>1, <2>5
<1>. QED
  BY <1>4, <1>5, <1>6

-----------------------------------------------------------------------------
(* A sender between two calls *)

\* A new sender.
LEMMA NewSender ==
    ASSUME NEW text \in OutStreams, NEW cap \in Nat, NEW isn \in WrappingInt32,
           NEW s, s = new_TCPSender(cap, RetxTimeout, isn)
    PROVE  /\ SenderOK(text, s) /\ WindowFull(s) /\ s.segments_out = << >> /\ s.isn = isn
           /\ s.next_seqno = 0 /\ s.last_ackno = 0 /\ s.stream.bytes_w = 0 /\ ~s.stream.end_input
<1>1. s = new_TCPSender(cap, RetxTimeout, isn)
  OBVIOUS
<1>2. RetxTimeout \in Nat /\ Len(text) \in Nat /\ 1 < Mod64
  BY Widths, TextSizes
<1>. DEFINE o == new_ByteStream(cap)
<1>3. /\ o \in ByteStreamType(Byte) /\ StreamOK(text, o)
      /\ o.bytes_r = 0 /\ o.bytes_w = 0 /\ o.buff = << >> /\ ~o.end_input
  BY <1>2 DEF new_ByteStream, ByteStreamType, StreamOK
<1>4. timer_stop \in TimerType /\ ~timer_stop.is_started /\ ~timer_stop.is_expired
      /\ timer_stop.remaining_time = 0
  BY DEF timer_stop, TimerType
<1>. HIDE DEF o
<1>5. << >> \in Segs
  BY DEF Segs
<1>6. /\ s.isn = isn /\ s.segments_out = << >> /\ s.outstanding_seg = << >>
      /\ s.initial_retransmission_timeout = RetxTimeout /\ s.stream = o
      /\ s.next_seqno = 0 /\ s.RTO = RetxTimeout /\ s.retransmission_count = 0
      /\ s.last_ackno = 0 /\ s.last_win = 1 /\ s.timer = timer_stop
  BY <1>1 DEF new_TCPSender, o
<1>7. s \in SenderType(Byte)
  <2>1. s \in Fields(WrappingInt32, Segs, ByteStreamType(Byte), TimerType)
    <3>. DEFINE W == WrappingInt32
                S == Segs
                B == ByteStreamType(Byte)
                T == TimerType
                tm == timer_stop
    <3>1. /\ isn \in W /\ << >> \in S /\ o \in B /\ tm \in T /\ RetxTimeout \in Nat
      BY <1>2, <1>3, <1>4, <1>5
    <3>2. s = new_TCPSender(cap, RetxTimeout, isn)
      BY <1>1
    <3>3. s = [isn |-> isn, segments_out |-> << >>,
                 initial_retransmission_timeout |-> RetxTimeout, stream |-> o,
                 next_seqno |-> 0, RTO |-> RetxTimeout, retransmission_count |-> 0,
                 last_ackno |-> 0, last_win |-> 1, timer |-> tm, outstanding_seg |-> << >>]
      BY <3>2 DEF new_TCPSender, o
    <3>. HIDE DEF W, S, B, T, tm
    <3>4. s \in Fields(W, S, B, T)
      BY ONLY <3>1, <3>3 DEF Fields
    <3>. QED
      BY <3>4 DEF W, S, B, T
  <2>. QED
    BY <2>1, SenderFields
<1>8. NumbersOK(s) /\ TimerOK(s) /\ AllAt(text, s, << >>) /\ WindowFull(s)
  <2>1. NumbersOK(s) /\ WindowFull(s)
    BY <1>2, <1>3, <1>6 DEF NumbersOK, WindowFull
  <2>2. TimerOK(s)
    <3>1. s.RTO = doubled[s.retransmission_count]
      BY <1>6, Doubled
    <3>2. s.timer.remaining_time <= s.RTO
      BY <1>2, <1>4, <1>6
    <3>. QED
      BY <3>1, <3>2, <1>4, <1>6 DEF TimerOK
  <2>. QED
    BY <2>1, <2>2 DEF AllAt
<1>9. Outstanding(text, s)
  <2>. DEFINE P == [k \in 1 .. 1 |-> 0]
  <2>1. Follows(text, s, << >>, P) /\ P[1] = 0
    BY DEF Follows
  <2>. HIDE DEF P
  <2>. QED
    BY <2>1, <1>6 DEF Outstanding, HoldsOldest
<1>. QED
  BY <1>3, <1>5, <1>6, <1>7, <1>8, <1>9 DEF SenderOK

\* The sender once TCPConnection has taken its segments.
emptied(s) == [s EXCEPT !.segments_out = << >>]

\* The fields of a sender whose queue has been taken.
LEMMA EmptiedFields ==
    ASSUME NEW s \in SenderType(Byte), NEW r, r = emptied(s)
    PROVE  /\ r \in SenderType(Byte) /\ r.stream = s.stream
           /\ r.isn = s.isn /\ r.next_seqno = s.next_seqno
           /\ r.segments_out = << >> /\ r.outstanding_seg = s.outstanding_seg
           /\ r.initial_retransmission_timeout = s.initial_retransmission_timeout
           /\ r.RTO = s.RTO /\ r.retransmission_count = s.retransmission_count
           /\ r.last_ackno = s.last_ackno /\ r.last_win = s.last_win /\ r.timer = s.timer
<1>1. << >> \in Segs
  BY DEF Segs
<1>. QED
  BY <1>1, SenderFields DEF Fields, emptied

\* Taking its queue keeps a sender, and what was taken stands in its place.
LEMMA EmptiedKeeps ==
    ASSUME NEW text \in OutStreams, NEW s, SenderOK(text, s), WindowFull(s), NEW r,
           r = emptied(s)
    PROVE  /\ SenderOK(text, r) /\ WindowFull(r) /\ r.segments_out = << >>
           /\ s.segments_out \in Segs /\ AllAt(text, r, s.segments_out)
           /\ r.isn = s.isn /\ r.next_seqno = s.next_seqno /\ r.last_ackno = s.last_ackno
           /\ in_window(r) = in_window(s)
<1>0. s \in SenderType(Byte) /\ Ready(text, s) /\ NumbersOK(s)
  BY DEF SenderOK, Ready
<1>1. /\ r \in SenderType(Byte) /\ r.stream = s.stream
      /\ r.isn = s.isn /\ r.next_seqno = s.next_seqno
      /\ r.segments_out = << >> /\ r.outstanding_seg = s.outstanding_seg
      /\ r.initial_retransmission_timeout = s.initial_retransmission_timeout
      /\ r.RTO = s.RTO /\ r.retransmission_count = s.retransmission_count
      /\ r.last_ackno = s.last_ackno /\ r.last_win = s.last_win /\ r.timer = s.timer
  BY <1>0, EmptiedFields
<1>2. /\ s.next_seqno \in Nat /\ s.stream.bytes_w \in Nat /\ s.outstanding_seg \in Segs
      /\ s.segments_out \in Segs
  BY <1>0 DEF SenderType, ByteStreamType, Segs
<1>3. Grows(s, r)
  BY <1>1, <1>2 DEF Grows
<1>4. StreamOK(text, r.stream) /\ NumbersOK(r) /\ TimerOK(r)
  BY <1>0, <1>1 DEF Ready, NumbersOK, TimerOK
<1>5. AllAt(text, r, s.segments_out)
  BY <1>0, <1>2, <1>3, AllAtKept DEF Ready
<1>6. AllAt(text, r, r.segments_out)
  BY <1>1 DEF AllAt
<1>7. Outstanding(text, r)
  <2>1. PICK P : /\ Follows(text, s, s.outstanding_seg, P)
                 /\ P[Len(s.outstanding_seg) + 1] = s.next_seqno
                 /\ NoRawWrap(text, s.isn) => HoldsOldest(s, P)
    BY <1>0 DEF Ready, Outstanding
  <2>2. Follows(text, r, r.outstanding_seg, P)
    BY <2>1, <1>1, <1>2, <1>3, FollowsKept
  <2>. QED
    BY <2>1, <2>2, <1>1 DEF Outstanding, HoldsOldest
<1>8. WindowFull(r) /\ in_window(r) = in_window(s)
  BY <1>1 DEF WindowFull, in_window
<1>. QED
  BY <1>1, <1>2, <1>4, <1>5, <1>6, <1>7, <1>8 DEF SenderOK

\* A segment in its place is what SegmentsInPlace says of it.
LEMMA PlaceOfSegment ==
    ASSUME NEW text \in OutStreams, NEW s, SenderOK(text, s), NEW seg \in SegmentType(Byte),
           NEW a, At(text, s, seg, a)
    PROVE  \E abs \in 0 .. s.next_seqno :
            /\ seg.seqno = wrap(abs, s.isn)
            /\ abs + length_in_sequence_space(seg) <= s.next_seqno
            /\ seg.syn <=> abs = 0
            /\ seg.payload = SubSeq(text, abs, abs + Len(seg.payload) - 1)
            /\ Len(seg.payload) <= MAX_PAYLOAD_SIZE
            /\ seg.fin <=> input_ended(s.stream) /\
                           abs + length_in_sequence_space(seg) = bytes_written(s.stream) + 2
<1>s. text \in Seq(Byte) /\ Len(text) \in Nat /\ Len(text) + 2 <= Half32
  BY TextSizes
<1>. DEFINE l == length_in_sequence_space(seg)
            p == seg.payload
            w == s.stream.bytes_w
<1>1. /\ l \in Nat /\ Len(p) \in Nat /\ Len(p) <= l /\ p \in Seq(Byte)
  BY SegmentLength DEF SegmentType
<1>2. s.next_seqno \in Nat /\ w \in Nat /\ w <= Len(text)
  BY SenderNumbers
<1>3. /\ a \in Nat /\ seg.seqno = wrap(a, s.isn) /\ 1 <= l /\ a + l <= s.next_seqno
      /\ (seg.syn <=> a = 0) /\ (seg.syn => p = << >> /\ ~seg.fin)
      /\ Len(p) <= MAX_PAYLOAD_SIZE
      /\ \A i \in 1 .. Len(p) : p[i] = text[a + i - 1]
      /\ seg.fin => s.stream.end_input /\ a + l = w + 2
      /\ ~seg.fin => a + l <= w + 1
  BY DEF At
<1>4. p = SubSeq(text, a, a + Len(p) - 1)
  <2>. DEFINE m == Len(p)
              e == a + m - 1
              q == SubSeq(text, a, e)
  <2>1. /\ text \in Seq(Byte) /\ m \in Nat /\ a \in Nat /\ Len(text) = Len(text)
        /\ e = a + m - 1 /\ e \in Int /\ Len(text) \in Nat
    BY <1>1, <1>3, <1>s, Widths
  <2>2. m <= l /\ l \in Nat /\ a + l <= w + 2 /\ (a + l = w + 2 => m < l)
    <3>1. a + l <= w + 2 /\ (a + l = w + 2 => seg.fin)
      <4>. HIDE DEF l, w
      <4>. QED
        BY <1>1, <1>2, <1>3
    <3>2. seg.fin => m < l
      <4>. DEFINE fs == flag(seg.syn)
                  ff == flag(seg.fin)
      <4>1. fs \in Nat /\ (seg.fin => ff = 1)
        BY DEF flag
      <4>2. l = m + fs + ff
        BY DEF length_in_sequence_space
      <4>. HIDE DEF fs, ff, l, m
      <4>. QED
        BY <4>1, <4>2, <2>1
    <3>. QED
      BY <3>1, <3>2, <1>1
  <2>3. CASE m = 0
    <3>1. e < a /\ a \in Int
      BY <2>3, <2>1
    <3>2. q = << >>
      <4>. HIDE DEF e
      <4>. QED
        BY <3>1, <2>1, SubSeqEmpty
    <3>3. p = << >>
      BY <2>3, <1>1
    <3>. QED
      BY <3>2, <3>3
  <2>4. CASE m # 0
    <3>1. a # 0
      BY <2>4, <1>3
    <3>2. a \in 1 .. (Len(text) + 1) /\ e \in a .. Len(text) /\ e - a + 1 = m
      <4>. HIDE DEF l, w, m, e
      <4>. QED
        BY ONLY <3>1, <2>1, <2>2, <2>4, <1>2
    <3>3. /\ q \in Seq(Byte) /\ Len(q) = m
          /\ \A i \in 1 .. m : q[i] = text[a + i - 1]
      <4>1. a \in Int /\ e \in Int /\ a <= e /\ \A i \in a .. e : text[i] \in Byte
        BY <3>2, <2>1
      <4>. HIDE DEF m, e
      <4>. QED
        BY <4>1, <3>2, SubSeqProperties
    <3>4. Len(q) = Len(p) /\ \A i \in 1 .. Len(p) : q[i] = p[i]
      BY <3>3, <1>3
    <3>. HIDE DEF q
    <3>5. q = p
      BY <3>3, <3>4, <1>1
    <3>. QED
      BY <3>5 DEF q
  <2>. QED
    BY <2>3, <2>4
<1>5. seg.fin <=> s.stream.end_input /\ a + l = w + 2
  <2>. HIDE DEF l, w
  <2>. QED
    BY <1>1, <1>2, <1>3
<1>6. a \in 0 .. s.next_seqno
  BY <1>1, <1>2, <1>3
<1>. QED
  BY <1>3, <1>4, <1>5, <1>6 DEF input_ended, bytes_written

-----------------------------------------------------------------------------
(* The sender inside a connection *)

\* A segment made by s, wherever it is by now: it carries nothing, or a piece of the stream
\* at the number of its place that s has sent already.
OnWay(text, s, seg) ==
    \/ Bare(seg)
    \/ \E abs : /\ PeerSegment(text, seg, abs, s.isn)
                /\ abs + length_in_sequence_space(seg) <= s.next_seqno

\* The segments waiting in a sender; only the connection says what is acknowledged.
QueueOK(text, s, q) ==
    q \in Segs /\ \A i \in 1 .. Len(q) : ~q[i].ack /\ OnWay(text, s, q[i])

\* The application ends the stream when it has written all of it.
Working(text, s) ==
    /\ SenderOK(text, s) /\ WindowFull(s)
    /\ s.stream.end_input => s.stream.bytes_w = Len(text)

\* A connection that has been reset can leave segments in its sender, one that carries
\* nothing among them.
Idle(text, s) ==
    /\ s \in SenderType(Byte) /\ Working(text, emptied(s))
    /\ QueueOK(text, s, s.segments_out)

\* A segment stays on its way whatever the sender does next.
LEMMA OnWayKept ==
    ASSUME NEW text, NEW s, NEW r, Grows(s, r), NEW seg \in SegmentType(Byte), OnWay(text, s, seg)
    PROVE  OnWay(text, r, seg)
<1>1. CASE Bare(seg)
  BY <1>1 DEF OnWay
<1>2. CASE ~Bare(seg)
  <2>1. PICK abs : /\ PeerSegment(text, seg, abs, s.isn)
                   /\ abs + length_in_sequence_space(seg) <= s.next_seqno
    BY <1>2 DEF OnWay
  <2>2. abs \in Nat /\ length_in_sequence_space(seg) \in Nat
    BY <2>1, SegmentLength DEF PeerSegment
  <2>3. /\ r.isn = s.isn /\ s.next_seqno \in Nat /\ r.next_seqno \in Nat
        /\ s.next_seqno <= r.next_seqno
    BY DEF Grows
  <2>4. abs + length_in_sequence_space(seg) <= r.next_seqno
    <3>. DEFINE l == length_in_sequence_space(seg)
    <3>. HIDE DEF l
    <3>. QED
      BY <2>1, <2>2, <2>3 DEF l
  <2>5. PeerSegment(text, seg, abs, r.isn)
    BY <2>1, <2>3
  <2>. QED
    BY <2>4, <2>5 DEF OnWay
<1>. QED
  BY <1>1, <1>2

\* What waits in a queue stays of the stream when the sender goes on.
LEMMA QueueKept ==
    ASSUME NEW text, NEW s, NEW r, Grows(s, r), NEW q, QueueOK(text, s, q)
    PROVE  QueueOK(text, r, q)
<1>1. q \in Segs /\ \A i \in 1 .. Len(q) : q[i] \in SegmentType(Byte)
  BY ElementOfSeq DEF QueueOK, Segs
<1>2. \A i \in 1 .. Len(q) : OnWay(text, r, q[i])
  <2>. SUFFICES ASSUME NEW i \in 1 .. Len(q)
                PROVE  OnWay(text, r, q[i])
    OBVIOUS
  <2>1. q[i] \in SegmentType(Byte) /\ OnWay(text, s, q[i])
    BY <1>1 DEF QueueOK
  <2>. QED
    BY <2>1, OnWayKept
<1>. QED
  BY <1>1, <1>2 DEF QueueOK

\* Growing twice is growing.
LEMMA GrowsOn ==
    ASSUME NEW s, NEW t, NEW r, Grows(s, t), Grows(t, r)
    PROVE  Grows(s, r)
  BY DEF Grows

\* Two queues of such segments make one.
LEMMA QueueJoined ==
    ASSUME NEW text, NEW s, NEW q, NEW p, QueueOK(text, s, q), QueueOK(text, s, p)
    PROVE  QueueOK(text, s, q \o p)
<1>1. q \in Segs /\ p \in Segs
  BY DEF QueueOK
<1>2. /\ q \o p \in Segs /\ Len(q \o p) = Len(q) + Len(p) /\ Len(q) \in Nat /\ Len(p) \in Nat
      /\ \A i \in 1 .. Len(q) : (q \o p)[i] = q[i]
      /\ \A i \in 1 .. Len(p) : (q \o p)[Len(q) + i] = p[i]
  BY <1>1, Concatenated, LenProperties DEF Segs
<1>3. ASSUME NEW i \in 1 .. Len(q \o p)
      PROVE  ~(q \o p)[i].ack /\ OnWay(text, s, (q \o p)[i])
  <2>1. CASE i <= Len(q)
    <3>1. i \in 1 .. Len(q) /\ (q \o p)[i] = q[i]
      BY <2>1, <1>2
    <3>. QED
      BY <3>1 DEF QueueOK
  <2>2. CASE ~(i <= Len(q))
    <3>1. i - Len(q) \in 1 .. Len(p) /\ Len(q) + (i - Len(q)) = i
      BY <2>2, <1>2
    <3>2. (q \o p)[i] = p[i - Len(q)]
      BY <3>1, <1>2
    <3>. QED
      BY <3>1, <3>2 DEF QueueOK
  <2>. QED
    BY <2>1, <2>2
<1>. QED
  BY <1>2, <1>3 DEF QueueOK

\* A segment in its place is on its way.
LEMMA AtOnWay ==
    ASSUME NEW text \in OutStreams, NEW s, Working(text, s), NEW seg \in SegmentType(Byte),
           NEW a, At(text, s, seg, a)
    PROVE  OnWay(text, s, seg) /\ ~seg.ack
<1>s. text \in Seq(Byte) /\ Len(text) \in Nat /\ Len(text) + 2 <= Half32
  BY TextSizes
<1>0. SenderOK(text, s) /\ (s.stream.end_input => s.stream.bytes_w = Len(text))
  BY DEF Working
<1>. DEFINE l == length_in_sequence_space(seg)
            n == Len(seg.payload)
            w == s.stream.bytes_w
            nx == s.next_seqno
<1>1. PICK abs \in 0 .. nx :
            /\ seg.seqno = wrap(abs, s.isn) /\ abs + l <= nx
            /\ seg.syn <=> abs = 0
            /\ seg.payload = SubSeq(text, abs, abs + n - 1)
            /\ seg.fin <=> s.stream.end_input /\ abs + l = w + 2
  BY <1>0, PlaceOfSegment DEF input_ended, bytes_written
<1>2. /\ nx \in Nat /\ w \in Nat /\ w <= Len(text) /\ nx <= w + 2
      /\ s.stream.bytes_r \in Nat /\ Len(s.stream.buff) \in Nat
      /\ s.stream.bytes_r + Len(s.stream.buff) = w
  BY <1>0, SenderNumbers
<1>3. nx = w + 2 => s.stream.end_input
  <2>1. \/ nx = 0 /\ s.stream.bytes_r = 0
        \/ nx = s.stream.bytes_r + 1
        \/ nx = s.stream.bytes_r + 2 /\ s.stream.end_input
    BY <1>0 DEF SenderOK, NumbersOK
  <2>. DEFINE br == s.stream.bytes_r
              lb == Len(s.stream.buff)
  <2>. HIDE DEF nx, w, br, lb
  <2>. QED
    BY <2>1, <1>2 DEF br, lb
<1>4. l \in Nat /\ n \in Nat /\ l = n + flag(seg.syn) + flag(seg.fin)
  BY SegmentLength DEF length_in_sequence_space
<1>5. seg.syn => seg.payload = << >> /\ ~seg.fin
  BY DEF At
<1>6. /\ flag(seg.syn) \in Nat /\ (seg.syn => flag(seg.syn) = 1) /\ (~seg.syn => flag(seg.syn) = 0)
      /\ flag(seg.fin) \in Nat /\ (seg.fin => flag(seg.fin) = 1) /\ (~seg.fin => flag(seg.fin) = 0)
  BY DEF flag
<1>7. abs # 0 => abs - 1 + n <= Len(text) /\ (seg.fin => abs - 1 + n = Len(text))
  <2>. DEFINE fs == flag(seg.syn)
              ff == flag(seg.fin)
              len == Len(text)
  <2>1. w \in Nat /\ n \in Nat /\ fs \in Nat /\ abs \in Nat /\ len \in Nat /\ w <= len
    BY <1>1, <1>2, <1>4, <1>6, <1>s
  <2>2. CASE seg.fin
    <3>1. abs + (n + fs + 1) = w + 2 /\ w = len /\ fs \in Nat /\ (abs # 0 => fs = 0)
      BY <2>2, <1>0, <1>1, <1>4, <1>6
    <3>. HIDE DEF n, w, fs, len
    <3>. QED
      BY <3>1, <2>1 DEF len
  <2>3. CASE ~seg.fin
    <3>1. abs + (n + fs + 0) <= nx /\ (abs + (n + fs + 0) = w + 2 => ~s.stream.end_input)
      BY <2>3, <1>1, <1>4, <1>6
    <3>. HIDE DEF n, w, fs, len, nx
    <3>2. abs + (n + fs + 0) <= w + 1
      BY <3>1, <2>1, <1>2, <1>3
    <3>. QED
      BY <3>2, <2>1, <2>3 DEF len
  <2>. QED
    BY <2>2, <2>3
<1>8. seg.payload = SubSeq(text, abs, abs - 1 + n)
  <2>1. abs + n - 1 = abs - 1 + n
    BY <1>4
  <2>. QED
    BY <2>1, <1>1
<1>9. PeerSegment(text, seg, abs, s.isn)
  BY <1>1, <1>2, <1>5, <1>7, <1>8 DEF PeerSegment
<1>10. ~seg.ack
  BY DEF At
<1>. QED
  BY <1>1, <1>9, <1>10 DEF OnWay

\* Segments in their places are such a queue.
LEMMA QueueAt ==
    ASSUME NEW text \in OutStreams, NEW s, Working(text, s), NEW q \in Segs, AllAt(text, s, q)
    PROVE  QueueOK(text, s, q)
<1>1. ASSUME NEW i \in 1 .. Len(q)
      PROVE  ~q[i].ack /\ OnWay(text, s, q[i])
  <2>1. q[i] \in SegmentType(Byte)
    BY ElementOfSeq DEF Segs
  <2>2. PICK a : At(text, s, q[i], a)
    BY DEF AllAt
  <2>. QED
    BY <2>1, <2>2, AtOnWay
<1>. QED
  BY <1>1 DEF QueueOK

\* Records of eleven fields that agree in each of them are equal.
LEMMA SameSender ==
    ASSUME NEW s \in SenderType(Byte), NEW r \in SenderType(Byte),
           r.stream = s.stream, r.isn = s.isn, r.next_seqno = s.next_seqno,
           r.segments_out = s.segments_out, r.outstanding_seg = s.outstanding_seg,
           r.initial_retransmission_timeout = s.initial_retransmission_timeout,
           r.RTO = s.RTO, r.retransmission_count = s.retransmission_count,
           r.last_ackno = s.last_ackno, r.last_win = s.last_win, r.timer = s.timer
    PROVE  r = s
  BY SenderFields DEF Fields

\* The sender with another queue.
requeued(s, q) == [s EXCEPT !.segments_out = q]

\* The fields of a sender given another queue.
LEMMA RequeuedFields ==
    ASSUME NEW s \in SenderType(Byte), NEW q \in Segs, NEW r, r = requeued(s, q)
    PROVE  /\ r \in SenderType(Byte) /\ r.stream = s.stream
           /\ r.isn = s.isn /\ r.next_seqno = s.next_seqno
           /\ r.segments_out = q /\ r.outstanding_seg = s.outstanding_seg
           /\ r.initial_retransmission_timeout = s.initial_retransmission_timeout
           /\ r.RTO = s.RTO /\ r.retransmission_count = s.retransmission_count
           /\ r.last_ackno = s.last_ackno /\ r.last_win = s.last_win /\ r.timer = s.timer
           /\ emptied(r) = emptied(s)
<1>1. /\ r \in SenderType(Byte) /\ r.stream = s.stream
      /\ r.isn = s.isn /\ r.next_seqno = s.next_seqno
      /\ r.segments_out = q /\ r.outstanding_seg = s.outstanding_seg
      /\ r.initial_retransmission_timeout = s.initial_retransmission_timeout
      /\ r.RTO = s.RTO /\ r.retransmission_count = s.retransmission_count
      /\ r.last_ackno = s.last_ackno /\ r.last_win = s.last_win /\ r.timer = s.timer
  BY SenderFields DEF Fields, requeued
<1>2. emptied(r) = emptied(s)
  <2>. HIDE DEF emptied
  <2>. DEFINE a == emptied(r)
              b == emptied(s)
  <2>1. /\ b \in SenderType(Byte) /\ b.stream = s.stream
        /\ b.isn = s.isn /\ b.next_seqno = s.next_seqno
        /\ b.segments_out = << >> /\ b.outstanding_seg = s.outstanding_seg
        /\ b.initial_retransmission_timeout = s.initial_retransmission_timeout
        /\ b.RTO = s.RTO /\ b.retransmission_count = s.retransmission_count
        /\ b.last_ackno = s.last_ackno /\ b.last_win = s.last_win /\ b.timer = s.timer
    BY EmptiedFields
  <2>2. /\ a \in SenderType(Byte) /\ a.stream = r.stream
        /\ a.isn = r.isn /\ a.next_seqno = r.next_seqno
        /\ a.segments_out = << >> /\ a.outstanding_seg = r.outstanding_seg
        /\ a.initial_retransmission_timeout = r.initial_retransmission_timeout
        /\ a.RTO = r.RTO /\ a.retransmission_count = r.retransmission_count
        /\ a.last_ackno = r.last_ackno /\ a.last_win = r.last_win /\ a.timer = r.timer
    BY <1>1, EmptiedFields
  <2>. HIDE DEF a, b
  <2>3. a = b
    BY <1>1, <2>1, <2>2, SameSender
  <2>. QED
    BY <2>3 DEF a, b
<1>. QED
  BY <1>1, <1>2

\* What was queued before a segment is sent stays in front of it.
LEMMA SendBehind ==
    ASSUME NEW s \in SenderType(Byte), NEW segs, << >> \o segs = segs, NEW len
    PROVE  send_segments(s, segs, len) =
              [send_segments(emptied(s), segs, len) EXCEPT !.segments_out = s.segments_out \o @]
<1>. DEFINE n == s.next_seqno + len
            p == s.outstanding_seg \o segs
            tm == IF s.timer.is_started \/ segs = << >> THEN s.timer ELSE timer_start(s.RTO)
            b == s.segments_out \o segs
            t == emptied(s)
            u == [t EXCEPT !.next_seqno = n, !.segments_out = segs, !.outstanding_seg = p,
                           !.timer = tm]
<1>0. /\ t.stream = s.stream /\ t.isn = s.isn /\ t.next_seqno = s.next_seqno
      /\ t.segments_out = << >> /\ t.outstanding_seg = s.outstanding_seg
      /\ t.RTO = s.RTO /\ t.timer = s.timer /\ t \in SenderType(Byte)
  BY EmptiedFields
<1>1. send_segments(s, segs, len) =
        [s EXCEPT !.next_seqno = n, !.segments_out = b, !.outstanding_seg = p, !.timer = tm]
  BY SenderFields DEF Fields, send_segments
<1>2. send_segments(t, segs, len) = u
  <2>. HIDE DEF t
  <2>. QED
    BY <1>0, SenderFields DEF Fields, send_segments
<1>. HIDE DEF n, p, tm
<1>3. u.segments_out = segs /\ [u EXCEPT !.segments_out = s.segments_out \o @] = [u EXCEPT !.segments_out = b]
  <2>. HIDE DEF t
  <2>. QED
    BY <1>0, SenderFields DEF Fields
<1>4. [s EXCEPT !.next_seqno = n, !.segments_out = b, !.outstanding_seg = p, !.timer = tm]
        = [u EXCEPT !.segments_out = b]
  <2>. HIDE DEF b
  <2>. QED
    BY SenderFields DEF Fields, emptied
<1>. HIDE DEF u, t, b
<1>. QED
  BY <1>1, <1>2, <1>3, <1>4 DEF t

\* The empty sequence in front of a sequence.
LEMMA NothingBefore ==
    ASSUME NEW n \in Nat, NEW q, q = [k \in 1 .. n |-> q[k]]
    PROVE  << >> \o q = q
<1>. DEFINE S == {q[k] : k \in 1 .. n}
<1>1. q \in [1 .. n -> S]
  OBVIOUS
<1>2. q \in Seq(S)
  BY <1>1, IsASeq
<1>. HIDE DEF S
<1>. QED
  BY <1>2, ConcatEmptySeq

\* pop_output keeps the type, what was written and the flags.
LEMMA PopType ==
    ASSUME NEW o \in ByteStreamType(Byte), NEW len \in Nat
    PROVE  LET p == pop_output(o, len)
           IN  /\ p \in ByteStreamType(Byte) /\ p.bytes_w = o.bytes_w
               /\ p.end_input = o.end_input /\ p.error = o.error
<1>. DEFINE n == min(len, Len(o.buff))
            b == SubSeq(o.buff, n + 1, Len(o.buff))
<1>1. o.buff \in Seq(Byte) /\ Len(o.buff) \in Nat /\ o.bytes_r \in Nat
  BY DEF ByteStreamType
<1>2. n \in Nat /\ n <= Len(o.buff)
  BY <1>1 DEF min
<1>3. b \in Seq(Byte)
  BY <1>1, <1>2
<1>4. pop_output(o, len) = [o EXCEPT !.bytes_r = o.bytes_r + n, !.buff = b]
  BY DEF pop_output, ByteStreamType
<1>5. o.bytes_r + n \in Nat
  BY <1>1, <1>2
<1>. HIDE DEF n, b
<1>. QED
  BY <1>3, <1>4, <1>5 DEF ByteStreamType

\* fill_window does not look at the queue it adds to.
LEMMA FillBehind ==
    ASSUME NEW s \in SenderType(Byte), NEW t, t = emptied(s), NEW r, r = fill_window(t)
    PROVE  fill_window(s) = requeued(r, s.segments_out \o r.segments_out)
<1>. SUFFICES fill_window(s) = [r EXCEPT !.segments_out = s.segments_out \o @]
  BY DEF requeued
<1>. DEFINE syn == [new_TCPSegment EXCEPT !.seqno = wrap(s.next_seqno, s.isn), !.syn = TRUE]
            fin == [new_TCPSegment EXCEPT !.seqno = wrap(s.next_seqno, s.isn), !.fin = TRUE]
            rw == U64(cur_win(s) - bytes_in_flight(s))
            len == min(buffer_size(s.stream), rw)
            is_fin == fin_fits(s, len, rw)
            u == [s EXCEPT !.stream = pop_output(@, len)]
            segs == cut_segments(s, len, is_fin)
<1>0. /\ t.stream = s.stream /\ t.isn = s.isn /\ t.next_seqno = s.next_seqno
      /\ t.last_ackno = s.last_ackno /\ t.last_win = s.last_win /\ t.segments_out = << >>
      /\ t \in SenderType(Byte)
  BY EmptiedFields
<1>t. /\ rw = U64(cur_win(t) - bytes_in_flight(t)) /\ len = min(buffer_size(t.stream), rw)
      /\ is_fin = fin_fits(t, len, rw) /\ segs = cut_segments(t, len, is_fin)
      /\ bytes_in_flight(t) = bytes_in_flight(s)
  BY <1>0 DEF cur_win, bytes_in_flight, fin_fits, cut_segments
<1>n. len \in Nat /\ s.stream \in ByteStreamType(Byte)
  <2>1. rw \in Nat
    <3>1. cur_win(s) \in Int /\ bytes_in_flight(s) \in Int
      BY SenderFields DEF Fields, cur_win, bytes_in_flight
    <3>. QED
      BY <3>1, Moduli, ModDecomposed DEF U64
  <2>2. Len(s.stream.buff) \in Nat /\ s.stream \in ByteStreamType(Byte)
    <3>1. s.stream \in ByteStreamType(Byte)
      BY SenderFields DEF Fields
    <3>2. s.stream.buff \in Seq(Byte)
      BY <3>1 DEF ByteStreamType
    <3>. QED
      BY <3>1, <3>2
  <2>. QED
    BY <2>1, <2>2 DEF min, buffer_size
<1>1. CASE s.next_seqno = 0
  <2>1. fill_window(s) = send_segments(s, << syn >>, 1)
    BY <1>1 DEF fill_window
  <2>2. r = send_segments(t, << syn >>, 1)
    BY <1>1, <1>0 DEF fill_window
  <2>. HIDE DEF syn
  <2>3. << >> \o << syn >> = << syn >>
    OBVIOUS
  <2>4. send_segments(s, << syn >>, 1) =
           [send_segments(emptied(s), << syn >>, 1) EXCEPT !.segments_out = s.segments_out \o @]
    BY <2>3, SendBehind
  <2>. QED
    BY <2>1, <2>2, <2>4
<1>2. CASE s.next_seqno # 0 /\ (s.next_seqno = bytes_in_flight(s) \/ rw = 0)
  <2>1. fill_window(s) = s
    BY <1>2 DEF fill_window
  <2>2. r = t
    BY <1>2, <1>0, <1>t DEF fill_window
  <2>3. s.segments_out \in Segs
    BY SenderFields DEF Fields
  <2>4. s.segments_out \o << >> = s.segments_out
    BY <2>3, ConcatEmptySeq DEF Segs
  <2>5. s = [t EXCEPT !.segments_out = s.segments_out \o @]
    BY <2>4, SenderFields DEF Fields, emptied
  <2>. QED
    BY <2>1, <2>2, <2>5
<1>3. CASE /\ s.next_seqno # 0 /\ ~(s.next_seqno = bytes_in_flight(s) \/ rw = 0)
           /\ eof(s.stream)
  <2>1. CASE s.next_seqno < bytes_written(s.stream) + 2
    <3>1. fill_window(s) = send_segments(s, << fin >>, 1)
      BY <1>3, <2>1 DEF fill_window
    <3>2. r = send_segments(t, << fin >>, 1)
      BY <1>3, <1>0, <1>t, <2>1 DEF fill_window
    <3>. HIDE DEF fin
    <3>3. << >> \o << fin >> = << fin >>
      OBVIOUS
    <3>4. send_segments(s, << fin >>, 1) =
             [send_segments(emptied(s), << fin >>, 1) EXCEPT !.segments_out = s.segments_out \o @]
      BY <3>3, SendBehind
    <3>. QED
      BY <3>1, <3>2, <3>4
  <2>2. CASE ~(s.next_seqno < bytes_written(s.stream) + 2)
    <3>1. fill_window(s) = s
      BY <1>3, <2>2 DEF fill_window
    <3>2. r = t
      BY <1>3, <1>0, <1>t, <2>2 DEF fill_window
    <3>3. s.segments_out \in Segs
      BY SenderFields DEF Fields
    <3>4. s.segments_out \o << >> = s.segments_out
      BY <3>3, ConcatEmptySeq DEF Segs
    <3>5. s = [t EXCEPT !.segments_out = s.segments_out \o @]
      BY <3>4, SenderFields DEF Fields, emptied
    <3>. QED
      BY <3>1, <3>2, <3>5
  <2>. QED
    BY <2>1, <2>2
<1>4. CASE /\ s.next_seqno # 0 /\ ~(s.next_seqno = bytes_in_flight(s) \/ rw = 0)
           /\ ~eof(s.stream)
  <2>. DEFINE m == len + flag(is_fin)
  <2>1. fill_window(s) = send_segments(u, segs, m)
    BY <1>4 DEF fill_window
  <2>2. r = send_segments([t EXCEPT !.stream = pop_output(@, len)], segs, m)
    BY <1>4, <1>0, <1>t DEF fill_window
  <2>3. [t EXCEPT !.stream = pop_output(@, len)] = emptied(u)
    <3>. DEFINE o == pop_output(s.stream, len)
    <3>1. u = [s EXCEPT !.stream = o] /\ [t EXCEPT !.stream = pop_output(@, len)] = [t EXCEPT !.stream = o]
      BY <1>0, SenderFields DEF Fields
    <3>. HIDE DEF o, u
    <3>. QED
      BY <3>1, SenderFields DEF Fields, emptied
  <2>4. u \in SenderType(Byte) /\ u.segments_out = s.segments_out
    <3>1. pop_output(s.stream, len) \in ByteStreamType(Byte)
      BY <1>n, PopType
    <3>. HIDE DEF len
    <3>. QED
      BY <3>1, StreamFields, SenderFields DEF Fields
  <2>5. << >> \o segs = segs
    <3>. DEFINE count == (len + MAX_PAYLOAD_SIZE - 1) \div MAX_PAYLOAD_SIZE
    <3>1. len \in Nat
      BY <1>n
    <3>2. count \in Nat
      BY <3>1, PayloadAssumption
    <3>. HIDE DEF len, is_fin
    <3>3. segs = [k \in 1 .. count |-> segs[k]]
      BY DEF cut_segments
    <3>. HIDE DEF segs, count
    <3>. QED
      BY <3>2, <3>3, NothingBefore
  <2>. HIDE DEF u, segs, m
  <2>6. send_segments(u, segs, m) =
           [send_segments(emptied(u), segs, m) EXCEPT !.segments_out = u.segments_out \o @]
    BY <2>4, <2>5, SendBehind, ZenonT(40)
  <2>. QED
    BY <2>1, <2>2, <2>3, <2>4, <2>6
<1>. QED
  BY <1>1, <1>2, <1>3, <1>4

\* fill_window takes bytes from the stream, and does nothing else to it.
LEMMA FillStream ==
    ASSUME NEW s \in SenderType(Byte), NEW r, r = fill_window(s)
    PROVE  /\ r.last_ackno = s.last_ackno /\ r.stream.bytes_w = s.stream.bytes_w
           /\ r.stream.end_input = s.stream.end_input
<1>. DEFINE rw == U64(cur_win(s) - bytes_in_flight(s))
            len == min(buffer_size(s.stream), rw)
            o == pop_output(s.stream, len)
            u == [s EXCEPT !.stream = o]
<1>1. ASSUME NEW a \in SenderType(Byte), NEW segs, NEW n
      PROVE  /\ send_segments(a, segs, n).stream = a.stream
             /\ send_segments(a, segs, n).last_ackno = a.last_ackno
  BY SenderFields DEF Fields, send_segments
<1>2. len \in Nat /\ s.stream \in ByteStreamType(Byte)
  <2>1. rw \in Nat
    <3>1. cur_win(s) \in Int /\ bytes_in_flight(s) \in Int
      BY SenderFields DEF Fields, cur_win, bytes_in_flight
    <3>. QED
      BY <3>1, Moduli, ModDecomposed DEF U64
  <2>2. Len(s.stream.buff) \in Nat /\ s.stream \in ByteStreamType(Byte)
    <3>1. s.stream \in ByteStreamType(Byte)
      BY SenderFields DEF Fields
    <3>2. s.stream.buff \in Seq(Byte)
      BY <3>1 DEF ByteStreamType
    <3>. QED
      BY <3>1, <3>2
  <2>. QED
    BY <2>1, <2>2 DEF min, buffer_size
<1>3. /\ o \in ByteStreamType(Byte) /\ o.bytes_w = s.stream.bytes_w
      /\ o.end_input = s.stream.end_input
  <2>. HIDE DEF len
  <2>. QED
    BY <1>2, PopType
<1>4. u \in SenderType(Byte) /\ u.stream = o /\ u.last_ackno = s.last_ackno
  <2>. HIDE DEF o
  <2>. QED
    BY <1>3, StreamFields
<1>5. \/ r = s
      \/ \E segs, n : r = send_segments(s, segs, n)
      \/ \E segs, n : r = send_segments(u, segs, n)
  <2>1. u = [s EXCEPT !.stream = pop_output(@, len)]
    OBVIOUS
  <2>. HIDE DEF u
  <2>. QED
    BY <2>1, Zenon DEF fill_window
<1>. HIDE DEF u, o
<1>. QED
  BY <1>1, <1>3, <1>4, <1>5

\* A sender that differs from a working one in its queue.
LEMMA IdleLike ==
    ASSUME NEW text \in OutStreams, NEW u, Working(text, u), NEW q, QueueOK(text, u, q),
           NEW r, r = requeued(u, q)
    PROVE  /\ Idle(text, r) /\ Grows(u, r) /\ r.segments_out = q /\ r.stream = u.stream
           /\ r.last_ackno = u.last_ackno /\ r.next_seqno = u.next_seqno
<1>0. /\ u \in SenderType(Byte) /\ SenderOK(text, u) /\ WindowFull(u) /\ q \in Segs
      /\ u.stream.end_input => u.stream.bytes_w = Len(text)
  BY DEF Working, SenderOK, QueueOK
<1>1. /\ r \in SenderType(Byte) /\ r.stream = u.stream
      /\ r.isn = u.isn /\ r.next_seqno = u.next_seqno
      /\ r.segments_out = q /\ r.last_ackno = u.last_ackno /\ emptied(r) = emptied(u)
  BY <1>0, RequeuedFields
<1>2. Grows(u, r)
  <2>1. u.next_seqno \in Nat /\ u.stream.bytes_w \in Nat
    BY <1>0, SenderNumbers
  <2>. QED
    BY <1>1, <2>1 DEF Grows
<1>3. Working(text, emptied(u))
  <2>1. SenderOK(text, emptied(u)) /\ WindowFull(emptied(u))
    BY <1>0, EmptiedKeeps
  <2>2. emptied(u).stream = u.stream
    BY <1>0, EmptiedFields
  <2>. QED
    BY <1>0, <2>1, <2>2 DEF Working
<1>4. QueueOK(text, r, r.segments_out)
  BY <1>1, <1>2, QueueKept
<1>. QED
  BY <1>1, <1>2, <1>3, <1>4 DEF Idle

\* A working sender is idle with the queue it has, and an idle one with an empty queue works.
LEMMA WorkingIdle ==
    ASSUME NEW text \in OutStreams, NEW u, Working(text, u)
    PROVE  Idle(text, u)
<1>0. u \in SenderType(Byte) /\ u.segments_out \in Segs /\ AllAt(text, u, u.segments_out)
  BY SenderFields DEF Working, SenderOK, Fields
<1>1. QueueOK(text, u, u.segments_out)
  BY <1>0, QueueAt
<1>2. requeued(u, u.segments_out) = u
  BY <1>0, SenderFields DEF Fields, requeued
<1>. QED
  BY <1>1, <1>2, IdleLike

\* The facts of an idle sender, as those of the working one it is with its queue emptied.
LEMMA IdleFacts ==
    ASSUME NEW text \in OutStreams, NEW s, Idle(text, s), NEW u, u = emptied(s)
    PROVE  /\ Working(text, u) /\ SenderOK(text, u) /\ u \in SenderType(Byte)
           /\ u.stream = s.stream /\ u.isn = s.isn /\ u.next_seqno = s.next_seqno
           /\ u.last_ackno = s.last_ackno /\ u.segments_out = << >>
           /\ Grows(s, u) /\ Grows(u, s) /\ QueueOK(text, u, s.segments_out)
           /\ s = requeued(u, s.segments_out)
           /\ s.segments_out = << >> => u = s
<1>0. s \in SenderType(Byte) /\ Working(text, u) /\ QueueOK(text, s, s.segments_out)
  BY DEF Idle
<1>1. /\ u \in SenderType(Byte) /\ u.stream = s.stream
      /\ u.isn = s.isn /\ u.next_seqno = s.next_seqno
      /\ u.segments_out = << >> /\ u.last_ackno = s.last_ackno
  BY <1>0, EmptiedFields
<1>2. SenderOK(text, u)
  BY <1>0 DEF Working
<1>3. u.next_seqno \in Nat /\ u.stream.bytes_w \in Nat
  BY <1>2, SenderNumbers
<1>4. Grows(s, u) /\ Grows(u, s)
  BY <1>1, <1>3 DEF Grows
<1>5. QueueOK(text, u, s.segments_out)
  BY <1>0, <1>4, QueueKept
<1>6. s = requeued(u, s.segments_out)
  <2>. DEFINE q == s.segments_out
              r == requeued(u, q)
  <2>1. q \in Segs
    BY <1>0 DEF QueueOK
  <2>2. /\ r \in SenderType(Byte) /\ r.stream = u.stream
        /\ r.isn = u.isn /\ r.next_seqno = u.next_seqno
        /\ r.segments_out = q /\ r.outstanding_seg = u.outstanding_seg
        /\ r.initial_retransmission_timeout = u.initial_retransmission_timeout
        /\ r.RTO = u.RTO /\ r.retransmission_count = u.retransmission_count
        /\ r.last_ackno = u.last_ackno /\ r.last_win = u.last_win /\ r.timer = u.timer
    BY <1>1, <2>1, RequeuedFields
  <2>3. /\ u.outstanding_seg = s.outstanding_seg
        /\ u.initial_retransmission_timeout = s.initial_retransmission_timeout
        /\ u.RTO = s.RTO /\ u.retransmission_count = s.retransmission_count
        /\ u.last_win = s.last_win /\ u.timer = s.timer
    BY <1>0, EmptiedFields
  <2>. HIDE DEF r
  <2>4. r = s
    BY <1>0, <1>1, <2>2, <2>3, SameSender
  <2>. QED
    BY <2>4 DEF r
<1>7. s.segments_out = << >> => u = s
  BY <1>0, SenderFields DEF Fields, emptied
<1>. QED
  BY <1>0, <1>1, <1>2, <1>4, <1>5, <1>6, <1>7

\* Another queue, if it is one the sender can have.
LEMMA Requeued ==
    ASSUME NEW text \in OutStreams, NEW s, Idle(text, s), NEW q, QueueOK(text, s, q),
           NEW r, r = requeued(s, q)
    PROVE  /\ Idle(text, r) /\ Grows(s, r) /\ r.segments_out = q /\ r.stream = s.stream
           /\ r.last_ackno = s.last_ackno /\ r.next_seqno = s.next_seqno
<1>. DEFINE u == emptied(s)
<1>1. /\ Working(text, u) /\ u.stream = s.stream /\ u.next_seqno = s.next_seqno
      /\ u.last_ackno = s.last_ackno /\ Grows(s, u)
  BY IdleFacts
<1>2. QueueOK(text, u, q)
  BY <1>1, QueueKept
<1>3. r = requeued(u, q)
  BY SenderFields DEF Fields, requeued, emptied, Idle
<1>. HIDE DEF u
<1>4. /\ Idle(text, r) /\ Grows(u, r) /\ r.segments_out = q /\ r.stream = u.stream
      /\ r.last_ackno = u.last_ackno /\ r.next_seqno = u.next_seqno
  BY <1>1, <1>2, <1>3, IdleLike
<1>. QED
  BY <1>1, <1>4, GrowsOn

\* fill_window, after more bytes, the end of the stream or nothing new.
LEMMA StreamStep ==
    ASSUME NEW text \in OutStreams, NEW s, Idle(text, s),
           NEW o \in ByteStreamType(Byte), StreamOK(text, o),
           o.bytes_r = s.stream.bytes_r, s.stream.bytes_w <= o.bytes_w,
           s.stream.end_input =>
              o.end_input /\ o.bytes_w = s.stream.bytes_w /\ o.buff = s.stream.buff,
           o.end_input => o.bytes_w = Len(text),
           NEW r, r = fill_window([s EXCEPT !.stream = o])
    PROVE  Idle(text, r) /\ Grows(s, r) /\ r.last_ackno = s.last_ackno
<1>. DEFINE u == emptied(s)
            a == [u EXCEPT !.stream = o]
            b == fill_window(a)
            w == [s EXCEPT !.stream = o]
<1>0. s \in SenderType(Byte)
  BY DEF Idle
<1>1. /\ Working(text, u) /\ SenderOK(text, u) /\ u \in SenderType(Byte) /\ u.stream = s.stream
      /\ u.last_ackno = s.last_ackno /\ Grows(s, u) /\ QueueOK(text, u, s.segments_out)
  BY IdleFacts
<1>2. Stepped(text, u, b)
  <2>. HIDE DEF u
  <2>. QED
    BY <1>1, NewStream
<1>3. /\ w \in SenderType(Byte) /\ w.segments_out = s.segments_out /\ a \in SenderType(Byte)
      /\ a.stream = o /\ a.last_ackno = u.last_ackno
  <2>. HIDE DEF u
  <2>. QED
    BY <1>0, <1>1, StreamFields
<1>4. emptied(w) = a
  BY <1>0, SenderFields DEF Fields, emptied
<1>. HIDE DEF u, a, w
<1>5. r = requeued(b, s.segments_out \o b.segments_out)
  <2>0. a = emptied(w) /\ b = fill_window(a) /\ w \in SenderType(Byte)
    BY <1>3, <1>4
  <2>. HIDE DEF b
  <2>1. fill_window(w) = requeued(b, w.segments_out \o b.segments_out)
    BY ONLY <2>0, FillBehind
  <2>2. r = fill_window(w)
    BY DEF w
  <2>. QED
    BY <1>3, <2>1, <2>2
<1>6. /\ b.last_ackno = s.last_ackno /\ b.stream.bytes_w = o.bytes_w
      /\ b.stream.end_input = o.end_input
  BY <1>1, <1>3, FillStream
<1>. HIDE DEF b
<1>7. /\ SenderOK(text, b) /\ WindowFull(b) /\ Grows(u, b)
  BY <1>2 DEF Stepped
<1>8. Working(text, b) /\ b \in SenderType(Byte) /\ b.segments_out \in Segs
      /\ AllAt(text, b, b.segments_out)
  BY <1>6, <1>7, SenderFields DEF Working, SenderOK, Fields
<1>9. QueueOK(text, b, s.segments_out \o b.segments_out)
  <2>1. QueueOK(text, b, s.segments_out)
    BY <1>1, <1>7, QueueKept
  <2>2. QueueOK(text, b, b.segments_out)
    BY <1>8, QueueAt
  <2>. QED
    BY <2>1, <2>2, QueueJoined
<1>10. Idle(text, r) /\ Grows(b, r) /\ r.last_ackno = b.last_ackno
  BY <1>5, <1>8, <1>9, IdleLike
<1>. QED
  BY <1>1, <1>6, <1>7, <1>10, GrowsOn

\* fill_window between two calls.
LEMMA FillIdle ==
    ASSUME NEW text \in OutStreams, NEW s, Idle(text, s), NEW r, r = fill_window(s)
    PROVE  Idle(text, r) /\ Grows(s, r) /\ r.last_ackno = s.last_ackno
<1>. DEFINE o == s.stream
<1>1. /\ s \in SenderType(Byte) /\ SenderOK(text, emptied(s)) /\ emptied(s).stream = o
      /\ Working(text, emptied(s))
  BY IdleFacts DEF Idle
<1>2. o \in ByteStreamType(Byte) /\ o.bytes_w \in Nat /\ StreamOK(text, o)
  BY <1>1, SenderNumbers DEF SenderOK
<1>3. [s EXCEPT !.stream = o] = s
  BY <1>1, SenderFields DEF Fields
<1>4. o.end_input => o.bytes_w = Len(text)
  BY <1>1 DEF Working
<1>5. o.bytes_w <= o.bytes_w
  BY <1>2
<1>6. r = fill_window([s EXCEPT !.stream = o])
  BY <1>3
<1>. QED
  BY <1>2, <1>4, <1>5, <1>6, StreamStep

\* TCPConnection::write of the next bytes of the stream.
writing(s, data) == [s EXCEPT !.stream = bs_write(@, data)]
next_bytes(text, from, ln) == SubSeq(text, from + 1, from + ln)

\* write of the stream's next bytes between two calls.
LEMMA WriteIdle ==
    ASSUME NEW text \in OutStreams, NEW s, Idle(text, s), ~s.stream.end_input,
           NEW ln \in Nat, s.stream.bytes_w + ln <= Len(text),
           NEW data, data = next_bytes(text, s.stream.bytes_w, ln),
           NEW r, r = fill_window(writing(s, data))
    PROVE  Idle(text, r) /\ Grows(s, r) /\ r.last_ackno = s.last_ackno
<1>. DEFINE o == bs_write(s.stream, data)
<1>1. /\ s \in SenderType(Byte) /\ SenderOK(text, emptied(s)) /\ emptied(s).stream = s.stream
  BY IdleFacts DEF Idle
<1>2. s.stream \in ByteStreamType(Byte) /\ StreamOK(text, s.stream)
  BY <1>1, SenderNumbers DEF SenderOK
<1>3. /\ o \in ByteStreamType(Byte) /\ StreamOK(text, o)
      /\ o.bytes_r = s.stream.bytes_r /\ s.stream.bytes_w <= o.bytes_w
      /\ o.end_input = s.stream.end_input
  BY <1>2, AppWriteKeeps DEF next_bytes
<1>4. r = fill_window([s EXCEPT !.stream = o])
  BY <1>1, SenderFields DEF Fields, writing
<1>. HIDE DEF o
<1>. QED
  BY <1>3, <1>4, StreamStep

\* TCPConnection::end_input_stream when all has been written.
LEMMA EndIdle ==
    ASSUME NEW text \in OutStreams, NEW s, Idle(text, s), s.stream.bytes_w = Len(text),
           NEW r, r = fill_window([s EXCEPT !.stream = end_input(@)])
    PROVE  Idle(text, r) /\ Grows(s, r) /\ r.last_ackno = s.last_ackno
<1>. DEFINE o == end_input(s.stream)
<1>1. /\ s \in SenderType(Byte) /\ SenderOK(text, emptied(s)) /\ emptied(s).stream = s.stream
  BY IdleFacts DEF Idle
<1>2. /\ s.stream \in ByteStreamType(Byte) /\ StreamOK(text, s.stream)
      /\ s.stream.bytes_w \in Nat
  BY <1>1, SenderNumbers DEF SenderOK
<1>3. /\ o \in ByteStreamType(Byte)
      /\ o.bytes_r = s.stream.bytes_r /\ s.stream.bytes_w = o.bytes_w
      /\ o.end_input /\ o.buff = s.stream.buff /\ o.capacity = s.stream.capacity
  BY <1>2 DEF end_input, ByteStreamType
<1>4. r = fill_window([s EXCEPT !.stream = o])
  BY <1>1, SenderFields DEF Fields
<1>. HIDE DEF o
<1>5. StreamOK(text, o) /\ s.stream.bytes_w <= o.bytes_w
  BY <1>2, <1>3 DEF StreamOK
<1>. QED
  BY <1>3, <1>4, <1>5, StreamStep

\* unclean_shutdown marks the stream.
LEMMA MarkIdle ==
    ASSUME NEW text \in OutStreams, NEW s, Idle(text, s),
           NEW r, r = [s EXCEPT !.stream = set_error(@)]
    PROVE  /\ Idle(text, r) /\ Grows(s, r) /\ r.last_ackno = s.last_ackno
           /\ r.next_seqno = s.next_seqno
<1>. DEFINE u == emptied(s)
            o == set_error(s.stream)
            a == [u EXCEPT !.stream = o]
<1>0. s \in SenderType(Byte)
  BY DEF Idle
<1>1. /\ Working(text, u) /\ SenderOK(text, u) /\ u \in SenderType(Byte) /\ u.stream = s.stream
      /\ u.last_ackno = s.last_ackno /\ u.next_seqno = s.next_seqno
      /\ Grows(s, u) /\ QueueOK(text, u, s.segments_out)
  BY IdleFacts
<1>2. /\ s.stream \in ByteStreamType(Byte) /\ StreamOK(text, s.stream)
      /\ s.stream.bytes_w \in Nat
  BY <1>1, SenderNumbers DEF SenderOK
<1>3. /\ o \in ByteStreamType(Byte)
      /\ o.bytes_r = s.stream.bytes_r /\ s.stream.bytes_w = o.bytes_w
      /\ o.end_input = s.stream.end_input /\ o.buff = s.stream.buff
      /\ o.capacity = s.stream.capacity
  BY <1>2 DEF set_error, ByteStreamType
<1>4. r = requeued(a, s.segments_out)
  <2>1. r = [s EXCEPT !.stream = o] /\ s.segments_out \in Segs
    BY <1>0, SenderFields DEF Fields
  <2>2. s = requeued(u, s.segments_out)
    BY IdleFacts
  <2>. HIDE DEF o, u
  <2>. QED
    BY <1>1, <2>1, <2>2, SenderFields DEF Fields, requeued
<1>. HIDE DEF o, u
<1>5. StreamOK(text, o)
  BY <1>2, <1>3 DEF StreamOK
<1>6. /\ a.stream = o /\ a.next_seqno = u.next_seqno
      /\ a.last_ackno = u.last_ackno /\ a.last_win = u.last_win
  BY <1>1, <1>3, StreamFields
<1>7. Ready(text, a) /\ Grows(u, a)
  <2>1. Ready(text, u) /\ u.stream.bytes_w <= o.bytes_w
    BY <1>1, <1>2, <1>3 DEF SenderOK, Ready
  <2>. QED
    BY <2>1, <1>1, <1>3, <1>5, StreamKeeps
<1>. HIDE DEF a
<1>8. SenderOK(text, a) /\ WindowFull(a)
  <2>1. NumbersOK(a)
    BY <1>1, <1>3, <1>6 DEF SenderOK, NumbersOK
  <2>2. WindowFull(a)
    BY <1>1, <1>3, <1>6 DEF Working, WindowFull, in_window
  <2>. QED
    BY <1>7, <2>1, <2>2 DEF SenderOK, Ready
<1>9. Working(text, a)
  BY <1>1, <1>3, <1>6, <1>8 DEF Working
<1>10. QueueOK(text, a, s.segments_out)
  BY <1>1, <1>7, QueueKept
<1>11. /\ Idle(text, r) /\ Grows(a, r) /\ r.last_ackno = a.last_ackno
       /\ r.next_seqno = a.next_seqno
  BY ONLY text \in OutStreams, <1>4, <1>9, <1>10, IdleLike
<1>. QED
  BY <1>1, <1>6, <1>7, <1>11, GrowsOn

\* tick, once the queue has been emptied.
LEMMA TickIdle ==
    ASSUME NEW text \in OutStreams, NEW s, Idle(text, s), s.segments_out = << >>,
           NEW ms \in Nat, NEW r, r = sender_tick(s, ms)
    PROVE  Idle(text, r) /\ Grows(s, r) /\ r.last_ackno = s.last_ackno
<1>1. Working(text, s)
  BY IdleFacts
<1>2. SenderOK(text, s) /\ WindowFull(s) /\ s \in SenderType(Byte)
  BY <1>1 DEF Working, SenderOK
<1>3. Stepped(text, s, r)
  BY <1>2, TickKeeps
<1>4. r.stream = s.stream /\ r.last_ackno = s.last_ackno
  BY <1>2, SenderFields DEF Fields, sender_tick, retransmit
<1>5. Working(text, r)
  BY <1>1, <1>3, <1>4 DEF Working, Stepped
<1>. QED
  BY <1>3, <1>4, <1>5, WorkingIdle DEF Stepped

\* ack_received of a number the peer has acknowledged.
LEMMA AckIdle ==
    ASSUME NEW text \in OutStreams, NEW s, Idle(text, s), s.segments_out = << >>,
           NEW ack \in 1 .. s.next_seqno, NEW win \in Nat, win < Mod64,
           NEW r, r = ack_received(s, wrap(ack, s.isn), win)
    PROVE  /\ Idle(text, r) /\ Grows(s, r)
           /\ r.last_ackno = s.last_ackno \/ r.last_ackno = ack
<1>s. text \in Seq(Byte) /\ Len(text) \in Nat /\ Len(text) + 2 <= Half32
  BY TextSizes
<1>1. Working(text, s)
  BY IdleFacts
<1>2. SenderOK(text, s) /\ WindowFull(s) /\ s \in SenderType(Byte)
  BY <1>1 DEF Working, SenderOK
<1>3. Stepped(text, s, r)
  BY <1>2, AckKeeps
<1>4. /\ s.next_seqno \in Nat /\ s.last_ackno \in Nat /\ s.isn \in WrappingInt32
      /\ s.last_ackno <= s.next_seqno /\ s.next_seqno <= Len(text) + 2
  BY <1>2, SenderNumbers
<1>5. ack \in Nat /\ ack <= s.next_seqno /\ 0 < ack
  BY <1>4
<1>6. unwrap(wrap(ack, s.isn), s.isn, s.last_ackno) = ack
  <2>1. /\ s.last_ackno + Mod32 < Mod64
        /\ s.last_ackno < ack + Half32 /\ ack <= s.last_ackno + Half32
    <3>1. s.last_ackno <= Half32 /\ ack <= Half32
      BY ONLY <1>4, <1>5, <1>s, Widths
    <3>. QED
      BY ONLY <3>1, <1>4, <1>5, Widths, SMTT(40)
  <2>. QED
    BY <2>1, <1>4, <1>5, UnwrapRecovers
<1>. DEFINE a == new_ack(s, ack, wrap(ack, s.isn))
            t == IF ack > s.last_ackno THEN a ELSE s
            u == [t EXCEPT !.last_win = win]
<1>7. r = fill_window(u)
  BY <1>4, <1>5, <1>6 DEF ack_received, is_new
<1>8. /\ t \in SenderType(Byte) /\ t.stream = s.stream
      /\ t.last_ackno = s.last_ackno \/ t.last_ackno = ack
  <2>1. CASE ack > s.last_ackno
    <3>1. t = a /\ s.last_ackno < ack
      BY <2>1, <1>4, <1>5
    <3>2. SenderOK(text, a) /\ a.last_ackno = ack
      BY <3>1, <1>2, <1>5, NewAck
    <3>3. a.stream = s.stream
      BY <1>2, SenderFields DEF Fields, new_ack
    <3>. QED
      BY <3>1, <3>2, <3>3 DEF SenderOK
  <2>. QED
    BY <2>1, <1>2
<1>. HIDE DEF t
<1>9. u \in SenderType(Byte) /\ u.stream = t.stream /\ u.last_ackno = t.last_ackno
  BY <1>8, SenderFields DEF Fields
<1>. HIDE DEF u
<1>10. /\ r.last_ackno = u.last_ackno /\ r.stream.bytes_w = u.stream.bytes_w
       /\ r.stream.end_input = u.stream.end_input
  BY <1>7, <1>9, FillStream
<1>11. Working(text, r)
  BY <1>1, <1>3, <1>8, <1>9, <1>10 DEF Working, Stepped
<1>. QED
  BY <1>3, <1>8, <1>9, <1>10, <1>11, WorkingIdle DEF Stepped

\* An empty segment more.
LEMMA EmptyIdle ==
    ASSUME NEW text \in OutStreams, NEW s, Idle(text, s), NEW r, r = send_empty_segment(s)
    PROVE  /\ Idle(text, r) /\ Grows(s, r) /\ r.last_ackno = s.last_ackno
           /\ r.next_seqno = s.next_seqno
<1>. DEFINE seg == [new_TCPSegment EXCEPT !.seqno = wrap(s.next_seqno, s.isn)]
            q == s.segments_out
<1>1. s \in SenderType(Byte) /\ QueueOK(text, s, q) /\ q \in Segs
  BY DEF Idle, QueueOK
<1>2. wrap(s.next_seqno, s.isn) \in WrappingInt32
  BY <1>1, WrapType, SenderFields DEF Fields
<1>3. seg \in SegmentType(Byte) /\ Bare(seg) /\ ~seg.ack
  <2>. DEFINE n == wrap(s.next_seqno, s.isn)
              W == WrappingInt32
              S == Seq(Byte)
              z == new_TCPSegment
              T == [seqno : W, ackno : W, win : Nat, syn : BOOLEAN, ack : BOOLEAN,
                    fin : BOOLEAN, rst : BOOLEAN, payload : S]
  <2>1. n \in W /\ 0 \in W /\ << >> \in S
    BY <1>2, Widths DEF WrappingInt32
  <2>. HIDE DEF n, W, S
  <2>2. z \in T /\ z.syn = FALSE /\ z.ack = FALSE /\ z.fin = FALSE /\ z.payload = << >>
    BY <2>1 DEF new_TCPSegment
  <2>. HIDE DEF z
  <2>3. LET b == [z EXCEPT !.seqno = n]
        IN  b \in T /\ b.syn = FALSE /\ b.ack = FALSE /\ b.fin = FALSE /\ b.payload = << >>
    BY <2>1, <2>2
  <2>4. seg = [z EXCEPT !.seqno = n]
    BY DEF z, n
  <2>. HIDE DEF seg
  <2>5. seg \in T /\ seg.syn = FALSE /\ seg.ack = FALSE /\ seg.fin = FALSE /\ seg.payload = << >>
    BY <2>3, <2>4
  <2>. QED
    BY <2>5 DEF Bare, W, S, SegmentType
<1>4. QueueOK(text, s, << seg >>)
  <2>. HIDE DEF seg
  <2>1. << seg >> \in Segs /\ Len(<< seg >>) = 1 /\ << seg >>[1] = seg
    BY <1>3 DEF Segs
  <2>. QED
    BY <2>1, <1>3 DEF QueueOK, OnWay
<1>. HIDE DEF seg
<1>5. QueueOK(text, s, q \o << seg >>)
  BY <1>1, <1>4, QueueJoined
<1>6. Append(q, seg) = q \o << seg >>
  BY <1>1, <1>3, AppendIsConcat DEF Segs
<1>7. r = requeued(s, q \o << seg >>)
  <2>1. r = [s EXCEPT !.segments_out = Append(q, seg)]
    BY <1>1, SenderFields DEF Fields, send_empty_segment, seg
  <2>. QED
    BY <2>1, <1>6 DEF requeued
<1>. HIDE DEF q
<1>. QED
  BY ONLY text \in OutStreams, Idle(text, s), <1>5, <1>7, Requeued

-----------------------------------------------------------------------------
(* The receiver inside a connection *)

\* The absolute number a receiver asks for next.
ackable(v) == first_unassembled(v.reassembler) + 1 + flag(input_ended(stream_out(v)))

\* What a reassembler has was sent: each byte it holds, in order or not, and the FIN.
Covered(text, r, nx) ==
    /\ \A i \in received_by(r) : i + 1 < nx
    /\ r.eof => nx = Len(text) + 2

\* And the SYN.
Held(text, s, v) ==
    (v.syn => s.next_seqno > 0) /\ Covered(text, v.reassembler, s.next_seqno)

\* w is v some calls later.
Advances(v, w) ==
    /\ v.syn => w.syn
    /\ first_unassembled(v.reassembler) <= first_unassembled(w.reassembler)
    /\ input_ended(stream_out(v)) => input_ended(stream_out(w))

\* Both ends can name every number of the stream.
Texts == {text \in OutStreams : Len(text) + Capacity < Mod32}

\* Such a stream is one for the sender and for the receiver.
LEMMA TextBoth ==
    ASSUME NEW text \in Texts
    PROVE  /\ text \in OutStreams /\ text \in InStreams /\ Len(text) \in Nat
           /\ Len(text) + Capacity < Mod32 /\ Capacity \in Nat
           /\ Len(text) + Capacity + Mod32 < Mod64
<1>1. text \in Seq(Byte) /\ Len(text) \in Nat /\ Len(text) + 2 <= Half32 /\ text \in OutStreams
  BY TextSizes DEF Texts
<1>2. Len(text) + Capacity < Mod32 /\ Capacity \in Nat
  BY CapacityAssumption DEF Texts
<1>3. Half32 \in Nat /\ Half32 >= 2 /\ Mod32 = 2 * Half32
  BY <1>1, Widths
<1>4. Mod32 \in Nat /\ Mod64 \in Nat /\ Mod64 = Mod32 * Mod32 /\ Mod32 >= 4
  BY <1>3, Widths DEF Mod64
<1>5. Mod32 + Mod32 <= Mod64
  <2>. DEFINE m == Mod32
  <2>1. m \in Nat /\ m >= 4 /\ Mod64 = m * m
    BY <1>4
  <2>. HIDE DEF m
  <2>2. \A k \in Nat : k >= 4 => k + k <= k * k
    OBVIOUS
  <2>. QED
    BY <2>1, <2>2 DEF m
<1>6. Len(text) + Capacity + Mod32 < Mod64
  BY <1>1, <1>2, <1>4, <1>5
<1>. QED
  BY <1>1, <1>2, <1>4, <1>6 DEF InStreams

\* The numbers of a receiver, typed.
LEMMA ReceiverNumbers ==
    ASSUME NEW text \in Texts, NEW v, NEW t, NEW i, ReceiverOK(text, v, t, i)
    PROVE  /\ first_unassembled(v.reassembler) \in Nat
           /\ first_unassembled(v.reassembler) <= Len(text)
           /\ first_unacceptable(v.reassembler) \in Nat
           /\ first_unacceptable(v.reassembler) <= Len(text) + Capacity
           /\ window_size(v) \in Nat
           /\ input_ended(stream_out(v)) <=>
                 v.reassembler.eof /\ first_unassembled(v.reassembler) = Len(text)
           /\ t \o stream_out(v).buff = SubSeq(text, 1, first_unassembled(v.reassembler))
           /\ v \in ReceiverType(Byte) /\ i \in WrappingInt32
<1>. DEFINE r == v.reassembler
<1>0. /\ text \in InStreams /\ Len(text) \in Nat /\ Capacity \in Nat
  BY TextBoth
<1>1. v \in ReceiverType(Byte) /\ i \in WrappingInt32 /\ Good(text, r, t) /\ OutOK(text, r, t)
  BY DEF ReceiverOK, Good, Written
<1>2. /\ first_unassembled(r) \in Nat /\ first_unacceptable(r) \in Nat
      /\ first_unassembled(r) <= Len(text) /\ first_unassembled(r) <= first_unacceptable(r)
      /\ first_unacceptable(r) = Len(t) + Capacity
  BY <1>0, <1>1, Window
<1>3. Len(t) <= Len(text)
  <2>1. /\ t \in Seq(Byte) /\ r.output.buff \in Seq(Byte) /\ r.output.bytes_w <= Len(text)
        /\ r.output.bytes_w = Len(t) + Len(r.output.buff)
    BY <1>1 DEF OutOK, ReassemblerType, ByteStreamType
  <2>2. Len(t) \in Nat /\ Len(r.output.buff) \in Nat
    BY <2>1
  <2>. QED
    BY <2>1, <2>2, <1>0
<1>4. t \o r.output.buff = SubSeq(text, 1, first_unassembled(r))
  BY <1>0, <1>1, GoodPrefix
<1>5. input_ended(r.output) <=> r.eof /\ first_unassembled(r) = Len(text)
  BY <1>1 DEF Good
<1>6. window_size(v) \in Nat /\ first_unacceptable(r) <= Len(text) + Capacity
  <2>1. Len(t) \in Nat
    BY <1>1 DEF OutOK
  <2>. HIDE DEF r
  <2>. QED
    BY <2>1, <1>0, <1>2, <1>3 DEF window_size, r
<1>. QED
  BY <1>1, <1>2, <1>4, <1>5, <1>6 DEF stream_out

\* No receiver asks for a number beyond what has been sent.
LEMMA HeldAckable ==
    ASSUME NEW text \in Texts, NEW v, NEW t, NEW i, ReceiverOK(text, v, t, i),
           NEW s, s.next_seqno \in Nat, Held(text, s, v), v.syn
    PROVE  ackable(v) \in 1 .. s.next_seqno
<1>. DEFINE f == first_unassembled(v.reassembler)
            e == input_ended(stream_out(v))
            n == s.next_seqno
            len == Len(text)
<1>1. f \in Nat /\ f <= len /\ (e <=> v.reassembler.eof /\ f = len) /\ len \in Nat
  BY ReceiverNumbers, TextBoth
<1>2. n > 0 /\ (v.reassembler.eof => n = len + 2)
  BY DEF Held, Covered
<1>3. f > 0 => f < n
  <2>. SUFFICES ASSUME f > 0
                PROVE  f < n
    OBVIOUS
  <2>1. f - 1 \in 0 .. (f - 1) /\ (f - 1) + 1 = f
    BY <1>1
  <2>2. f - 1 \in received_by(v.reassembler)
    BY <2>1 DEF received_by
  <2>3. (f - 1) + 1 < n
    BY <2>2 DEF Held, Covered
  <2>. QED
    BY <2>1, <2>3
<1>4. flag(e) \in 0 .. 1 /\ (flag(e) = 1 => n = len + 2 /\ f = len)
  BY <1>1, <1>2 DEF flag
<1>5. f + 1 + flag(e) \in 1 .. n
  <2>. DEFINE k == flag(e)
  <2>. HIDE DEF f, e, n, len, k
  <2>1. n \in Nat
    BY DEF n
  <2>. QED
    BY <1>1, <1>2, <1>3, <1>4, <2>1 DEF k
<1>. QED
  BY <1>5 DEF ackable

\* The facts of an idle sender the other end relies on.
LEMMA IdleNumbers ==
    ASSUME NEW text \in OutStreams, NEW s, Idle(text, s)
    PROVE  /\ s.next_seqno \in Nat /\ s.next_seqno <= Len(text) + 2 /\ s.last_ackno \in Nat
           /\ s.last_ackno <= s.next_seqno
           /\ s.stream.bytes_w \in Nat /\ s.stream.bytes_w <= Len(text)
           /\ s.next_seqno <= s.stream.bytes_w + 2 /\ s.isn \in WrappingInt32
           /\ s.next_seqno = s.stream.bytes_w + 2 =>
                 s.stream.end_input /\ s.stream.buff = << >> /\ s.stream.bytes_w = Len(text)
<1>. DEFINE u == emptied(s)
<1>1. /\ Working(text, u) /\ SenderOK(text, u) /\ u.stream = s.stream
      /\ u.next_seqno = s.next_seqno /\ u.last_ackno = s.last_ackno /\ u.isn = s.isn
  BY IdleFacts
<1>. HIDE DEF u
<1>2. /\ u.next_seqno \in Nat /\ u.last_ackno \in Nat
      /\ u.stream.bytes_r \in Nat /\ u.stream.bytes_w \in Nat /\ u.isn \in WrappingInt32
      /\ Len(u.stream.buff) \in Nat
      /\ u.stream.bytes_r + Len(u.stream.buff) = u.stream.bytes_w /\ u.stream.bytes_w <= Len(text)
      /\ u.last_ackno <= u.next_seqno /\ u.next_seqno <= u.stream.bytes_w + 2
      /\ u.next_seqno <= Len(text) + 2
  BY <1>1, SenderNumbers
<1>3. \/ u.next_seqno = 0 /\ u.stream.bytes_r = 0
      \/ u.next_seqno = u.stream.bytes_r + 1
      \/ u.next_seqno = u.stream.bytes_r + 2 /\ u.stream.end_input /\ u.stream.buff = << >>
  BY <1>1 DEF SenderOK, NumbersOK
<1>4. u.next_seqno = u.stream.bytes_w + 2 => u.stream.end_input /\ u.stream.buff = << >>
  <2>. DEFINE br == u.stream.bytes_r
              lb == Len(u.stream.buff)
              bw == u.stream.bytes_w
              nx == u.next_seqno
  <2>1. /\ br \in Nat /\ lb \in Nat /\ bw \in Nat /\ nx \in Nat /\ br + lb = bw
        /\ \/ nx = 0 /\ br = 0
           \/ nx = br + 1
           \/ nx = br + 2 /\ u.stream.end_input /\ u.stream.buff = << >>
    BY <1>2, <1>3
  <2>. HIDE DEF br, lb, bw, nx
  <2>2. nx = bw + 2 => ~(nx = 0 /\ br = 0) /\ ~(nx = br + 1)
    BY <2>1
  <2>3. nx = bw + 2 => u.stream.end_input /\ u.stream.buff = << >>
    BY <2>1, <2>2
  <2>. QED
    BY <2>3 DEF nx, bw
<1>5. u.stream.end_input => u.stream.bytes_w = Len(text)
  BY <1>1 DEF Working
<1>. QED
  BY <1>1, <1>2, <1>4, <1>5

\* What is delivered has been sent.
WasSent(text, nx, index, len, is_eof) ==
    (index + len < nx \/ len = 0) /\ (is_eof => nx = Len(text) + 2)

\* A delivery of what was sent leaves the reassembler with what was sent, no less than before.
LEMMA DeliveryHeld ==
    ASSUME NEW text \in Texts, NEW r, NEW t, Good(text, r, t), NEW s, NEW nx \in Nat,
           Covered(text, r, nx),
           NEW index \in 0 .. Len(text), NEW len \in 0 .. Len(text), NEW is_eof \in BOOLEAN,
           Delivered(text, r, s, index, len, is_eof), Good(text, s, t),
           WasSent(text, nx, index, len, is_eof)
    PROVE  /\ Covered(text, s, nx)
           /\ first_unassembled(r) <= first_unassembled(s)
           /\ input_ended(r.output) => input_ended(s.output)
<1>0. text \in InStreams /\ Len(text) \in Nat
  BY TextBoth
<1>. DEFINE f == first_unassembled(r)
            g == first_unassembled(s)
<1>1. f \in Nat /\ g \in Nat /\ f <= Len(text) /\ g <= Len(text)
  BY <1>0, Window DEF Good, Written
<1>2. /\ received_by(r) \subseteq received_by(s)
      /\ received_by(s) \subseteq received_by(r) \cup (index .. (index + len - 1))
      /\ g \notin received_by(s)
      /\ s.eof = (r.eof \/ is_eof)
      /\ input_ended(s.output) = (s.eof /\ g = Len(text))
  BY DEF Delivered
<1>3. ASSUME NEW i \in received_by(s)
      PROVE  i + 1 < nx
  <2>1. CASE i \in received_by(r)
    BY <2>1 DEF Covered
  <2>2. CASE i \in index .. (index + len - 1)
    BY <2>2 DEF WasSent
  <2>. QED
    BY <2>1, <2>2, <1>2
<1>4. f <= g
  <2>. SUFFICES ASSUME g < f
                PROVE  FALSE
    BY <1>1
  <2>1. g \in 0 .. (f - 1)
    BY <1>1
  <2>2. g \in received_by(r)
    BY <2>1 DEF received_by
  <2>. QED
    BY <2>2, <1>2
<1>5. input_ended(r.output) => input_ended(s.output)
  <2>1. input_ended(r.output) => r.eof /\ f = Len(text)
    BY DEF Good
  <2>2. f = Len(text) => g = Len(text)
    <3>. HIDE DEF f, g
    <3>. QED
      BY <1>0, <1>1, <1>4
  <2>. QED
    BY <2>1, <2>2, <1>2
<1>6. s.eof => nx = Len(text) + 2
  BY <1>2 DEF Covered, WasSent
<1>. QED
  BY <1>3, <1>4, <1>5, <1>6 DEF Covered

\* segment_received of a segment on its way: the receiver stays as it should be, and has
\* nothing that was not sent.
LEMMA SegmentHeld ==
    ASSUME NEW text \in Texts, NEW s, Idle(text, s), NEW v, NEW t, ReceiverOK(text, v, t, s.isn),
           Held(text, s, v), NEW seg \in SegmentType(Byte), OnWay(text, s, seg),
           NEW w, w = receiver_segment_received(v, seg)
    PROVE  ReceiverOK(text, w, t, s.isn) /\ Held(text, s, w) /\ Advances(v, w)
<1>. DEFINE r == v.reassembler
            nx == s.next_seqno
            l == length_in_sequence_space(seg)
<1>0. /\ text \in OutStreams /\ text \in InStreams /\ Len(text) \in Nat /\ Capacity \in Nat
      /\ Len(text) + Capacity < Mod32 /\ Len(text) + Capacity + Mod32 < Mod64
      /\ Half32 \in Nat /\ Mod32 \in Nat /\ Len(text) + 2 <= Half32
  BY TextBoth, TextSizes, Widths
<1>1. nx \in Nat /\ nx <= Len(text) + 2 /\ s.isn \in WrappingInt32
  BY <1>0, IdleNumbers
<1>2. /\ first_unassembled(r) \in Nat /\ first_unacceptable(r) \in Nat
      /\ first_unacceptable(r) <= Len(text) + Capacity /\ v \in ReceiverType(Byte)
      /\ Good(text, r, t)
  BY ReceiverNumbers DEF ReceiverOK
<1>3. l \in Nat /\ Len(seg.payload) \in Nat /\ l = Len(seg.payload) + flag(seg.syn) + flag(seg.fin)
  BY SegmentLength DEF length_in_sequence_space
<1>4. PICK abs : Bare(seg) \/ (PeerSegment(text, seg, abs, s.isn) /\ abs + l <= nx)
  BY DEF OnWay
<1>5. Bare(seg) \/ (/\ PeerSegment(text, seg, abs, s.isn) /\ Len(seg.payload) <= Half32
                    /\ abs + Mod32 > first_unacceptable(r)
                    /\ abs <= first_unassembled(r) + Half32)
  <2>. SUFFICES ASSUME ~Bare(seg)
                PROVE  /\ Len(seg.payload) <= Half32
                       /\ abs + Mod32 > first_unacceptable(r)
                       /\ abs <= first_unassembled(r) + Half32
    BY <1>4
  <2>1. abs \in Nat /\ abs + l <= nx
    BY <1>4 DEF PeerSegment
  <2>2. Len(seg.payload) <= l
    BY SegmentLength
  <2>. DEFINE n == Len(seg.payload)
              f == first_unassembled(r)
              g == first_unacceptable(r)
              k == Len(text)
  <2>. HIDE DEF n, f, g, k, l, nx, r
  <2>. QED
    BY <2>1, <2>2, <1>0, <1>1, <1>2, <1>3, SMTT(40) DEF n, f, g, k
<1>6. \/ w = v /\ ~v.syn /\ ~seg.syn
      \/ /\ Pushes(text, seg, abs, r, w.reassembler)
         /\ w = [reassembler |-> w.reassembler, syn |-> TRUE, isn |-> s.isn]
  <2>1. LET x == receiver_segment_received(v, seg) IN
        \/ x = v /\ ~v.syn /\ ~seg.syn
        \/ /\ Pushes(text, seg, abs, v.reassembler, x.reassembler)
           /\ x = [reassembler |-> x.reassembler, syn |-> TRUE, isn |-> s.isn]
    <3>. DEFINE n == s.isn
    <3>0. ReceiverOK(text, v, t, n)
      OBVIOUS
    <3>1. CASE Bare(seg)
      <4>. HIDE DEF n
      <4>. QED
        BY ONLY <3>0, <3>1, <1>0, seg \in SegmentType(Byte), SegmentPushed, ZenonT(60) DEF n
    <3>2. CASE ~Bare(seg)
      <4>1. /\ PeerSegment(text, seg, abs, n) /\ Len(seg.payload) <= Half32
            /\ abs + Mod32 > first_unacceptable(v.reassembler)
            /\ abs <= first_unassembled(v.reassembler) + Half32
        BY <3>2, <1>5
      <4>. HIDE DEF n
      <4>. QED
        BY ONLY <3>0, <4>1, <1>0, seg \in SegmentType(Byte), SegmentPushed DEF n
    <3>. QED
      BY <3>1, <3>2
  <2>. QED
    BY <2>1, Zenon
<1>7. CASE w = v
  BY <1>7, <1>2 DEF Advances
<1>8. CASE w # v
  <2>. DEFINE z == w.reassembler
  <2>1. Pushes(text, seg, abs, r, z) /\ w = [reassembler |-> z, syn |-> TRUE, isn |-> s.isn]
    BY <1>6, <1>8
  <2>. HIDE DEF z
  <2>2. /\ ReceiverOK(text, w, t, s.isn)
        /\ \E index \in 0 .. Len(text), len \in 0 .. Len(text), is_eof \in BOOLEAN :
              /\ index + len <= Len(text) /\ (is_eof => index + len = Len(text))
              /\ Delivered(text, r, z, index, len, is_eof)
              /\ \/ len = 0 /\ ~is_eof
                 \/ abs = index + 1 /\ len = Len(seg.payload) /\ is_eof = seg.fin
    BY <2>1, <1>0, <1>1, <1>2, SegmentTaken, SMTT(40)
  <2>3. PICK index \in 0 .. Len(text), len \in 0 .. Len(text), is_eof \in BOOLEAN :
              /\ index + len <= Len(text) /\ (is_eof => index + len = Len(text))
              /\ Delivered(text, r, z, index, len, is_eof)
              /\ \/ len = 0 /\ ~is_eof
                 \/ abs = index + 1 /\ len = Len(seg.payload) /\ is_eof = seg.fin
    BY <2>2
  <2>4. w.reassembler = z /\ w.syn /\ Good(text, z, t)
    BY <2>1, <2>2 DEF ReceiverOK
  <2>5. WasSent(text, nx, index, len, is_eof)
    <3>. SUFFICES (index + len < nx \/ len = 0) /\ (is_eof => nx = Len(text) + 2)
      BY DEF WasSent
    <3>1. CASE len = 0 /\ ~is_eof
      BY <3>1
    <3>2. CASE ~(len = 0 /\ ~is_eof)
      <4>1. abs = index + 1 /\ len = Len(seg.payload) /\ is_eof = seg.fin
        BY <2>3, <3>2
      <4>2. abs + l <= nx
        <5>1. ~Bare(seg)
          BY <3>2, <4>1 DEF Bare
        <5>. QED
          BY <5>1, <1>4
      <4>3. flag(seg.syn) \in Nat /\ flag(seg.fin) \in Nat /\ (seg.fin => flag(seg.fin) = 1)
        BY DEF flag
      <4>. DEFINE a == flag(seg.syn)
                  b == flag(seg.fin)
                  k == Len(text)
      <4>4. /\ index + 1 + (len + a + b) <= nx /\ a \in Nat /\ b \in Nat /\ (is_eof => b = 1)
            /\ nx <= k + 2 /\ (is_eof => index + len = k) /\ k \in Nat /\ nx \in Nat
            /\ index \in Nat /\ len \in Nat
        BY <4>1, <4>2, <4>3, <1>0, <1>1, <1>3, <2>3
      <4>. HIDE DEF a, b, k, nx
      <4>. QED
        BY <4>4 DEF k
    <3>. QED
      BY <3>1, <3>2
  <2>6. Covered(text, r, nx)
    BY DEF Held
  <2>7. /\ Covered(text, z, nx)
        /\ first_unassembled(r) <= first_unassembled(z)
        /\ input_ended(r.output) => input_ended(z.output)
    <3>. HIDE DEF nx, r
    <3>. QED
      BY <1>1, <1>2, <2>3, <2>4, <2>5, <2>6, DeliveryHeld
  <2>8. nx > 0
    <3>1. CASE v.syn
      BY <3>1 DEF Held
    <3>2. CASE ~v.syn
      <4>1. seg.syn
        BY <3>2, <1>8 DEF receiver_segment_received
      <4>2. ~Bare(seg) /\ flag(seg.syn) = 1 /\ flag(seg.fin) \in Nat
        BY <4>1 DEF Bare, flag
      <4>3. abs \in Nat /\ abs + l <= nx
        BY <4>2, <1>4 DEF PeerSegment
      <4>4. l >= 1
        BY <4>2, <1>3
      <4>. HIDE DEF l, nx
      <4>. QED
        BY <4>3, <4>4, <1>1, <1>3
    <3>. QED
      BY <3>1, <3>2
  <2>9. Held(text, s, w)
    BY <2>4, <2>7, <2>8 DEF Held
  <2>10. Advances(v, w)
    BY <2>4, <2>7 DEF Advances, stream_out
  <2>. QED
    BY <2>2, <2>9, <2>10
<1>. QED
  BY <1>7, <1>8

\* Two receivers with the same bytes that ask for the same one next.
Alike(v, w) ==
    /\ w.syn = v.syn /\ w.isn = v.isn /\ w.reassembler.eof = v.reassembler.eof
    /\ received_by(w.reassembler) = received_by(v.reassembler)
    /\ first_unassembled(w.reassembler) = first_unassembled(v.reassembler)
    /\ input_ended(stream_out(w)) = input_ended(stream_out(v))

\* Receivers that are alike hold the same and ask for the same.
LEMMA AlikeHeld ==
    ASSUME NEW v, NEW w, Alike(v, w), first_unassembled(v.reassembler) \in Nat
    PROVE  /\ \A text, s : Held(text, s, v) => Held(text, s, w)
           /\ Advances(v, w) /\ ackable(w) = ackable(v)
<1>1. first_unassembled(v.reassembler) <= first_unassembled(w.reassembler)
  BY DEF Alike
<1>2. Advances(v, w) /\ ackable(w) = ackable(v)
  BY <1>1 DEF Advances, ackable, Alike
<1>. QED
  BY <1>2 DEF Alike, Held, Covered

\* Another output.
LEMMA OutputFields ==
    ASSUME NEW v \in ReceiverType(Byte), NEW o \in ByteStreamType(Byte),
           NEW w, w = [v EXCEPT !.reassembler.output = o]
    PROVE  /\ w \in ReceiverType(Byte) /\ w.syn = v.syn /\ w.isn = v.isn
           /\ w.reassembler = with_output(v.reassembler, o) /\ stream_out(w) = o
<1>. DEFINE r == v.reassembler
            z == with_output(r, o)
            R == ReassemblerType(Byte)
            W == WrappingInt32
<1>1. v \in [reassembler : R, syn : BOOLEAN, isn : W] /\ r \in R
  BY DEF ReceiverType
<1>2. z \in R /\ z.output = o
  BY <1>1, NewOutput
<1>3. w = [v EXCEPT !.reassembler = z]
  BY DEF with_output
<1>. HIDE DEF z, R, W
<1>4. /\ w \in [reassembler : R, syn : BOOLEAN, isn : W]
      /\ w.reassembler = z /\ w.syn = v.syn /\ w.isn = v.isn
  BY <1>1, <1>2, <1>3
<1>. QED
  BY <1>2, <1>4 DEF ReceiverType, R, W, z, stream_out

\* unclean_shutdown marks the stream.
marked(v) == [v EXCEPT !.reassembler.output = set_error(@)]

\* set_error changes nothing else in a receiver.
LEMMA MarkHeld ==
    ASSUME NEW text \in Texts, NEW v, NEW t, NEW i, ReceiverOK(text, v, t, i),
           NEW w, w = marked(v)
    PROVE  ReceiverOK(text, w, t, i) /\ Alike(v, w) /\ stream_out(w).error
<1>. DEFINE r == v.reassembler
            p == set_error(r.output)
            s == with_output(r, p)
<1>1. /\ v \in ReceiverType(Byte) /\ i \in WrappingInt32 /\ (v.syn => v.isn = i)
      /\ Good(text, r, t) /\ OutOK(text, r, t) /\ Bufs(text, r) /\ r \in ReassemblerType(Byte)
  BY DEF ReceiverOK, Good, Written, Bufs
<1>2. r.output \in ByteStreamType(Byte)
  BY <1>1, Zenon DEF ReassemblerType
<1>3. /\ p \in ByteStreamType(Byte) /\ p.buff = r.output.buff /\ p.bytes_r = r.output.bytes_r
      /\ p.bytes_w = r.output.bytes_w /\ p.capacity = r.output.capacity
      /\ p.end_input = r.output.end_input /\ p.error
  BY <1>2 DEF set_error, ByteStreamType
<1>4. w = [v EXCEPT !.reassembler.output = p]
  BY DEF marked
<1>. HIDE DEF p
<1>5. /\ w \in ReceiverType(Byte) /\ w.syn = v.syn /\ w.isn = v.isn
      /\ w.reassembler = s /\ stream_out(w) = p
  BY <1>1, <1>3, <1>4, OutputFields
<1>6. /\ s \in ReassemblerType(Byte) /\ s.output = p
      /\ s.capacity = r.capacity /\ s.eof = r.eof /\ s.eof_index = r.eof_index
      /\ s.buf = r.buf /\ s.unassembled_bytes = r.unassembled_bytes
  BY <1>1, <1>3, NewOutput
<1>. HIDE DEF s
<1>7. /\ first_unassembled(s) = first_unassembled(r)
      /\ first_unacceptable(s) = first_unacceptable(r)
      /\ input_ended(s.output) = input_ended(r.output)
  BY <1>3, <1>6 DEF first_unassembled, first_unacceptable, first_unread, bytes_written,
                    bytes_read, input_ended
<1>8. Bufs(text, s)
  BY <1>1, <1>6 DEF Bufs
<1>9. OutOK(text, s, t)
  BY <1>1, <1>3, <1>6 DEF OutOK
<1>10. Good(text, s, t)
  <2>1. /\ \A b \in r.buf : first_unassembled(r) < b.idx /\ tail_idx(b) < first_unacceptable(r)
        /\ r.eof => r.eof_index = Len(text)
        /\ input_ended(r.output) <=> r.eof /\ first_unassembled(r) = Len(text)
    BY <1>1 DEF Good, Written
  <2>. QED
    BY <1>6, <1>7, <1>8, <1>9, <2>1 DEF Good, Written
<1>11. ReceiverOK(text, w, t, i)
  BY <1>1, <1>5, <1>10 DEF ReceiverOK
<1>12. Alike(v, w)
  BY <1>5, <1>6, <1>7 DEF Alike, received_by, stream_out
<1>. QED
  BY <1>3, <1>5, <1>11, <1>12

\* The application reads.
reading(v, len) == [v EXCEPT !.reassembler.output = bs_read(stream_out(v), len).stream]

\* Reading takes from the output, and leaves the receiver alike.
LEMMA ReadHeld ==
    ASSUME NEW text \in Texts, NEW v, NEW t, NEW i, ReceiverOK(text, v, t, i), NEW len \in Nat,
           NEW w, w = reading(v, len)
    PROVE  /\ ReceiverOK(text, w, t \o bs_read(stream_out(v), len).data, i) /\ Alike(v, w)
           /\ stream_out(w).error = stream_out(v).error
           /\ t \o bs_read(stream_out(v), len).data \in Seq(Byte)
<1>. DEFINE r == v.reassembler
            out == bs_read(r.output, len)
            p == out.stream
            T == t \o out.data
            s == with_output(r, p)
<1>1. /\ v \in ReceiverType(Byte) /\ i \in WrappingInt32 /\ (v.syn => v.isn = i)
      /\ Good(text, r, t) /\ r \in ReassemblerType(Byte)
  BY DEF ReceiverOK, Good, Written, Bufs
<1>2. r.output \in ByteStreamType(Byte) /\ p = pop_output(r.output, len)
  BY <1>1, Zenon DEF ReassemblerType, bs_read
<1>3. p \in ByteStreamType(Byte) /\ p.error = r.output.error
  BY <1>2, PopType
<1>4. w = [v EXCEPT !.reassembler.output = p]
  BY DEF stream_out, reading
<1>5. s = [r EXCEPT !.output = out.stream]
  BY DEF with_output
<1>6. /\ Good(text, s, T) /\ s.buf = r.buf /\ s.eof = r.eof
      /\ input_ended(s.output) = input_ended(r.output)
      /\ first_unassembled(s) = first_unassembled(r)
  <2>1. text \in InStreams
    BY TextBoth
  <2>. HIDE DEF s
  <2>. QED
    BY <1>1, <1>5, <2>1, ReadKeeps
<1>. HIDE DEF p, out, T
<1>7. /\ w \in ReceiverType(Byte) /\ w.syn = v.syn /\ w.isn = v.isn
      /\ w.reassembler = s /\ stream_out(w) = p
  BY <1>1, <1>3, <1>4, OutputFields
<1>. HIDE DEF s
<1>8. ReceiverOK(text, w, T, i)
  BY <1>1, <1>6, <1>7 DEF ReceiverOK
<1>9. Alike(v, w)
  BY <1>6, <1>7 DEF Alike, received_by, stream_out
<1>10. T \in Seq(Byte)
  BY <1>6 DEF Good, Written, OutOK
<1>. QED
  BY <1>3, <1>7, <1>8, <1>9, <1>10 DEF T, out, stream_out

-----------------------------------------------------------------------------
(* What a connection sends *)

\* A segment as the connection sends it: the sender's, with what the receiver asks for.
Letter(text, s, v, seg) ==
    /\ seg \in SegmentType(Byte) /\ OnWay(text, s, seg)
    /\ seg.ack => v.syn /\ seg.ackno = wrap(ackable(v), v.isn) /\ seg.win <= MaxU16

Mail(text, s, v, q) == q \in Segs /\ \A i \in 1 .. Len(q) : Letter(text, s, v, q[i])

\* The fields of a segment, with the types of the larger ones left abstract.
SegFields(W, S) ==
    [seqno : W, ackno : W, win : Nat, syn : BOOLEAN, ack : BOOLEAN, fin : BOOLEAN,
     rst : BOOLEAN, payload : S]

\* The type of a segment, its parts named apart.
LEMMA SegmentFields == SegmentType(Byte) = SegFields(WrappingInt32, Seq(Byte))
  BY DEF SegmentType, SegFields

acking(seg, a, n) == [seg EXCEPT !.ack = TRUE, !.ackno = a, !.win = n]

\* The fields of a segment that is made to acknowledge.
LEMMA AckFields ==
    ASSUME NEW seg \in SegmentType(Byte), NEW a \in WrappingInt32, NEW n \in Nat,
           NEW h, h = acking(seg, a, n)
    PROVE  /\ h \in SegmentType(Byte) /\ h.seqno = seg.seqno /\ h.syn = seg.syn
           /\ h.fin = seg.fin /\ h.payload = seg.payload /\ h.ackno = a /\ h.win = n
<1>. DEFINE W == WrappingInt32
            S == Seq(Byte)
<1>1. seg \in SegFields(W, S) /\ a \in W
  BY SegmentFields
<1>. HIDE DEF W, S
<1>2. /\ h \in SegFields(W, S) /\ h.seqno = seg.seqno /\ h.syn = seg.syn
      /\ h.fin = seg.fin /\ h.payload = seg.payload /\ h.ackno = a /\ h.win = n
  BY <1>1 DEF SegFields, acking
<1>. QED
  BY <1>2, SegmentFields DEF W, S

\* The fields of a segment that is made a RST.
LEMMA RstFields ==
    ASSUME NEW h \in SegmentType(Byte), NEW k, k = [h EXCEPT !.rst = TRUE]
    PROVE  /\ k \in SegmentType(Byte) /\ k.seqno = h.seqno /\ k.syn = h.syn /\ k.fin = h.fin
           /\ k.payload = h.payload /\ k.ack = h.ack /\ k.ackno = h.ackno /\ k.win = h.win
<1>. DEFINE W == WrappingInt32
            S == Seq(Byte)
<1>1. h \in SegFields(W, S)
  BY SegmentFields
<1>. HIDE DEF W, S
<1>2. /\ k \in SegFields(W, S) /\ k.seqno = h.seqno /\ k.syn = h.syn /\ k.fin = h.fin
      /\ k.payload = h.payload /\ k.ack = h.ack /\ k.ackno = h.ackno /\ k.win = h.win
  BY <1>1 DEF SegFields
<1>. QED
  BY <1>2, SegmentFields DEF W, S

\* What makes a segment one of the stream does not depend on the other fields.
LEMMA OnWaySame ==
    ASSUME NEW text, NEW s, NEW seg, NEW h, OnWay(text, s, seg), h.seqno = seg.seqno,
           h.syn = seg.syn, h.fin = seg.fin, h.payload = seg.payload
    PROVE  OnWay(text, s, h)
<1>1. length_in_sequence_space(h) = length_in_sequence_space(seg)
  BY DEF length_in_sequence_space
<1>2. Bare(seg) => Bare(h)
  BY DEF Bare
<1>3. \A abs, isn : PeerSegment(text, seg, abs, isn) => PeerSegment(text, h, abs, isn)
  BY DEF PeerSegment
<1>. QED
  BY <1>1, <1>2, <1>3 DEF OnWay

\* fill_header makes a letter of a segment, and of one with RST set.
LEMMA HeaderFilled ==
    ASSUME NEW text \in Texts, NEW own \in Texts, NEW c, NEW t, NEW i,
           ReceiverOK(text, c.receiver, t, i),
           NEW s, NEW seg \in SegmentType(Byte), OnWay(own, s, seg), ~seg.ack,
           NEW h, h = fill_header(c, seg)
    PROVE  /\ Letter(own, s, c.receiver, h)
           /\ Letter(own, s, c.receiver, [h EXCEPT !.rst = TRUE])
<1>. DEFINE v == c.receiver
            a == ackno(v)
            n == min(window_size(v), MaxU16)
            k == [h EXCEPT !.rst = TRUE]
<1>1. /\ v \in ReceiverType(Byte) /\ window_size(v) \in Nat
      /\ first_unassembled(v.reassembler) \in Nat
  BY ReceiverNumbers
<1>2. n \in Nat /\ n <= MaxU16
  BY <1>1, ConnectionAssumption DEF min
<1>3. a = wrap(ackable(v), v.isn) /\ a \in WrappingInt32
  <2>1. v.isn \in WrappingInt32
    BY <1>1 DEF ReceiverType
  <2>2. ackable(v) \in Int
    BY <1>1 DEF ackable, flag
  <2>3. a = wrap(ackable(v), v.isn)
    BY DEF ackno, ackable
  <2>. HIDE DEF v, a
  <2>. QED
    BY <2>1, <2>2, <2>3, WrapOffset
<1>4. /\ h \in SegmentType(Byte) /\ h.seqno = seg.seqno /\ h.syn = seg.syn /\ h.fin = seg.fin
      /\ h.payload = seg.payload
      /\ h.ack => v.syn /\ h.ackno = a /\ h.win = n
  <2>1. CASE v.syn
    <3>1. h = acking(seg, a, n)
      BY <2>1 DEF fill_header, has_ackno, acking
    <3>. HIDE DEF v, a, n
    <3>. QED
      BY <3>1, <2>1, <1>2, <1>3, AckFields
  <2>2. CASE ~v.syn
    BY <2>2 DEF fill_header, has_ackno
  <2>. QED
    BY <2>1, <2>2
<1>. HIDE DEF v, a, n
<1>5. /\ k \in SegmentType(Byte) /\ k.seqno = h.seqno /\ k.syn = h.syn /\ k.fin = h.fin
      /\ k.payload = h.payload /\ k.ack = h.ack /\ k.ackno = h.ackno /\ k.win = h.win
  BY <1>4, RstFields
<1>. HIDE DEF k
<1>6. OnWay(own, s, h)
  BY <1>4, OnWaySame
<1>7. OnWay(own, s, k)
  BY <1>5, <1>6, OnWaySame
<1>8. Letter(own, s, v, h)
  BY <1>2, <1>3, <1>4, <1>6 DEF Letter
<1>9. Letter(own, s, v, k)
  BY <1>5, <1>7, <1>8 DEF Letter
<1>. QED
  BY <1>8, <1>9 DEF v, k

-----------------------------------------------------------------------------
(* The calls of a connection *)

\* The fields of a connection, with the types of the larger ones left abstract.
ConnFields(R, S, Q) ==
    [receiver : R, sender : S, segments_out : Q, linger_after_streams_finish : BOOLEAN,
     isactive : BOOLEAN, time_since_last_segment_received : Nat, rt_timeout : Nat]

\* The type of a connection, its parts named apart.
LEMMA ConnectionFields ==
    ConnectionType(Byte) = ConnFields(ReceiverType(Byte), SenderType(Byte), Segs)
  BY DEF ConnectionType, ConnFields, Segs

\* d is c but for its sender, its receiver and its queue.
Around(c, d) ==
    /\ d \in ConnectionType(Byte)
    /\ d.linger_after_streams_finish = c.linger_after_streams_finish
    /\ d.isactive = c.isactive

queued_up(c, s, q) == [c EXCEPT !.sender = s, !.segments_out = q]

\* The fields of a connection given a sender and a queue.
LEMMA QueueSet ==
    ASSUME NEW c \in ConnectionType(Byte), NEW s \in SenderType(Byte), NEW q \in Segs,
           NEW d, d = queued_up(c, s, q)
    PROVE  Around(c, d) /\ d.sender = s /\ d.receiver = c.receiver /\ d.segments_out = q
<1>. DEFINE R == ReceiverType(Byte)
            S == SenderType(Byte)
            Q == Segs
<1>1. c \in ConnFields(R, S, Q) /\ s \in S /\ q \in Q
  BY ConnectionFields
<1>. HIDE DEF R, S, Q
<1>2. /\ d \in ConnFields(R, S, Q) /\ d.sender = s /\ d.receiver = c.receiver
      /\ d.segments_out = q /\ d.isactive = c.isactive
      /\ d.linger_after_streams_finish = c.linger_after_streams_finish
  BY <1>1 DEF ConnFields, queued_up
<1>. QED
  BY <1>2, ConnectionFields DEF R, S, Q, Around

\* The fields of a connection given a sender.
LEMMA SenderSet ==
    ASSUME NEW c \in ConnectionType(Byte), NEW s \in SenderType(Byte),
           NEW d, d = [c EXCEPT !.sender = s]
    PROVE  Around(c, d) /\ d.sender = s /\ d.receiver = c.receiver /\ d.segments_out = c.segments_out
  BY ConnectionFields DEF ConnFields, Around

\* What send_segment sends.
letters(c) == [k \in 1 .. Len(c.sender.segments_out) |-> fill_header(c, c.sender.segments_out[k])]

\* The sender's queue has been emptied and no more.
SentOff(own, c, d) ==
    /\ Around(c, d) /\ d.receiver = c.receiver /\ d.sender = emptied(c.sender)
    /\ Idle(own, d.sender) /\ Grows(c.sender, d.sender) /\ d.sender.segments_out = << >>
    /\ d.sender.stream = c.sender.stream /\ d.sender.last_ackno = c.sender.last_ackno
    /\ d.sender.next_seqno = c.sender.next_seqno
    /\ d.segments_out = c.segments_out \o letters(c)
    /\ Mail(own, d.sender, d.receiver, letters(c))

\* send_segment: the letters go behind what is in the connection's own queue.
LEMMA Flushed ==
    ASSUME NEW text \in Texts, NEW own \in Texts, NEW c \in ConnectionType(Byte),
           Idle(own, c.sender), NEW t, NEW i,
           ReceiverOK(text, c.receiver, t, i), NEW d, d = send_segment(c)
    PROVE  SentOff(own, c, d)
<1>. DEFINE s == c.sender
            q == s.segments_out
            u == emptied(s)
            p == letters(c)
            g == c.segments_out \o p
<1>0. own \in OutStreams /\ s \in SenderType(Byte)
  BY TextBoth DEF Idle
<1>1. /\ Working(own, u) /\ u \in SenderType(Byte) /\ u.stream = s.stream
      /\ u.next_seqno = s.next_seqno /\ u.last_ackno = s.last_ackno /\ u.segments_out = << >>
      /\ Grows(s, u) /\ QueueOK(own, u, q)
  BY <1>0, IdleFacts
<1>2. Idle(own, u)
  BY <1>0, <1>1, WorkingIdle
<1>3. q \in Segs /\ Len(q) \in Nat
  BY <1>1 DEF QueueOK, Segs
<1>4. ASSUME NEW k \in 1 .. Len(q)
      PROVE  Letter(own, u, c.receiver, p[k])
  <2>1. q[k] \in SegmentType(Byte)
    BY <1>3, ElementOfSeq DEF Segs
  <2>2. ~q[k].ack /\ OnWay(own, u, q[k])
    BY <1>1 DEF QueueOK
  <2>3. p[k] = fill_header(c, q[k])
    BY DEF letters
  <2>. HIDE DEF p, u, q
  <2>. QED
    BY <2>1, <2>2, <2>3, HeaderFilled
<1>5. p \in Segs /\ Len(p) = Len(q)
  <2>1. \A k \in 1 .. Len(q) : p[k] \in SegmentType(Byte)
    BY <1>4 DEF Letter
  <2>2. p \in [1 .. Len(q) -> SegmentType(Byte)]
    BY <2>1 DEF letters
  <2>. QED
    BY <2>2, <1>3 DEF Segs
<1>6. g \in Segs
  <2>1. c.segments_out \in Segs
    BY ConnectionFields DEF ConnFields
  <2>. QED
    BY <1>5, <2>1, ConcatProperties DEF Segs
<1>7. d = queued_up(c, u, g)
  <2>1. d = [c EXCEPT !.sender.segments_out = << >>, !.segments_out = g]
    BY DEF send_segment, letters
  <2>2. d = [c EXCEPT !.sender = [s EXCEPT !.segments_out = << >>], !.segments_out = g]
    BY <2>1
  <2>. QED
    BY <2>2 DEF emptied, queued_up
<1>. HIDE DEF u, p, g
<1>8. Around(c, d) /\ d.receiver = c.receiver /\ d.sender = u /\ d.segments_out = g
  BY <1>1, <1>6, <1>7, QueueSet
<1>9. Mail(own, u, c.receiver, p)
  BY <1>4, <1>5 DEF Mail
<1>. QED
  BY <1>1, <1>2, <1>8, <1>9 DEF u, p, g, SentOff

\* d is c but for its queue and the time.
Like(c, d) ==
    /\ Around(c, d) /\ d.receiver = c.receiver /\ d.sender = c.sender

\* The queue is sent, and the time is set.
sent_all(c) == [c EXCEPT !.segments_out = << >>]
at_time(c, n) == [c EXCEPT !.time_since_last_segment_received = n]

\* Sending the queue, setting the time and hearing a segment leave both halves alone.
LEMMA LikeFields ==
    ASSUME NEW c \in ConnectionType(Byte), NEW d, NEW n \in Nat
    PROVE  /\ d = sent_all(c) => Like(c, d) /\ d.segments_out = << >>
           /\ d = at_time(c, n) => Like(c, d) /\ d.segments_out = c.segments_out
           /\ d = heard(c) => Like(c, d) /\ d.segments_out = c.segments_out
<1>. DEFINE R == ReceiverType(Byte)
            S == SenderType(Byte)
            Q == Segs
<1>1. c \in ConnFields(R, S, Q) /\ << >> \in Q
  BY ConnectionFields DEF Segs
<1>. HIDE DEF R, S, Q
<1>3. ASSUME d = sent_all(c)
      PROVE  /\ d \in ConnFields(R, S, Q) /\ d.sender = c.sender /\ d.receiver = c.receiver
             /\ d.segments_out = << >> /\ d.isactive = c.isactive
             /\ d.linger_after_streams_finish = c.linger_after_streams_finish
  BY <1>1, <1>3 DEF ConnFields, sent_all
<1>4. ASSUME d = at_time(c, n)
      PROVE  /\ d \in ConnFields(R, S, Q) /\ d.sender = c.sender /\ d.receiver = c.receiver
             /\ d.segments_out = c.segments_out /\ d.isactive = c.isactive
             /\ d.linger_after_streams_finish = c.linger_after_streams_finish
  BY <1>1, <1>4 DEF ConnFields, at_time
<1>5. ASSUME d = heard(c)
      PROVE  /\ d \in ConnFields(R, S, Q) /\ d.sender = c.sender /\ d.receiver = c.receiver
             /\ d.segments_out = c.segments_out /\ d.isactive = c.isactive
             /\ d.linger_after_streams_finish = c.linger_after_streams_finish
  BY <1>1, <1>5 DEF ConnFields, heard
<1>. QED
  BY <1>3, <1>4, <1>5, ConnectionFields DEF R, S, Q, Around, Like

\* tick sets the sender and the time, segment_received the receiver.
ticked_with(c, s, n) == [c EXCEPT !.sender = s, !.time_since_last_segment_received = n]
received_with(c, v) == [c EXCEPT !.receiver = v]

\* The fields of a connection after its sender's tick and after its receiver's segment_received.
LEMMA OtherFields ==
    ASSUME NEW c \in ConnectionType(Byte), NEW s \in SenderType(Byte), NEW n \in Nat,
           NEW v \in ReceiverType(Byte), NEW d
    PROVE  /\ d = ticked_with(c, s, n) => /\ Around(c, d) /\ d.sender = s /\ d.receiver = c.receiver
                                          /\ d.segments_out = c.segments_out
           /\ d = received_with(c, v) => /\ Around(c, d) /\ d.sender = c.sender /\ d.receiver = v
                                         /\ d.segments_out = c.segments_out
<1>. DEFINE R == ReceiverType(Byte)
            S == SenderType(Byte)
            Q == Segs
<1>1. c \in ConnFields(R, S, Q) /\ s \in S /\ v \in R
  BY ConnectionFields
<1>. HIDE DEF R, S, Q
<1>3. ASSUME d = ticked_with(c, s, n)
      PROVE  /\ d \in ConnFields(R, S, Q) /\ d.sender = s /\ d.receiver = c.receiver
             /\ d.segments_out = c.segments_out /\ d.isactive = c.isactive
             /\ d.linger_after_streams_finish = c.linger_after_streams_finish
  BY <1>1, <1>3 DEF ConnFields, ticked_with
<1>4. ASSUME d = received_with(c, v)
      PROVE  /\ d \in ConnFields(R, S, Q) /\ d.sender = c.sender /\ d.receiver = v
             /\ d.segments_out = c.segments_out /\ d.isactive = c.isactive
             /\ d.linger_after_streams_finish = c.linger_after_streams_finish
  BY <1>1, <1>4 DEF ConnFields, received_with
<1>. QED
  BY <1>3, <1>4, ConnectionFields DEF R, S, Q, Around

\* clean_shutdown gives up lingering or ends the connection, and does nothing else.
LEMMA CleanFields ==
    ASSUME NEW c \in ConnectionType(Byte), NEW d, d = clean_shutdown(c)
    PROVE  /\ d \in ConnectionType(Byte) /\ d.receiver = c.receiver /\ d.sender = c.sender
           /\ d.segments_out = c.segments_out
           /\ \/ d.linger_after_streams_finish = c.linger_after_streams_finish
              \/ passive_close(c)
           /\ \/ d.isactive = c.isactive
              \/ streams_finished(c)
<1>. DEFINE R == ReceiverType(Byte)
            S == SenderType(Byte)
            Q == Segs
<1>1. c \in ConnFields(R, S, Q)
  BY ConnectionFields
<1>. HIDE DEF R, S, Q
<1>2. \/ passive_close(c) /\ d = [c EXCEPT !.linger_after_streams_finish = FALSE]
      \/ streams_finished(c) /\ d = [c EXCEPT !.isactive = FALSE]
      \/ d = c
  BY DEF clean_shutdown
<1>3. CASE passive_close(c) /\ d = [c EXCEPT !.linger_after_streams_finish = FALSE]
  <2>1. /\ d \in ConnFields(R, S, Q) /\ d.sender = c.sender /\ d.receiver = c.receiver
        /\ d.segments_out = c.segments_out /\ d.isactive = c.isactive
    BY ONLY <1>1, <1>3 DEF ConnFields
  <2>. QED
    BY <2>1, <1>3, ConnectionFields DEF R, S, Q
<1>4. CASE streams_finished(c) /\ d = [c EXCEPT !.isactive = FALSE]
  <2>1. /\ d \in ConnFields(R, S, Q) /\ d.sender = c.sender /\ d.receiver = c.receiver
        /\ d.segments_out = c.segments_out
        /\ d.linger_after_streams_finish = c.linger_after_streams_finish
    BY ONLY <1>1, <1>4 DEF ConnFields
  <2>. QED
    BY <2>1, <1>4, ConnectionFields DEF R, S, Q
<1>5. CASE d = c
  BY <1>5
<1>. QED
  BY <1>2, <1>3, <1>4, <1>5

\* unclean_shutdown marks both streams and ends the connection.
downed(c, s, v) == [c EXCEPT !.sender = s, !.receiver = v, !.isactive = FALSE]

\* The fields of a connection that unclean_shutdown has ended.
LEMMA UncleanFields ==
    ASSUME NEW c \in ConnectionType(Byte), NEW s \in SenderType(Byte),
           NEW v \in ReceiverType(Byte), NEW d, d = downed(c, s, v)
    PROVE  /\ d \in ConnectionType(Byte) /\ d.sender = s /\ d.receiver = v /\ ~d.isactive
           /\ d.segments_out = c.segments_out
           /\ d.linger_after_streams_finish = c.linger_after_streams_finish
<1>. DEFINE R == ReceiverType(Byte)
            S == SenderType(Byte)
            Q == Segs
<1>1. c \in ConnFields(R, S, Q) /\ s \in S /\ v \in R
  BY ConnectionFields
<1>. HIDE DEF R, S, Q
<1>2. /\ d \in ConnFields(R, S, Q) /\ d.sender = s /\ d.receiver = v
      /\ d.segments_out = c.segments_out /\ ~d.isactive
      /\ d.linger_after_streams_finish = c.linger_after_streams_finish
  BY <1>1 DEF ConnFields, downed
<1>. QED
  BY <1>2, ConnectionFields DEF R, S, Q

\* All that was written has been acknowledged, and its end.
Finished(s) ==
    /\ s.stream.end_input /\ s.last_ackno = s.next_seqno
    /\ s.next_seqno = s.stream.bytes_w + 2

\* A connection, own its owner's stream, text the peer's from the number i on, of which t has
\* been read.
Steady(own, text, c, t, i) ==
    c \in ConnectionType(Byte) /\ Idle(own, c.sender) /\ ReceiverOK(text, c.receiver, t, i)

\* And one between two calls: it gives up lingering when the peer's stream has ended, and
\* ends when its own has been acknowledged too, or because of an error.
End(own, text, c, t, i) ==
    /\ Steady(own, text, c, t, i)
    /\ c.isactive => c.sender.segments_out = << >>
    /\ ~c.linger_after_streams_finish => input_ended(inbound_stream(c))
    /\ ~c.isactive => \/ inbound_stream(c).error
                      \/ input_ended(inbound_stream(c)) /\ Finished(c.sender)

\* What a call does to a connection, which sends q.
Move(own, c, d, q) ==
    /\ Grows(c.sender, d.sender) /\ Advances(c.receiver, d.receiver)
    /\ Mail(own, d.sender, d.receiver, q)
    /\ ~d.linger_after_streams_finish => ~c.linger_after_streams_finish \/ ~eof(d.sender.stream)

\* A call that leaves what was in the queue in front of what it sends.
Moves(own, c, d) == \E q : Move(own, c, d, q) /\ d.segments_out = c.segments_out \o q
Adds(own, c, d) ==
    \E q : Mail(own, d.sender, d.receiver, q) /\ d.segments_out = c.segments_out \o q

\* A connection like one between two calls is between two calls.
LEMMA EndLike ==
    ASSUME NEW own, NEW text, NEW c, NEW t, NEW i, End(own, text, c, t, i), NEW d, Like(c, d)
    PROVE  End(own, text, d, t, i)
  BY DEF End, Steady, Like, Around, inbound_stream

\* And what led to the one led to the other.
LEMMA MoveLike ==
    ASSUME NEW own, NEW c, NEW d, NEW q, Move(own, c, d, q), NEW e, Like(d, e)
    PROVE  Move(own, c, e, q)
  BY DEF Move, Like, Around

\* A sender that does nothing grows, by nothing.
LEMMA SameGrows ==
    ASSUME NEW own \in OutStreams, NEW s, Idle(own, s)
    PROVE  Grows(s, s)
<1>1. /\ s.next_seqno \in Nat /\ s.stream.bytes_w \in Nat
  BY IdleNumbers
<1>. QED
  BY <1>1 DEF Grows

\* So does a receiver.
LEMMA SameAdvances ==
    ASSUME NEW text \in Texts, NEW v, NEW t, NEW i, ReceiverOK(text, v, t, i)
    PROVE  Advances(v, v)
<1>1. first_unassembled(v.reassembler) \in Nat
  BY ReceiverNumbers
<1>. QED
  BY <1>1 DEF Advances

\* Advancing twice is advancing.
LEMMA AdvancesOn ==
    ASSUME NEW u, NEW v, NEW w, Advances(u, v), Advances(v, w),
           first_unassembled(u.reassembler) \in Nat, first_unassembled(v.reassembler) \in Nat,
           first_unassembled(w.reassembler) \in Nat
    PROVE  Advances(u, w)
  BY DEF Advances

\* Nothing sent.
LEMMA NoMail ==
    ASSUME NEW own, NEW s, NEW v
    PROVE  Mail(own, s, v, << >>)
  BY DEF Mail, Segs

\* And nothing added to the queue.
LEMMA NoneAdded ==
    ASSUME NEW own, NEW c \in ConnectionType(Byte), NEW d, d.segments_out = c.segments_out
    PROVE  Adds(own, c, d) /\ c.segments_out = c.segments_out \o << >>
<1>1. c.segments_out \in Segs
  BY ConnectionFields DEF ConnFields
<1>2. c.segments_out \o << >> = c.segments_out
  BY <1>1, ConcatEmptySeq DEF Segs
<1>. QED
  BY <1>2, NoMail DEF Adds

\* The streams are finished as TCPState sees it.
LEMMA FinishedStreams ==
    ASSUME NEW own \in Texts, NEW text, NEW c, NEW t, NEW i, Steady(own, text, c, t, i),
           streams_finished(c)
    PROVE  input_ended(inbound_stream(c)) /\ Finished(c.sender)
<1>. DEFINE s == c.sender
            v == c.receiver
<1>1. sender_summary(s) = "fin_acked" /\ receiver_summary(v) = "fin_recv"
  BY DEF streams_finished
<1>2. input_ended(stream_out(v))
  <2>1. stream_out(v).error \in BOOLEAN /\ input_ended(stream_out(v)) \in BOOLEAN
        /\ has_ackno(v) \in BOOLEAN
    BY DEF Steady, ReceiverOK, ReceiverType, ReassemblerType, ByteStreamType, stream_out,
           input_ended, has_ackno
  <2>2. CASE stream_out(v).error
    BY <2>1, <2>2, <1>1 DEF receiver_summary
  <2>3. CASE ~stream_out(v).error /\ ~has_ackno(v)
    BY <2>1, <2>3, <1>1 DEF receiver_summary
  <2>4. CASE ~stream_out(v).error /\ has_ackno(v) /\ ~input_ended(stream_out(v))
    BY <2>1, <2>4, <1>1 DEF receiver_summary
  <2>. QED
    BY <2>1, <2>2, <2>3, <2>4
<1>3. /\ eof(s.stream) /\ ~(s.next_seqno < bytes_written(s.stream) + 2)
      /\ ~(bytes_in_flight(s) > 0)
  BY <1>1 DEF sender_summary
<1>4. /\ s.next_seqno \in Nat /\ s.last_ackno \in Nat /\ s.last_ackno <= s.next_seqno
      /\ s.stream.bytes_w \in Nat /\ s.next_seqno <= s.stream.bytes_w + 2
  BY TextBoth, IdleNumbers DEF Steady
<1>5. s.last_ackno = s.next_seqno /\ s.next_seqno = s.stream.bytes_w + 2 /\ s.stream.end_input
  BY <1>3, <1>4 DEF eof, input_ended, bytes_written, bytes_in_flight
<1>. QED
  BY <1>2, <1>5 DEF Finished, inbound_stream

\* A connection that is not active has been reset, or is at its end both ways.
Usable(c) ==
    \/ c.isactive \/ inbound_stream(c).error
    \/ input_ended(inbound_stream(c)) /\ Finished(c.sender)

\* Every call but one that resets ends with send_segment, or with clean_shutdown after it.
LEMMA FlushEnds ==
    ASSUME NEW own \in Texts, NEW text \in Texts, NEW c, NEW t, NEW i, End(own, text, c, t, i),
           NEW x, Steady(own, text, x, t, i), Around(c, x), x.segments_out = c.segments_out,
           Grows(c.sender, x.sender), Advances(c.receiver, x.receiver), Usable(x),
           NEW y, y = send_segment(x),
           NEW d, d = y \/ (x.isactive /\ d = clean_shutdown(y))
    PROVE  /\ End(own, text, d, t, i) /\ Moves(own, c, d)
           /\ d.sender.last_ackno = x.sender.last_ackno /\ d.receiver = x.receiver
<1>0. /\ x \in ConnectionType(Byte) /\ Idle(own, x.sender) /\ ReceiverOK(text, x.receiver, t, i)
      /\ own \in OutStreams
      /\ ~c.linger_after_streams_finish => input_ended(inbound_stream(c))
  BY TextBoth DEF Steady, End
<1>1. /\ Around(x, y) /\ y.receiver = x.receiver
      /\ Idle(own, y.sender) /\ Grows(x.sender, y.sender) /\ y.sender.segments_out = << >>
      /\ y.sender.last_ackno = x.sender.last_ackno /\ y.sender.stream = x.sender.stream
      /\ y.sender.next_seqno = x.sender.next_seqno
      /\ y.segments_out = c.segments_out \o letters(x)
      /\ Mail(own, y.sender, y.receiver, letters(x))
  <2>1. SentOff(own, x, y)
    BY ONLY own \in Texts, text \in Texts, y = send_segment(x), <1>0, Flushed
  <2>. QED
    BY <2>1 DEF SentOff
<1>2. /\ y \in ConnectionType(Byte) /\ Steady(own, text, y, t, i) /\ Grows(c.sender, y.sender)
      /\ y.linger_after_streams_finish = c.linger_after_streams_finish
      /\ y.isactive = x.isactive
  BY <1>0, <1>1, GrowsOn DEF Steady, Around
<1>3. ~y.linger_after_streams_finish => input_ended(inbound_stream(y))
  BY <1>0, <1>1, <1>2 DEF Advances, inbound_stream
<1>4. inbound_stream(y) = inbound_stream(x)
  BY <1>1 DEF inbound_stream
<1>5. CASE d = y
  <2>1. Usable(y)
    BY <1>1, <1>2, <1>4 DEF Usable, Finished
  <2>2. End(own, text, d, t, i)
    BY <1>1, <1>2, <1>3, <1>5, <2>1 DEF End, Usable
  <2>3. Move(own, c, d, letters(x))
    BY <1>1, <1>2, <1>5 DEF Move
  <2>. QED
    BY <1>1, <1>5, <2>2, <2>3 DEF Moves
<1>6. CASE x.isactive /\ d = clean_shutdown(y)
  <2>1. /\ d \in ConnectionType(Byte) /\ d.receiver = y.receiver /\ d.sender = y.sender
        /\ d.segments_out = y.segments_out
        /\ \/ d.linger_after_streams_finish = y.linger_after_streams_finish
           \/ passive_close(y)
        /\ \/ d.isactive = y.isactive
           \/ streams_finished(y)
    BY <1>2, <1>6, CleanFields
  <2>2. Steady(own, text, d, t, i) /\ inbound_stream(d) = inbound_stream(y)
    BY <1>2, <2>1 DEF Steady, inbound_stream
  <2>3. ~d.isactive => input_ended(inbound_stream(d)) /\ Finished(d.sender)
    BY <1>2, <1>6, <2>1, <2>2, FinishedStreams
  <2>4. ~d.linger_after_streams_finish => input_ended(inbound_stream(d))
    BY <1>3, <2>1, <2>2 DEF passive_close
  <2>5. ~d.linger_after_streams_finish => ~c.linger_after_streams_finish \/ ~eof(d.sender.stream)
    BY <1>2, <2>1 DEF passive_close
  <2>6. End(own, text, d, t, i)
    BY <1>1, <2>1, <2>2, <2>3, <2>4 DEF End
  <2>7. Move(own, c, d, letters(x))
    BY <1>1, <1>2, <2>1, <2>5 DEF Move
  <2>. QED
    BY <1>1, <2>1, <2>6, <2>7 DEF Moves
<1>. QED
  BY <1>5, <1>6

\* A segment that is sent stays what it is.
LEMMA MailKept ==
    ASSUME NEW own, NEW s, NEW v, NEW q, Mail(own, s, v, q), NEW r, Grows(s, r),
           NEW w, w.syn = v.syn, w.isn = v.isn, ackable(w) = ackable(v)
    PROVE  Mail(own, r, w, q)
<1>1. q \in Segs /\ Len(q) \in Nat
  BY DEF Mail, Segs
<1>2. ASSUME NEW k \in 1 .. Len(q) PROVE Letter(own, r, w, q[k])
  <2>1. Letter(own, s, v, q[k])
    BY DEF Mail
  <2>2. OnWay(own, r, q[k])
    BY <2>1, OnWayKept DEF Letter
  <2>. QED
    BY <2>1, <2>2 DEF Letter
<1>. QED
  BY <1>1, <1>2 DEF Mail

\* unclean_shutdown, after whatever was sent.
LEMMA UncleanEnds ==
    ASSUME NEW own \in Texts, NEW text \in Texts, NEW c, NEW t, NEW i, End(own, text, c, t, i),
           NEW x, Steady(own, text, x, t, i), Around(c, x),
           Grows(c.sender, x.sender), x.receiver = c.receiver,
           Adds(own, c, x), NEW d, d = unclean_shutdown(x)
    PROVE  /\ End(own, text, d, t, i) /\ Moves(own, c, d)
           /\ d.sender.last_ackno = x.sender.last_ackno /\ Alike(x.receiver, d.receiver)
<1>. DEFINE s == [x.sender EXCEPT !.stream = set_error(@)]
            v == marked(x.receiver)
<1>0. /\ x \in ConnectionType(Byte) /\ Idle(own, x.sender) /\ ReceiverOK(text, x.receiver, t, i)
      /\ own \in OutStreams
      /\ ~c.linger_after_streams_finish => input_ended(inbound_stream(c))
  BY TextBoth DEF Steady, End
<1>1. Idle(own, s) /\ Grows(x.sender, s) /\ s.last_ackno = x.sender.last_ackno
  BY <1>0, MarkIdle
<1>2. ReceiverOK(text, v, t, i) /\ Alike(x.receiver, v) /\ stream_out(v).error
  BY <1>0, MarkHeld
<1>3. first_unassembled(x.receiver.reassembler) \in Nat
  BY <1>0, ReceiverNumbers
<1>4. Advances(x.receiver, v) /\ ackable(v) = ackable(x.receiver)
  BY <1>2, <1>3, AlikeHeld
<1>5. s \in SenderType(Byte) /\ v \in ReceiverType(Byte)
  BY <1>1, <1>2 DEF Idle, ReceiverOK
<1>6. d = downed(x, s, v)
  BY DEF unclean_shutdown, downed, marked
<1>. HIDE DEF s, v
<1>7. /\ d \in ConnectionType(Byte) /\ d.sender = s /\ d.receiver = v /\ ~d.isactive
      /\ d.segments_out = x.segments_out
      /\ d.linger_after_streams_finish = x.linger_after_streams_finish
  BY <1>0, <1>5, <1>6, UncleanFields
<1>a. PICK q : Mail(own, x.sender, x.receiver, q) /\ x.segments_out = c.segments_out \o q
  BY DEF Adds
<1>8. Mail(own, s, v, q)
  BY <1>a, <1>1, <1>2, <1>4, MailKept DEF Alike
<1>9. Grows(c.sender, s)
  BY <1>1, GrowsOn
<1>10. ~d.linger_after_streams_finish => input_ended(inbound_stream(d))
  BY <1>0, <1>4, <1>7 DEF Around, inbound_stream, Advances
<1>11. End(own, text, d, t, i)
  BY <1>1, <1>2, <1>7, <1>10 DEF End, Steady, inbound_stream
<1>12. Move(own, c, d, q)
  BY <1>4, <1>7, <1>8, <1>9 DEF Move, Around
<1>. QED
  BY <1>a, <1>1, <1>2, <1>7, <1>11, <1>12 DEF Moves

\* send_rst_segment: the first segment of the queue goes out with the RST, and the others stay.
LEMMA RstSent ==
    ASSUME NEW own \in Texts, NEW text \in Texts, NEW c, NEW t, NEW i,
           Steady(own, text, c, t, i), NEW d, d = send_rst_segment(c)
    PROVE  /\ Steady(own, text, d, t, i) /\ Around(c, d) /\ d.receiver = c.receiver
           /\ Grows(c.sender, d.sender) /\ d.sender.last_ackno = c.sender.last_ackno
           /\ Adds(own, c, d)
<1>. DEFINE f == fill_window(c.sender)
            q == f.segments_out
            h == fill_header(c, Head(q))
            first == [h EXCEPT !.rst = TRUE]
            e == send_empty_segment(f)
            r == requeued(f, Tail(q))
<1>0. /\ c \in ConnectionType(Byte) /\ Idle(own, c.sender) /\ ReceiverOK(text, c.receiver, t, i)
      /\ own \in OutStreams
  BY TextBoth DEF Steady
<1>1. Idle(own, f) /\ Grows(c.sender, f) /\ f.last_ackno = c.sender.last_ackno
  BY <1>0, FillIdle
<1>2. /\ q = << >> => d = [c EXCEPT !.sender = e]
      /\ q # << >> => d = queued_up(c, r, Append(c.segments_out, first))
  BY DEF send_rst_segment, requeued, queued_up
<1>. HIDE DEF f
<1>3. CASE q = << >>
  <2>1. Idle(own, e) /\ Grows(f, e) /\ e.last_ackno = f.last_ackno
    BY <1>0, <1>1, EmptyIdle
  <2>2. e \in SenderType(Byte) /\ d = [c EXCEPT !.sender = e]
    BY <2>1, <1>2, <1>3 DEF Idle
  <2>. HIDE DEF e
  <2>3. /\ Around(c, d) /\ d.sender = e /\ d.receiver = c.receiver
        /\ d.segments_out = c.segments_out
    BY <1>0, <2>2, SenderSet
  <2>4. Adds(own, c, d)
    BY <1>0, <2>3, NoneAdded
  <2>. QED
    BY <1>0, <1>1, <2>1, <2>3, <2>4, GrowsOn DEF Steady, Around
<1>4. CASE q # << >>
  <2>1. q \in Segs /\ QueueOK(own, f, q)
    BY <1>1 DEF Idle, QueueOK
  <2>2. /\ Head(q) \in SegmentType(Byte) /\ Tail(q) \in Segs /\ Head(q) = q[1]
        /\ Len(q) \in Nat /\ 1 <= Len(q) /\ Len(Tail(q)) = Len(q) - 1
        /\ \A k \in 1 .. Len(Tail(q)) : Tail(q)[k] = q[k + 1]
    BY <2>1, <1>4 DEF Segs
  <2>3. ~Head(q).ack /\ OnWay(own, f, Head(q))
    BY <2>1, <2>2 DEF QueueOK
  <2>4. QueueOK(own, f, Tail(q))
    <3>1. ASSUME NEW k \in 1 .. Len(Tail(q))
          PROVE  ~Tail(q)[k].ack /\ OnWay(own, f, Tail(q)[k])
      <4>1. k + 1 \in 1 .. Len(q) /\ Tail(q)[k] = q[k + 1]
        BY <2>2
      <4>. QED
        BY <4>1, <2>1 DEF QueueOK
    <3>. QED
      BY <2>2, <3>1 DEF QueueOK
  <2>5. Idle(own, r) /\ Grows(f, r) /\ r.last_ackno = f.last_ackno
    <3>. HIDE DEF q
    <3>. QED
      BY <1>0, <1>1, <2>4, Requeued
  <2>6. Letter(own, f, c.receiver, first)
    <3>. DEFINE g == Head(q)
    <3>. HIDE DEF g
    <3>1. g \in SegmentType(Byte) /\ ~g.ack /\ OnWay(own, f, g) /\ h = fill_header(c, g)
      BY <2>2, <2>3 DEF g
    <3>. HIDE DEF h
    <3>. QED
      BY <1>0, <3>1, HeaderFilled
  <2>7. Letter(own, r, c.receiver, first)
    <3>. HIDE DEF first, r
    <3>. QED
      BY <2>5, <2>6, OnWayKept DEF Letter
  <2>8. r \in SenderType(Byte) /\ first \in SegmentType(Byte)
    BY <2>5, <2>7 DEF Letter, Idle
  <2>. DEFINE p == << first >>
              g == c.segments_out \o p
  <2>0. c.segments_out \in Segs
    BY <1>0, ConnectionFields DEF ConnFields
  <2>9. d = queued_up(c, r, g) /\ g \in Segs
    <3>1. Append(c.segments_out, first) = g /\ g \in Segs
      <4>. HIDE DEF first
      <4>. QED
        BY <2>0, <2>8 DEF Segs
    <3>2. d = queued_up(c, r, Append(c.segments_out, first))
      BY <1>2, <1>4
    <3>. HIDE DEF first, p, g, r
    <3>. QED
      BY <3>1, <3>2
  <2>. HIDE DEF first, r
  <2>10. p \in Segs /\ Len(p) = 1 /\ p[1] = first
    BY <2>8 DEF Segs
  <2>. HIDE DEF p, g
  <2>11. Around(c, d) /\ d.sender = r /\ d.receiver = c.receiver /\ d.segments_out = g
    BY <1>0, <2>8, <2>9, QueueSet
  <2>12. Adds(own, c, d)
    <3>1. \A k \in 1 .. Len(p) : p[k] = first
      BY <2>10
    <3>2. \A k \in 1 .. Len(p) : Letter(own, r, c.receiver, p[k])
      BY <2>7, <3>1, Zenon
    <3>3. Mail(own, d.sender, d.receiver, p)
      BY <2>10, <2>11, <3>2 DEF Mail
    <3>. QED
      BY <2>11, <3>3 DEF Adds, g
  <2>. QED
    BY <1>0, <1>1, <2>5, <2>11, <2>12, GrowsOn DEF Steady, Around
<1>. QED
  BY <1>3, <1>4

\* x is c in the middle of a call, its receiver v by now.
Mid(own, text, c, x, t, i, v) ==
    /\ Steady(own, text, x, t, i) /\ Around(c, x) /\ x.segments_out = c.segments_out
    /\ Grows(c.sender, x.sender) /\ x.receiver = v

\* In the middle of a call the sender may go on.
LEMMA SenderMid ==
    ASSUME NEW own \in Texts, NEW text, NEW c, NEW x, NEW t, NEW i, NEW v,
           Mid(own, text, c, x, t, i, v), NEW s, Idle(own, s), Grows(x.sender, s),
           NEW y, y = [x EXCEPT !.sender = s]
    PROVE  Mid(own, text, c, y, t, i, v) /\ y.sender = s
<1>1. x \in ConnectionType(Byte) /\ s \in SenderType(Byte)
  BY DEF Mid, Steady, Idle
<1>2. Around(x, y) /\ y.sender = s /\ y.receiver = x.receiver /\ y.segments_out = x.segments_out
  BY <1>1, SenderSet
<1>3. Grows(c.sender, s)
  BY GrowsOn DEF Mid
<1>. QED
  BY <1>2, <1>3 DEF Mid, Steady, Around

\* The start of a call.
LEMMA MidSame ==
    ASSUME NEW own \in Texts, NEW text, NEW c, NEW t, NEW i, End(own, text, c, t, i)
    PROVE  Mid(own, text, c, c, t, i, c.receiver)
<1>1. Grows(c.sender, c.sender)
  BY TextBoth, SameGrows DEF End, Steady
<1>. QED
  BY <1>1 DEF Mid, End, Steady, Around

\* Before a call, p the peer's sender.
Between(own, text, c, t, i, p) ==
    End(own, text, c, t, i) /\ Held(text, p, c.receiver)

\* What a call leaves.
Called(own, text, c, d, t, i, p) ==
    End(own, text, d, t, i) /\ Moves(own, c, d) /\ Held(text, p, d.receiver)

\* A call that gives the sender something to do and sends what comes of it.
with_sender(c, s) == [c EXCEPT !.sender = s]

\* A call that lets the sender go on and then sends what it has queued.
LEMMA SenderCall ==
    ASSUME NEW own \in Texts, NEW text \in Texts, NEW c, NEW t, NEW i, NEW p,
           Between(own, text, c, t, i, p),
           NEW s, Idle(own, s), Grows(c.sender, s), s.last_ackno = c.sender.last_ackno,
           NEW d, d = send_segment(with_sender(c, s))
    PROVE  Called(own, text, c, d, t, i, p) /\ d.sender.last_ackno = s.last_ackno
<1>. DEFINE x == with_sender(c, s)
<1>0. End(own, text, c, t, i) /\ Held(text, p, c.receiver)
  BY DEF Between
<1>1. Mid(own, text, c, x, t, i, c.receiver) /\ x.sender = s
  BY <1>0, MidSame, SenderMid DEF Mid, with_sender
<1>2. Advances(c.receiver, x.receiver)
  BY <1>1, SameAdvances DEF Mid, Steady
<1>3. Usable(x)
  <2>1. Finished(c.sender) => Finished(s)
    <3>1. /\ s.next_seqno \in Nat /\ s.stream.bytes_w \in Nat
          /\ s.next_seqno <= s.stream.bytes_w + 2
      BY TextBoth, IdleNumbers
    <3>. QED
      BY <3>1 DEF Finished, Grows
  <2>2. inbound_stream(x) = inbound_stream(c) /\ x.isactive = c.isactive
    BY <1>1 DEF Mid, Around, inbound_stream
  <2>. QED
    BY <1>0, <1>1, <2>1, <2>2 DEF Usable, End
<1>4. /\ End(own, text, d, t, i) /\ Moves(own, c, d)
      /\ d.sender.last_ackno = x.sender.last_ackno /\ d.receiver = x.receiver
  <2>1. /\ Steady(own, text, x, t, i) /\ Around(c, x) /\ x.segments_out = c.segments_out
        /\ Grows(c.sender, x.sender)
    BY <1>1 DEF Mid
  <2>2. d = send_segment(x)
    OBVIOUS
  <2>. QED
    BY ONLY own \in Texts, text \in Texts, <1>0, <1>2, <1>3, <2>1, <2>2, FlushEnds
<1>. QED
  BY <1>0, <1>1, <1>4 DEF Called, Mid

\* connect.
LEMMA ConnectCall ==
    ASSUME NEW own \in Texts, NEW text \in Texts, NEW c, NEW t, NEW i, NEW p,
           Between(own, text, c, t, i, p), NEW d, d = connect(c)
    PROVE  Called(own, text, c, d, t, i, p) /\ d.sender.last_ackno = c.sender.last_ackno
<1>. DEFINE s == fill_window(c.sender)
<1>1. own \in OutStreams /\ Idle(own, c.sender)
  BY TextBoth DEF Between, End, Steady
<1>2. Idle(own, s) /\ Grows(c.sender, s) /\ s.last_ackno = c.sender.last_ackno
  BY <1>1, FillIdle
<1>3. d = send_segment(with_sender(c, s))
  BY DEF connect, with_sender
<1>. HIDE DEF s
<1>. QED
  BY <1>2, <1>3, SenderCall

\* end_input_stream, which does not ask whether the connection is active.
LEMMA EndCall ==
    ASSUME NEW own \in Texts, NEW text \in Texts, NEW c, NEW t, NEW i, NEW p,
           Between(own, text, c, t, i, p), c.sender.stream.bytes_w = Len(own),
           NEW d, d = end_input_stream(c)
    PROVE  Called(own, text, c, d, t, i, p) /\ d.sender.last_ackno = c.sender.last_ackno
<1>. DEFINE s == fill_window([c.sender EXCEPT !.stream = end_input(@)])
<1>1. own \in OutStreams /\ Idle(own, c.sender)
  BY TextBoth DEF Between, End, Steady
<1>2. Idle(own, s) /\ Grows(c.sender, s) /\ s.last_ackno = c.sender.last_ackno
  BY <1>1, EndIdle
<1>3. d = send_segment(with_sender(c, s))
  BY DEF end_input_stream, with_sender
<1>. HIDE DEF s
<1>. QED
  BY <1>2, <1>3, SenderCall

\* Nothing happens.
LEMMA NoCall ==
    ASSUME NEW own \in Texts, NEW text \in Texts, NEW c, NEW t, NEW i, NEW p,
           Between(own, text, c, t, i, p)
    PROVE  Called(own, text, c, c, t, i, p)
<1>0. End(own, text, c, t, i) /\ Held(text, p, c.receiver) /\ c \in ConnectionType(Byte)
  BY DEF Between, End, Steady
<1>1. Grows(c.sender, c.sender) /\ Advances(c.receiver, c.receiver)
  BY <1>0, TextBoth, SameGrows, SameAdvances DEF End, Steady
<1>2. Mail(own, c.sender, c.receiver, << >>) /\ c.segments_out = c.segments_out \o << >>
  BY <1>0, NoMail, NoneAdded
<1>3. Move(own, c, c, << >>)
  BY <1>1, <1>2 DEF Move
<1>. QED
  BY <1>0, <1>2, <1>3 DEF Called, Moves

\* write of any bytes that come next.
LEMMA WriteNextCall ==
    ASSUME NEW own \in Texts, NEW text \in Texts, NEW c, NEW t, NEW i, NEW p,
           Between(own, text, c, t, i, p), ~c.sender.stream.end_input,
           NEW ln \in Nat, c.sender.stream.bytes_w + ln <= Len(own),
           NEW data, data = next_bytes(own, c.sender.stream.bytes_w, ln),
           NEW d, d = write(c, data)
    PROVE  Called(own, text, c, d, t, i, p) /\ d.sender.last_ackno = c.sender.last_ackno
<1>. DEFINE s == fill_window(writing(c.sender, data))
<1>1. own \in OutStreams /\ Idle(own, c.sender)
  BY TextBoth DEF Between, End, Steady
<1>2. Idle(own, s) /\ Grows(c.sender, s) /\ s.last_ackno = c.sender.last_ackno
  BY ONLY <1>1, ~c.sender.stream.end_input, ln \in Nat, c.sender.stream.bytes_w + ln <= Len(own),
          data = next_bytes(own, c.sender.stream.bytes_w, ln), WriteIdle
<1>3. CASE d = c
  BY <1>3, NoCall
<1>4. CASE d = send_segment(with_sender(c, s))
  <2>. HIDE DEF s
  <2>. QED
    BY <1>2, <1>4, SenderCall
<1>5. d = c \/ d = send_segment(with_sender(c, s))
  BY DEF write, with_sender, writing
<1>. QED
  BY <1>3, <1>4, <1>5

\* write of the bytes that come next and fit.
unwritten(own, o) ==
    SubSeq(own, bytes_written(o) + 1, min(Len(own), bytes_written(o) + remaining_capacity(o)))

\* write of as much as there is room for.
LEMMA WriteCall ==
    ASSUME NEW own \in Texts, NEW text \in Texts, NEW c, NEW t, NEW i, NEW p,
           Between(own, text, c, t, i, p), NEW data, data # << >>,
           data = unwritten(own, c.sender.stream),
           NEW d, d = write(c, data)
    PROVE  Called(own, text, c, d, t, i, p) /\ d.sender.last_ackno = c.sender.last_ackno
<1>. DEFINE from == c.sender.stream.bytes_w
            room == remaining_capacity(c.sender.stream)
            to == min(Len(own), from + room)
            ln == to - from
<1>1. own \in OutStreams /\ Idle(own, c.sender)
  BY TextBoth DEF Between, End, Steady
<1>2. /\ from \in Nat /\ from <= Len(own) /\ Len(own) \in Nat /\ own \in Seq(Byte)
      /\ c.sender.stream.end_input => from = Len(own)
  <2>1. from \in Nat /\ from <= Len(own)
    BY <1>1, IdleNumbers
  <2>2. Working(own, emptied(c.sender)) /\ emptied(c.sender).stream = c.sender.stream
    BY <1>1, IdleFacts
  <2>. QED
    BY <1>1, <2>1, <2>2, TextSizes DEF Working
<1>3. room \in Nat
  <2>. DEFINE u == emptied(c.sender)
  <2>1. SenderOK(own, u) /\ u.stream = c.sender.stream
    BY <1>1, IdleFacts
  <2>. HIDE DEF u
  <2>2. c.sender.stream \in ByteStreamType(Byte) /\ StreamOK(own, c.sender.stream)
    BY <2>1 DEF SenderOK, SenderType
  <2>. QED
    BY <2>2 DEF StreamOK, ByteStreamType, remaining_capacity
<1>4. to \in Nat /\ to <= Len(own) /\ from <= to
  BY <1>2, <1>3 DEF min
<1>5. data = SubSeq(own, from + 1, from + ln) /\ ln \in Nat /\ from + ln <= Len(own)
  <2>1. data = SubSeq(own, from + 1, to)
    BY DEF bytes_written, unwritten
  <2>. HIDE DEF from, to
  <2>2. to - from \in Nat /\ from + (to - from) = to
    BY <1>2, <1>4
  <2>. QED
    BY <2>1, <2>2, <1>4
<1>6. ~c.sender.stream.end_input
  <2>. SUFFICES ASSUME c.sender.stream.end_input PROVE FALSE
    OBVIOUS
  <2>1. from = Len(own) /\ ln = 0
    BY <1>2, <1>4
  <2>. HIDE DEF from, ln
  <2>. QED
    BY <1>2, <1>5, <2>1
<1>7. /\ c.sender.stream.bytes_w + ln <= Len(own) /\ ln \in Nat
      /\ data = next_bytes(own, c.sender.stream.bytes_w, ln)
  BY <1>5 DEF next_bytes
<1>. HIDE DEF ln
<1>. QED
  BY <1>6, <1>7, WriteNextCall

\* The connection is reset from one that is otherwise in order.
LEMMA UncleanCall ==
    ASSUME NEW own \in Texts, NEW text \in Texts, NEW c, NEW t, NEW i, NEW p,
           Between(own, text, c, t, i, p),
           NEW x, Steady(own, text, x, t, i), Around(c, x),
           Grows(c.sender, x.sender), x.receiver = c.receiver,
           Adds(own, c, x), NEW d, d = unclean_shutdown(x)
    PROVE  Called(own, text, c, d, t, i, p) /\ d.sender.last_ackno = x.sender.last_ackno
<1>0. End(own, text, c, t, i) /\ Held(text, p, c.receiver)
  BY DEF Between
<1>1. /\ End(own, text, d, t, i) /\ Moves(own, c, d)
      /\ d.sender.last_ackno = x.sender.last_ackno /\ Alike(x.receiver, d.receiver)
  BY <1>0, UncleanEnds
<1>2. first_unassembled(x.receiver.reassembler) \in Nat
  BY ReceiverNumbers DEF Steady
<1>3. Held(text, p, d.receiver)
  BY <1>0, <1>1, <1>2, AlikeHeld
<1>. QED
  BY <1>1, <1>3 DEF Called

\* tick: the sender's, and then the connection is reset or all goes on.
LEMMA TickCall ==
    ASSUME NEW own \in Texts, NEW text \in Texts, NEW c, NEW t, NEW i, NEW p,
           Between(own, text, c, t, i, p), NEW ms \in Nat, NEW d, d = tick(c, ms)
    PROVE  Called(own, text, c, d, t, i, p) /\ d.sender.last_ackno = c.sender.last_ackno
<1>. DEFINE s == sender_tick(c.sender, ms)
            n == c.time_since_last_segment_received + ms
            x == ticked_with(c, s, n)
            y == send_segment(x)
            z == send_rst_segment(x)
<1>0. /\ End(own, text, c, t, i) /\ Held(text, p, c.receiver)
      /\ Steady(own, text, c, t, i) /\ own \in OutStreams /\ Idle(own, c.sender)
      /\ c \in ConnectionType(Byte) /\ ReceiverOK(text, c.receiver, t, i)
  BY TextBoth DEF Between, End, Steady
<1>1. CASE ~c.isactive
  <2>1. d = c
    BY <1>1 DEF tick
  <2>. QED
    BY <2>1, NoCall
<1>2. CASE c.isactive
  <2>1. c.sender.segments_out = << >>
    BY <1>0, <1>2 DEF End
  <2>2. Idle(own, s) /\ Grows(c.sender, s) /\ s.last_ackno = c.sender.last_ackno
    BY <1>0, <2>1, TickIdle
  <2>3. s \in SenderType(Byte) /\ n \in Nat
    BY <1>0, <2>2, ConnectionFields DEF Idle, ConnFields
  <2>4. d = unclean_shutdown(z) \/ d = clean_shutdown(y)
    BY <1>2 DEF tick, after_tick, ticked_with
  <2>. HIDE DEF s, n
  <2>5. x = ticked_with(c, s, n) /\ y = send_segment(x) /\ z = send_rst_segment(x)
    OBVIOUS
  <2>. HIDE DEF x, y, z
  <2>6. /\ Around(c, x) /\ x.sender = s /\ x.receiver = c.receiver
        /\ x.segments_out = c.segments_out
    <3>1. c.receiver \in ReceiverType(Byte)
      BY <1>0 DEF ReceiverOK
    <3>. QED
      BY <1>0, <2>3, <2>5, <3>1, OtherFields
  <2>7. Steady(own, text, x, t, i) /\ Grows(c.sender, x.sender)
    BY <1>0, <2>2, <2>6 DEF Steady, Around
  <2>8. CASE d = unclean_shutdown(z)
    <3>1. /\ Steady(own, text, z, t, i) /\ Around(x, z) /\ z.receiver = x.receiver
          /\ Grows(x.sender, z.sender) /\ z.sender.last_ackno = x.sender.last_ackno
          /\ Adds(own, x, z)
      BY <2>5, <2>6, <2>7, RstSent
    <3>2. /\ Around(c, z) /\ Grows(c.sender, z.sender) /\ z.receiver = c.receiver
          /\ Adds(own, c, z)
      BY <2>6, <2>7, <3>1, GrowsOn DEF Around, Adds
    <3>. QED
      BY <2>2, <2>6, <2>8, <3>1, <3>2, UncleanCall
  <2>9. CASE d = clean_shutdown(y)
    <3>1. Advances(c.receiver, x.receiver)
      BY <1>0, <2>6, SameAdvances
    <3>2. x.isactive /\ Usable(x)
      BY <1>2, <2>6 DEF Around, Usable
    <3>3. /\ End(own, text, d, t, i) /\ Moves(own, c, d)
          /\ d.sender.last_ackno = x.sender.last_ackno /\ d.receiver = x.receiver
      BY <1>0, <2>5, <2>6, <2>7, <2>9, <3>1, <3>2, FlushEnds
    <3>. QED
      BY <1>0, <2>2, <2>6, <3>3 DEF Called
  <2>. QED
    BY <2>4, <2>8, <2>9
<1>. QED
  BY <1>0, <1>1, <1>2, ConnectionFields DEF ConnFields

\* The acknowledgement in a segment is of the number a.
Acks(c, seg, a) ==
    seg.ack => /\ a \in 1 .. c.sender.next_seqno /\ seg.ackno = wrap(a, c.sender.isn)
               /\ seg.win < Mod64

\* What taken_segment does to the sender before it sends.
LEMMA AnswerMid ==
    ASSUME NEW own \in Texts, NEW text, NEW c, NEW x, NEW t, NEW i, NEW v,
           Mid(own, text, c, x, t, i, v), x.sender = c.sender, c.sender.segments_out = << >>,
           NEW seg \in SegmentType(Byte), NEW a, Acks(c, seg, a),
           NEW y, y = kept_alive(answered(acknowledged(x, seg), seg), seg)
    PROVE  /\ Mid(own, text, c, y, t, i, v)
           /\ \/ y.sender.last_ackno = c.sender.last_ackno
              \/ seg.ack /\ y.sender.last_ackno = a
<1>. DEFINE x1 == acknowledged(x, seg)
            x2 == answered(x1, seg)
<1>0. own \in OutStreams /\ Idle(own, x.sender)
  BY TextBoth DEF Mid, Steady
<1>1. /\ Mid(own, text, c, x1, t, i, v)
      /\ \/ x1.sender.last_ackno = c.sender.last_ackno
         \/ seg.ack /\ x1.sender.last_ackno = a
  <2>1. CASE ~seg.ack
    BY <2>1 DEF acknowledged
  <2>2. CASE seg.ack
    <3>. DEFINE s == ack_received(x.sender, seg.ackno, seg.win)
    <3>1. a \in 1 .. x.sender.next_seqno /\ seg.ackno = wrap(a, x.sender.isn) /\ seg.win < Mod64
      BY <2>2 DEF Acks
    <3>2. seg.win \in Nat
      BY SegmentFields DEF SegFields
    <3>3. /\ Idle(own, s) /\ Grows(x.sender, s)
          /\ s.last_ackno = x.sender.last_ackno \/ s.last_ackno = a
      BY <1>0, <3>1, <3>2, AckIdle
    <3>4. x1 = [x EXCEPT !.sender = s]
      BY <2>2 DEF acknowledged
    <3>. HIDE DEF s, x1
    <3>5. Mid(own, text, c, x1, t, i, v) /\ x1.sender = s
      BY <3>3, <3>4, SenderMid
    <3>. QED
      BY <2>2, <3>3, <3>5
  <2>. QED
    BY <2>1, <2>2
<1>. HIDE DEF x1
<1>2. Mid(own, text, c, x2, t, i, v) /\ x2.sender.last_ackno = x1.sender.last_ackno
  <2>1. CASE x2 = x1
    BY <1>1, <2>1
  <2>2. CASE x2 = [x1 EXCEPT !.sender = send_empty_segment(@)]
    <3>. DEFINE s == send_empty_segment(x1.sender)
    <3>1. Idle(own, x1.sender)
      BY <1>1 DEF Mid, Steady
    <3>2. Idle(own, s) /\ Grows(x1.sender, s) /\ s.last_ackno = x1.sender.last_ackno
      BY <1>0, <3>1, EmptyIdle
    <3>3. x2 = [x1 EXCEPT !.sender = s]
      BY <2>2
    <3>. HIDE DEF s, x2
    <3>4. Mid(own, text, c, x2, t, i, v) /\ x2.sender = s
      BY <1>1, <3>2, <3>3, SenderMid
    <3>. QED
      BY <3>2, <3>4
  <2>. QED
    BY <2>1, <2>2 DEF answered
<1>. HIDE DEF x2
<1>3. Mid(own, text, c, y, t, i, v) /\ y.sender.last_ackno = x2.sender.last_ackno
  <2>0. y = kept_alive(x2, seg)
    BY DEF x1, x2
  <2>1. CASE y = x2
    BY <1>2, <2>1
  <2>2. CASE y = [x2 EXCEPT !.sender = send_empty_segment(@)]
    <3>. DEFINE s == send_empty_segment(x2.sender)
    <3>1. Idle(own, x2.sender)
      BY <1>2 DEF Mid, Steady
    <3>2. Idle(own, s) /\ Grows(x2.sender, s) /\ s.last_ackno = x2.sender.last_ackno
      BY <1>0, <3>1, EmptyIdle
    <3>3. y = [x2 EXCEPT !.sender = s]
      BY <2>2
    <3>. HIDE DEF s
    <3>4. Mid(own, text, c, y, t, i, v) /\ y.sender = s
      BY <1>2, <3>2, <3>3, SenderMid
    <3>. QED
      BY <3>2, <3>4
  <2>. QED
    BY <2>0, <2>1, <2>2 DEF kept_alive
<1>. QED
  BY <1>1, <1>2, <1>3

\* segment_received of a segment of the peer.
Arrival(own, text, c, t, i, p, seg, a) ==
    /\ Between(own, text, c, t, i, p) /\ Idle(text, p) /\ p.isn = i
    /\ seg \in SegmentType(Byte) /\ OnWay(text, p, seg) /\ Acks(c, seg, a)

AckedBy(c, d, seg, a) ==
    d.sender.last_ackno = c.sender.last_ackno \/ (seg.ack /\ d.sender.last_ackno = a)

\* segment_received of any segment the network can hold.
LEMMA ReceiveCall ==
    ASSUME NEW own \in Texts, NEW text \in Texts, NEW c, NEW t, NEW i, NEW p, NEW seg, NEW a,
           Arrival(own, text, c, t, i, p, seg, a), NEW d, d = segment_received(c, seg)
    PROVE  Called(own, text, c, d, t, i, p) /\ AckedBy(c, d, seg, a)
<1>. DEFINE h == heard(c)
            w == receiver_segment_received(c.receiver, seg)
            x == received_with(h, w)
            f == fill_window(x.sender)
            xf == with_sender(x, f)
            y == kept_alive(answered(acknowledged(x, seg), seg), seg)
<1>a. /\ Between(own, text, c, t, i, p) /\ Idle(text, p) /\ p.isn = i
      /\ seg \in SegmentType(Byte) /\ OnWay(text, p, seg) /\ Acks(c, seg, a)
  BY DEF Arrival
<1>0. /\ End(own, text, c, t, i) /\ Held(text, p, c.receiver)
      /\ Steady(own, text, c, t, i) /\ own \in OutStreams /\ Idle(own, c.sender)
      /\ c \in ConnectionType(Byte) /\ ReceiverOK(text, c.receiver, t, i)
  BY <1>a, TextBoth DEF Between, End, Steady
<1>1. CASE ~c.isactive
  <2>1. d = c
    BY <1>1 DEF segment_received
  <2>. QED
    BY <1>a, <2>1, NoCall DEF AckedBy
<1>h. Like(c, h) /\ h.segments_out = c.segments_out
  <2>. HIDE DEF h
  <2>1. h = heard(c) /\ 0 \in Nat
    BY DEF h
  <2>. QED
    BY <1>0, <2>1, LikeFields
<1>g. Grows(c.sender, c.sender)
  BY <1>0, SameGrows
<1>2. CASE c.isactive /\ seg.rst
  <2>1. d = unclean_shutdown(h)
    BY <1>2 DEF segment_received
  <2>. HIDE DEF h
  <2>2. /\ Steady(own, text, h, t, i) /\ Around(c, h) /\ h.receiver = c.receiver
        /\ h.sender = c.sender
    BY <1>0, <1>h DEF Like, Steady, Around
  <2>3. Adds(own, c, h)
    BY <1>0, <1>h, NoneAdded
  <2>. QED
    BY <1>a, <1>g, <2>1, <2>2, <2>3, UncleanCall DEF AckedBy
<1>3. CASE c.isactive /\ ~seg.rst
  <2>1. d = taken_segment(x, seg)
    <3>1. h.receiver = c.receiver
      BY <1>h DEF Like
    <3>2. d = taken_segment([h EXCEPT !.receiver = receiver_segment_received(h.receiver, seg)], seg)
      BY <1>3 DEF segment_received
    <3>. QED
      BY <3>1, <3>2 DEF received_with
  <2>2. ReceiverOK(text, w, t, i) /\ Held(text, p, w) /\ Advances(c.receiver, w)
    BY <1>0, <1>a, SegmentHeld
  <2>3. w \in ReceiverType(Byte)
    BY <2>2 DEF ReceiverOK
  <2>4. \/ d = send_segment(xf)
        \/ d = clean_shutdown(send_segment(y))
    BY <2>1 DEF taken_segment, connect, with_sender
  <2>. HIDE DEF h, w
  <2>5. x = received_with(h, w) /\ f = fill_window(x.sender) /\ xf = with_sender(x, f)
        /\ y = kept_alive(answered(acknowledged(x, seg), seg), seg)
    OBVIOUS
  <2>. HIDE DEF x, f, xf, y
  <2>6. Around(h, x) /\ x.sender = h.sender /\ x.receiver = w
        /\ x.segments_out = c.segments_out
    <3>1. h \in ConnectionType(Byte) /\ h.sender \in SenderType(Byte) /\ 0 \in Nat
      BY <1>h, <1>0 DEF Like, Around, Idle
    <3>. QED
      BY <1>h, <2>3, <2>5, <3>1, OtherFields
  <2>7. Mid(own, text, c, x, t, i, w) /\ x.sender = c.sender /\ x.isactive
    BY <1>0, <1>h, <1>g, <1>3, <2>2, <2>6 DEF Mid, Steady, Around, Like
  <2>8. CASE d = send_segment(xf)
    <3>1. Idle(own, f) /\ Grows(x.sender, f) /\ f.last_ackno = x.sender.last_ackno
      BY <1>0, <2>5, <2>7, FillIdle
    <3>2. Mid(own, text, c, xf, t, i, w) /\ xf.sender = f
      BY <2>5, <2>7, <3>1, SenderMid DEF with_sender
    <3>3. /\ Steady(own, text, xf, t, i) /\ Around(c, xf)
          /\ xf.segments_out = c.segments_out /\ Grows(c.sender, xf.sender)
          /\ xf.receiver = w /\ xf.isactive /\ Usable(xf)
      BY <1>3, <3>2 DEF Mid, Around, Usable
    <3>4. Advances(c.receiver, xf.receiver)
      BY <2>2, <3>3
    <3>5. /\ End(own, text, d, t, i) /\ Moves(own, c, d)
          /\ d.sender.last_ackno = xf.sender.last_ackno /\ d.receiver = xf.receiver
      BY <1>0, <2>8, <3>3, <3>4, FlushEnds
    <3>. QED
      BY <2>2, <2>7, <3>1, <3>2, <3>3, <3>5 DEF Called, AckedBy
  <2>9. CASE d = clean_shutdown(send_segment(y))
    <3>0. c.sender.segments_out = << >>
      BY <1>0, <1>3 DEF End
    <3>2. /\ Mid(own, text, c, y, t, i, w)
          /\ \/ y.sender.last_ackno = c.sender.last_ackno
             \/ seg.ack /\ y.sender.last_ackno = a
      BY <1>a, <2>5, <2>7, <3>0, AnswerMid
    <3>3. /\ Steady(own, text, y, t, i) /\ Around(c, y)
          /\ y.segments_out = c.segments_out /\ Grows(c.sender, y.sender)
          /\ y.receiver = w /\ y.isactive /\ Usable(y)
      BY <1>3, <3>2 DEF Mid, Around, Usable
    <3>4. Advances(c.receiver, y.receiver)
      BY <2>2, <3>3
    <3>5. /\ End(own, text, d, t, i) /\ Moves(own, c, d)
          /\ d.sender.last_ackno = y.sender.last_ackno /\ d.receiver = y.receiver
      BY <1>0, <2>9, <3>3, <3>4, FlushEnds
    <3>. QED
      BY <2>2, <3>2, <3>3, <3>5 DEF Called, AckedBy
  <2>. QED
    BY <2>4, <2>8, <2>9
<1>. QED
  BY <1>1, <1>2, <1>3

\* The application reads.
read_from(c, len) == received_with(c, reading(c.receiver, len))
read_too(t, c, len) == t \o bs_read(inbound_stream(c), len).data

\* The owner reads from the inbound stream.
LEMMA ReadCall ==
    ASSUME NEW own \in Texts, NEW text \in Texts, NEW c, NEW t, NEW i, NEW p,
           Between(own, text, c, t, i, p), NEW len \in Nat,
           NEW u, u = read_too(t, c, len), NEW d, d = read_from(c, len)
    PROVE  /\ Called(own, text, c, d, u, i, p) /\ d.segments_out = c.segments_out
           /\ d.sender.last_ackno = c.sender.last_ackno
<1>0. /\ End(own, text, c, t, i) /\ Held(text, p, c.receiver)
      /\ Steady(own, text, c, t, i) /\ own \in OutStreams /\ Idle(own, c.sender)
      /\ c \in ConnectionType(Byte) /\ ReceiverOK(text, c.receiver, t, i)
  BY TextBoth DEF Between, End, Steady
<1>. DEFINE v == reading(c.receiver, len)
<1>1. u = t \o bs_read(stream_out(c.receiver), len).data /\ d = received_with(c, v)
  BY DEF inbound_stream, read_too, read_from
<1>. HIDE DEF v
<1>2. /\ ReceiverOK(text, v, u, i) /\ Alike(c.receiver, v)
      /\ stream_out(v).error = stream_out(c.receiver).error
  <2>1. v = reading(c.receiver, len)
    BY DEF v
  <2>. DEFINE r == c.receiver
              T == t \o bs_read(stream_out(r), len).data
  <2>2. ReceiverOK(text, r, t, i) /\ v = reading(r, len) /\ T = u
    BY <1>0, <1>1, <2>1
  <2>. HIDE DEF r
  <2>3. /\ ReceiverOK(text, v, T, i) /\ Alike(r, v) /\ stream_out(v).error = stream_out(r).error
    BY ONLY text \in Texts, len \in Nat, <2>2, ReadHeld
  <2>. QED
    BY <2>2, <2>3 DEF r
<1>3. Around(c, d) /\ d.sender = c.sender /\ d.receiver = v /\ d.segments_out = c.segments_out
  <2>1. v \in ReceiverType(Byte) /\ c.sender \in SenderType(Byte) /\ 0 \in Nat
    BY <1>0, <1>2 DEF ReceiverOK, Idle
  <2>. QED
    BY <1>0, <1>1, <2>1, OtherFields
<1>4. first_unassembled(c.receiver.reassembler) \in Nat
  BY <1>0, ReceiverNumbers
<1>5. Held(text, p, v) /\ Advances(c.receiver, v)
  BY <1>0, <1>2, <1>4, AlikeHeld
<1>6. Grows(c.sender, c.sender) /\ Mail(own, d.sender, d.receiver, << >>)
      /\ c.segments_out = c.segments_out \o << >>
  BY <1>0, SameGrows, NoMail, NoneAdded
<1>7. input_ended(inbound_stream(d)) = input_ended(inbound_stream(c))
      /\ inbound_stream(d).error = inbound_stream(c).error
  BY <1>2, <1>3 DEF inbound_stream, Alike
<1>8. End(own, text, d, u, i)
  BY <1>0, <1>2, <1>3, <1>7 DEF End, Steady, Around
<1>9. Move(own, c, d, << >>)
  BY <1>3, <1>5, <1>6 DEF Move, Around
<1>. QED
  BY <1>3, <1>5, <1>6, <1>8, <1>9 DEF Called, Moves

-----------------------------------------------------------------------------
(* Two connections, each the other's peer *)

\* A segment in the network, c the connection that sent it, i the peer's initial number.
Post(text, c, i, seg) ==
    /\ seg \in SegmentType(Byte) /\ OnWay(text, c.sender, seg)
    /\ seg.ack => /\ c.receiver.syn /\ seg.win <= MaxU16
                  /\ \E a \in 1 .. ackable(c.receiver) : seg.ackno = wrap(a, i)

\* What a sender takes for acknowledged the peer's receiver has.
Acked(s, v) == s.last_ackno > 0 => v.syn /\ s.last_ackno <= ackable(v)

\* The sender takes no more for acknowledged than before, or than the peer b has.
AckKept(c, d, b) ==
    \/ d.sender.last_ackno = c.sender.last_ackno
    \/ b.receiver.syn /\ d.sender.last_ackno <= ackable(b.receiver)

\* One of the two: c its connection, b the peer's, t what has been read at c's end; k and i are
\* the initial numbers of the two.
Half(own, text, k, i, c, b, t) ==
    /\ Between(own, text, c, t, i, b.sender)
    /\ c.sender.isn = k /\ Acked(c.sender, b.receiver)

\* A step of it, from c to d, with u read by then.
Goes(own, text, i, c, d, u, b) ==
    /\ End(own, text, d, u, i) /\ Held(text, b.sender, d.receiver)
    /\ Grows(c.sender, d.sender) /\ Advances(c.receiver, d.receiver) /\ AckKept(c, d, b)

\* No more can have arrived than was written, and the end only after all of it.
LEMMA HeldBounds ==
    ASSUME NEW text \in Texts, NEW s, Idle(text, s), NEW v, NEW t, NEW i,
           ReceiverOK(text, v, t, i), Held(text, s, v)
    PROVE  /\ first_unassembled(v.reassembler) \in Nat /\ s.stream.bytes_w \in Nat
           /\ first_unassembled(v.reassembler) <= s.stream.bytes_w
           /\ s.stream.bytes_w <= Len(text)
           /\ input_ended(stream_out(v)) =>
                 /\ s.stream.end_input /\ eof(s.stream) /\ s.stream.bytes_w = Len(text)
                 /\ first_unassembled(v.reassembler) = Len(text)
<1>. DEFINE F == first_unassembled(v.reassembler)
            W == s.stream.bytes_w
            nx == s.next_seqno
<1>1. /\ nx \in Nat /\ W \in Nat /\ W <= Len(text) /\ nx <= W + 2
      /\ nx = W + 2 => s.stream.end_input /\ s.stream.buff = << >> /\ W = Len(text)
  BY TextBoth, IdleNumbers
<1>2. /\ F \in Nat /\ F <= Len(text) /\ Len(text) \in Nat
      /\ input_ended(stream_out(v)) <=> v.reassembler.eof /\ F = Len(text)
  BY ReceiverNumbers, TextBoth
<1>3. /\ \A k \in received_by(v.reassembler) : k + 1 < nx
      /\ v.reassembler.eof => nx = Len(text) + 2
  BY DEF Held, Covered
<1>4. F > 0 => F < nx
  <2>. SUFFICES ASSUME F > 0 PROVE F < nx
    OBVIOUS
  <2>1. F - 1 \in received_by(v.reassembler)
    BY <1>2 DEF received_by
  <2>. HIDE DEF F, nx
  <2>. QED
    BY <1>2, <1>3, <2>1
<1>. HIDE DEF F, W, nx
<1>5. F <= W
  BY <1>1, <1>2, <1>4
<1>6. input_ended(stream_out(v)) => nx = W + 2 /\ F = Len(text)
  BY <1>1, <1>2, <1>3
<1>. QED
  BY <1>1, <1>2, <1>5, <1>6 DEF F, W, eof, input_ended, buffer_empty

\* The facts of an end.
LEMMA HalfFacts ==
    ASSUME NEW own \in Texts, NEW text \in Texts, NEW k, NEW i, NEW c, NEW b, NEW t,
           Half(own, text, k, i, c, b, t)
    PROVE  /\ c \in ConnectionType(Byte) /\ t \in Seq(Byte)
           /\ Idle(own, c.sender) /\ ReceiverOK(text, c.receiver, t, i)
           /\ Held(text, b.sender, c.receiver) /\ ackable(c.receiver) \in Nat \ {0}
           /\ first_unassembled(c.receiver.reassembler) \in Nat
<1>1. /\ c \in ConnectionType(Byte) /\ Idle(own, c.sender)
      /\ ReceiverOK(text, c.receiver, t, i) /\ Held(text, b.sender, c.receiver)
  BY DEF Half, Between, End, Steady
<1>2. t \in Seq(Byte)
  BY <1>1 DEF ReceiverOK, Good, Written, OutOK
<1>3. first_unassembled(c.receiver.reassembler) \in Nat
  BY <1>1, ReceiverNumbers
<1>. QED
  BY <1>1, <1>2, <1>3 DEF ackable, flag

\* A receiver that has gone on asks for no less.
LEMMA AckableAdvances ==
    ASSUME NEW v, NEW w, Advances(v, w), first_unassembled(v.reassembler) \in Nat,
           first_unassembled(w.reassembler) \in Nat
    PROVE  ackable(v) \in Nat /\ ackable(w) \in Nat /\ ackable(v) <= ackable(w)
  BY DEF Advances, ackable, flag

\* What has been sent stays sent.
LEMMA HeldGrows ==
    ASSUME NEW text \in Texts, NEW s, NEW r, Grows(s, r), Idle(text, r), NEW v, NEW t, NEW i,
           ReceiverOK(text, v, t, i), Held(text, s, v)
    PROVE  Held(text, r, v)
<1>. DEFINE nx == s.next_seqno
            ny == r.next_seqno
            R == received_by(v.reassembler)
<1>1. nx \in Nat /\ ny \in Nat /\ nx <= ny
  BY DEF Grows
<1>2. ny <= Len(text) + 2 /\ Len(text) \in Nat
  BY TextBoth, IdleNumbers
<1>3. /\ v.syn => nx > 0
      /\ \A k \in R : k + 1 < nx
      /\ v.reassembler.eof => nx = Len(text) + 2
  BY DEF Held, Covered
<1>4. R \subseteq Int
  <2>1. Good(text, v.reassembler, t) /\ text \in InStreams
    BY TextBoth DEF ReceiverOK
  <2>2. first_unassembled(v.reassembler) \in Nat
    BY ReceiverNumbers
  <2>3. indices(v.reassembler.buf) \subseteq Int
    BY <2>1, IndicesFinite DEF Good, Written, Bufs
  <2>. QED
    BY <2>2, <2>3 DEF received_by
<1>. HIDE DEF nx, ny, R
<1>5. /\ v.syn => ny > 0
      /\ \A k \in R : k + 1 < ny
      /\ v.reassembler.eof => ny = Len(text) + 2
  BY <1>1, <1>2, <1>3, <1>4
<1>. QED
  BY <1>5 DEF Held, Covered, ny, R

\* Both ends take a step, which may be none.
LEMMA HalfStep ==
    ASSUME NEW own \in Texts, NEW text \in Texts, NEW k, NEW i, NEW c, NEW b, NEW t, NEW y,
           Half(own, text, k, i, c, b, t), Half(text, own, i, k, b, c, y),
           NEW d, NEW u, Goes(own, text, i, c, d, u, b),
           NEW x, NEW z, Goes(text, own, k, b, x, z, c)
    PROVE  Half(own, text, k, i, d, x, u)
<1>2. /\ End(own, text, d, u, i) /\ Held(text, b.sender, d.receiver)
      /\ Grows(c.sender, d.sender)
      /\ \/ d.sender.last_ackno = c.sender.last_ackno
         \/ b.receiver.syn /\ d.sender.last_ackno <= ackable(b.receiver)
  BY DEF Goes, AckKept
<1>3. /\ End(text, own, x, z, k) /\ Grows(b.sender, x.sender)
      /\ Advances(b.receiver, x.receiver)
  BY DEF Goes
<1>4. Held(text, x.sender, d.receiver)
  BY <1>2, <1>3, HeldGrows DEF End, Steady
<1>5. d.sender.isn = k
  BY <1>2 DEF Half, Grows
<1>6. Acked(d.sender, x.receiver)
  <2>1. /\ first_unassembled(b.receiver.reassembler) \in Nat
        /\ first_unassembled(x.receiver.reassembler) \in Nat
    <3>1. ReceiverOK(own, b.receiver, y, k)
      BY HalfFacts
    <3>2. ReceiverOK(own, x.receiver, z, k)
      BY <1>3 DEF End, Steady
    <3>. QED
      BY <3>1, <3>2, ReceiverNumbers
  <2>2. /\ ackable(b.receiver) \in Nat /\ ackable(x.receiver) \in Nat
        /\ ackable(b.receiver) <= ackable(x.receiver)
    BY <1>3, <2>1, AckableAdvances
  <2>3. b.receiver.syn => x.receiver.syn
    BY <1>3 DEF Advances
  <2>4. Acked(c.sender, b.receiver)
    BY DEF Half
  <2>5. d.sender.last_ackno \in Nat
    BY <1>2, TextBoth, IdleNumbers DEF End, Steady
  <2>. QED
    BY <1>2, <2>2, <2>3, <2>4, <2>5 DEF Acked
<1>. QED
  BY <1>2, <1>4, <1>5, <1>6 DEF Half, Between

\* A segment in the network stays what it is.
LEMMA PostKept ==
    ASSUME NEW text, NEW c, NEW i, NEW seg, Post(text, c, i, seg), NEW d,
           Grows(c.sender, d.sender), Advances(c.receiver, d.receiver),
           first_unassembled(c.receiver.reassembler) \in Nat,
           first_unassembled(d.receiver.reassembler) \in Nat
    PROVE  Post(text, d, i, seg)
<1>1. /\ ackable(c.receiver) \in Nat /\ ackable(d.receiver) \in Nat
      /\ ackable(c.receiver) <= ackable(d.receiver)
  BY AckableAdvances
<1>2. OnWay(text, d.sender, seg) /\ seg \in SegmentType(Byte)
  BY OnWayKept DEF Post
<1>3. 1 .. ackable(c.receiver) \subseteq 1 .. ackable(d.receiver)
  BY <1>1
<1>4. c.receiver.syn => d.receiver.syn
  BY DEF Advances
<1>. QED
  BY <1>2, <1>3, <1>4 DEF Post

\* And a segment sent is one of the network.
LEMMA PostSent ==
    ASSUME NEW text, NEW d, NEW i, NEW seg, Letter(text, d.sender, d.receiver, seg),
           d.receiver.syn => d.receiver.isn = i, ackable(d.receiver) \in Nat \ {0}
    PROVE  Post(text, d, i, seg)
<1>1. ackable(d.receiver) \in 1 .. ackable(d.receiver)
  OBVIOUS
<1>. QED
  BY <1>1 DEF Letter, Post

\* A call is a step, also when the time is set or the queue sent after it.
LEMMA CalledGoes ==
    ASSUME NEW own, NEW text, NEW i, NEW c, NEW d, NEW u, NEW b,
           Called(own, text, c, d, u, i, b.sender), AckKept(c, d, b), NEW x, Like(d, x)
    PROVE  Goes(own, text, i, c, x, u, b)
<1>1. /\ End(own, text, d, u, i) /\ Held(text, b.sender, d.receiver)
      /\ Grows(c.sender, d.sender) /\ Advances(c.receiver, d.receiver)
  BY DEF Called, Moves, Move
<1>2. End(own, text, x, u, i)
  BY <1>1, EndLike
<1>3. x.receiver = d.receiver /\ x.sender = d.sender
  BY DEF Like
<1>. QED
  BY <1>1, <1>2, <1>3 DEF Goes, AckKept

\* And so is doing nothing.
LEMMA HalfStays ==
    ASSUME NEW own \in Texts, NEW text \in Texts, NEW k, NEW i, NEW c, NEW b, NEW t,
           Half(own, text, k, i, c, b, t)
    PROVE  Goes(own, text, i, c, c, t, b)
<1>1. Between(own, text, c, t, i, b.sender)
  BY DEF Half
<1>2. Called(own, text, c, c, t, i, b.sender)
  BY <1>1, NoCall
<1>. QED
  BY <1>2 DEF Goes, Called, Moves, Move, AckKept

\* A segment of the peer is about to arrive.
LEMMA PostArrival ==
    ASSUME NEW own \in Texts, NEW text \in Texts, NEW k, NEW i, NEW c, NEW b, NEW t, NEW y,
           Half(own, text, k, i, c, b, t), Half(text, own, i, k, b, c, y),
           NEW seg, Post(text, b, k, seg), MaxU16 < Mod64
    PROVE  \E a : /\ Arrival(own, text, c, t, i, b.sender, seg, a)
                  /\ seg.ack => b.receiver.syn /\ a <= ackable(b.receiver)
<1>. DEFINE p == b.sender
<1>1. own \in OutStreams /\ MaxU16 \in Nat /\ Mod64 \in Nat
  BY TextBoth, ConnectionAssumption, Widths
<1>2. /\ Between(own, text, c, t, i, p) /\ Idle(own, c.sender) /\ Idle(text, p) /\ p.isn = i
      /\ ReceiverOK(own, b.receiver, y, k) /\ Held(own, c.sender, b.receiver)
      /\ ackable(b.receiver) \in Nat \ {0} /\ c.sender.isn = k
  <2>1. /\ Idle(text, b.sender) /\ ReceiverOK(own, b.receiver, y, k)
        /\ Held(own, c.sender, b.receiver) /\ ackable(b.receiver) \in Nat \ {0}
    BY HalfFacts
  <2>2. Between(own, text, c, t, i, p) /\ c.sender.isn = k /\ b.sender.isn = i
    BY DEF Half
  <2>3. Idle(own, c.sender)
    BY HalfFacts
  <2>. QED
    BY <2>1, <2>2, <2>3
<1>3. \E a : /\ Acks(c, seg, a)
             /\ seg.ack => b.receiver.syn /\ a <= ackable(b.receiver)
  <2>1. CASE ~seg.ack
    BY <2>1 DEF Acks
  <2>2. CASE seg.ack
    <3>1. PICK a \in 1 .. ackable(b.receiver) : seg.ackno = wrap(a, k)
      BY <2>2 DEF Post
    <3>2. b.receiver.syn /\ seg.win <= MaxU16 /\ seg \in SegmentType(Byte)
      BY <2>2 DEF Post
    <3>3. c.sender.next_seqno \in Nat
      BY <1>1, <1>2, IdleNumbers
    <3>4. ackable(b.receiver) \in 1 .. c.sender.next_seqno
      BY <1>2, <3>2, <3>3, HeldAckable
    <3>5. a \in 1 .. c.sender.next_seqno /\ a <= ackable(b.receiver)
      BY <1>2, <3>1, <3>3, <3>4
    <3>6. seg.win \in Nat
      BY <3>2, SegmentFields DEF SegFields
    <3>7. seg.win < Mod64
      <4>. DEFINE w == seg.win
                  m == Mod64
      <4>1. w \in Nat /\ w <= MaxU16 /\ MaxU16 < m /\ m \in Nat
        BY <1>1, <3>2, <3>6
      <4>. HIDE DEF w, m
      <4>2. w < m
        BY ONLY <4>1, <1>1
      <4>. QED
        BY <4>2 DEF w, m
    <3>. QED
      BY <1>2, <3>1, <3>2, <3>5, <3>7 DEF Acks
  <2>. QED
    BY <2>1, <2>2
<1>4. PICK a : Acks(c, seg, a) /\ (seg.ack => b.receiver.syn /\ a <= ackable(b.receiver))
  BY <1>3
<1>5. Arrival(own, text, c, t, i, p, seg, a)
  BY <1>2, <1>4 DEF Arrival, Post
<1>. QED
  BY <1>4, <1>5

\* And arrives.
LEMMA PostArrives ==
    ASSUME NEW own \in Texts, NEW text \in Texts, NEW k, NEW i, NEW c, NEW b, NEW t, NEW y,
           Half(own, text, k, i, c, b, t), Half(text, own, i, k, b, c, y),
           NEW seg, Post(text, b, k, seg), MaxU16 < Mod64, NEW d, d = segment_received(c, seg)
    PROVE  Called(own, text, c, d, t, i, b.sender) /\ AckKept(c, d, b)
<1>. DEFINE p == b.sender
<1>1. PICK a : /\ Arrival(own, text, c, t, i, p, seg, a)
               /\ seg.ack => b.receiver.syn /\ a <= ackable(b.receiver)
  BY PostArrival
<1>2. Called(own, text, c, d, t, i, p) /\ AckedBy(c, d, seg, a)
  <2>. HIDE DEF p
  <2>. QED
    BY ONLY own \in Texts, text \in Texts, d = segment_received(c, seg), <1>1, ReceiveCall
<1>3. AckKept(c, d, b)
  BY <1>1, <1>2 DEF AckKept, AckedBy
<1>. QED
  BY <1>2, <1>3

\* A new connection.
LEMMA NewConnection ==
    ASSUME NEW own \in Texts, NEW text \in Texts, NEW cap \in Nat, NEW isn \in WrappingInt32,
           NEW i \in WrappingInt32,
           NEW c, c = new_TCPConnection(cap, Capacity, RetxTimeout, isn)
    PROVE  /\ End(own, text, c, << >>, i) /\ c.segments_out = << >> /\ c.sender.isn = isn
           /\ c.sender.last_ackno = 0 /\ c.linger_after_streams_finish /\ ~c.receiver.syn
           /\ first_unassembled(c.receiver.reassembler) = 0 /\ c.receiver.reassembler.buf = {}
           /\ ~c.receiver.reassembler.eof /\ c.sender.next_seqno = 0
           /\ c.sender.stream.bytes_w = 0 /\ ~c.sender.stream.end_input
           /\ stream_out(c.receiver).buff = << >> /\ ~stream_out(c.receiver).end_input
<1>. DEFINE r == new_StreamReassembler(Capacity)
            v == new_TCPReceiver(Capacity)
            s == new_TCPSender(cap, RetxTimeout, isn)
<1>0. own \in OutStreams /\ text \in InStreams /\ RetxTimeout \in Nat
  BY TextBoth, Widths
<1>1. Good(text, r, << >>)
  BY <1>0, NewGood
<1>2. r \in ReassemblerType(Byte)
  BY <1>1 DEF Good, Written, OutOK
<1>3. /\ first_unassembled(r) = 0 /\ r.buf = {} /\ ~r.eof /\ r.output.buff = << >>
      /\ ~r.output.end_input
  BY DEF new_StreamReassembler, new_ByteStream, first_unassembled, bytes_written
<1>4. v = [reassembler |-> r, syn |-> FALSE, isn |-> 0]
  BY DEF new_TCPReceiver
<1>5. 0 \in WrappingInt32
  BY Moduli DEF WrappingInt32
<1>. HIDE DEF r
<1>6. ReceiverOK(text, v, << >>, i) /\ ~v.syn /\ v.reassembler = r /\ v \in ReceiverType(Byte)
  BY <1>1, <1>2, <1>4, <1>5 DEF ReceiverOK, ReceiverType
<1>7. /\ SenderOK(own, s) /\ WindowFull(s) /\ s.segments_out = << >> /\ s.isn = isn
      /\ s.next_seqno = 0 /\ s.last_ackno = 0 /\ s.stream.bytes_w = 0 /\ ~s.stream.end_input
  BY <1>0, NewSender
<1>8. /\ c.receiver = v /\ c.sender = s /\ c.segments_out = << >> /\ c.isactive
      /\ c.linger_after_streams_finish
  BY DEF new_TCPConnection
<1>9. c = [receiver |-> v, sender |-> s, segments_out |-> << >>,
           linger_after_streams_finish |-> TRUE, isactive |-> TRUE,
           time_since_last_segment_received |-> 0, rt_timeout |-> RetxTimeout]
  BY DEF new_TCPConnection
<1>. HIDE DEF v, s
<1>10. c \in ConnectionType(Byte)
  <2>. DEFINE R == ReceiverType(Byte)
              S == SenderType(Byte)
              Q == Segs
  <2>1. v \in R /\ s \in S /\ << >> \in Q
    BY <1>6, <1>7 DEF SenderOK, Segs
  <2>. HIDE DEF R, S, Q
  <2>2. c \in ConnFields(R, S, Q)
    BY ONLY <1>0, <1>9, <2>1 DEF ConnFields
  <2>. QED
    BY <2>2, ConnectionFields DEF R, S, Q
<1>11. Working(own, s)
  BY <1>7 DEF Working
<1>12. Idle(own, s)
  BY <1>0, <1>11, WorkingIdle
<1>13. End(own, text, c, << >>, i)
  BY <1>6, <1>7, <1>8, <1>10, <1>12 DEF End, Steady
<1>. QED
  BY <1>3, <1>6, <1>7, <1>8, <1>13 DEF stream_out

\* Two new connections, neither of which has heard of the other.
LEMMA NewHalf ==
    ASSUME NEW own \in Texts, NEW text \in Texts, NEW cap \in Nat, NEW k \in WrappingInt32,
           NEW i \in WrappingInt32, NEW b,
           NEW c, c = new_TCPConnection(cap, Capacity, RetxTimeout, k)
    PROVE  Half(own, text, k, i, c, b, << >>)
<1>. DEFINE r == c.receiver.reassembler
<1>1. /\ End(own, text, c, << >>, i) /\ c.sender.isn = k /\ c.sender.last_ackno = 0
      /\ r.buf = {} /\ first_unassembled(r) = 0 /\ ~r.eof /\ ~c.receiver.syn
  BY NewConnection
<1>2. indices({}) = {}
  BY Zenon DEF indices
<1>3. received_by(r) = {}
  BY <1>1, <1>2 DEF received_by
<1>4. Held(text, b.sender, c.receiver)
  BY <1>1, <1>3 DEF Held, Covered
<1>. QED
  BY <1>1, <1>4 DEF Half, Between, Acked

\* The prefixes of a stream: of the first m, the first n.
LEMMA ShorterPrefix ==
    ASSUME NEW text \in Seq(Byte), NEW m \in Nat, NEW n \in Nat, n <= m, m <= Len(text)
    PROVE  /\ Len(SubSeq(text, 1, m)) = m /\ Len(SubSeq(text, 1, n)) = n
           /\ SubSeq(text, 1, n) = SubSeq(SubSeq(text, 1, m), 1, n)
<1>1. SubSeq(text, 1, m) \in Seq(Byte) /\ Len(SubSeq(text, 1, m)) = m
  OBVIOUS
<1>. QED
  BY <1>1

=============================================================================
