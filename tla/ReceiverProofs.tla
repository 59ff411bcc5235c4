--------------------------- MODULE ReceiverProofs ---------------------------
(***************************************************************************)
(* The TCPReceiver for every stream, capacity and sequence number, when    *)
(* the peer's SYN is a segment of its own: it is the reassembler of the    *)
(* peer's stream, seen through 32-bit numbers.                             *)
(***************************************************************************)
EXTENDS ReceiverSpec, InboundLemmas

USE StreamAssumption DEF N

-----------------------------------------------------------------------------
(* The inductive invariant *)

RInv == ReceiverOK(Stream, rcv, taken, peer_isn)

\* The numbers of the stream and of the ring fit size_t.
LEMMA RingSizes ==
    /\ N \in Nat /\ Capacity \in Nat /\ Mod32 \in Nat \ {0} /\ Half32 \in Nat \ {0}
    /\ Mod64 \in Nat /\ Mod32 = 2 * Half32 /\ N + Capacity + Mod32 < Mod64
    /\ MaxPayload \in 1 .. Half32
  BY Sizes, Moduli, Half32Assumption, ReceiverAssumption DEF Mod32

-----------------------------------------------------------------------------
(* The steps *)

\* Every segment of the peer that the receiver does not drop is a push.
LEMMA SegmentArrives ==
    ASSUME RInv, SynCarriesData = FALSE,
           NEW abs \in 0 .. (N + 1), NEW len \in 0 .. MaxPayload, NEW is_fin \in BOOLEAN,
           SegmentReceived(abs, len, is_fin)
    PROVE  \/ rcv' = rcv
           \/ /\ Pushes(Stream, peer_segment(abs, len, is_fin), abs,
                        rcv.reassembler, rcv'.reassembler)
              /\ rcv' = [reassembler |-> rcv'.reassembler, syn |-> TRUE, isn |-> peer_isn]
<1>. DEFINE seg == peer_segment(abs, len, is_fin)
            data == IF abs = 0 THEN SubSeq(Stream, 1, len) ELSE SubSeq(Stream, abs, abs + len - 1)
<1>1. /\ rcv' = receiver_segment_received(rcv, seg)
      /\ stream_index(abs) + len <= N /\ (is_fin => stream_index(abs) + len = N)
      /\ (abs = 0 => len = 0 /\ ~is_fin)
      /\ abs + Mod32 > first_unacceptable(rcv.reassembler)
      /\ abs <= first_unassembled(rcv.reassembler) + Half32
  BY DEF SegmentReceived, InRing, F, U
<1>2. abs \in Nat /\ len \in Nat /\ len <= Half32 /\ Stream \in Seq(Byte) /\ Len(Stream) \in Nat
  BY RingSizes, Text
<1>3. data \in Seq(Byte) /\ Len(data) = len /\ (abs = 0 => data = << >>)
  <2>1. CASE abs = 0
    BY <2>1, <1>1, <1>2
  <2>2. CASE abs # 0
    <3>1. abs - 1 + len <= Len(Stream) /\ 1 <= abs
      BY <2>2, <1>1, <1>2 DEF stream_index
    <3>. QED
      BY <3>1, <2>2, <1>2
  <2>. QED
    BY <2>1, <2>2
<1>4. seg = [new_TCPSegment EXCEPT !.seqno = wrap(abs, peer_isn), !.syn = (abs = 0),
                                   !.fin = is_fin, !.payload = data]
  BY DEF peer_segment
<1>5. peer_isn \in WrappingInt32 /\ wrap(abs, peer_isn) \in WrappingInt32
  BY <1>2, WrapOffset DEF RInv, ReceiverOK
<1>. HIDE DEF data
<1>6. /\ seg.seqno = wrap(abs, peer_isn) /\ seg.syn = (abs = 0) /\ seg.fin = is_fin
      /\ seg.payload = data
  BY <1>4 DEF new_TCPSegment
<1>7. seg \in SegmentType(Byte)
  <2>1. 0 \in WrappingInt32 /\ 0 \in Nat
    BY Moduli DEF WrappingInt32
  <2>. QED
    BY <1>3, <1>4, <1>5, <2>1 DEF new_TCPSegment, SegmentType
<1>8. abs # 0 => /\ abs - 1 + Len(data) <= Len(Stream)
                 /\ data = SubSeq(Stream, abs, abs - 1 + Len(data))
                 /\ is_fin => abs - 1 + Len(data) = Len(Stream)
  <2>. SUFFICES ASSUME abs # 0
                PROVE  /\ abs - 1 + len <= Len(Stream)
                       /\ data = SubSeq(Stream, abs, abs - 1 + len)
                       /\ is_fin => abs - 1 + len = Len(Stream)
    BY <1>3
  <2>1. abs + len - 1 = abs - 1 + len
    BY <1>2
  <2>. QED
    BY <2>1, <1>1 DEF stream_index, data
<1>. HIDE DEF seg
<1>9. PeerSegment(Stream, seg, abs, peer_isn) /\ Len(seg.payload) <= Half32
  BY <1>1, <1>2, <1>3, <1>6, <1>8 DEF PeerSegment
<1>10. Len(Stream) + Capacity + Mod32 < Mod64
  BY RingSizes
<1>. QED
  BY <1>1, <1>7, <1>9, <1>10, SegmentPushed DEF RInv, seg

\* What a step does to the reassembler: nothing, a push of the contract, or a read of it.
LEMMA ReceiverStep ==
    ASSUME RInv, SynCarriesData = FALSE, [Next]_vars
    PROVE  /\ RInv'
           /\ rcv.syn => rcv'.syn /\ rcv'.isn = rcv.isn
           /\ \/ rcv' = rcv
              \/ \E index \in 0 .. N, len \in 0 .. N, is_eof \in BOOLEAN :
                    /\ index + len <= N /\ (is_eof => index + len = N)
                    /\ Delivered(Stream, rcv.reassembler, rcv'.reassembler, index, len, is_eof)
              \/ \E n : Consumed(Stream, rcv.reassembler, rcv'.reassembler, n)
<1>. DEFINE r == rcv.reassembler
            s == rcv'.reassembler
            T == ReceiverType(Byte)
            Kept == rcv.syn => rcv'.syn /\ rcv'.isn = rcv.isn
<1>0. rcv \in T /\ Good(Stream, r, taken) /\ peer_isn \in WrappingInt32
      /\ (rcv.syn => rcv.isn = peer_isn)
  BY DEF RInv, ReceiverOK
<1>1. ASSUME NEW t, Good(Stream, s, t) PROVE s \in ReassemblerType(Byte)
  BY <1>1 DEF Good, Written, OutOK
<1>2. CASE rcv' = rcv /\ taken' = taken /\ peer_isn' = peer_isn
  BY <1>2 DEF RInv, ReceiverOK
<1>3. ASSUME NEW abs \in 0 .. (N + 1), NEW len \in 0 .. MaxPayload, NEW is_fin \in BOOLEAN,
             SegmentReceived(abs, len, is_fin), rcv' # rcv
      PROVE  /\ RInv' /\ Kept
             /\ \E index \in 0 .. N, n \in 0 .. N, is_eof \in BOOLEAN :
                    /\ index + n <= N /\ (is_eof => index + n = N)
                    /\ Delivered(Stream, r, s, index, n, is_eof)
  <2>1. taken' = taken /\ peer_isn' = peer_isn
    BY <1>3 DEF SegmentReceived
  <2>2. PICK seg : /\ Pushes(Stream, seg, abs, r, s)
                   /\ rcv' = [reassembler |-> s, syn |-> TRUE, isn |-> peer_isn]
    BY <1>3, SegmentArrives
  <2>3. /\ ReceiverOK(Stream, rcv', taken, peer_isn) /\ rcv'.syn
        /\ \E index \in 0 .. N, n \in 0 .. N, is_eof \in BOOLEAN :
                 /\ index + n <= N /\ (is_eof => index + n = N)
                 /\ Delivered(Stream, r, s, index, n, is_eof)
    <3>1. rcv'.syn
      BY <2>2
    <3>2. /\ ReceiverOK(Stream, [reassembler |-> s, syn |-> TRUE, isn |-> peer_isn],
                        taken, peer_isn)
          /\ \E index \in 0 .. Len(Stream), n \in 0 .. Len(Stream), is_eof \in BOOLEAN :
                 /\ index + n <= Len(Stream) /\ (is_eof => index + n = Len(Stream))
                 /\ Delivered(Stream, r, s, index, n, is_eof)
                 /\ \/ n = 0 /\ ~is_eof
                    \/ abs = index + 1 /\ n = Len(seg.payload) /\ is_eof = seg.fin
      BY ONLY <1>0, <2>2, SegmentTaken, StreamAssumption
    <3>. QED
      BY <3>1, <3>2, <2>2 DEF N
  <2>4. rcv'.isn = peer_isn
    BY <2>2
  <2>5. RInv' /\ Kept
    BY <2>1, <2>3, <2>4, <1>0 DEF RInv
  <2>. QED
    BY <2>3, <2>5
<1>4. ASSUME NEW len \in 1 .. N, Read(len)
      PROVE  RInv' /\ Kept /\ \E n : Consumed(Stream, r, s, n)
  <2>. DEFINE out == bs_read(r.output, len)
              o == out.stream
  <2>1. /\ out.data # << >> /\ rcv' = [rcv EXCEPT !.reassembler.output = o]
        /\ taken' = taken \o out.data /\ peer_isn' = peer_isn
    BY <1>4 DEF Read, stream_out
  <2>2. s = [r EXCEPT !.output = o] /\ rcv'.syn = rcv.syn /\ rcv'.isn = rcv.isn
    <3>. HIDE DEF o
    <3>. QED
      BY <2>1, <1>0
  <2>3. Good(Stream, s, taken') /\ \E n : Consumed(Stream, r, s, n)
    <3>1. /\ Good(Stream, [r EXCEPT !.output = out.stream], taken \o out.data)
          /\ \E n : Consumed(Stream, r, [r EXCEPT !.output = out.stream], n)
      BY <2>1, <1>0, ReadConsumes
    <3>. QED
      BY <3>1, <2>1, <2>2, Zenon
  <2>4. rcv' \in T
    <3>1. s \in ReassemblerType(Byte)
      BY <2>3, <1>1
    <3>2. rcv' = [rcv EXCEPT !.reassembler = s]
      <4>. HIDE DEF o
      <4>. QED
        BY <2>1, <1>0
    <3>. HIDE DEF s
    <3>. QED
      BY <3>1, <3>2, <1>0 DEF ReceiverType
  <2>. QED
    BY <2>1, <2>2, <2>3, <2>4, <1>0 DEF RInv, ReceiverOK
<1>5. CASE Next
  <2>1. CASE \E abs \in 0 .. (N + 1), len \in 0 .. MaxPayload, is_fin \in BOOLEAN :
                SegmentReceived(abs, len, is_fin)
    <3>1. taken' = taken /\ peer_isn' = peer_isn
      BY <2>1 DEF SegmentReceived
    <3>. QED
      BY <2>1, <3>1, <1>2, <1>3
  <2>2. CASE \E len \in 1 .. N : Read(len)
    BY <2>2, <1>4
  <2>. QED
    BY <2>1, <2>2, <1>5 DEF Next
<1>6. CASE UNCHANGED vars
  BY <1>6, <1>2 DEF vars
<1>. QED
  BY <1>5, <1>6

\* A step of the receiver moves the first unassembled byte and the window's end only on, and
\* by no more than the capacity; once the input has ended it stays so.
LEMMA WindowMoves ==
    ASSUME RInv, SynCarriesData = FALSE, [Next]_vars
    PROVE  LET r == rcv.reassembler
               s == rcv'.reassembler
           IN  /\ first_unassembled(r) \in Nat /\ first_unassembled(s) \in Nat
               /\ first_unacceptable(r) \in Nat /\ first_unacceptable(s) \in Nat
               /\ first_unassembled(r) <= first_unassembled(s)
               /\ first_unassembled(s) <= first_unassembled(r) + Capacity
               /\ first_unacceptable(r) <= first_unacceptable(s)
               /\ first_unacceptable(s) <= first_unacceptable(r) + Capacity
               /\ input_ended(r.output) => input_ended(s.output)
<1>. DEFINE r == rcv.reassembler
            s == rcv'.reassembler
            f == first_unassembled(r)
            g == first_unassembled(s)
            u == first_unacceptable(r)
            v == first_unacceptable(s)
<1>1. Good(Stream, r, taken) /\ Good(Stream, s, taken')
  BY ReceiverStep DEF RInv, ReceiverOK
<1>2. /\ f \in Nat /\ u \in Nat /\ f <= u /\ f <= N /\ u - f <= Capacity
      /\ u = first_unread(r) + Capacity /\ first_unread(r) \in Nat
  <2>1. /\ f \in Nat /\ u \in Nat /\ f <= u /\ f <= N /\ u - f = Capacity - Len(r.output.buff)
        /\ u = first_unread(r) + Capacity /\ first_unread(r) = Len(taken)
    BY <1>1, Window DEF Good, Written
  <2>2. Len(r.output.buff) \in Nat /\ Len(taken) \in Nat
    <3>1. r \in ReassemblerType(Byte) /\ taken \in Seq(Byte)
      BY <1>1 DEF Good, Written, OutOK
    <3>2. r.output.buff \in Seq(Byte)
      BY <3>1 DEF ReassemblerType, ByteStreamType
    <3>. QED
      BY <3>1, <3>2
  <2>. DEFINE b == Len(r.output.buff)
              a == first_unread(r)
              c == Len(taken)
  <2>3. /\ f \in Nat /\ u \in Nat /\ f <= u /\ f <= N /\ u - f = Capacity - b
        /\ u = a + Capacity /\ a = c /\ b \in Nat /\ c \in Nat /\ Capacity \in Nat
    BY <2>1, <2>2, RingSizes
  <2>. HIDE DEF f, u, a, b, c
  <2>4. u - f <= Capacity
    BY <2>3
  <2>5. a \in Nat
    BY <2>3
  <2>. QED
    BY <2>3, <2>4, <2>5 DEF a
<1>3. g \in Nat /\ v \in Nat /\ g <= v /\ g <= N /\ v = first_unread(s) + Capacity
  BY <1>1, Window DEF Good, Written
<1>4. /\ input_ended(r.output) = (r.eof /\ f = N)
      /\ input_ended(s.output) = (s.eof /\ g = N)
  BY <1>1, Received
<1>5. CASE rcv' = rcv
  BY <1>5, <1>2, Sizes
<1>6. ASSUME NEW index \in 0 .. N, NEW len \in 0 .. N, NEW is_eof \in BOOLEAN,
             Delivered(Stream, r, s, index, len, is_eof)
      PROVE  /\ f <= g /\ g <= f + Capacity /\ u <= v /\ v <= u + Capacity
             /\ input_ended(r.output) => input_ended(s.output)
  <2>1. /\ first_unread(s) = first_unread(r) /\ s.eof = (r.eof \/ is_eof)
        /\ received_by(r) \subseteq received_by(s) /\ g \notin received_by(s)
    BY <1>6 DEF Delivered
  <2>2. v = u
    BY <2>1, <1>2, <1>3
  <2>3. f <= g
    <3>. SUFFICES ASSUME ~(f <= g) PROVE FALSE
      OBVIOUS
    <3>1. g \in 0 .. (f - 1)
      BY <1>2, <1>3
    <3>2. g \in received_by(r)
      BY <3>1 DEF received_by
    <3>. QED
      BY <3>2, <2>1
  <2>4. g <= f + Capacity /\ v <= u + Capacity
    <3>. DEFINE C == Capacity
    <3>1. g <= v /\ v = u /\ u - f <= C /\ {f, g, u, v, C} \subseteq Nat
      BY <2>2, <1>2, <1>3, Sizes
    <3>. HIDE DEF f, g, u, v, C
    <3>2. g <= f + C /\ v <= u + C
      BY ONLY <3>1
    <3>. QED
      BY <3>2 DEF C
  <2>5. f = N => g = N
    BY <2>3, <1>2, <1>3, Sizes
  <2>. QED
    BY <2>1, <2>2, <2>3, <2>4, <2>5, <1>2, <1>4
<1>7. ASSUME NEW n, Consumed(Stream, r, s, n)
      PROVE  /\ f <= g /\ g <= f + Capacity /\ u <= v /\ v <= u + Capacity
             /\ input_ended(r.output) => input_ended(s.output)
  <2>1. /\ g = f /\ first_unread(s) = first_unread(r) + n /\ n \in Nat /\ n <= Capacity
        /\ input_ended(s.output) = input_ended(r.output)
    BY <1>7, Sizes DEF Consumed
  <2>. QED
    BY <2>1, <1>2, <1>3, Sizes, SMTT(40)
<1>. QED
  BY <1>2, <1>3, <1>5, <1>6, <1>7, ReceiverStep

\* The distance on the ring of two numbers, when the second is not far after the first.
LEMMA RingDistance ==
    ASSUME NEW i \in WrappingInt32, NEW a \in Nat, NEW b \in Nat, NEW c \in Int, NEW d \in Int,
           a + c <= b + d, (b + d) - (a + c) <= Half32
    PROVE  U32(wrap(b, i) + d - wrap(a, i) - c) <= Half32
<1>. DEFINE m == Mod32
            wa == wrap(a, i)
            wb == wrap(b, i)
            e == (b + d) - (a + c)
            x == wb + d - wa - c
<1>0. m \in Nat \ {0} /\ m = 2 * Half32 /\ Half32 \in Nat \ {0} /\ i \in Int
  BY RingSizes DEF WrappingInt32
<1>1. PICK k1 \in Int : wa = i + a + m * k1
  BY WrapOffset
<1>2. PICK k2 \in Int : wb = i + b + m * k2
  BY WrapOffset
<1>. HIDE DEF m, wa, wb
<1>3. e \in 0 .. (m - 1) /\ e <= Half32
  BY <1>0
<1>4. x = m * (k2 - k1) + e /\ x \in Int /\ k2 - k1 \in Int
  <2>1. m * (k2 - k1) = m * k2 - m * k1 /\ m * k1 \in Int /\ m * k2 \in Int
    BY <1>0
  <2>. QED
    BY <2>1, <1>0, <1>1, <1>2
<1>. HIDE DEF x, e
<1>5. x % m = e
  <2>. DEFINE q == k2 - k1
  <2>1. q \in Int /\ x = m * q + e
    BY <1>4
  <2>. HIDE DEF q
  <2>. QED
    BY <2>1, <1>0, <1>3, <1>4, ModUnique
<1>6. U32(x) <= Half32
  BY <1>3, <1>5 DEF U32, m
<1>. QED
  BY <1>6 DEF x, wa, wb

\* A step never moves the ackno or the right edge of the window back.
LEMMA StepNeverTakesBack ==
    ASSUME RInv, SynCarriesData = FALSE, Capacity < Half32, [Next]_vars, has_ackno(rcv)
    PROVE  /\ has_ackno(rcv')
           /\ U32(ackno(rcv') - ackno(rcv)) <= Half32
           /\ U32(ackno(rcv') + window_size(rcv') - ackno(rcv) - window_size(rcv)) <= Half32
<1>. DEFINE r == rcv.reassembler
            s == rcv'.reassembler
            i == rcv.isn
            f == first_unassembled(r)
            g == first_unassembled(s)
            u == first_unacceptable(r)
            v == first_unacceptable(s)
            b == flag(input_ended(r.output))
            c == flag(input_ended(s.output))
            A == f + 1 + b
            B == g + 1 + c
            w == u - f
            z == v - g
<1>1. has_ackno(rcv') /\ rcv'.isn = i /\ i \in WrappingInt32
  BY ReceiverStep DEF has_ackno, RInv, ReceiverOK, ReceiverType
<1>2. /\ f \in Nat /\ g \in Nat /\ u \in Nat /\ v \in Nat
      /\ f <= g /\ g <= f + Capacity /\ u <= v /\ v <= u + Capacity
  BY WindowMoves
<1>3. b \in 0 .. 1 /\ c \in 0 .. 1 /\ b <= c
  <2>1. input_ended(r.output) => input_ended(s.output)
    BY WindowMoves
  <2>2. /\ b = IF input_ended(r.output) THEN 1 ELSE 0
        /\ c = IF input_ended(s.output) THEN 1 ELSE 0
    BY DEF flag
  <2>. HIDE DEF b, c
  <2>. QED
    BY <2>1, <2>2
<1>4. v # u => b = c
  <2>. SUFFICES ASSUME v # u PROVE b = c
    OBVIOUS
  <2>1. rcv' # rcv
    OBVIOUS
  <2>2. Good(Stream, r, taken) /\ Good(Stream, s, taken')
    BY ReceiverStep DEF RInv, ReceiverOK
  <2>3. u = first_unread(r) + Capacity /\ v = first_unread(s) + Capacity
    BY <2>2, Window DEF Good, Written
  <2>4. ~ \E index \in 0 .. N, len \in 0 .. N, is_eof \in BOOLEAN :
               /\ index + len <= N /\ (is_eof => index + len = N)
               /\ Delivered(Stream, r, s, index, len, is_eof)
    BY <2>3 DEF Delivered
  <2>5. PICK n : Consumed(Stream, r, s, n)
    BY <2>1, <2>4, ReceiverStep
  <2>. QED
    BY <2>5 DEF Consumed
<1>5. /\ ackno(rcv) = wrap(A, i) /\ ackno(rcv') = wrap(B, i)
      /\ window_size(rcv) = w /\ window_size(rcv') = z
  BY <1>1 DEF ackno, window_size, stream_out
<1>. HIDE DEF f, g, u, v, b, c, i
<1>6. /\ A \in Nat /\ B \in Nat /\ w \in Int /\ z \in Int
      /\ A + 0 <= B + 0 /\ (B + 0) - (A + 0) <= Half32
      /\ A + w <= B + z /\ (B + z) - (A + w) <= Half32
  BY <1>2, <1>3, <1>4, RingSizes
<1>. HIDE DEF A, B, w, z
<1>7. U32(wrap(B, i) + 0 - wrap(A, i) - 0) <= Half32
  <2>1. 0 \in Int
    OBVIOUS
  <2>. QED
    BY ONLY <1>1, <1>6, <2>1, RingDistance, Zenon
<1>8. U32(wrap(B, i) + z - wrap(A, i) - w) <= Half32
  BY ONLY <1>1, <1>6, RingDistance
<1>9. wrap(B, i) + 0 - wrap(A, i) - 0 = wrap(B, i) - wrap(A, i)
  <2>0. A \in Int /\ B \in Int /\ i \in WrappingInt32
    BY <1>1, <1>6
  <2>1. wrap(B, i) \in WrappingInt32 /\ wrap(A, i) \in WrappingInt32
    BY ONLY <2>0, WrapOffset
  <2>2. wrap(B, i) \in Int /\ wrap(A, i) \in Int
    BY <2>1, Moduli DEF WrappingInt32
  <2>. QED
    BY <2>2
<1>. QED
  BY <1>1, <1>5, <1>7, <1>8, <1>9

-----------------------------------------------------------------------------
(* The theorems *)

\* The variables of the contract, as Contract gives them.
contract_vars == << (0 .. (F - 1)) \cup indices(rcv.reassembler.buf), F,
                    first_unread(rcv.reassembler), rcv.reassembler.eof,
                    input_ended(stream_out(rcv)) >>

\* RInv is an inductive invariant when the peer's SYN carries nothing else.
THEOREM ReceiverInductive ==
    ASSUME SynCarriesData = FALSE
    PROVE  Spec => []RInv
<1>1. Init => RInv
  <2>. SUFFICES ASSUME Init PROVE RInv
    OBVIOUS
  <2>. DEFINE r == new_StreamReassembler(Capacity)
  <2>1. Good(Stream, r, << >>)
    BY NewGood
  <2>2. r \in ReassemblerType(Byte)
    BY <2>1 DEF Good, Written, OutOK
  <2>3. rcv = [reassembler |-> r, syn |-> FALSE, isn |-> 0] /\ taken = << >>
    BY DEF Init, new_TCPReceiver
  <2>4. 0 \in WrappingInt32 /\ peer_isn \in WrappingInt32
    BY Moduli, ReceiverAssumption DEF Init, WrappingInt32
  <2>. HIDE DEF r
  <2>. QED
    BY <2>1, <2>2, <2>3, <2>4 DEF RInv, ReceiverOK, ReceiverType
<1>2. RInv /\ [Next]_vars => RInv'
  BY ReceiverStep
<1>. QED
  BY <1>1, <1>2, PTL DEF Spec

\* Wherever the peer's sequence numbers start and however often they wrap, what the reader has
\* and what waits for it begins the peer's stream.
THEOREM Delivers ==
    ASSUME SynCarriesData = FALSE
    PROVE  Spec => []DeliveredIsPrefix
<1>1. RInv => DeliveredIsPrefix
  BY GoodPrefix DEF RInv, ReceiverOK, DeliveredIsPrefix, stream_out, F
<1>. QED
  BY <1>1, ReceiverInductive, PTL

\* Through 32-bit numbers the receiver implements the reassembler's contract: each of the
\* peer's segments, late copies too, is a Deliver at its own place or changes nothing.
THEOREM ReceiverRefinement ==
    ASSUME SynCarriesData = FALSE
    PROVE  Spec => ImplementsContract
<1>1. Init => Contract!Init
  <2>. SUFFICES ASSUME Init PROVE Contract!Init
    OBVIOUS
  <2>1. rcv.reassembler = new_StreamReassembler(Capacity)
    BY DEF Init, new_TCPReceiver
  <2>2. /\ rcv.reassembler.buf = {} /\ F = 0 /\ first_unread(rcv.reassembler) = 0
        /\ rcv.reassembler.eof = FALSE /\ input_ended(stream_out(rcv)) = FALSE
    BY <2>1 DEF new_StreamReassembler, new_ByteStream, F, first_unassembled, stream_out,
                first_unread, bytes_written, bytes_read, input_ended
  <2>3. indices({}) = {}
    BY Zenon DEF indices
  <2>4. (0 .. (F - 1)) \cup indices(rcv.reassembler.buf) = {}
    BY <2>2, <2>3
  <2>. QED
    BY <2>2, <2>4 DEF Contract!Init
<1>2. RInv /\ [Next]_vars => [Contract!Next]_contract_vars
  <2>. SUFFICES ASSUME RInv, [Next]_vars PROVE [Contract!Next]_contract_vars
    OBVIOUS
  <2>1. CASE rcv' = rcv
    BY <2>1 DEF contract_vars, F, first_unassembled, first_unread, stream_out
  <2>2. ASSUME NEW index \in 0 .. N, NEW len \in 0 .. N, NEW is_eof \in BOOLEAN,
               index + len <= N, is_eof => index + len = N,
               Delivered(Stream, rcv.reassembler, rcv'.reassembler, index, len, is_eof)
        PROVE  Contract!Next
    <3>1. Contract!Deliver(index, len, is_eof)
      BY <2>2 DEF Delivered, received_by, Contract!Deliver, F, stream_out
    <3>. QED
      BY <3>1 DEF Contract!Next
  <2>3. ASSUME NEW n, Consumed(Stream, rcv.reassembler, rcv'.reassembler, n) PROVE Contract!Next
    <3>1. n \in 1 .. N /\ Contract!Consume(n)
      BY <2>3 DEF Consumed, received_by, Contract!Consume, F, stream_out
    <3>. QED
      BY <3>1 DEF Contract!Next
  <2>. QED
    BY <2>1, <2>2, <2>3, ReceiverStep
<1>. QED
  BY <1>1, <1>2, ReceiverInductive, PTL
     DEF Spec, ImplementsContract, Contract!Spec, contract_vars

\* Neither ackno() nor the window's right edge ever moves back on the ring, as long as the
\* capacity is less than half of it: the default is 64000.
THEOREM WindowKept ==
    ASSUME SynCarriesData = FALSE, Capacity < Half32
    PROVE  Spec => NeverTakenBack
<1>1. RInv /\ [Next]_vars =>
        [has_ackno(rcv) =>
          /\ has_ackno(rcv')
          /\ U32(ackno(rcv') - ackno(rcv)) <= Half32
          /\ U32(ackno(rcv') + window_size(rcv') - ackno(rcv) - window_size(rcv)) <= Half32]_vars
  BY StepNeverTakesBack
<1>. QED
  BY <1>1, ReceiverInductive, PTL DEF Spec, NeverTakenBack

=============================================================================
