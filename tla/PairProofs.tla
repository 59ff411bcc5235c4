----------------------------- MODULE PairProofs -----------------------------
(***************************************************************************)
(* Two connections and a network that loses, repeats and reorders: each    *)
(* direction is a reliable stream, whatever the streams, the capacities,   *)
(* the initial sequence numbers and the timeouts.                          *)
(***************************************************************************)
EXTENDS ConnectionPair, ConnectionLemmas

-----------------------------------------------------------------------------
(* The two ends *)

\* There are two ends, each the other's peer.
LEMMA Peers ==
    ASSUME NEW e \in Endpoint
    PROVE  /\ peer(e) \in Endpoint /\ peer(e) # e /\ peer(peer(e)) = e
           /\ Endpoint = {e, peer(e)} /\ Client \in Endpoint
<1>1. PICK s \in Endpoint : s # Client /\ Endpoint = {Client, s} /\ Client \in Endpoint
  BY PairAssumption
<1>2. \A x \in Endpoint : peer(x) \in Endpoint /\ peer(x) # x
  <2>. TAKE x \in Endpoint
  <2>1. \E y \in Endpoint : y # x
    BY <1>1
  <2>. QED
    BY <2>1 DEF peer
<1>3. peer(Client) = s /\ peer(s) = Client
  BY <1>1, <1>2
<1>. QED
  BY <1>1, <1>2, <1>3

\* What is assumed of the streams and the initial numbers.
LEMMA PairTexts ==
    ASSUME NEW e \in Endpoint
    PROVE  Stream[e] \in Texts /\ Stream[e] \in OutStreams /\ ISN[e] \in WrappingInt32
  BY PairAssumption DEF Texts

\* What is assumed of the numbers.
LEMMA PairNumbers == MaxU16 \in Nat /\ MaxU16 < Mod64 /\ TickMs \in Nat /\ Mod64 \in Nat
  BY PairAssumption, ConnectionAssumption, Widths

\* One end: c its connection, b the peer's, t what its application has read.
Side(e, c, b, t) ==
    Half(Stream[e], Stream[peer(e)], ISN[e], ISN[peer(e)], c, b, t) /\ c.segments_out = << >>

\* A step of one end, from c to d, with u read by then and q sent.
Turn(e, c, d, u, b, q) ==
    /\ Goes(Stream[e], Stream[peer(e)], ISN[peer(e)], c, d, u, b)
    /\ d.segments_out = << >> /\ Move(Stream[e], c, d, q)

\* The facts of an end.
LEMMA SideFacts ==
    ASSUME NEW e \in Endpoint, NEW c, NEW b, NEW t, Side(e, c, b, t)
    PROVE  /\ c \in ConnectionType(Byte) /\ t \in Seq(Byte)
           /\ Idle(Stream[e], c.sender)
           /\ ReceiverOK(Stream[peer(e)], c.receiver, t, ISN[peer(e)])
           /\ Held(Stream[peer(e)], b.sender, c.receiver)
           /\ ackable(c.receiver) \in Nat \ {0}
<1>1. Stream[e] \in Texts /\ Stream[peer(e)] \in Texts
  BY Peers, PairTexts
<1>2. Half(Stream[e], Stream[peer(e)], ISN[e], ISN[peer(e)], c, b, t)
  BY DEF Side
<1>. QED
  BY <1>1, <1>2, HalfFacts

\* Both ends take a step, which may be none.
LEMMA SideStep ==
    ASSUME NEW e \in Endpoint, NEW c, NEW b, NEW t, NEW y, Side(e, c, b, t), Side(peer(e), b, c, y),
           NEW d, NEW u, NEW q, Turn(e, c, d, u, b, q),
           NEW x, NEW z, NEW k, Turn(peer(e), b, x, z, c, k)
    PROVE  Side(e, d, x, u)
<1>. DEFINE own == Stream[e]
            text == Stream[peer(e)]
            j == ISN[e]
            i == ISN[peer(e)]
<1>1. /\ peer(e) \in Endpoint /\ peer(peer(e)) = e /\ own \in Texts /\ text \in Texts
  BY Peers, PairTexts
<1>2. Half(own, text, j, i, c, b, t) /\ Half(text, own, i, j, b, c, y)
  BY <1>1 DEF Side
<1>3. Goes(own, text, i, c, d, u, b) /\ Goes(text, own, j, b, x, z, c) /\ d.segments_out = << >>
  BY <1>1 DEF Turn
<1>4. Half(own, text, j, i, d, x, u)
  <2>. HIDE DEF own, text, i, j
  <2>. QED
    BY ONLY <1>1, <1>2, <1>3, HalfStep
<1>. QED
  BY <1>3, <1>4 DEF Side

\* At most one end has given up lingering.
LEMMA LingerStep ==
    ASSUME NEW e \in Endpoint, NEW c, NEW d, NEW x, NEW t, NEW y, NEW q,
           Side(e, d, x, t), Side(peer(e), x, d, y), Move(Stream[e], c, d, q),
           c.linger_after_streams_finish
    PROVE  d.linger_after_streams_finish \/ x.linger_after_streams_finish
<1>. SUFFICES ASSUME ~d.linger_after_streams_finish, ~x.linger_after_streams_finish PROVE FALSE
  OBVIOUS
<1>1. peer(e) \in Endpoint /\ peer(peer(e)) = e /\ Stream[e] \in Texts
  BY Peers, PairTexts
<1>2. ~eof(d.sender.stream)
  BY DEF Move
<1>3. input_ended(stream_out(x.receiver))
  BY DEF Side, Half, Between, End, inbound_stream
<1>4. /\ ReceiverOK(Stream[e], x.receiver, y, ISN[e]) /\ Held(Stream[e], d.sender, x.receiver)
      /\ Idle(Stream[e], d.sender)
  BY <1>1, SideFacts
<1>5. eof(d.sender.stream)
  BY <1>1, <1>3, <1>4, HeldBounds
<1>. QED
  BY <1>2, <1>5

-----------------------------------------------------------------------------
(* The inductive invariant *)

Segments == [to : Endpoint, seg : SegmentType(Byte)]

Mailed(cn, nt) ==
    \A m \in nt : m \in Segments /\ Post(Stream[peer(m.to)], cn[peer(m.to)], ISN[m.to], m.seg)

Sides(cn, tk) == \A e \in Endpoint : Side(e, cn[e], cn[peer(e)], tk[e])

Lingers(cn) == \E e \in Endpoint : cn[e].linger_after_streams_finish

PairOK(cn, nt, tk) ==
    /\ cn \in [Endpoint -> ConnectionType(Byte)] /\ tk \in [Endpoint -> Seq(Byte)]
    /\ Sides(cn, tk) /\ Mailed(cn, nt) /\ Lingers(cn)

PInv == PairOK(conn, net, taken)

\* A step of the pair: q[e] is what e sends.
posted(e, q) == {[to |-> peer(e), seg |-> q[k]] : k \in 1 .. Len(q)}

Turns(cn, dn, uk, q) ==
    \A e \in Endpoint : Turn(e, cn[e], dn[e], uk[e], cn[peer(e)], q[e])

\* When each end takes its turn and the network holds nothing but what was there or is sent
\* now, the invariant is kept.
LEMMA PairStep ==
    ASSUME NEW cn, NEW nt, NEW tk, PairOK(cn, nt, tk), NEW dn, NEW mt, NEW uk, NEW q,
           dn \in [Endpoint -> ConnectionType(Byte)], uk \in [Endpoint -> Seq(Byte)],
           Turns(cn, dn, uk, q),
           \A m \in mt : m \in nt \/ \E e \in Endpoint : m \in posted(e, q[e])
    PROVE  PairOK(dn, mt, uk)
<1>1. Sides(dn, uk)
  <2>. SUFFICES ASSUME NEW e \in Endpoint PROVE Side(e, dn[e], dn[peer(e)], uk[e])
    BY DEF Sides
  <2>1. peer(e) \in Endpoint /\ peer(peer(e)) = e
    BY Peers
  <2>2. /\ Side(e, cn[e], cn[peer(e)], tk[e]) /\ Side(peer(e), cn[peer(e)], cn[e], tk[peer(e)])
        /\ Turn(e, cn[e], dn[e], uk[e], cn[peer(e)], q[e])
        /\ Turn(peer(e), cn[peer(e)], dn[peer(e)], uk[peer(e)], cn[e], q[peer(e)])
    BY <2>1 DEF PairOK, Sides, Turns
  <2>. QED
    BY <2>2, SideStep
<1>2. \A e \in Endpoint : /\ Side(e, cn[e], cn[peer(e)], tk[e]) /\ Side(e, dn[e], dn[peer(e)], uk[e])
                          /\ Move(Stream[e], cn[e], dn[e], q[e])
                          /\ peer(e) \in Endpoint /\ peer(peer(e)) = e
  BY <1>1, Peers DEF PairOK, Sides, Turns, Turn
<1>3. Lingers(dn)
  <2>1. PICK e \in Endpoint : cn[e].linger_after_streams_finish
    BY DEF PairOK, Lingers
  <2>2. /\ Side(e, dn[e], dn[peer(e)], uk[e]) /\ Side(peer(e), dn[peer(e)], dn[e], uk[peer(e)])
        /\ Move(Stream[e], cn[e], dn[e], q[e]) /\ peer(e) \in Endpoint
    BY <1>2
  <2>3. dn[e].linger_after_streams_finish \/ dn[peer(e)].linger_after_streams_finish
    BY <2>1, <2>2, LingerStep
  <2>. QED
    BY <2>2, <2>3 DEF Lingers
<1>4. Mailed(dn, mt)
  <2>. SUFFICES ASSUME NEW m \in mt
                PROVE  m \in Segments /\ Post(Stream[peer(m.to)], dn[peer(m.to)], ISN[m.to], m.seg)
    BY DEF Mailed
  <2>1. CASE m \in nt
    <3>1. m \in Segments /\ Post(Stream[peer(m.to)], cn[peer(m.to)], ISN[m.to], m.seg)
      BY <2>1 DEF PairOK, Mailed
    <3>. DEFINE e == peer(m.to)
    <3>2. e \in Endpoint
      BY <3>1, Peers DEF Segments
    <3>. HIDE DEF e
    <3>3. Grows(cn[e].sender, dn[e].sender) /\ Advances(cn[e].receiver, dn[e].receiver)
      BY <1>2, <3>2 DEF Move
    <3>4. /\ ReceiverOK(Stream[peer(e)], cn[e].receiver, tk[e], ISN[peer(e)])
          /\ ReceiverOK(Stream[peer(e)], dn[e].receiver, uk[e], ISN[peer(e)])
          /\ Stream[peer(e)] \in Texts
      BY <1>2, <3>2, SideFacts, PairTexts
    <3>5. /\ first_unassembled(cn[e].receiver.reassembler) \in Nat
          /\ first_unassembled(dn[e].receiver.reassembler) \in Nat
      BY <3>4, ReceiverNumbers
    <3>6. Post(Stream[e], cn[e], ISN[m.to], m.seg)
      BY <3>1 DEF e
    <3>7. Post(Stream[e], dn[e], ISN[m.to], m.seg)
      BY <3>3, <3>5, <3>6, PostKept
    <3>. QED
      BY <3>1, <3>7 DEF e
  <2>2. ASSUME NEW e \in Endpoint, m \in posted(e, q[e])
        PROVE  m \in Segments /\ Post(Stream[peer(m.to)], dn[peer(m.to)], ISN[m.to], m.seg)
    <3>1. PICK k \in 1 .. Len(q[e]) : m = [to |-> peer(e), seg |-> q[e][k]]
      BY <2>2 DEF posted
    <3>2. m.to = peer(e) /\ m.seg = q[e][k] /\ peer(m.to) = e /\ peer(e) \in Endpoint
      BY <1>2, <3>1
    <3>3. Mail(Stream[e], dn[e].sender, dn[e].receiver, q[e])
      BY <1>2 DEF Move
    <3>4. Letter(Stream[e], dn[e].sender, dn[e].receiver, q[e][k])
      BY <3>3 DEF Mail
    <3>5. /\ dn[e].receiver.syn => dn[e].receiver.isn = ISN[peer(e)]
          /\ ackable(dn[e].receiver) \in Nat \ {0}
      BY <1>2, SideFacts DEF ReceiverOK
    <3>6. Post(Stream[e], dn[e], ISN[peer(e)], q[e][k])
      BY <3>4, <3>5, PostSent
    <3>7. m \in Segments
      BY <3>1, <3>2, <3>6 DEF Segments, Post
    <3>. QED
      BY <3>2, <3>6, <3>7
  <2>. QED
    BY <2>1, <2>2
<1>. QED
  BY <1>1, <1>3, <1>4 DEF PairOK

\* One direction of the pair in a step, in which the writer's sender s becomes r and the
\* reader's receiver v, of which y was read, becomes w, of which z was.
Onward(text, s, r, v, y, w, z) ==
    /\ s.stream.bytes_w \in Nat /\ r.stream.bytes_w \in Nat
    /\ s.stream.bytes_w <= r.stream.bytes_w
    /\ r.stream.bytes_w <= Len(text)
    /\ s.stream.end_input =>
          r.stream.end_input /\ r.stream.bytes_w = s.stream.bytes_w
    /\ y \o stream_out(v).buff
          = SubSeq(text, 1, first_unassembled(v.reassembler))
    /\ z \o stream_out(w).buff
          = SubSeq(text, 1, first_unassembled(w.reassembler))
    /\ first_unassembled(v.reassembler) \in Nat
    /\ first_unassembled(w.reassembler) \in Nat
    /\ first_unassembled(v.reassembler) <= first_unassembled(w.reassembler)
    /\ first_unassembled(w.reassembler) <= s.stream.bytes_w
    /\ input_ended(stream_out(w)) =>
          /\ s.stream.end_input
          /\ first_unassembled(w.reassembler) = s.stream.bytes_w
    /\ input_ended(stream_out(v)) => input_ended(stream_out(w))

\* What one direction of the pair does in a step, as StreamContract allows: e writes, and what
\* the other end has been given is of what e had written before.
LEMMA DirectionStep ==
    ASSUME NEW e \in Endpoint, NEW c, NEW b, NEW t, NEW y, Side(e, c, b, t), Side(peer(e), b, c, y),
           NEW d, NEW u, NEW q, Turn(e, c, d, u, b, q),
           NEW x, NEW z, NEW k, Turn(peer(e), b, x, z, c, k)
    PROVE  Onward(Stream[e], c.sender, d.sender, b.receiver, y, x.receiver, z)
<1>. DEFINE own == Stream[e]
<1>1. peer(e) \in Endpoint /\ peer(peer(e)) = e /\ own \in Texts
  BY Peers, PairTexts
<1>2. Idle(own, c.sender) /\ ReceiverOK(own, b.receiver, y, ISN[e])
  BY <1>1, SideFacts
<1>3. /\ ReceiverOK(own, x.receiver, z, ISN[e]) /\ Held(own, c.sender, x.receiver)
      /\ Advances(b.receiver, x.receiver)
  BY <1>1 DEF Turn, Goes, End, Steady
<1>4. Idle(own, d.sender) /\ Grows(c.sender, d.sender)
  BY DEF Turn, Goes, End, Steady
<1>5. d.sender.stream.bytes_w <= Len(own)
  BY <1>1, <1>4, TextBoth, IdleNumbers
<1>6. /\ y \o stream_out(b.receiver).buff = SubSeq(own, 1, first_unassembled(b.receiver.reassembler))
      /\ z \o stream_out(x.receiver).buff = SubSeq(own, 1, first_unassembled(x.receiver.reassembler))
      /\ first_unassembled(b.receiver.reassembler) \in Nat
      /\ first_unassembled(x.receiver.reassembler) \in Nat
  BY <1>1, <1>2, <1>3, ReceiverNumbers
<1>7. /\ first_unassembled(x.receiver.reassembler) <= c.sender.stream.bytes_w
      /\ input_ended(stream_out(x.receiver)) =>
           /\ c.sender.stream.end_input
           /\ first_unassembled(x.receiver.reassembler) = c.sender.stream.bytes_w
  <2>. HIDE DEF own
  <2>. QED
    BY <1>1, <1>2, <1>3, HeldBounds
<1>. QED
  BY <1>3, <1>4, <1>5, <1>6, <1>7 DEF Grows, Advances, Onward

-----------------------------------------------------------------------------
(* The actions *)

\* What a step of the pair is.
PairMoves ==
    /\ conn' \in [Endpoint -> ConnectionType(Byte)] /\ taken' \in [Endpoint -> Seq(Byte)]
    /\ \E q : /\ Turns(conn, conn', taken', q)
              /\ \A m \in net' : m \in net \/ \E e \in Endpoint : m \in posted(e, q[e])

\* A call, and the draining of the queue after it, is a turn.
LEMMA CalledTurn ==
    ASSUME NEW e \in Endpoint, NEW c, NEW d, NEW u, NEW b, c.segments_out = << >>,
           Called(Stream[e], Stream[peer(e)], c, d, u, ISN[peer(e)], b.sender), AckKept(c, d, b),
           NEW x, Like(d, x), x.segments_out = << >>
    PROVE  Turn(e, c, x, u, b, d.segments_out)
<1>1. PICK q : Move(Stream[e], c, d, q) /\ d.segments_out = c.segments_out \o q
  BY DEF Called, Moves
<1>2. d.segments_out = q
  <2>1. q \in Segs
    BY <1>1 DEF Move, Mail
  <2>. QED
    BY <1>1, <2>1, ConcatEmptySeq DEF Segs
<1>3. Move(Stream[e], c, x, d.segments_out)
  BY <1>1, <1>2, MoveLike
<1>4. Goes(Stream[e], Stream[peer(e)], ISN[peer(e)], c, x, u, b)
  BY CalledGoes
<1>. QED
  BY <1>3, <1>4 DEF Turn

\* Doing nothing is a turn.
LEMMA NoTurn ==
    ASSUME NEW e \in Endpoint, NEW c, NEW b, NEW t, Side(e, c, b, t)
    PROVE  Turn(e, c, c, t, b, << >>)
<1>1. Stream[e] \in Texts /\ Stream[peer(e)] \in Texts
  BY Peers, PairTexts
<1>2. /\ Between(Stream[e], Stream[peer(e)], c, t, ISN[peer(e)], b.sender)
      /\ c.segments_out = << >> /\ c \in ConnectionType(Byte)
  BY DEF Side, Half, Between, End, Steady
<1>3. Called(Stream[e], Stream[peer(e)], c, c, t, ISN[peer(e)], b.sender)
  BY <1>1, <1>2, NoCall
<1>4. AckKept(c, c, b) /\ Like(c, c)
  BY <1>2 DEF AckKept, Like, Around
<1>5. Turn(e, c, c, t, b, c.segments_out)
  BY <1>2, <1>3, <1>4, CalledTurn
<1>. QED
  BY <1>2, <1>5

\* One end takes a step.
LEMMA OneEnd ==
    ASSUME PInv, NEW e \in Endpoint, NEW d, NEW u, NEW q,
           Turn(e, conn[e], d, u, conn[peer(e)], q),
           conn' = [conn EXCEPT ![e] = d], taken' = [taken EXCEPT ![e] = u],
           \A m \in net' : m \in net \/ m \in posted(e, q)
    PROVE  PairMoves
<1>. DEFINE Q == [f \in Endpoint |-> IF f = e THEN q ELSE << >>]
<1>1. /\ conn \in [Endpoint -> ConnectionType(Byte)] /\ taken \in [Endpoint -> Seq(Byte)]
      /\ \A f \in Endpoint : Side(f, conn[f], conn[peer(f)], taken[f])
  BY DEF PInv, PairOK, Sides
<1>2. d \in ConnectionType(Byte) /\ u \in Seq(Byte)
  BY DEF Turn, Goes, End, Steady, ReceiverOK, Good, Written, OutOK
<1>3. conn' \in [Endpoint -> ConnectionType(Byte)] /\ taken' \in [Endpoint -> Seq(Byte)]
  BY <1>1, <1>2
<1>4. ASSUME NEW f \in Endpoint
      PROVE  Turn(f, conn[f], conn'[f], taken'[f], conn[peer(f)], Q[f])
  <2>1. CASE f = e
    <3>1. conn'[f] = d /\ taken'[f] = u /\ Q[f] = q
      BY <1>1, <2>1
    <3>. QED
      BY <2>1, <3>1
  <2>2. CASE f # e
    <3>1. conn'[f] = conn[f] /\ taken'[f] = taken[f] /\ Q[f] = << >>
      BY <1>1, <2>2
    <3>2. Turn(f, conn[f], conn[f], taken[f], conn[peer(f)], << >>)
      BY <1>1, NoTurn
    <3>. QED
      BY <3>1, <3>2
  <2>. QED
    BY <2>1, <2>2
<1>5. Turns(conn, conn', taken', Q)
  BY <1>4 DEF Turns
<1>6. \A m \in net' : m \in net \/ \E f \in Endpoint : m \in posted(f, Q[f])
  <2>1. Q[e] = q
    OBVIOUS
  <2>. QED
    BY <2>1
<1>. QED
  BY <1>3, <1>5, <1>6 DEF PairMoves

\* A call of one end, after which what it has queued is sent.
LEMMA BecomesMoves ==
    ASSUME PInv, NEW e \in Endpoint, NEW d, NEW rest, rest \subseteq net,
           Called(Stream[e], Stream[peer(e)], conn[e], d, taken[e], ISN[peer(e)],
                  conn[peer(e)].sender),
           AckKept(conn[e], d, conn[peer(e)]), Becomes(e, d, rest), taken' = taken
    PROVE  PairMoves
<1>. DEFINE x == drained(d)
<1>1. d \in ConnectionType(Byte)
  BY DEF Called, End, Steady
<1>2. Like(d, x) /\ x.segments_out = << >>
  <2>1. x = sent_all(d) /\ 0 \in Nat
    BY DEF drained, sent_all
  <2>. HIDE DEF x
  <2>. QED
    BY <1>1, <2>1, LikeFields
<1>. HIDE DEF x
<1>a. conn[e].segments_out = << >>
  BY DEF PInv, PairOK, Sides, Side
<1>3. Turn(e, conn[e], x, taken[e], conn[peer(e)], d.segments_out)
  BY <1>2, <1>a, CalledTurn
<1>4. conn' = [conn EXCEPT ![e] = x]
  BY DEF Becomes, x
<1>5. taken' = [taken EXCEPT ![e] = taken[e]]
  BY DEF PInv, PairOK
<1>6. \A m \in net' : m \in net \/ m \in posted(e, d.segments_out)
  BY DEF Becomes, outgoing, posted
<1>. QED
  BY <1>3, <1>4, <1>5, <1>6, OneEnd

\* The owner's calls that send.
LEMMA ConnMoves ==
    ASSUME PInv, NEW e \in Endpoint, Connect(e) \/ Write(e) \/ EndInputStream(e)
    PROVE  PairMoves
<1>. DEFINE c == conn[e]
            own == Stream[e]
            text == Stream[peer(e)]
            i == ISN[peer(e)]
            p == conn[peer(e)].sender
            t == taken[e]
<1>1. own \in Texts /\ text \in Texts
  BY Peers, PairTexts
<1>2. Between(own, text, c, t, i, p)
  BY DEF PInv, PairOK, Sides, Side, Half
<1>3. CASE Connect(e)
  <2>1. /\ c.sender.next_seqno = 0 /\ Becomes(e, connect(c), net) /\ taken' = taken
    BY <1>3 DEF Connect, can_connect
  <2>. DEFINE d == connect(c)
  <2>2. Called(own, text, c, d, t, i, p) /\ d.sender.last_ackno = c.sender.last_ackno
    <3>. HIDE DEF c, own, text, t, i, p
    <3>. QED
      BY <1>1, <1>2, <2>1, ConnectCall
  <2>. HIDE DEF d
  <2>. QED
    BY <2>1, <2>2, BecomesMoves DEF AckKept, d
<1>4. CASE Write(e)
  <2>. DEFINE data == to_write(e)
              d == write(c, data)
  <2>1. /\ c.isactive /\ data # << >> /\ Becomes(e, d, net) /\ taken' = taken
    BY <1>4 DEF Write, can_write
  <2>2. data = unwritten(own, c.sender.stream)
    BY DEF to_write, unwritten
  <2>3. Called(own, text, c, d, t, i, p) /\ d.sender.last_ackno = c.sender.last_ackno
    <3>. HIDE DEF c, own, text, t, i, p, data
    <3>. QED
      BY <1>1, <1>2, <2>1, <2>2, WriteCall
  <2>. HIDE DEF d
  <2>. QED
    BY <2>1, <2>3, BecomesMoves DEF AckKept, d
<1>5. CASE EndInputStream(e)
  <2>. DEFINE d == end_input_stream(c)
  <2>1. /\ ~c.sender.stream.end_input /\ c.sender.stream.bytes_w = Len(own)
        /\ Becomes(e, d, net) /\ taken' = taken
    BY <1>5 DEF EndInputStream, can_end, input_ended, bytes_written
  <2>2. Called(own, text, c, d, t, i, p) /\ d.sender.last_ackno = c.sender.last_ackno
    <3>. HIDE DEF c, own, text, t, i, p
    <3>. QED
      BY <1>1, <1>2, <2>1, EndCall
  <2>. HIDE DEF d
  <2>. QED
    BY <2>1, <2>2, BecomesMoves DEF AckKept, d
<1>. QED
  BY <1>3, <1>4, <1>5

\* The owner's reading.
LEMMA ReadMoves ==
    ASSUME PInv, NEW e \in Endpoint, Read(e)
    PROVE  PairMoves
<1>. DEFINE c == conn[e]
            own == Stream[e]
            text == Stream[peer(e)]
            i == ISN[peer(e)]
            b == conn[peer(e)]
            p == b.sender
            t == taken[e]
            out == bs_read(inbound_stream(c), 1)
            d == received_with(c, reading(c.receiver, 1))
            u == t \o out.data
<1>1. own \in Texts /\ text \in Texts
  BY Peers, PairTexts
<1>2. /\ Between(own, text, c, t, i, p) /\ conn \in [Endpoint -> ConnectionType(Byte)]
      /\ c.segments_out = << >>
  BY DEF PInv, PairOK, Sides, Side, Half
<1>3. /\ conn' = [conn EXCEPT ![e].receiver.reassembler.output = out.stream]
      /\ taken' = [taken EXCEPT ![e] = u] /\ net' = net
  BY DEF Read
<1>4. conn' = [conn EXCEPT ![e] = d]
  BY <1>3 DEF received_with, reading, inbound_stream
<1>5. /\ Called(own, text, c, d, u, i, p) /\ d.segments_out = c.segments_out
      /\ d.sender.last_ackno = c.sender.last_ackno
  <2>1. 1 \in Nat /\ u = read_too(t, c, 1) /\ d = read_from(c, 1) /\ Between(own, text, c, t, i, p)
    BY <1>2 DEF read_too, read_from
  <2>. HIDE DEF c, own, text, t, i, p, u, d
  <2>. QED
    BY ONLY <1>1, <2>1, ReadCall
<1>6. Turn(e, c, d, u, b, d.segments_out)
  <2>1. Like(d, d) /\ AckKept(c, d, b)
    BY <1>5 DEF Called, End, Steady, Like, Around, AckKept
  <2>. HIDE DEF c, d, u, b
  <2>2. Called(own, text, c, d, u, i, b.sender) /\ c.segments_out = << >> /\ d.segments_out = << >>
    BY <1>2, <1>5
  <2>. QED
    BY <2>1, <2>2, CalledTurn
<1>. HIDE DEF d, u
<1>. QED
  BY <1>3, <1>4, <1>6, OneEnd

\* An arrival, the segment's first or one more.
LEMMA ReceiveMoves ==
    ASSUME PInv, NEW m \in net, Receive(m) \/ ReceiveCopy(m)
    PROVE  PairMoves
<1>. DEFINE e == m.to
            c == conn[e]
            own == Stream[e]
            text == Stream[peer(e)]
            i == ISN[peer(e)]
            b == conn[peer(e)]
            p == b.sender
            t == taken[e]
            seg == m.seg
            d == segment_received(c, seg)
<1>1. m \in Segments /\ Post(text, b, ISN[e], seg)
  BY DEF PInv, PairOK, Mailed
<1>2. e \in Endpoint /\ peer(e) \in Endpoint /\ peer(peer(e)) = e
  BY <1>1, Peers DEF Segments
<1>3. own \in Texts /\ text \in Texts /\ own \in OutStreams
  BY <1>2, PairTexts
<1>4. /\ Side(e, c, b, t) /\ Side(peer(e), b, c, taken[peer(e)])
  BY <1>2 DEF PInv, PairOK, Sides
<1>6. \E rest : rest \subseteq net /\ Becomes(e, d, rest) /\ taken' = taken
  <2>1. net \ {m} \subseteq net /\ net \subseteq net
    OBVIOUS
  <2>. QED
    BY <2>1 DEF Receive, ReceiveCopy
<1>7. Half(own, text, ISN[e], i, c, b, t) /\ Half(text, own, i, ISN[e], b, c, taken[peer(e)])
  BY <1>2, <1>4 DEF Side
<1>10. Called(own, text, c, d, t, i, p) /\ AckKept(c, d, b)
  <2>. DEFINE j == ISN[e]
              y == taken[peer(e)]
  <2>1. /\ d = segment_received(c, seg) /\ Half(own, text, j, i, c, b, t)
        /\ Half(text, own, i, j, b, c, y) /\ Post(text, b, j, seg) /\ MaxU16 < Mod64
    BY <1>1, <1>7, PairNumbers
  <2>. HIDE DEF c, own, text, t, i, j, y, b, seg, d
  <2>. QED
    BY ONLY <1>3, <2>1, PostArrives
<1>. HIDE DEF d, seg, e
<1>. QED
  BY <1>2, <1>6, <1>10, BecomesMoves

\* A loss, and a step in which nothing moves.
LEMMA StillMoves ==
    ASSUME PInv, conn' = conn, taken' = taken, net' \subseteq net
    PROVE  PairMoves
<1>1. \A e \in Endpoint : Turn(e, conn[e], conn'[e], taken'[e], conn[peer(e)], << >>)
  BY NoTurn DEF PInv, PairOK, Sides
<1>. DEFINE Q == [e \in Endpoint |-> << >>]
<1>2. Turns(conn, conn', taken', Q)
  BY <1>1 DEF Turns
<1>. QED
  BY <1>2 DEF PairMoves, PInv, PairOK

\* Time passing at both ends.
LEMMA TickMoves ==
    ASSUME PInv, Tick
    PROVE  PairMoves
<1>. DEFINE k == [e \in Endpoint |-> tick(conn[e], TickMs)]
            Q == [e \in Endpoint |-> k[e].segments_out]
<1>1. /\ conn' = [e \in Endpoint |-> capped(drained(k[e]))]
      /\ net' = net \cup UNION {outgoing(e, k[e]) : e \in Endpoint}
      /\ taken' = taken
  BY DEF Tick
<1>2. ASSUME NEW e \in Endpoint
      PROVE  /\ Turn(e, conn[e], conn'[e], taken'[e], conn[peer(e)], Q[e])
             /\ conn'[e] \in ConnectionType(Byte)
  <2>. DEFINE c == conn[e]
              own == Stream[e]
              text == Stream[peer(e)]
              i == ISN[peer(e)]
              b == conn[peer(e)]
              p == b.sender
              t == taken[e]
              d == tick(c, TickMs)
              x == drained(d)
              y == capped(x)
  <2>1. own \in Texts /\ text \in Texts
    BY Peers, PairTexts
  <2>2. Between(own, text, c, t, i, p) /\ c.segments_out = << >>
    BY DEF PInv, PairOK, Sides, Side, Half
  <2>3. Called(own, text, c, d, t, i, p) /\ d.sender.last_ackno = c.sender.last_ackno
    <3>. HIDE DEF c, own, text, t, i, p
    <3>. QED
      BY <2>1, <2>2, PairNumbers, TickCall
  <2>4. k[e] = d /\ Q[e] = d.segments_out /\ conn'[e] = y /\ taken'[e] = t
    BY <1>1
  <2>. HIDE DEF d
  <2>5. d \in ConnectionType(Byte)
    BY <2>3 DEF Called, End, Steady
  <2>6. Like(d, x) /\ x.segments_out = << >>
    <3>1. x = sent_all(d) /\ 0 \in Nat
      BY DEF drained, sent_all
    <3>. HIDE DEF x
    <3>. QED
      BY <2>5, <3>1, LikeFields
  <2>. HIDE DEF x
  <2>7. Like(x, y) /\ y.segments_out = << >>
    <3>. DEFINE n == min(x.time_since_last_segment_received, MaxTime)
    <3>1. n \in Nat /\ x \in ConnectionType(Byte)
      <4>1. x \in ConnectionType(Byte)
        BY <2>6 DEF Like, Around
      <4>. QED
        BY <4>1, PairAssumption, ConnectionFields DEF ConnFields, min
    <3>2. y = at_time(x, n)
      BY DEF capped, at_time
    <3>. HIDE DEF y, n
    <3>. QED
      BY <2>6, <3>1, <3>2, LikeFields
  <2>. HIDE DEF y
  <2>8. Like(d, y) /\ y \in ConnectionType(Byte)
    BY <2>6, <2>7 DEF Like, Around
  <2>9. AckKept(c, d, b)
    BY <2>3 DEF AckKept
  <2>10. Turn(e, c, y, t, b, d.segments_out)
    BY <2>2, <2>3, <2>7, <2>8, <2>9, CalledTurn
  <2>. QED
    BY <2>4, <2>8, <2>10
<1>3. Turns(conn, conn', taken', Q)
  <2>. HIDE DEF Q
  <2>. QED
    BY <1>2 DEF Turns
<1>4. conn' \in [Endpoint -> ConnectionType(Byte)]
  <2>1. conn' = [e \in Endpoint |-> conn'[e]]
    BY <1>1
  <2>. QED
    BY <1>2, <2>1
<1>5. taken' \in [Endpoint -> Seq(Byte)]
  BY <1>1 DEF PInv, PairOK
<1>6. \A m \in net' : m \in net \/ \E e \in Endpoint : m \in posted(e, Q[e])
  <2>1. ASSUME NEW m \in net', m \notin net
        PROVE  \E e \in Endpoint : m \in posted(e, Q[e])
    <3>1. PICK e \in Endpoint : m \in outgoing(e, k[e])
      BY <1>1, <2>1
    <3>2. Q[e] = k[e].segments_out
      OBVIOUS
    <3>. HIDE DEF Q, k
    <3>3. outgoing(e, k[e]) = posted(e, Q[e])
      BY <3>2 DEF outgoing, posted
    <3>. QED
      BY <3>1, <3>3
  <2>. QED
    BY <2>1
<1>. HIDE DEF Q
<1>. QED
  BY <1>3, <1>4, <1>5, <1>6 DEF PairMoves

\* Every step of the pair is a turn of each end.
LEMMA NextMoves ==
    ASSUME PInv, [Next]_vars
    PROVE  PairMoves
<1>1. ASSUME NEW e \in Endpoint, Connect(e) \/ Write(e) \/ EndInputStream(e) \/ Read(e)
      PROVE  PairMoves
  BY <1>1, ConnMoves, ReadMoves
<1>2. ASSUME NEW m \in net, Receive(m) \/ ReceiveCopy(m)
      PROVE  PairMoves
  BY <1>2, ReceiveMoves
<1>3. ASSUME NEW m \in net, Lose(m)
      PROVE  PairMoves
  BY <1>3, StillMoves DEF Lose
<1>4. CASE Tick
  BY <1>4, TickMoves
<1>5. CASE UNCHANGED vars
  BY <1>5, StillMoves DEF vars
<1>. QED
  BY <1>1, <1>2, <1>3, <1>4, <1>5 DEF Next, Network

\* Two new connections and an empty network.
LEMMA PairInit == Init => PInv
<1>. SUFFICES ASSUME Init PROVE PInv
  OBVIOUS
<1>1. /\ conn = [e \in Endpoint |-> new_TCPConnection(SendCapacity, Capacity, RetxTimeout, ISN[e])]
      /\ net = {} /\ taken = [e \in Endpoint |-> << >>]
  BY DEF Init
<1>2. SendCapacity \in Nat
  BY PairAssumption
<1>3. ASSUME NEW e \in Endpoint
      PROVE  /\ End(Stream[e], Stream[peer(e)], conn[e], << >>, ISN[peer(e)])
             /\ conn[e].segments_out = << >> /\ conn[e].sender.isn = ISN[e]
             /\ conn[e].sender.last_ackno = 0 /\ conn[e].linger_after_streams_finish
             /\ ~conn[e].receiver.syn
             /\ first_unassembled(conn[e].receiver.reassembler) = 0
             /\ conn[e].receiver.reassembler.buf = {} /\ ~conn[e].receiver.reassembler.eof
             /\ conn[e].sender.next_seqno = 0 /\ conn[e] \in ConnectionType(Byte)
  <2>1. peer(e) \in Endpoint /\ Stream[e] \in Texts /\ Stream[peer(e)] \in Texts
        /\ ISN[e] \in WrappingInt32 /\ ISN[peer(e)] \in WrappingInt32
    BY Peers, PairTexts
  <2>2. conn[e] = new_TCPConnection(SendCapacity, Capacity, RetxTimeout, ISN[e])
    BY <1>1
  <2>. DEFINE c == conn[e]
  <2>. HIDE DEF c
  <2>3. /\ End(Stream[e], Stream[peer(e)], c, << >>, ISN[peer(e)])
        /\ c.segments_out = << >> /\ c.sender.isn = ISN[e]
        /\ c.sender.last_ackno = 0 /\ c.linger_after_streams_finish /\ ~c.receiver.syn
        /\ first_unassembled(c.receiver.reassembler) = 0
        /\ c.receiver.reassembler.buf = {} /\ ~c.receiver.reassembler.eof
        /\ c.sender.next_seqno = 0
    BY <1>2, <2>1, <2>2, NewConnection DEF c
  <2>. QED
    BY <2>3 DEF c, End, Steady
<1>4. ASSUME NEW e \in Endpoint
      PROVE  Side(e, conn[e], conn[peer(e)], taken[e])
  <2>1. /\ peer(e) \in Endpoint /\ taken[e] = << >> /\ Stream[e] \in Texts
        /\ Stream[peer(e)] \in Texts /\ ISN[e] \in WrappingInt32 /\ ISN[peer(e)] \in WrappingInt32
        /\ conn[e] = new_TCPConnection(SendCapacity, Capacity, RetxTimeout, ISN[e])
    BY <1>1, Peers, PairTexts
  <2>2. Half(Stream[e], Stream[peer(e)], ISN[e], ISN[peer(e)], conn[e], conn[peer(e)], << >>)
    BY <1>2, <2>1, NewHalf
  <2>. QED
    BY <1>3, <2>1, <2>2 DEF Side
<1>5. conn \in [Endpoint -> ConnectionType(Byte)] /\ taken \in [Endpoint -> Seq(Byte)]
  <2>1. conn = [e \in Endpoint |-> conn[e]]
    BY <1>1
  <2>. QED
    BY <1>1, <1>3, <2>1
<1>6. Lingers(conn)
  <2>1. Client \in Endpoint
    BY PairAssumption
  <2>. QED
    BY <1>3, <2>1 DEF Lingers
<1>. QED
  BY <1>1, <1>4, <1>5, <1>6 DEF PInv, PairOK, Sides, Mailed

-----------------------------------------------------------------------------
(* The theorems *)

\* The strengthening of the invariants below, of all that the two ends do: no byte, SYN or FIN
\* is held that was not sent, none is taken for acknowledged that is not held, and every
\* segment on its way, however late or often it comes, is of its sender's stream and
\* acknowledges what its sender still has.
THEOREM PairInductive == Spec => []PInv
<1>1. PInv /\ [Next]_vars => PInv'
  <2>. SUFFICES ASSUME PInv, [Next]_vars PROVE PInv'
    OBVIOUS
  <2>1. PairMoves
    BY NextMoves
  <2>2. PICK q : /\ Turns(conn, conn', taken', q)
                 /\ \A m \in net' : m \in net \/ \E e \in Endpoint : m \in posted(e, q[e])
    BY <2>1 DEF PairMoves
  <2>3. conn' \in [Endpoint -> ConnectionType(Byte)] /\ taken' \in [Endpoint -> Seq(Byte)]
    BY <2>1 DEF PairMoves
  <2>4. PairOK(conn, net, taken)
    BY DEF PInv
  <2>5. PairOK(conn', net', taken')
    BY <2>2, <2>3, <2>4, PairStep
  <2>. QED
    BY <2>5 DEF PInv
<1>. QED
  BY <1>1, PairInit, PTL DEF Spec

\* The calls of TCPConnection keep its fields, and every segment they send, of their types.
THEOREM PairTypes == Spec => []TypeOK
<1>1. PInv => TypeOK
  BY DEF PInv, PairOK, Mailed, Segments, TypeOK
<1>. QED
  BY <1>1, PairInductive, PTL

\* passive_close is never taken at both ends, whatever is lost or late: an end gives up
\* lingering only while its own stream has not ended, so that no FIN of it can have made the
\* other do the same.
THEOREM SomeoneLingers == Spec => []OneEndLingers
<1>1. PInv => OneEndLingers
  BY DEF PInv, PairOK, Lingers, OneEndLingers
<1>. QED
  BY <1>1, PairInductive, PTL

\* ack_received never goes beyond what the peer's receiver has: not with a late or repeated
\* acknowledgement, wherever on the ring the numbers are.
THEOREM AckedHeld == Spec => []AckedIsHeld
<1>1. PInv => AckedIsHeld
  <2>. SUFFICES ASSUME PInv, NEW e \in Endpoint, conn[e].sender.last_ackno > 0
                PROVE  LET s == conn[e].sender
                           v == conn[peer(e)].receiver
                       IN  /\ v.syn /\ v.isn = s.isn
                           /\ s.last_ackno <= 1 + first_unassembled(v.reassembler)
                                                + flag(input_ended(stream_out(v)))
    BY DEF AckedIsHeld
  <2>. DEFINE c == conn[e]
              b == conn[peer(e)]
  <2>1. peer(e) \in Endpoint /\ peer(peer(e)) = e /\ Stream[e] \in Texts
    BY Peers, PairTexts
  <2>2. Side(e, c, b, taken[e]) /\ Side(peer(e), b, c, taken[peer(e)])
    BY <2>1 DEF PInv, PairOK, Sides
  <2>. HIDE DEF c, b
  <2>3. /\ c.sender.isn = ISN[e] /\ Acked(c.sender, b.receiver)
        /\ ReceiverOK(Stream[e], b.receiver, taken[peer(e)], ISN[e])
    BY <2>1, <2>2, SideFacts DEF Side, Half
  <2>4. first_unassembled(b.receiver.reassembler) \in Nat
    BY <2>1, <2>3, ReceiverNumbers
  <2>5. b.receiver.syn /\ c.sender.last_ackno <= ackable(b.receiver)
    BY <2>3 DEF Acked, c
  <2>6. b.receiver.isn = ISN[e]
    BY <2>3, <2>5 DEF ReceiverOK
  <2>7. ackable(b.receiver) = 1 + first_unassembled(b.receiver.reassembler)
                                + flag(input_ended(stream_out(b.receiver)))
    BY <2>4 DEF ackable, flag
  <2>. QED
    BY <2>3, <2>5, <2>6, <2>7 DEF c, b
<1>. QED
  BY <1>1, PairInductive, PTL

\* When clean_shutdown ends a connection, by passive close or after lingering, nothing is lost
\* in either direction.
THEOREM CleanClose == Spec => []CleanCloseIsComplete
<1>1. PInv => CleanCloseIsComplete
  <2>. SUFFICES ASSUME PInv, NEW e \in Endpoint, closed(e)
                PROVE  /\ given_to(e) = Stream[peer(e)] /\ input_ended(inbound_stream(conn[e]))
                       /\ given_to(peer(e)) = Stream[e]
                       /\ input_ended(inbound_stream(conn[peer(e)]))
    BY DEF CleanCloseIsComplete
  <2>. DEFINE c == conn[e]
              b == conn[peer(e)]
              own == Stream[e]
              text == Stream[peer(e)]
  <2>1. peer(e) \in Endpoint /\ peer(peer(e)) = e /\ own \in Texts /\ text \in Texts
    BY Peers, PairTexts
  <2>2. Side(e, c, b, taken[e]) /\ Side(peer(e), b, c, taken[peer(e)])
    BY <2>1 DEF PInv, PairOK, Sides
  <2>3. ~c.isactive /\ ~inbound_stream(c).error
    BY DEF closed, reset
  <2>. HIDE DEF c, b
  <2>4. input_ended(stream_out(c.receiver)) /\ Finished(c.sender) /\ Acked(c.sender, b.receiver)
    BY <2>2, <2>3 DEF Side, Half, Between, End, inbound_stream
  <2>5. /\ Idle(own, c.sender) /\ ReceiverOK(text, c.receiver, taken[e], ISN[peer(e)])
        /\ ReceiverOK(own, b.receiver, taken[peer(e)], ISN[e]) /\ Held(own, c.sender, b.receiver)
    BY <2>1, <2>2, SideFacts
  <2>6. own \in Seq(Byte) /\ text \in Seq(Byte)
    BY <2>1, TextBoth DEF OutStreams
  <2>. HIDE DEF own, text
  <2>7. SubSeq(own, 1, Len(own)) = own /\ SubSeq(text, 1, Len(text)) = text
    BY <2>6
  <2>8. taken[e] \o stream_out(c.receiver).buff = text
    BY <2>1, <2>4, <2>5, <2>7, ReceiverNumbers
  <2>9. input_ended(stream_out(b.receiver))
    <3>. DEFINE W == c.sender.stream.bytes_w
                F == first_unassembled(b.receiver.reassembler)
    <3>1. F \in Nat /\ W \in Nat /\ F <= W
      BY <2>1, <2>5, HeldBounds
    <3>2. c.sender.last_ackno = W + 2
      BY <2>4 DEF Finished
    <3>3. W + 2 <= F + 1 + flag(input_ended(stream_out(b.receiver)))
      BY <2>4, <3>1, <3>2 DEF Acked, ackable
    <3>. HIDE DEF W, F
    <3>. QED
      BY <3>1, <3>3 DEF flag
  <2>10. taken[peer(e)] \o stream_out(b.receiver).buff = own
    BY <2>1, <2>5, <2>7, <2>9, ReceiverNumbers
  <2>. QED
    BY <2>4, <2>8, <2>9, <2>10 DEF given_to, inbound_stream, c, b, own, text
<1>. QED
  BY <1>1, PairInductive, PTL

\* A direction's state, w and f at the writer's end, d and n at the reader's, and its next.
Direction(w, f, d, n, ww, ff, dd, nn) ==
    /\ \E k \in 0 .. Len(ww) : w = SubSeq(ww, 1, k)
    /\ f => ff /\ ww = w
    /\ \E k \in 0 .. Len(w) : dd = SubSeq(w, 1, k) /\ k >= Len(d)
    /\ nn => f /\ dd = w
    /\ n => nn

\* Every step is one of StreamContract in the direction from e to its peer.
LEMMA EachDirection ==
    ASSUME PInv, [Next]_vars, NEW e \in Endpoint
    PROVE  Direction(written_by(e), input_ended(conn[e].sender.stream),
                     given_to(peer(e)), input_ended(inbound_stream(conn[peer(e)])),
                     written_by(e)', input_ended(conn[e].sender.stream)',
                     given_to(peer(e))', input_ended(inbound_stream(conn[peer(e)]))')
<1>. DEFINE p == peer(e)
            text == Stream[e]
            W == conn[e].sender.stream.bytes_w
            X == conn'[e].sender.stream.bytes_w
            F == first_unassembled(conn[p].receiver.reassembler)
            G == first_unassembled(conn'[p].receiver.reassembler)
            f == conn[e].sender.stream.end_input
            g == conn'[e].sender.stream.end_input
            n == input_ended(stream_out(conn[p].receiver))
            o == input_ended(stream_out(conn'[p].receiver))
<1>1. PICK q : Turns(conn, conn', taken', q)
  BY NextMoves DEF PairMoves
<1>2. p \in Endpoint /\ peer(p) = e /\ text \in Seq(Byte)
  BY Peers, PairTexts DEF OutStreams
<1>3. /\ Side(e, conn[e], conn[p], taken[e]) /\ Side(p, conn[p], conn[e], taken[p])
      /\ Turn(e, conn[e], conn'[e], taken'[e], conn[p], q[e])
      /\ Turn(p, conn[p], conn'[p], taken'[p], conn[e], q[p])
  BY <1>1, <1>2 DEF PInv, PairOK, Sides, Turns
<1>4. /\ W \in Nat /\ X \in Nat /\ W <= X /\ X <= Len(text)
      /\ f => g /\ X = W
      /\ taken[p] \o stream_out(conn[p].receiver).buff = SubSeq(text, 1, F)
      /\ taken'[p] \o stream_out(conn'[p].receiver).buff = SubSeq(text, 1, G)
      /\ F \in Nat /\ G \in Nat /\ F <= G /\ G <= W
      /\ o => f /\ G = W
      /\ n => o
  <2>. DEFINE c == conn[e]
              d == conn'[e]
              b == conn[p]
              x == conn'[p]
              t == taken[e]
              u == taken'[e]
              y == taken[p]
              z == taken'[p]
              qe == q[e]
              qp == q[p]
  <2>1. /\ Side(e, c, b, t) /\ Side(peer(e), b, c, y) /\ Turn(e, c, d, u, b, qe)
        /\ Turn(peer(e), b, x, z, c, qp)
    BY <1>3
  <2>. HIDE DEF c, d, b, x, t, u, y, z, qe, qp, p
  <2>2. Onward(text, c.sender, d.sender, b.receiver, y, x.receiver, z)
    BY <2>1, DirectionStep
  <2>. QED
    BY <2>2 DEF Onward, c, d, b, x, y, z
<1>5. /\ written_by(e) = SubSeq(text, 1, W) /\ written_by(e)' = SubSeq(text, 1, X)
      /\ given_to(p) = SubSeq(text, 1, F) /\ given_to(p)' = SubSeq(text, 1, G)
      /\ input_ended(conn[e].sender.stream) = f /\ input_ended(conn[e].sender.stream)' = g
      /\ input_ended(inbound_stream(conn[p])) = n /\ input_ended(inbound_stream(conn[p]))' = o
  BY <1>4 DEF written_by, bytes_written, given_to, input_ended, inbound_stream
<1>. HIDE DEF text, W, X, F, G, f, g, n, o
<1>6. Direction(SubSeq(text, 1, W), f, SubSeq(text, 1, F), n,
                SubSeq(text, 1, X), g, SubSeq(text, 1, G), o)
  <2>1. /\ Len(SubSeq(text, 1, X)) = X /\ Len(SubSeq(text, 1, W)) = W /\ Len(SubSeq(text, 1, F)) = F
        /\ SubSeq(text, 1, W) = SubSeq(SubSeq(text, 1, X), 1, W)
        /\ SubSeq(text, 1, G) = SubSeq(SubSeq(text, 1, W), 1, G)
    <3>1. W <= Len(text) /\ F <= Len(text) /\ Len(text) \in Nat /\ F <= W
      BY <1>2, <1>4
    <3>. QED
      BY <1>2, <1>4, <3>1, ShorterPrefix
  <2>2. W \in 0 .. X /\ G \in 0 .. W /\ G >= F
    BY <1>4
  <2>. QED
    BY <1>4, <2>1, <2>2 DEF Direction
<1>. QED
  BY <1>5, <1>6

up_vars == << written_by(Client), input_ended(conn[Client].sender.stream),
              given_to(peer(Client)), input_ended(inbound_stream(conn[peer(Client)])) >>
down_vars == << written_by(peer(Client)), input_ended(conn[peer(Client)].sender.stream),
                given_to(Client), input_ended(inbound_stream(conn[Client])) >>

\* TCP's promise, of both directions and of every stream, capacity and initial number: through
\* loss, reordering, duplication and any timing of the calls, the reader is given the writer's
\* bytes in order and once, and the end only after all of them.
THEOREM ReliableStreams == Spec => StreamsAreReliable
<1>1. Init => Upstream!Init /\ Downstream!Init
  <2>. SUFFICES ASSUME Init PROVE Upstream!Init /\ Downstream!Init
    OBVIOUS
  <2>1. ASSUME NEW e \in Endpoint
        PROVE  /\ written_by(e) = << >> /\ input_ended(conn[e].sender.stream) = FALSE
               /\ given_to(e) = << >> /\ input_ended(inbound_stream(conn[e])) = FALSE
    <3>1. conn[e] = new_TCPConnection(SendCapacity, Capacity, RetxTimeout, ISN[e])
          /\ taken[e] = << >>
      BY DEF Init
    <3>2. /\ conn[e].sender.stream = new_ByteStream(SendCapacity)
          /\ inbound_stream(conn[e]) = new_ByteStream(Capacity)
      BY <3>1 DEF new_TCPConnection, new_TCPSender, new_TCPReceiver, new_StreamReassembler,
                  inbound_stream, stream_out
    <3>3. SubSeq(Stream[e], 1, 0) = << >>
      BY PairTexts DEF OutStreams
    <3>. QED
      BY <3>1, <3>2, <3>3 DEF new_ByteStream, written_by, bytes_written, given_to, input_ended
  <2>. QED
    BY <2>1, Peers, PairAssumption DEF Upstream!Init, Downstream!Init
<1>2. PInv /\ [Next]_vars => [Upstream!Next]_up_vars /\ [Downstream!Next]_down_vars
  <2>. SUFFICES ASSUME PInv, [Next]_vars PROVE Upstream!Next /\ Downstream!Next
    OBVIOUS
  <2>1. Client \in Endpoint /\ peer(Client) \in Endpoint /\ peer(peer(Client)) = Client
    BY PairAssumption, Peers
  <2>2. Upstream!Next
    BY <2>1, EachDirection DEF Direction, Upstream!Next
  <2>3. Downstream!Next
    BY <2>1, EachDirection DEF Direction, Downstream!Next
  <2>. QED
    BY <2>2, <2>3
<1>. QED
  BY <1>1, <1>2, PairInductive, PTL
     DEF Spec, StreamsAreReliable, Upstream!Spec, Downstream!Spec, up_vars, down_vars

=============================================================================
