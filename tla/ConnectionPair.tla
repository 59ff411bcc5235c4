--------------------------- MODULE ConnectionPair ---------------------------
(***************************************************************************)
(* Two TCPConnections and the network between them.  Each endpoint's owner *)
(* connects, writes, ends its stream, reads what has arrived and reports   *)
(* the passing of time; the network reorders, loses and duplicates         *)
(* segments.  After every call the owner sends what the connection has     *)
(* queued (TCPSpongeSocket does so in its event loop).                     *)
(***************************************************************************)
EXTENDS TCPConnection, InboundStream, OutboundStream

CONSTANTS Endpoint,          \* the two ends
          Client,            \* the one that opens the connection
          Stream,            \* Stream[e]: what e's application writes
          ISN,               \* ISN[e]
          SendCapacity,
          TickMs,            \* milliseconds of one tick
          MaxTime,           \* bound: time_since_last_segment_received is not counted further
          MaxDrops, MaxDups, \* bounds: segments the network loses and delivers again
          MaxTimeouts,       \* bound: retransmissions in a row before the network recovers
          MaxOverdue         \* bound: segments still on their way when time passes

ASSUME PairAssumption ==
    /\ Client \in Endpoint /\ \E e \in Endpoint : e # Client /\ Endpoint = {Client, e}
    /\ \A e \in Endpoint : Stream[e] \in OutStreams /\ ISN[e] \in WrappingInt32
    \* no number of a segment that was kept back comes round again
    /\ \A e \in Endpoint : Len(Stream[e]) + Capacity < Mod32
    /\ {SendCapacity, MaxTime, MaxDrops, MaxDups, MaxTimeouts, MaxOverdue} \subseteq Nat
    /\ TickMs \in Nat \ {0} /\ MaxU16 < Mod64

peer(e) == CHOOSE p \in Endpoint : p # e

VARIABLES conn,     \* conn[e]: e's TCPConnection
          net,      \* the segments on their way, [to, seg]
          taken,    \* taken[e]: the bytes e's application has read
          drops, dups

vars == << conn, net, taken, drops, dups >>

Init ==
    /\ conn = [e \in Endpoint |-> new_TCPConnection(SendCapacity, Capacity, RetxTimeout, ISN[e])]
    /\ net = {}
    /\ taken = [e \in Endpoint |-> << >>]
    /\ drops = 0 /\ dups = 0

\* The segments in a connection's queue, addressed to its peer.
outgoing(e, c) == {[to |-> peer(e), seg |-> c.segments_out[i]] : i \in 1 .. Len(c.segments_out)}
drained(c) == [c EXCEPT !.segments_out = << >>]

\* e's connection becomes c, with its queue sent into the network that rest leaves.
Becomes(e, c, rest) ==
    /\ conn' = [conn EXCEPT ![e] = drained(c)]
    /\ net' = rest \cup outgoing(e, c)

can_connect(e) == e = Client /\ conn[e].sender.next_seqno = 0

Connect(e) ==
    /\ can_connect(e)
    /\ Becomes(e, connect(conn[e]), net)
    /\ UNCHANGED << taken, drops, dups >>

\* The application writes once the connection is open.
opened(c) == has_ackno(c.receiver) /\ c.sender.last_ackno > 0

\* What is left to write, as far as the outgoing stream has room for it.
to_write(e) ==
    LET from == bytes_written(conn[e].sender.stream)
    IN  SubSeq(Stream[e], from + 1,
               min(Len(Stream[e]), from + remaining_capacity(conn[e].sender.stream)))

can_write(e) ==
    /\ opened(conn[e]) /\ conn[e].isactive /\ to_write(e) # << >>

Write(e) ==
    /\ can_write(e)
    /\ Becomes(e, write(conn[e], to_write(e)), net)
    /\ UNCHANGED << taken, drops, dups >>

can_end(e) ==
    /\ opened(conn[e]) /\ ~input_ended(conn[e].sender.stream)
    /\ bytes_written(conn[e].sender.stream) = Len(Stream[e])

EndInputStream(e) ==
    /\ can_end(e)
    /\ Becomes(e, end_input_stream(conn[e]), net)
    /\ UNCHANGED << taken, drops, dups >>

can_read(e) == ~buffer_empty(inbound_stream(conn[e]))

Read(e) ==
    LET out == bs_read(inbound_stream(conn[e]), 1)
    IN  /\ can_read(e)
        /\ conn' = [conn EXCEPT ![e].receiver.reassembler.output = out.stream]
        /\ taken' = [taken EXCEPT ![e] = @ \o out.data]
        /\ UNCHANGED << net, drops, dups >>

\* A segment arrives and is gone from the network, or leaves a copy of itself behind.
Receive(m) ==
    /\ Becomes(m.to, segment_received(conn[m.to], m.seg), net \ {m})
    /\ UNCHANGED << taken, drops, dups >>

ReceiveCopy(m) ==
    /\ dups < MaxDups /\ dups' = dups + 1
    /\ Becomes(m.to, segment_received(conn[m.to], m.seg), net)
    /\ UNCHANGED << taken, drops >>

Lose(m) ==
    /\ drops < MaxDrops /\ drops' = drops + 1
    /\ net' = net \ {m}
    /\ UNCHANGED << conn, taken, dups >>

\* Time passes at both ends: TCPConnection::tick of each connection.
capped(c) ==
    [c EXCEPT !.time_since_last_segment_received = min(@, MaxTime)]

can_tick ==
    /\ \A e \in Endpoint : conn[e].isactive =>
            conn[e].sender.retransmission_count < MaxTimeouts
    /\ Cardinality(net) <= MaxOverdue
    \* something waits for time to pass
    /\ \E e \in Endpoint :
          /\ conn[e].isactive
          /\ \/ conn[e].sender.timer.is_started
             \/ conn[e].time_since_last_segment_received < MaxTime

Tick ==
    /\ can_tick
    /\ LET ticked == [e \in Endpoint |-> tick(conn[e], TickMs)]
       IN  /\ conn' = [e \in Endpoint |-> capped(drained(ticked[e]))]
           /\ net' = net \cup UNION {outgoing(e, ticked[e]) : e \in Endpoint}
    /\ UNCHANGED << taken, drops, dups >>

Network == \E m \in net : Receive(m) \/ ReceiveCopy(m) \/ Lose(m)

Next ==
    \/ \E e \in Endpoint : Connect(e) \/ Write(e) \/ EndInputStream(e) \/ Read(e)
    \/ Network
    \/ Tick

Spec == Init /\ [][Next]_vars

\* Weak fairness of every call: the event loop of TCPSpongeSocket keeps connecting,
\* writing, ending, reading and telling the time, and the network keeps delivering.  It is
\* written out, because the guards above are when each is enabled; of the owner's calls,
\* which a behaviour has finitely many of, it says that none stays possible forever.
FairSpec ==
    /\ Spec
    /\ \A e \in Endpoint : /\ []<>~can_connect(e) /\ []<>~can_write(e)
                            /\ []<>~can_end(e) /\ []<>~can_read(e)
    /\ []<>(net = {}) \/ []<><<\E m \in net : Receive(m)>>_vars
    /\ []<>~can_tick \/ []<><<Tick>>_vars

-----------------------------------------------------------------------------
given_to(e) == taken[e] \o inbound_stream(conn[e]).buff
reset(e) == inbound_stream(conn[e]).error
closed(e) == ~conn[e].isactive /\ ~reset(e)

\* Every connection and every segment has its type.
TypeOK ==
    /\ conn \in [Endpoint -> ConnectionType(Byte)]
    /\ net \subseteq [to : Endpoint, seg : SegmentType(Byte)]
    /\ taken \in [Endpoint -> Seq(Byte)]

\* Each direction is a reliable stream, through loss, reordering and duplication, flow
\* control, retransmission, closing and resetting.
written_by(e) == SubSeq(Stream[e], 1, bytes_written(conn[e].sender.stream))

Upstream == INSTANCE StreamContract WITH
                written   <- written_by(Client),
                finished  <- input_ended(conn[Client].sender.stream),
                delivered <- given_to(peer(Client)),
                ended     <- input_ended(inbound_stream(conn[peer(Client)]))
Downstream == INSTANCE StreamContract WITH
                written   <- written_by(peer(Client)),
                finished  <- input_ended(conn[peer(Client)].sender.stream),
                delivered <- given_to(Client),
                ended     <- input_ended(inbound_stream(conn[Client]))

StreamsAreReliable == Upstream!Spec /\ Downstream!Spec

\* A connection that clean_shutdown has ended leaves nothing behind: all that its owner
\* wrote is at the peer with its end, and it has the peer's whole stream.
CleanCloseIsComplete ==
    \A e \in Endpoint : closed(e) =>
        /\ given_to(e) = Stream[peer(e)] /\ input_ended(inbound_stream(conn[e]))
        /\ given_to(peer(e)) = Stream[e] /\ input_ended(inbound_stream(conn[peer(e)]))

\* At least one end lingers: they never both take the passive close, which relies on the
\* other one being there to acknowledge a retransmitted FIN.
OneEndLingers == \E e \in Endpoint : conn[e].linger_after_streams_finish

\* What a sender takes for acknowledged is in the hands of the peer's receiver.
AckedIsHeld ==
    \A e \in Endpoint :
        LET s == conn[e].sender
            v == conn[peer(e)].receiver
        IN  s.last_ackno > 0 =>
                /\ v.syn /\ v.isn = s.isn
                /\ s.last_ackno <= 1 + first_unassembled(v.reassembler)
                                     + flag(input_ended(stream_out(v)))

\* tcp_sponge_socket.hh:67 says that connect "blocks until connect succeeds or fails"; it
\* waits until the state is no longer SYN_SENT.  By then the peer's SYN should be here.
connecting(c) == tcp_state(c) = State.SYN_SENT

ConnectReturnsConnected ==
    LET c == conn[Client]
    IN  c.sender.next_seqno > 0 /\ ~connecting(c) => has_ackno(c.receiver) \/ reset(Client)

\* When the network loses little enough, both ends finish and close cleanly.
BothClose == <>(\A e \in Endpoint : closed(e))

=============================================================================
