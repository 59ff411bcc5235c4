---------------------------- MODULE ReceiverSpec ----------------------------
(***************************************************************************)
(* A TCPReceiver and a peer that has one stream to send it.  The peer's    *)
(* segments are slices of SYN, Stream, FIN at absolute numbers 0, 1 .. N,  *)
(* N+1, sent as 32-bit seqnos; they arrive in any order, any number of     *)
(* times, late copies included, and may reach beyond the window.           *)
(***************************************************************************)
EXTENDS TCPReceiver, InboundText

CONSTANTS MaxPayload,    \* the longest payload of the peer's segments
          ISNs,          \* the initial sequence numbers the peer may pick
          SynCarriesData \* whether the peer puts data or a FIN on its SYN

ASSUME ReceiverAssumption ==
    /\ ISNs \subseteq WrappingInt32 /\ SynCarriesData \in BOOLEAN
    \* a datagram is far shorter than half the sequence space
    /\ MaxPayload \in 1 .. Half32
    /\ Len(Stream) + Capacity + Mod32 < Mod64

VARIABLES rcv,        \* the TCPReceiver
          taken,      \* every byte its reader has read, in order
          peer_isn    \* the peer's initial sequence number, fixed at the start

vars == << rcv, taken, peer_isn >>

F == first_unassembled(rcv.reassembler)
U == first_unacceptable(rcv.reassembler)

\* The peer's segment from absolute number abs with len bytes of the stream.
peer_segment(abs, len, is_fin) ==
    [new_TCPSegment EXCEPT
        !.seqno = wrap(abs, peer_isn), !.syn = (abs = 0), !.fin = is_fin,
        !.payload = IF abs = 0 THEN SubSeq(Stream, 1, len)
                    ELSE SubSeq(Stream, abs, abs + len - 1)]

\* The index in the stream of the first byte of that segment.
stream_index(abs) == IF abs = 0 THEN 0 ELSE abs - 1

\* No copy lives so long that its seqno is in the window again, and the peer does
\* not run half the sequence space ahead: what any user of 32-bit numbers assumes.
InRing(abs) == abs + Mod32 > U /\ abs <= F + Half32

Init ==
    /\ rcv = new_TCPReceiver(Capacity) /\ taken = << >>
    /\ peer_isn \in ISNs

SegmentReceived(abs, len, is_fin) ==
    /\ stream_index(abs) + len <= N
    /\ is_fin => stream_index(abs) + len = N
    /\ abs = 0 => SynCarriesData \/ (len = 0 /\ ~is_fin)
    /\ InRing(abs)
    /\ rcv' = receiver_segment_received(rcv, peer_segment(abs, len, is_fin))
    /\ UNCHANGED << taken, peer_isn >>

Read(len) ==
    LET out == bs_read(stream_out(rcv), len)
    IN  /\ out.data # << >>
        /\ rcv' = [rcv EXCEPT !.reassembler.output = out.stream]
        /\ taken' = taken \o out.data
        /\ UNCHANGED peer_isn

Next ==
    \/ \E abs \in 0 .. (N + 1), len \in 0 .. MaxPayload, is_fin \in BOOLEAN :
            SegmentReceived(abs, len, is_fin)
    \/ \E len \in 1 .. N : Read(len)

Spec == Init /\ [][Next]_vars

-----------------------------------------------------------------------------
\* What was read and what waits to be read is the beginning of the peer's stream,
\* wherever its sequence numbers started and however often they wrapped.
DeliveredIsPrefix == taken \o stream_out(rcv).buff = SubSeq(Stream, 1, F)

\* Through 32-bit seqnos the receiver still implements the reassembler's contract: every
\* segment is taken at its own place, late and duplicate copies (of the SYN too, whose
\* index is 2^64-1) change nothing, and the stream ends at its last byte.
Contract == INSTANCE IdealReassembler WITH
                Length    <- N,
                received  <- (0 .. (F - 1)) \cup indices(rcv.reassembler.buf),
                written   <- F,
                read      <- first_unread(rcv.reassembler),
                end_known <- rcv.reassembler.eof,
                ended     <- input_ended(stream_out(rcv))

ImplementsContract == Contract!Spec

\* Neither ackno() nor the right edge of the window it goes with (ackno() + window_size())
\* ever moves back in sequence space: what the peer was once allowed it is always allowed.
NeverTakenBack ==
    [][has_ackno(rcv) =>
        /\ has_ackno(rcv')
        /\ U32(ackno(rcv') - ackno(rcv)) <= Half32
        /\ U32(ackno(rcv') + window_size(rcv') - ackno(rcv) - window_size(rcv)) <= Half32]_vars

\* tcp_receiver.hh:62 says that ackno() is the number of "the first byte in the stream that
\* the receiver hasn't received": once it counts the FIN, no byte is missing.
NothingAckedMissing == input_ended(stream_out(rcv)) => F = N

=============================================================================
