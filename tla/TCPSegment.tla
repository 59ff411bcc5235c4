----------------------------- MODULE TCPSegment -----------------------------
(***************************************************************************)
(* libsponge/tcp_helpers/tcp_segment.{hh,cc} and tcp_header.hh: the fields  *)
(* of a segment the connection reads or writes, and its length.            *)
(***************************************************************************)
EXTENDS ByteStream, WrappingIntegers

\* A default-constructed TCPSegment.
new_TCPSegment ==
    [seqno |-> 0, ackno |-> 0, win |-> 0, syn |-> FALSE, ack |-> FALSE,
     fin |-> FALSE, rst |-> FALSE, payload |-> << >>]

SegmentType(B) ==
    [seqno : WrappingInt32, ackno : WrappingInt32, win : Nat, syn : BOOLEAN,
     ack : BOOLEAN, fin : BOOLEAN, rst : BOOLEAN, payload : Seq(B)]

flag(b) == IF b THEN 1 ELSE 0

length_in_sequence_space(seg) == Len(seg.payload) + flag(seg.syn) + flag(seg.fin)

=============================================================================
