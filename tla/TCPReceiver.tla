---------------------------- MODULE TCPReceiver ----------------------------
(***************************************************************************)
(* libsponge/tcp_receiver.{hh,cc}: turns segments into substrings for the   *)
(* reassembler, and says what to acknowledge and how much more may come.   *)
(***************************************************************************)
EXTENDS StreamReassembler, TCPSegment

ReceiverType(B) == [reassembler : ReassemblerType(B), syn : BOOLEAN, isn : WrappingInt32]

new_TCPReceiver(cap) ==
    [reassembler |-> new_StreamReassembler(cap), syn |-> FALSE, isn |-> 0]

stream_out(v) == v.reassembler.output

\* Mutant: the SYN's number is taken off twice.
stream_index_counts_syn_twice(v, seg) ==
    U64(unwrap(seg.seqno, v.isn, first_unassembled(v.reassembler)) - 2)

\* The index of a payload is its absolute seqno less one, in 64 bits.
stream_index_of(v, seg) ==
    U64(unwrap(seg.seqno, v.isn, first_unassembled(v.reassembler)) - 1)

\* A segment before the SYN is dropped; the payload of a SYN starts at index 0.
receiver_segment_received(v, seg) ==
    IF ~v.syn
    THEN IF ~seg.syn THEN v
         ELSE [reassembler |-> push_substring(v.reassembler, seg.payload, 0, seg.fin),
               syn |-> TRUE, isn |-> seg.seqno]
    ELSE [v EXCEPT !.reassembler =
             push_substring(@, seg.payload, stream_index_of(v, seg), seg.fin)]

\* ackno() is an optional: it has a value from the SYN on.
has_ackno(v) == v.syn
\* Mutant: the FIN is acknowledged as soon as it is seen.
ackno_fin_early(v) ==
    wrap(first_unassembled(v.reassembler) + 1 + flag(v.reassembler.eof), v.isn)

ackno(v) == wrap(first_unassembled(v.reassembler) + 1 + flag(input_ended(stream_out(v))), v.isn)
\* Mutants: bytes waiting for reassembly close the window; one byte too few is offered; the
\* window is taken from the ackno, which counts the SYN and the FIN.
window_size_shrinks(v) ==
    first_unacceptable(v.reassembler) - first_unassembled(v.reassembler)
        - unassembled_bytes(v.reassembler)
window_size_off_by_one(v) ==
    first_unacceptable(v.reassembler) - first_unassembled(v.reassembler) - 1
window_size_from_ackno(v) ==
    first_unacceptable(v.reassembler)
        - (first_unassembled(v.reassembler) + 1 + flag(input_ended(stream_out(v))))

window_size(v) == first_unacceptable(v.reassembler) - first_unassembled(v.reassembler)

=============================================================================
