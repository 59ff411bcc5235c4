-------------------------- MODULE ReassemblerSpec --------------------------
(***************************************************************************)
(* A StreamReassembler fed with substrings of one stream, in any order and *)
(* any number of times, and a reader that takes bytes from its output.     *)
(* The properties hold whatever Stream and Capacity are.                   *)
(***************************************************************************)
EXTENDS InboundText

VARIABLES reasm,      \* the StreamReassembler
          collected   \* every byte the reader has read, in order

reassembler_vars == << reasm, collected >>

ReassemblerInit == reasm = new_StreamReassembler(Capacity) /\ collected = << >>

\* push_substring with Stream[index+1 .. index+len]; eof only with the last byte.
Push(index, len, is_eof) ==
    /\ index + len <= N
    /\ is_eof => index + len = N
    /\ reasm' = push_substring(reasm, SubSeq(Stream, index + 1, index + len), index, is_eof)
    /\ UNCHANGED collected

\* stream_out().read(len)
ReadOutput(len) ==
    LET out == bs_read(reasm.output, len)
    IN  /\ out.data # << >>
        /\ reasm' = [reasm EXCEPT !.output = out.stream]
        /\ collected' = collected \o out.data

ReassemblerNext ==
    \/ \E index \in 0 .. N, len \in 0 .. N, is_eof \in BOOLEAN : Push(index, len, is_eof)
    \/ \E len \in 1 .. N : ReadOutput(len)

ReassemblerSpec == ReassemblerInit /\ [][ReassemblerNext]_reassembler_vars

-----------------------------------------------------------------------------
\* Shorthands for the properties.
First == first_unassembled(reasm)
Beyond == first_unacceptable(reasm)

\* The fields of the StreamReassembler have their C++ types; unassembled_bytes never
\* wraps below zero although _buf_erase subtracts from it.
TypeOK ==
    /\ reasm \in ReassemblerType(Byte)
    /\ reasm.unassembled_bytes >= 0
    /\ collected \in Seq(Byte)

\* What the reader has taken, followed by what waits in the output, is the beginning
\* of the stream: push_substring never writes a byte twice, out of order or from the
\* wrong place, whatever segments were merged on the way.
OutputIsPrefix ==
    /\ First <= N
    /\ collected \o reasm.output.buff = SubSeq(Stream, 1, First)
    /\ first_unread(reasm) = Len(collected)

\* The segments left in _buf after push_substring are non-empty, hold the stream's bytes
\* of their place, and lie in the window after the first unassembled byte, which none holds.
BufferInWindow ==
    \A b \in reasm.buf :
        /\ b.data # << >>
        /\ First < b.idx /\ tail_idx(b) < Beyond /\ b.idx + length(b) <= N
        /\ b.data = SubSeq(Stream, b.idx + 1, b.idx + length(b))

\* _handle_overlap leaves no two segments of _buf with a byte in common.
BufferDisjoint ==
    \A a, b \in reasm.buf : a # b => tail_idx(a) < b.idx \/ tail_idx(b) < a.idx

\* unassembled_bytes counts each byte waiting for reassembly once, and the bytes held
\* (in the output and in _buf) never exceed the capacity.
MemoryBound ==
    /\ unassembled_bytes(reasm) = Cardinality(indices(reasm.buf))
    /\ buffer_size(reasm.output) + unassembled_bytes(reasm) <= Capacity

\* The output's input has ended exactly when the end of the stream is known and every
\* byte has been written: end_input is called neither early nor late.
EndExact ==
    /\ reasm.eof => reasm.eof_index = N
    /\ input_ended(reasm.output) <=> reasm.eof /\ First = N

\* No push is refused: whatever is pushed next, the bytes of it that are in the window are
\* stored or written by push_substring, and none that was stored is forgotten.
TakesTheWindow ==
    \A index, len \in 0 .. N :
        index + len <= N =>
            LET after == push_substring(reasm, SubSeq(Stream, index + 1, index + len), index, FALSE)
            IN  {i \in index .. (index + len - 1) : First <= i /\ i < Beyond} \cup indices(reasm.buf)
                    \subseteq (0 .. (first_unassembled(after) - 1)) \cup indices(after.buf)

\* The reassembler implements its contract: overlapping, merging, trimming and writing
\* segments come to remembering which bytes of the window have been received.
Ideal == INSTANCE IdealReassembler WITH
            Length    <- N,
            received  <- (0 .. (First - 1)) \cup indices(reasm.buf),
            written   <- First,
            read      <- first_unread(reasm),
            end_known <- reasm.eof,
            ended     <- input_ended(reasm.output)

ImplementsIdeal == Ideal!Spec

=============================================================================
