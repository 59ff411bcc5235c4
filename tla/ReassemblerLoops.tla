-------------------------- MODULE ReassemblerLoops --------------------------
(***************************************************************************)
(* stream_reassembler.cc with its loops taken one turn at a time, and a    *)
(* run that compares them with StreamReassembler in every reachable state, *)
(* for every next push.  The pushes need not be consistent: a byte comes   *)
(* in two versions, the end of the stream is anywhere, and the index may   *)
(* be the 2^64-1 that the receiver computes for a segment at seqno 0.      *)
(***************************************************************************)
EXTENDS StreamReassembler, SequencesExt

CONSTANTS LoopsCapacity,  \* of the StreamReassembler
          MaxIndex,     \* bound: the last index a push reaches
          MaxCount      \* bound: _unassembled_bytes, which _buf.clear() does not reset
ASSUME BoundsAssumption ==
    {LoopsCapacity, MaxIndex, MaxCount} \subseteq Nat /\ 2 * MaxIndex < Mod64

VARIABLE looped     \* a StreamReassembler

ordered(S) == SetToSortSeq(S, LAMBDA a, b : a.idx < b.idx)

\* substr(pos, n) and substr(pos)
substr(data, pos, n) == SubSeq(data, pos + 1, min(Len(data), pos + n))
from_pos_off_by_one(data, pos) == SubSeq(data, pos, Len(data))    \* mutant
from_pos(data, pos) == SubSeq(data, pos + 1, Len(data))

erase_one(r, seg) == [r EXCEPT !.unassembled_bytes = @ - length(seg), !.buf = @ \ {seg}]

merge_one(seg1, seg2) ==
    CASE seg1.idx < seg2.idx /\ tail_idx(seg1) <= tail_idx(seg2) ->
            [seg1 EXCEPT !.data = substr(@, 0, seg2.idx - seg1.idx) \o seg2.data]
      [] seg1.idx >= seg2.idx /\ tail_idx(seg1) > tail_idx(seg2) ->
            [idx  |-> seg2.idx,
             data |-> seg2.data \o from_pos(seg1.data, seg2.idx + length(seg2) - seg1.idx)]
      [] seg1.idx >= seg2.idx /\ tail_idx(seg1) <= tail_idx(seg2) -> seg2
      [] OTHER -> seg1

overlap_loop(r, seg) ==
    LET turn(acc, b) ==
            IF overlaps(seg, b)
            THEN [reasm |-> erase_one(acc.reasm, b), seg |-> merge_one(acc.seg, b)]
            ELSE acc
        last == FoldLeft(turn, [reasm |-> r, seg |-> seg], ordered(r.buf))
    IN  buf_insert(last.reasm, last.seg)

write_loop(r) ==
    LET turn(acc, b) ==
            IF ~acc.stopped /\ b.idx = first_unassembled(acc.reasm)
            THEN [acc EXCEPT !.reasm = [erase_one(@, b) EXCEPT
                                          !.output = bs_write(@, b.data)]]
            ELSE [acc EXCEPT !.stopped = TRUE]
    IN  FoldLeft(turn, [reasm |-> r, stopped |-> FALSE], ordered(r.buf)).reasm

push_by_loops(r, data, index, is_eof) ==
    LET noted == note_eof(r, data, index, is_eof)
        seg   == [idx |-> index, data |-> data]
        cut   == trim_back(r, trim_front(r, seg), index)
        stored == IF \/ data = << >> \/ index >= first_unacceptable(r)
                     \/ tail_idx(seg) < first_unassembled(r)
                  THEN noted
                  ELSE IF r.buf = {} THEN buf_insert(noted, cut) ELSE overlap_loop(noted, cut)
    IN  finish(write_loop(stored))

-----------------------------------------------------------------------------
\* A push: where, and which version of each byte.
Bytes(index, len, version) == [k \in 1 .. len |-> << index + k, version >>]
Pushes ==
    [index : 0 .. MaxIndex, len : 0 .. MaxIndex, version : {"a", "b"}, is_eof : BOOLEAN]
        \cup [index : {Mod64 - 1}, len : 0 .. 2, version : {"a"}, is_eof : BOOLEAN]
Legal(p) == p.index = Mod64 - 1 \/ p.index + p.len <= MaxIndex

LoopsInit == looped = new_StreamReassembler(LoopsCapacity)

LoopsPush ==
    \E p \in Pushes :
        /\ Legal(p)
        /\ looped' = push_substring(looped, Bytes(p.index, p.len, p.version), p.index, p.is_eof)
        /\ looped'.unassembled_bytes <= MaxCount

LoopsRead ==
    \E len \in 1 .. Len(looped.output.buff) :
        looped' = [looped EXCEPT !.output = pop_output(@, len)]

LoopsNext == LoopsPush \/ LoopsRead

LoopsSpec == LoopsInit /\ [][LoopsNext]_looped

\* Every next push does what the loops of the code do, to the last byte of every segment:
\* which copy of a byte wins, what is truncated, what is counted.
LoopsAgree ==
    \A p \in Pushes :
        Legal(p) =>
            LET data == Bytes(p.index, p.len, p.version)
            IN  push_substring(looped, data, p.index, p.is_eof)
                    = push_by_loops(looped, data, p.index, p.is_eof)

=============================================================================
