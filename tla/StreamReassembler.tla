------------------------- MODULE StreamReassembler -------------------------
(***************************************************************************)
(* libsponge/stream_reassembler.{hh,cc}: substrings of a stream, out of     *)
(* order and overlapping, put back in order into a ByteStream of the same  *)
(* capacity.  _buf, a std::set ordered by _idx, is a set of segments.      *)
(*                                                                         *)
(* The two loops of the code (over the segments a new one overlaps, and    *)
(* over the segments that have become contiguous) are written by what they *)
(* compute.  They rest on the segments of _buf being disjoint, and         *)
(* ReassemblerLoops checks them against the loops taken one turn at a time.*)
(***************************************************************************)
EXTENDS ByteStream, WrappingIntegers, FiniteSets

\* struct Segment.  tail_idx() wraps in size_t: the receiver can pass an index of 2^64-1.
length(seg) == Len(seg.data)
tail_idx(seg) == U64(seg.idx + length(seg) - 1)

covers(seg, i) == seg.idx <= i /\ i <= tail_idx(seg)
indices(S) == UNION {seg.idx .. tail_idx(seg) : seg \in S}

\* The sum of length() over a set of segments: they are disjoint.
total_length(S) == Cardinality(indices(S))

ReassemblerType(B) ==
    [output : ByteStreamType(B), capacity : Nat, eof_index : Nat,
     unassembled_bytes : Int, eof : BOOLEAN,
     buf : SUBSET [idx : Nat, data : Seq(B)]]

new_StreamReassembler(cap) ==
    [output |-> new_ByteStream(cap), capacity |-> cap, eof_index |-> 0,
     unassembled_bytes |-> 0, eof |-> FALSE, buf |-> {}]

first_unread(r) == bytes_read(r.output)
first_unassembled(r) == bytes_written(r.output)
first_unacceptable(r) == first_unread(r) + r.capacity
\* Mutants: erasing does not count down; inserting does not count up.
buf_erase_uncounted(r, S) == [r EXCEPT !.buf = @ \ S]
buf_insert_uncounted(r, seg) ==
    [r EXCEPT !.buf = IF \E b \in @ : b.idx = seg.idx THEN @ ELSE @ \cup {seg}]

\* _buf_erase of every segment of S, and _buf_insert: std::set keeps the
\* segment it has when the indexes are equal, and the length is added either way.
buf_erase(r, S) ==
    [r EXCEPT !.unassembled_bytes = @ - total_length(S), !.buf = @ \ S]
buf_insert(r, seg) ==
    [r EXCEPT !.unassembled_bytes = @ + length(seg),
              !.buf = IF \E b \in @ : b.idx = seg.idx THEN @ ELSE @ \cup {seg}]
\* Mutant: a segment that begins before a buffered one is not seen to overlap it.
overlaps_from_behind(seg, b) == seg.idx <= tail_idx(b) /\ seg.idx >= b.idx

overlaps(seg, b) ==
    \/ seg.idx <= tail_idx(b) /\ seg.idx >= b.idx
    \/ tail_idx(seg) >= b.idx /\ seg.idx <= b.idx

\* _merge_seg of seg with every segment of S, all of which it overlaps.  Where
\* both have a byte the buffered one is kept, except that a buffered segment
\* strictly inside seg is dropped.
kept(seg, b) == ~(seg.idx < b.idx /\ tail_idx(seg) > tail_idx(b))
\* Mutant: the merged segment is the new one, what the others have more is lost.
merge_seg_drops(seg, S) == seg

merge_seg(seg, S) ==
    LET all == S \cup {seg}
        lo  == (CHOOSE a \in all : \A b \in all : a.idx <= b.idx).idx
        hi  == tail_idx(CHOOSE a \in all : \A b \in all : tail_idx(a) >= tail_idx(b))
        source(i) == IF \E b \in S : covers(b, i) /\ kept(seg, b)
                     THEN CHOOSE b \in S : covers(b, i) /\ kept(seg, b)
                     ELSE seg
    IN  [idx  |-> lo,
         data |-> [k \in 1 .. (hi - lo + 1) |->
                     source(lo + k - 1).data[lo + k - source(lo + k - 1).idx]]]

handle_overlap(r, seg) ==
    LET S == {b \in r.buf : overlaps(seg, b)}
    IN  buf_insert(buf_erase(r, S), merge_seg(seg, S))
\* Mutants: one byte too many is kept at the front; nothing is cut at the window's end.
trim_front_off_by_one(r, seg) ==
    IF seg.idx < first_unassembled(r)
    THEN [idx  |-> first_unassembled(r),
          data |-> SubSeq(seg.data, first_unassembled(r) - seg.idx, length(seg))]
    ELSE seg
trim_back_nothing(r, seg, index) == seg

\* The part of seg at or after the first unassembled byte.
trim_front(r, seg) ==
    IF seg.idx < first_unassembled(r)
    THEN [idx  |-> first_unassembled(r),
          data |-> SubSeq(seg.data, first_unassembled(r) - seg.idx + 1, length(seg))]
    ELSE seg

\* The cut at the window's end counts from the index the segment had BEFORE
\* trim_front, so that a segment reaching over both ends keeps too much.
trim_back(r, seg, index) ==
    IF tail_idx(seg) >= first_unacceptable(r)
    THEN [seg EXCEPT !.data = SubSeq(@, 1, min(Len(@), first_unacceptable(r) - index))]
    ELSE seg

\* Mutant: a segment whose last byte is the first unassembled one is taken for an old one.
outside_off_by_one(r, seg) ==
    seg.idx >= first_unacceptable(r) \/ tail_idx(seg) <= first_unassembled(r)

\* The segment has no byte in the window.
outside(r, seg) == seg.idx >= first_unacceptable(r) \/ tail_idx(seg) < first_unassembled(r)

handle_substring(r, seg) ==
    IF outside(r, seg) THEN r
    ELSE LET cut == trim_back(r, trim_front(r, seg), seg.idx)
         IN  IF r.buf = {} THEN buf_insert(r, cut) ELSE handle_overlap(r, cut)

\* Where the first unassembled byte is once every contiguous segment has been
\* given to _output.write: it takes nothing after the end of input, and no byte
\* beyond the window's end, where its capacity is used up.
reassembled_end(r) ==
    IF input_ended(r.output) THEN first_unassembled(r)
    ELSE CHOOSE e \in first_unassembled(r) .. first_unacceptable(r) :
            /\ first_unassembled(r) .. (e - 1) \subseteq indices(r.buf)
            /\ e = first_unacceptable(r) \/ e \notin indices(r.buf)

\* The bytes of the buffered segments from one index up to, not including, another.
buffered(r, from, end) ==
    [k \in 1 .. (end - from) |->
        LET b == CHOOSE b \in r.buf : covers(b, from + k - 1)
        IN  b.data[from + k - b.idx]]

write_contiguous(r) ==
    LET from == first_unassembled(r)
        end  == reassembled_end(r)
        done == {b \in r.buf : b.idx = from \/ b.idx < end}
    IN  [buf_erase(r, done) EXCEPT !.output = bs_write(@, buffered(r, from, end))]
\* Mutant: the end of the stream is enough, missing bytes or not.
finish_early(r) ==
    IF r.eof THEN [r EXCEPT !.output = end_input(@), !.buf = {}] ELSE r

\* _buf.clear() leaves _unassembled_bytes as it is.
finish(r) ==
    IF r.eof /\ first_unassembled(r) = r.eof_index
    THEN [r EXCEPT !.output = end_input(@), !.buf = {}]
    ELSE r

note_eof(r, data, index, is_eof) ==
    IF is_eof THEN [r EXCEPT !.eof_index = U64(index + Len(data)), !.eof = TRUE] ELSE r

push_substring(r, data, index, is_eof) ==
    LET noted  == note_eof(r, data, index, is_eof)
        stored == IF data = << >> THEN noted
                  ELSE handle_substring(noted, [idx |-> index, data |-> data])
    IN  finish(write_contiguous(stored))

unassembled_bytes(r) == r.unassembled_bytes
empty(r) == r.buf = {}

=============================================================================
