------------------------- MODULE ReassemblerProofs -------------------------
(***************************************************************************)
(* The safety of the StreamReassembler, for every stream, every capacity   *)
(* and every width of size_t that has room for both, and its refinement of *)
(* IdealReassembler.                                                       *)
(***************************************************************************)
EXTENDS ReassemblerSpec, InboundLemmas

USE StreamAssumption DEF N

-----------------------------------------------------------------------------
(* The theorems *)

\* The inductive invariant.
IInv == Good(Stream, reasm, collected)

\* A new object is good.
LEMMA InitGood == ReassemblerInit => IInv
  BY NewGood DEF ReassemblerInit, IInv

\* Every push and every read keeps it.
LEMMA NextGood == IInv /\ [ReassemblerNext]_reassembler_vars => IInv'
<1>. SUFFICES ASSUME IInv, [ReassemblerNext]_reassembler_vars PROVE IInv'
  OBVIOUS
<1>1. ASSUME NEW index \in 0 .. N, NEW len \in 0 .. N, NEW is_eof \in BOOLEAN,
             Push(index, len, is_eof)
      PROVE  IInv'
  BY <1>1, PushKeeps DEF IInv, Push
<1>2. ASSUME NEW len \in 1 .. N, ReadOutput(len)
      PROVE  IInv'
  <2>1. len \in Nat
    BY Sizes
  <2>. QED
    BY <1>2, <2>1, ReadKeeps DEF IInv, ReadOutput
<1>3. ASSUME UNCHANGED reassembler_vars PROVE IInv'
  BY <1>3 DEF reassembler_vars, IInv
<1>. QED
  BY <1>1, <1>2, <1>3 DEF ReassemblerNext

\* What the invariant says in the terms of the specification.
LEMMA GoodImplies ==
    IInv => /\ TypeOK /\ OutputIsPrefix /\ BufferInWindow /\ BufferDisjoint
            /\ MemoryBound /\ EndExact
<1>. SUFFICES ASSUME IInv
              PROVE  /\ TypeOK /\ OutputIsPrefix /\ BufferInWindow /\ BufferDisjoint
                     /\ MemoryBound /\ EndExact
  OBVIOUS
<1>1. /\ OutOK(Stream, reasm, collected) /\ Bufs(Stream, reasm)
      /\ \A b \in reasm.buf : Slice(Stream, b) /\ First < b.idx /\ tail_idx(b) < Beyond
  BY DEF IInv, Good, Written, Bufs, First, Beyond
<1>2. /\ First \in Nat /\ Beyond \in Nat /\ First <= N /\ First <= Beyond
      /\ first_unread(reasm) = Len(collected)
      /\ Beyond - First = Capacity - Len(reasm.output.buff)
  BY <1>1, Window DEF First, Beyond
<1>3. reasm.unassembled_bytes \in Nat
  BY <1>1, IndicesFinite DEF Bufs
<1>4. TypeOK
  BY <1>1, <1>3 DEF TypeOK, OutOK
<1>5. OutputIsPrefix
  BY <1>2, GoodPrefix DEF OutputIsPrefix, IInv, First
<1>6. BufferInWindow
  <2>1. SUFFICES ASSUME NEW b \in reasm.buf
                 PROVE  /\ b.data # << >>
                        /\ First < b.idx /\ tail_idx(b) < Beyond /\ b.idx + length(b) <= N
                        /\ b.data = SubSeq(Stream, b.idx + 1, b.idx + length(b))
    BY DEF BufferInWindow
  <2>. DEFINE d == b.data
              x == b.idx
              n == Len(d)
              P == SubSeq(Stream, x + 1, x + n)
  <2>2. /\ d \in Seq(Byte) /\ x \in Nat /\ n \in Nat /\ 1 <= n /\ x + n <= N
        /\ \A k \in 1 .. n : d[k] = Stream[x + k]
    BY <1>1 DEF Slice
  <2>. HIDE DEF d, x
  <2>3. P \in Seq(Byte) /\ Len(P) = n /\ \A k \in 1 .. n : P[k] = Stream[x + k]
    <3>1. P \in Seq(Byte) /\ Len(P) = n
      BY <2>2, Text, Sizes
    <3>2. \A k \in 1 .. n : P[k] = Stream[x + 1 + k - 1]
      BY <2>2, Text, Sizes
    <3>3. \A k \in 1 .. n : x + 1 + k - 1 = x + k
      BY <2>2
    <3>. QED
      BY <3>1, <3>2, <3>3
  <2>. HIDE DEF P
  <2>4. d = P /\ d # << >>
    BY <2>2, <2>3
  <2>. QED
    BY <1>1, <2>2, <2>4 DEF P, d, x, length
<1>7. BufferDisjoint
  BY <1>1 DEF BufferDisjoint, Bufs, Apart
<1>8. MemoryBound
  <2>. DEFINE X == indices(reasm.buf)
  <2>1. \A i \in X : i \in (First + 1) .. (Beyond - 1)
    <3>1. SUFFICES ASSUME NEW i \in X PROVE i \in (First + 1) .. (Beyond - 1)
      OBVIOUS
    <3>2. PICK b \in reasm.buf : i \in b.idx .. tail_idx(b)
      BY InIndices
    <3>3. b.idx \in Nat /\ tail_idx(b) \in Nat /\ First < b.idx /\ tail_idx(b) < Beyond
      BY <1>1, SliceTail
    <3>. QED
      BY <3>2, <3>3, <1>2
  <2>2. First + 1 \in Int /\ Beyond - 1 \in Int
    BY <1>2
  <2>3. /\ IsFiniteSet((First + 1) .. (Beyond - 1))
        /\ Cardinality((First + 1) .. (Beyond - 1)) <= Beyond - First
    <3>. DEFINE lo == First + 1
                hi == Beyond - 1
    <3>1. lo \in Int /\ hi \in Int /\ hi - lo + 1 <= Beyond - First /\ 0 <= Beyond - First
      BY <1>2
    <3>. HIDE DEF lo, hi
    <3>2. IsFiniteSet(lo .. hi) /\ Cardinality(lo .. hi) = IF lo > hi THEN 0 ELSE hi - lo + 1
      BY <3>1, FS_Interval
    <3>. QED
      BY <3>1, <3>2 DEF lo, hi
  <2>. HIDE DEF X
  <2>4. X \in SUBSET ((First + 1) .. (Beyond - 1))
    BY <2>1
  <2>5. Cardinality(X) <= Cardinality((First + 1) .. (Beyond - 1))
        /\ Cardinality(X) \in Nat /\ Cardinality((First + 1) .. (Beyond - 1)) \in Nat
    BY <2>3, <2>4, FS_Subset, FS_CardinalityType
  <2>6. reasm.unassembled_bytes = Cardinality(X)
    BY <1>1 DEF Bufs, X
  <2>7. Len(reasm.output.buff) \in Nat
    BY <1>1 DEF OutOK, ReassemblerType, ByteStreamType
  <2>8. Len(reasm.output.buff) + reasm.unassembled_bytes <= Capacity
    <3>. DEFINE c == Cardinality(X)
                m == Cardinality((First + 1) .. (Beyond - 1))
                l == Len(reasm.output.buff)
    <3>1. /\ c \in Nat /\ m \in Nat /\ l \in Nat /\ c <= m /\ m <= Beyond - First
          /\ Beyond - First = Capacity - l
      BY <2>3, <2>5, <2>7, <1>2
    <3>. HIDE DEF c, m, l
    <3>2. l + c <= Capacity
      BY <3>1, <1>2, Sizes
    <3>. QED
      BY <3>2, <2>6 DEF c, l
  <2>. QED
    BY <2>6, <2>8 DEF MemoryBound, unassembled_bytes, buffer_size, X
<1>9. EndExact
  BY DEF IInv, Good, Written, EndExact, First
<1>. QED
  BY <1>4, <1>5, <1>6, <1>7, <1>8, <1>9

\* The specification keeps the inductive invariant.
LEMMA Invariant == ReassemblerSpec => []IInv
  BY InitGood, NextGood, PTL DEF ReassemblerSpec

\* TypeOK for every stream and capacity: _buf_erase never takes _unassembled_bytes below zero.
THEOREM TypeCorrect == ReassemblerSpec => []TypeOK
  BY Invariant, GoodImplies, PTL

\* The output of push_substring is the stream from its first byte on, whatever was merged.
THEOREM OutputCorrect == ReassemblerSpec => []OutputIsPrefix
  BY Invariant, GoodImplies, PTL

\* What push_substring leaves in _buf holds the stream's bytes and lies inside the window.
THEOREM BufferCorrect == ReassemblerSpec => []BufferInWindow
  BY Invariant, GoodImplies, PTL

\* _handle_overlap keeps the segments of _buf disjoint.
THEOREM DisjointCorrect == ReassemblerSpec => []BufferDisjoint
  BY Invariant, GoodImplies, PTL

\* unassembled_bytes is exact, and the object never holds more bytes than its capacity.
THEOREM MemoryCorrect == ReassemblerSpec => []MemoryBound
  BY Invariant, GoodImplies, PTL

\* end_input is called when the last byte has been written, and only then.
THEOREM EndCorrect == ReassemblerSpec => []EndExact
  BY Invariant, GoodImplies, PTL

\* Whatever is pushed next, a good object takes all of it that is in the window.
LEMMA GoodTakes == IInv => TakesTheWindow
<1>1. SUFFICES ASSUME IInv, NEW index \in 0 .. N, NEW len \in 0 .. N, index + len <= N
               PROVE  LET after == push_substring(reasm, SubSeq(Stream, index + 1, index + len),
                                                  index, FALSE)
                      IN  {i \in index .. (index + len - 1) : First <= i /\ i < Beyond}
                            \cup indices(reasm.buf)
                              \subseteq (0 .. (first_unassembled(after) - 1)) \cup indices(after.buf)
  BY DEF TakesTheWindow
<1>. DEFINE after == push_substring(reasm, SubSeq(Stream, index + 1, index + len), index, FALSE)
<1>2. /\ Good(Stream, after, collected)
      /\ first_unacceptable(after) = first_unacceptable(reasm)
      /\ \A i \in Nat : i < first_unacceptable(reasm) =>
            (Holds(after, i) <=> Holds(reasm, i) \/ i \in index .. (index + len - 1))
  <2>1. ASSUME NEW e \in BOOLEAN, e => index + len = N
        PROVE  LET s == push_substring(reasm, SubSeq(Stream, index + 1, index + len), index, e) IN
               /\ Good(Stream, s, collected)
               /\ first_unacceptable(s) = first_unacceptable(reasm)
               /\ \A i \in Nat : i < first_unacceptable(reasm) =>
                     (Holds(s, i) <=> Holds(reasm, i) \/ i \in index .. (index + len - 1))
    BY <1>1, <2>1, PushKeeps DEF IInv
  <2>. QED
    BY <2>1, Zenon
<1>. HIDE DEF after
<1>3. ASSUME NEW i \in Nat, i < Beyond, Holds(after, i)
      PROVE  i \in (0 .. (first_unassembled(after) - 1)) \cup indices(after.buf)
  BY <1>2, <1>3, Received DEF Beyond
<1>4. ASSUME NEW i \in index .. (index + len - 1), First <= i, i < Beyond
      PROVE  i \in Nat /\ Holds(after, i)
  BY <1>2, <1>4, Sizes DEF Beyond
<1>5. ASSUME NEW i \in indices(reasm.buf)
      PROVE  i \in Nat /\ i < Beyond /\ Holds(after, i)
  <2>1. i \in Nat /\ i < Beyond /\ Holds(reasm, i)
    BY <1>1, Received DEF IInv, Beyond
  <2>. QED
    BY <2>1, <1>2 DEF Beyond
<1>. QED
  BY <1>3, <1>4, <1>5 DEF after

\* No push is refused what the window has room for, and nothing stored is forgotten.
THEOREM NothingRefused == ReassemblerSpec => []TakesTheWindow
  BY Invariant, GoodTakes, PTL

\* The variables of the contract, as Ideal gives them.
ideal_vars == << (0 .. (First - 1)) \cup indices(reasm.buf), First, first_unread(reasm),
                 reasm.eof, input_ended(reasm.output) >>

\* A push is the contract's Deliver.
LEMMA PushIsDeliver ==
    ASSUME IInv, NEW index \in 0 .. N, NEW len \in 0 .. N, NEW is_eof \in BOOLEAN,
           Push(index, len, is_eof)
    PROVE  Ideal!Deliver(index, len, is_eof)
<1>1. /\ index + len <= N /\ (is_eof => index + len = N)
      /\ reasm' = push_substring(reasm, SubSeq(Stream, index + 1, index + len), index, is_eof)
  BY DEF Push
<1>2. Delivered(Stream, reasm, reasm', index, len, is_eof)
  BY <1>1, PushDelivers DEF IInv
<1>. QED
  BY <1>1, <1>2 DEF Delivered, received_by, Ideal!Deliver, First

\* A read is the contract's Consume.
LEMMA ReadIsConsume ==
    ASSUME IInv, NEW len \in 1 .. N, ReadOutput(len)
    PROVE  \E n \in 1 .. N : Ideal!Consume(n)
<1>1. PICK n : Consumed(Stream, reasm, reasm', n)
  BY ReadConsumes DEF ReadOutput, IInv
<1>2. n \in 1 .. N /\ Ideal!Consume(n)
  BY <1>1 DEF Consumed, received_by, Ideal!Consume, First
<1>. QED
  BY <1>2

\* StreamReassembler implements its contract: every push is a Deliver and every read a
\* Consume, under the mapping that forgets how the bytes lie in segments.
THEOREM Refinement == ReassemblerSpec => ImplementsIdeal
<1>1. ReassemblerInit => Ideal!Init
  <2>1. SUFFICES ASSUME ReassemblerInit PROVE Ideal!Init
    OBVIOUS
  <2>2. /\ reasm.buf = {} /\ First = 0 /\ first_unread(reasm) = 0
        /\ reasm.eof = FALSE /\ input_ended(reasm.output) = FALSE
    BY <2>1 DEF ReassemblerInit, new_StreamReassembler, new_ByteStream, First, first_unassembled,
                first_unread, bytes_written, bytes_read, input_ended
  <2>3. indices({}) = {}
    BY Zenon DEF indices
  <2>4. (0 .. (First - 1)) \cup indices(reasm.buf) = {}
    BY <2>2, <2>3
  <2>. QED
    BY <2>2, <2>4 DEF Ideal!Init
<1>2. IInv /\ IInv' /\ [ReassemblerNext]_reassembler_vars => [Ideal!Next]_ideal_vars
  <2>1. SUFFICES ASSUME IInv, IInv', [ReassemblerNext]_reassembler_vars PROVE [Ideal!Next]_ideal_vars
    OBVIOUS
  <2>2. ASSUME NEW index \in 0 .. N, NEW len \in 0 .. N, NEW is_eof \in BOOLEAN,
               Push(index, len, is_eof)
        PROVE  Ideal!Next
    BY <2>1, <2>2, PushIsDeliver DEF Ideal!Next
  <2>3. ASSUME NEW len \in 1 .. N, ReadOutput(len)
        PROVE  Ideal!Next
    BY <2>1, <2>3, ReadIsConsume DEF Ideal!Next
  <2>4. ASSUME UNCHANGED reassembler_vars PROVE UNCHANGED ideal_vars
    BY <2>4 DEF reassembler_vars, ideal_vars, First, first_unassembled, first_unread
  <2>. QED
    BY <2>1, <2>2, <2>3, <2>4 DEF ReassemblerNext
<1>. QED
  BY <1>1, <1>2, Invariant, PTL DEF ReassemblerSpec, ImplementsIdeal, Ideal!Spec, ideal_vars

=============================================================================
