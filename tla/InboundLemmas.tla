------------------------- MODULE InboundLemmas -----------------------------
(***************************************************************************)
(* What the proofs need to know of natural numbers, of remainders, and of  *)
(* wrap and unwrap; and what the operations of the StreamReassembler keep, *)
(* for every stream, every capacity and every width of size_t that has     *)
(* room for both: shared by the proofs about the reassembler, about the    *)
(* receiver around it and about the connection around that.                *)
(***************************************************************************)
EXTENDS TCPReceiver, InboundStream, TLAPS, WellFoundedInduction, FiniteSetTheorems

-----------------------------------------------------------------------------
(* Natural numbers, wrap and unwrap *)

\* A non-empty set of naturals has a least element.
LEMMA LeastNatural ==
    ASSUME NEW T \in SUBSET Nat, T # {}
    PROVE  \E x \in T : \A y \in T : x <= y
<1>. DEFINE R == {ss \in Nat \X Nat : ss[1] < ss[2]}
<1>1. IsWellFoundedOn(R, Nat)
  BY NatLessThanWellFounded, Zenon DEF OpToRel
<1>. HIDE DEF R
<1>2. PICK x \in T : \A y \in T : ~ (<< y, x >> \in R)
  BY <1>1, WFMin
<1>3. \A y \in T : ~(y < x)
  BY <1>2 DEF R
<1>. QED
  BY <1>3

\* Induction, for a property given as the set of the numbers that have it.
LEMMA SetInduction ==
    ASSUME NEW S, 0 \in S, \A n \in Nat : n \in S => n + 1 \in S
    PROVE  \A n \in Nat : n \in S
<1>. DEFINE T == {n \in Nat : n \notin S}
<1>1. T \in SUBSET Nat
  OBVIOUS
<1>. SUFFICES ASSUME T # {} PROVE FALSE
  OBVIOUS
<1>2. PICK x \in T : \A y \in T : x <= y
  BY <1>1, LeastNatural
<1>3. x \in Nat /\ x \notin S /\ x # 0
  BY <1>2
<1>4. x - 1 \in Nat /\ x - 1 \notin T
  BY <1>2, <1>3
<1>5. x - 1 \in S
  BY <1>4
<1>6. (x - 1) + 1 \in S /\ (x - 1) + 1 = x
  BY <1>4, <1>5, <1>3
<1>. QED
  BY <1>3, <1>6


\* Division with remainder, the only fact about % that the rest uses: a % m is the one
\* number in 0 .. m-1 that differs from a by a multiple of m.
LEMMA ModUnique ==
    ASSUME NEW m \in Nat \ {0}, NEW a \in Int, NEW q \in Int, NEW r \in 0 .. (m - 1),
           a = m * q + r
    PROVE  a % m = r
  OBVIOUS

\* Every number is a multiple of m and its remainder.
LEMMA ModDecomposed ==
    ASSUME NEW m \in Nat \ {0}, NEW a \in Int
    PROVE  /\ a % m \in 0 .. (m - 1)
           /\ a \div m \in Int
           /\ a = m * (a \div m) + (a % m)
  OBVIOUS

\* The two moduli are positive.
LEMMA Moduli == Mod32 \in Nat \ {0} /\ Mod64 \in Nat \ {0}
<1>1. Mod32 \in Nat \ {0}
  BY Half32Assumption DEF Mod32
<1>. QED
  BY <1>1 DEF Mod64

\* Where unwrap lands: at the checkpoint plus an offset, or one turn of the ring before,
\* and the offset leads from the checkpoint to n.
LEMMA UnwrapValue ==
    ASSUME NEW n \in WrappingInt32, NEW i \in WrappingInt32, NEW c \in Nat,
           c + Mod32 < Mod64
    PROVE  \E offset \in 0 .. (Mod32 - 1), k \in Int :
              /\ n = i + c + offset + Mod32 * k
              /\ unwrap(n, i, c) = IF offset > Half32 /\ c + offset >= Mod32
                                   THEN c + offset - Mod32 ELSE c + offset
<1>. DEFINE w == wrap(c, i)
            offset == U32(n - w)
            k1 == c \div Mod32
            k2 == (i + (c % Mod32)) \div Mod32
            k3 == (n - w) \div Mod32
<1>0. Mod32 \in Nat \ {0} /\ n \in Int /\ i \in Int
  BY Moduli DEF WrappingInt32
<1>1. c = Mod32 * k1 + (c % Mod32) /\ c % Mod32 \in 0 .. (Mod32 - 1) /\ k1 \in Int
  BY <1>0, ModDecomposed
<1>2. i + (c % Mod32) = Mod32 * k2 + w /\ w \in 0 .. (Mod32 - 1) /\ k2 \in Int
  <2>1. i + (c % Mod32) \in Int
    BY <1>0, <1>1
  <2>. QED
    BY <2>1, <1>0, ModDecomposed DEF wrap, U32
<1>3. n - w = Mod32 * k3 + offset /\ offset \in 0 .. (Mod32 - 1) /\ k3 \in Int
  <2>1. n - w \in Int
    BY <1>0, <1>2
  <2>. QED
    BY <2>1, <1>0, ModDecomposed DEF U32
<1>. HIDE DEF w, offset, k1, k2, k3
<1>4. n = i + c + offset + Mod32 * (k3 - k2 - k1)
  <2>. DEFINE m == Mod32
              r == c % Mod32
  <2>1. m \in Int /\ r \in Int /\ c \in Int /\ w \in Int /\ offset \in Int
    BY <1>0, <1>1, <1>2, <1>3
  <2>2. c = m * k1 + r /\ i + r = m * k2 + w /\ n - w = m * k3 + offset
    BY <1>1, <1>2, <1>3
  <2>. HIDE DEF m, r
  <2>3. n = i + c + offset + m * (k3 - k2 - k1)
    BY <2>1, <2>2, <1>0, <1>1, <1>2, <1>3
  <2>. QED
    BY <2>3 DEF m
<1>5. U64(c + offset) = c + offset
  <2>1. c + offset \in 0 .. (Mod64 - 1) /\ c + offset = Mod64 * 0 + (c + offset)
    BY <1>0, <1>3, Moduli
  <2>. QED
    BY <2>1, Moduli, ModUnique DEF U64
<1>6. unwrap(n, i, c) = IF offset > Half32 /\ c + offset >= Mod32
                        THEN c + offset - Mod32 ELSE c + offset
  <2>. DEFINE pos == U64(c + offset)
  <2>1. unwrap(n, i, c) = IF offset > Half32 /\ pos >= Mod32 THEN pos - Mod32 ELSE pos
    BY Zenon DEF unwrap, w, offset
  <2>2. pos = c + offset
    BY <1>5
  <2>3. offset \in Int /\ Mod32 \in Int /\ Half32 \in Int
    BY <1>0, <1>3, Half32Assumption
  <2>. HIDE DEF pos
  <2>. QED
    BY <2>1, <2>2, <2>3
<1>7. k3 - k2 - k1 \in Int
  BY <1>1, <1>2, <1>3
<1>. QED
  BY <1>3, <1>4, <1>6, <1>7

\* Numbers that wrap alike are a multiple of Mod32 apart, and the other way round.
LEMMA WrapCongruent ==
    ASSUME NEW n \in WrappingInt32, NEW i \in WrappingInt32, NEW u \in Int, NEW k \in Int,
           n = i + u + Mod32 * k
    PROVE  wrap(u, i) = n
<1>. DEFINE m == Mod32
            q == u \div m
            r == u % m
<1>1. m \in Nat \ {0} /\ n \in 0 .. (m - 1) /\ i \in Int
  BY Moduli DEF WrappingInt32
<1>2. u = m * q + r /\ q \in Int /\ r \in Int
  BY <1>1, ModDecomposed
<1>3. n = i + u + m * k
  OBVIOUS
<1>. HIDE DEF m, q, r
<1>4. i + r = m * (0 - q - k) + n
  BY <1>1, <1>2, <1>3
<1>5. (i + r) % m = n
  <2>1. 0 - q - k \in Int /\ i + r \in Int
    BY <1>1, <1>2
  <2>. QED
    BY <2>1, <1>1, <1>4, ModUnique
<1>. QED
  BY <1>5 DEF wrap, U32, m, r

\* wrap gives a 32-bit number, a multiple of Mod32 away from isn + u.
LEMMA WrapOffset ==
    ASSUME NEW i \in WrappingInt32, NEW u \in Int
    PROVE  /\ wrap(u, i) \in WrappingInt32
           /\ \E k \in Int : wrap(u, i) = i + u + Mod32 * k
<1>. DEFINE m == Mod32
            q == u \div m
            r == u % m
            p == (i + r) \div m
<1>1. m \in Nat \ {0} /\ i \in Int
  BY Moduli DEF WrappingInt32
<1>2. u = m * q + r /\ q \in Int /\ r \in Int
  BY <1>1, ModDecomposed
<1>3. i + r \in Int
  BY <1>1, <1>2
<1>4. i + r = m * p + wrap(u, i) /\ p \in Int /\ wrap(u, i) \in 0 .. (m - 1)
  BY <1>1, <1>3, ModDecomposed DEF wrap, U32
<1>. HIDE DEF m, q, r, p
<1>5. wrap(u, i) = i + u + m * (0 - q - p)
  BY <1>1, <1>2, <1>4
<1>6. 0 - q - p \in Int
  BY <1>2, <1>4
<1>. QED
  BY <1>4, <1>5, <1>6 DEF m, WrappingInt32

\* The only multiple of m strictly between -m and m is 0.
LEMMA SmallMultiple ==
    ASSUME NEW m \in Nat \ {0}, NEW j \in Int, -m < m * j, m * j < m
    PROVE  j = 0
<1>1. CASE j >= 1
  BY <1>1
<1>2. CASE j <= -1
  BY <1>2
<1>. QED
  BY <1>1, <1>2

\* unwrap inverts wrap for every number near the checkpoint: see Recovered.
LEMMA UnwrapRecovers ==
    ASSUME NEW i \in WrappingInt32, NEW a \in Nat, NEW c \in Nat,
           c + Mod32 < Mod64, c < a + Half32, a <= c + Half32
    PROVE  unwrap(wrap(a, i), i, c) = a
<1>0. Mod32 \in Nat \ {0} /\ i \in Int /\ Mod32 = 2 * Half32 /\ Half32 \in Nat
  BY Moduli, Half32Assumption DEF WrappingInt32, Mod32
<1>. DEFINE n == wrap(a, i)
<1>1. n \in WrappingInt32
  BY WrapOffset
<1>2. PICK k1 \in Int : n = i + a + Mod32 * k1
  BY WrapOffset
<1>3. PICK offset \in 0 .. (Mod32 - 1), k2 \in Int :
          /\ n = i + c + offset + Mod32 * k2
          /\ unwrap(n, i, c) = IF offset > Half32 /\ c + offset >= Mod32
                               THEN c + offset - Mod32 ELSE c + offset
  BY <1>1, UnwrapValue
<1>. HIDE DEF n
<1>4. a - c - offset = Mod32 * (k2 - k1)
  BY <1>0, <1>2, <1>3
<1>. DEFINE j == k2 - k1
            m == Mod32
<1>5. j \in Int /\ a - c - offset = m * j /\ m \in Nat \ {0} /\ m = 2 * Half32
      /\ offset \in 0 .. (m - 1)
  BY <1>0, <1>4
<1>. HIDE DEF j, m
<1>6. m * (j + 1) = m * j + m /\ j + 1 \in Int
  BY <1>5
<1>7. CASE offset <= Half32
  <2>1. -m < m * j /\ m * j < m
    BY <1>0, <1>5, <1>7
  <2>2. j = 0
    BY <2>1, <1>5, SmallMultiple
  <2>. QED
    BY <2>2, <1>0, <1>3, <1>5, <1>7 DEF n
<1>8. CASE offset > Half32
  <2>1. -m < m * (j + 1) /\ m * (j + 1) < m
    BY <1>0, <1>5, <1>6, <1>8
  <2>2. j + 1 = 0
    BY <2>1, <1>5, <1>6, SmallMultiple
  <2>3. a = c + offset - m
    BY <2>2, <1>0, <1>5, <1>6
  <2>. QED
    BY <2>3, <1>0, <1>3, <1>5, <1>8 DEF n, m
<1>. QED
  BY <1>0, <1>3, <1>7, <1>8

-----------------------------------------------------------------------------
(* Numbers and sets *)

\* The constants are numbers, and size_t does not wrap for what the stream can name.
LEMMA Sizes ==
    ASSUME NEW text \in InStreams
    PROVE  /\ Len(text) \in Nat /\ Capacity \in Nat /\ Mod64 \in Nat
           /\ Len(text) + Capacity < Mod64
  BY Moduli, CapacityAssumption DEF InStreams

\* A stream is a sequence of bytes.
LEMMA Text ==
    ASSUME NEW text \in InStreams
    PROVE  text \in Seq(Byte)
  BY DEF InStreams

\* A number that fits size_t is its own remainder.
LEMMA U64Small ==
    ASSUME NEW n \in Nat, n < Mod64
    PROVE  U64(n) = n
  BY Moduli DEF U64

\* From f on, a set goes on without a gap up to some e, which is u or is not in it.
LEMMA FirstGap ==
    ASSUME NEW f \in Nat, NEW u \in Nat, f <= u, NEW X
    PROVE  \E e \in f .. u : f .. (e - 1) \subseteq X /\ (e = u \/ e \notin X)
<1>. DEFINE T == {e \in f .. u : e = u \/ e \notin X}
<1>1. T \in SUBSET Nat /\ u \in T
  OBVIOUS
<1>2. PICK e \in T : \A y \in T : e <= y
  BY <1>1, LeastNatural
<1>3. \A i \in f .. (e - 1) : i \in X
  <2>1. SUFFICES ASSUME NEW i \in f .. (e - 1), i \notin X PROVE FALSE
    OBVIOUS
  <2>2. i \in T
    BY <2>1, <1>2
  <2>. QED
    BY <2>2, <1>2, <2>1
<1>. QED
  BY <1>2, <1>3

\* Disjoint finite sets are counted apart.
LEMMA CountApart ==
    ASSUME NEW A, NEW B, IsFiniteSet(A), IsFiniteSet(B), A \cap B = {}
    PROVE  /\ IsFiniteSet(A \cup B)
           /\ Cardinality(A \cup B) = Cardinality(A) + Cardinality(B)
           /\ Cardinality(A) \in Nat /\ Cardinality(B) \in Nat
<1>1. Cardinality(A) \in Nat /\ Cardinality(B) \in Nat
  BY FS_CardinalityType
<1>2. /\ IsFiniteSet(A \cup B)
      /\ Cardinality(A \cup B) = Cardinality(A) + Cardinality(B) - Cardinality(A \cap B)
  BY FS_Union
<1>3. Cardinality(A \cap B) = 0
  BY FS_EmptySet, Zenon
<1>. QED
  BY <1>1, <1>2, <1>3

-----------------------------------------------------------------------------
(* Slices of the stream *)

\* A segment that holds the bytes of its place in the stream, and at least one.
Slice(text, b) ==
    /\ b \in [idx : Nat, data : Seq(Byte)]
    /\ 1 <= Len(b.data) /\ b.idx + Len(b.data) <= Len(text)
    /\ \A k \in 1 .. Len(b.data) : b.data[k] = text[b.idx + k]

\* tail_idx does not wrap on a slice.
LEMMA SliceTail ==
    ASSUME NEW text \in InStreams, NEW b, Slice(text, b)
    PROVE  /\ b.idx \in Nat /\ Len(b.data) \in Nat
           /\ tail_idx(b) = b.idx + Len(b.data) - 1
           /\ tail_idx(b) \in Nat /\ b.idx <= tail_idx(b) /\ tail_idx(b) < Len(text)
<1>1. b.idx \in Nat /\ Len(b.data) \in Nat /\ 1 <= Len(b.data) /\ b.idx + Len(b.data) <= Len(text)
  BY DEF Slice
<1>2. b.idx + Len(b.data) - 1 \in Nat /\ b.idx + Len(b.data) - 1 < Mod64
  BY <1>1, Sizes
<1>. QED
  BY <1>1, <1>2, U64Small, Sizes DEF tail_idx, length

\* The indices of a set of slices.
LEMMA InIndices ==
    ASSUME NEW S, NEW i
    PROVE  i \in indices(S) <=> \E b \in S : i \in b.idx .. tail_idx(b)
  BY DEF indices

\* They are finitely many, all below the length of the stream.
LEMMA IndicesFinite ==
    ASSUME NEW text \in InStreams, NEW S, \A b \in S : Slice(text, b)
    PROVE  /\ indices(S) \subseteq 0 .. (Len(text) - 1)
           /\ IsFiniteSet(indices(S)) /\ Cardinality(indices(S)) \in Nat
<1>1. indices(S) \subseteq 0 .. (Len(text) - 1)
  <2>1. SUFFICES ASSUME NEW i \in indices(S) PROVE i \in 0 .. (Len(text) - 1)
    OBVIOUS
  <2>2. PICK b \in S : i \in b.idx .. tail_idx(b)
    BY InIndices
  <2>. QED
    BY <2>2, SliceTail, Sizes
<1>2. IsFiniteSet(0 .. (Len(text) - 1))
  BY Sizes, FS_Interval
<1>. QED
  BY <1>1, <1>2, FS_Subset, FS_CardinalityType

\* Two segments with no byte in common.
Apart(a, b) == tail_idx(a) < b.idx \/ tail_idx(b) < a.idx

\* The two cases of the overlap test are all the ways two segments can share a byte.
LEMMA OverlapApart ==
    ASSUME NEW text \in InStreams, NEW a, NEW b, Slice(text, a), Slice(text, b)
    PROVE  overlaps(a, b) <=> ~Apart(a, b)
<1>1. /\ a.idx \in Nat /\ tail_idx(a) \in Nat /\ a.idx <= tail_idx(a)
      /\ b.idx \in Nat /\ tail_idx(b) \in Nat /\ b.idx <= tail_idx(b)
  BY SliceTail
<1>. QED
  BY <1>1 DEF overlaps, Apart

\* A set of slices has one that begins first and one that ends last.
LEMMA FirstAndLast ==
    ASSUME NEW text \in InStreams, NEW S, S # {}, \A b \in S : Slice(text, b)
    PROVE  /\ \E a \in S : \A b \in S : a.idx <= b.idx
           /\ \E a \in S : \A b \in S : tail_idx(a) >= tail_idx(b)
<1>0. \A b \in S : b.idx \in Nat /\ tail_idx(b) \in Nat /\ tail_idx(b) < Len(text)
  BY SliceTail
<1>1. \E a \in S : \A b \in S : a.idx <= b.idx
  <2>. DEFINE T == {b.idx : b \in S}
  <2>1. T \in SUBSET Nat /\ T # {}
    BY <1>0
  <2>2. PICK x \in T : \A y \in T : x <= y
    BY <2>1, LeastNatural
  <2>. QED
    BY <2>2
<1>2. \E a \in S : \A b \in S : tail_idx(a) >= tail_idx(b)
  <2>. DEFINE T == {Len(text) - tail_idx(b) : b \in S}
  <2>1. T \in SUBSET Nat /\ T # {}
    BY <1>0, Sizes
  <2>2. PICK x \in T : \A y \in T : x <= y
    BY <2>1, LeastNatural
  <2>3. PICK a \in S : x = Len(text) - tail_idx(a)
    BY <2>2
  <2>4. ASSUME NEW b \in S PROVE tail_idx(a) >= tail_idx(b)
    <3>1. Len(text) - tail_idx(a) <= Len(text) - tail_idx(b)
      BY <2>2, <2>3
    <3>. QED
      BY <3>1, <1>0, Sizes
  <2>. QED
    BY <2>4
<1>. QED
  BY <1>1, <1>2

\* _merge_seg of a segment with all those it overlaps is the slice from the first byte
\* of any of them to the last: nothing is lost, and no byte is out of place.
LEMMA MergeSlice ==
    ASSUME NEW text \in InStreams,
           NEW S, NEW seg, Slice(text, seg), \A b \in S : Slice(text, b) /\ ~Apart(seg, b)
    PROVE  LET m == merge_seg(seg, S) IN
           /\ Slice(text, m)
           /\ \E a \in S \cup {seg} : m.idx = a.idx
           /\ \E a \in S \cup {seg} : tail_idx(m) = tail_idx(a)
           /\ \A b \in S \cup {seg} : m.idx <= b.idx /\ tail_idx(b) <= tail_idx(m)
           /\ \A i \in m.idx .. tail_idx(m) : i \in indices(S \cup {seg})
<1>. DEFINE all == S \cup {seg}
            first == CHOOSE a \in all : \A b \in all : a.idx <= b.idx
            last == CHOOSE a \in all : \A b \in all : tail_idx(a) >= tail_idx(b)
            lo == first.idx
            hi == tail_idx(last)
            source(i) == IF \E b \in S : covers(b, i) /\ kept(seg, b)
                         THEN CHOOSE b \in S : covers(b, i) /\ kept(seg, b)
                         ELSE seg
            data == [k \in 1 .. (hi - lo + 1) |->
                        source(lo + k - 1).data[lo + k - source(lo + k - 1).idx]]
            m == merge_seg(seg, S)
<1>1. m = [idx |-> lo, data |-> data]
  BY Zenon DEF merge_seg
<1>2. \A b \in all : Slice(text, b)
  OBVIOUS
<1>a. /\ \E a \in all : \A b \in all : a.idx <= b.idx
      /\ \E a \in all : \A b \in all : tail_idx(a) >= tail_idx(b)
  <2>1. all # {}
    OBVIOUS
  <2>. HIDE DEF all
  <2>. QED
    BY <1>2, <2>1, FirstAndLast
<1>3. first \in all /\ \A b \in all : first.idx <= b.idx
  BY <1>a, Zenon
<1>4. last \in all /\ \A b \in all : tail_idx(last) >= tail_idx(b)
  BY <1>a, Zenon
<1>5. \A b \in all : /\ b.idx \in Nat /\ tail_idx(b) \in Nat /\ b.idx <= tail_idx(b)
                     /\ tail_idx(b) < Len(text)
  BY <1>2, SliceTail
<1>6. \A b \in S : b.idx <= tail_idx(seg) /\ seg.idx <= tail_idx(b)
  <2>1. SUFFICES ASSUME NEW b \in S PROVE b.idx <= tail_idx(seg) /\ seg.idx <= tail_idx(b)
    OBVIOUS
  <2>2. ~Apart(seg, b) /\ b \in all /\ seg \in all
    OBVIOUS
  <2>. QED
    BY <2>2, <1>5 DEF Apart
<1>7. first \in S \/ first = seg
  BY <1>3
<1>8. last \in S \/ last = seg
  BY <1>4
<1>9. lo \in Nat /\ hi \in Nat /\ lo <= hi /\ hi < Len(text)
  BY <1>3, <1>4, <1>5
<1>. HIDE DEF first, last
<1>10. ASSUME NEW i \in lo .. hi
       PROVE  source(i) \in all /\ source(i).idx <= i /\ i <= tail_idx(source(i))
  <2>1. CASE \E b \in S : covers(b, i) /\ kept(seg, b)
    <3>1. source(i) = CHOOSE b \in S : covers(b, i) /\ kept(seg, b)
      BY <2>1, Zenon
    <3>2. source(i) \in S /\ covers(source(i), i)
      BY <3>1, <2>1, Zenon
    <3>. QED
      BY <3>2 DEF covers
  <2>2. CASE ~\E b \in S : covers(b, i) /\ kept(seg, b)
    <3>1. source(i) = seg
      BY <2>2, Zenon
    <3>2. seg.idx <= i
      <4>1. SUFFICES ASSUME i < seg.idx PROVE FALSE
        BY <1>5
      <4>2. first \in S
        BY <4>1, <1>7, <1>5, <1>9
      <4>3. covers(first, i) /\ kept(seg, first)
        BY <4>1, <4>2, <1>6, <1>5 DEF covers, kept
      <4>. QED
        BY <4>2, <4>3, <2>2
    <3>3. i <= tail_idx(seg)
      <4>1. SUFFICES ASSUME tail_idx(seg) < i PROVE FALSE
        BY <1>5
      <4>2. last \in S
        BY <4>1, <1>8, <1>5, <1>9
      <4>3. covers(last, i) /\ kept(seg, last)
        BY <4>1, <4>2, <1>6, <1>5 DEF covers, kept
      <4>. QED
        BY <4>2, <4>3, <2>2
    <3>. QED
      BY <3>1, <3>2, <3>3
  <2>. QED
    BY <2>1, <2>2
<1>. HIDE DEF source, lo, hi, all
<1>11. ASSUME NEW k \in 1 .. (hi - lo + 1)
       PROVE  /\ source(lo + k - 1).data[lo + k - source(lo + k - 1).idx] = text[lo + k]
              /\ text[lo + k] \in Byte
  <2>. DEFINE i == lo + k - 1
              b == source(i)
  <2>1. i \in lo .. hi /\ lo + k = i + 1 /\ i \in Nat
    BY <1>9
  <2>. HIDE DEF i
  <2>2. b \in all /\ b.idx <= i /\ i <= tail_idx(b)
    BY <2>1, <1>10
  <2>3. Slice(text, b)
    BY <2>2, <1>2
  <2>. HIDE DEF b
  <2>4. /\ b.idx \in Nat /\ Len(b.data) \in Nat /\ tail_idx(b) = b.idx + Len(b.data) - 1
        /\ tail_idx(b) < Len(text)
    BY <2>3, SliceTail
  <2>5. i + 1 - b.idx \in 1 .. Len(b.data)
    BY <2>1, <2>2, <2>4
  <2>6. b.data[i + 1 - b.idx] = text[b.idx + (i + 1 - b.idx)]
    BY <2>3, <2>5 DEF Slice
  <2>7. b.idx + (i + 1 - b.idx) = i + 1 /\ i + 1 \in 1 .. Len(text)
    BY <2>1, <2>2, <2>4, Sizes
  <2>8. text[i + 1] \in Byte
    BY <2>7, Text
  <2>9. b.data[i + 1 - b.idx] = text[i + 1]
    BY <2>6, <2>7
  <2>10. lo + k - b.idx = i + 1 - b.idx
    BY <2>1, <2>4, <1>9
  <2>11. b.data[lo + k - b.idx] = text[lo + k] /\ text[lo + k] \in Byte
    BY <2>1, <2>8, <2>9, <2>10, Zenon
  <2>. QED
    BY <2>11, Zenon DEF b, i
<1>12. data \in Seq(Byte) /\ Len(data) = hi - lo + 1
       /\ \A k \in 1 .. (hi - lo + 1) : data[k] = text[lo + k]
  <2>. DEFINE n == hi - lo + 1
              byte(k) == source(lo + k - 1).data[lo + k - source(lo + k - 1).idx]
              at(k) == text[lo + k]
  <2>1. n \in Nat
    BY <1>9
  <2>2. \A k \in 1 .. n : byte(k) = at(k) /\ at(k) \in Byte
    BY <1>11
  <2>3. data = [k \in 1 .. n |-> byte(k)]
    OBVIOUS
  <2>. HIDE DEF n, byte, at, data
  <2>4. data \in Seq(Byte) /\ Len(data) = n /\ \A k \in 1 .. n : data[k] = at(k)
    BY <2>1, <2>2, <2>3
  <2>. QED
    BY <2>4 DEF n, at
<1>. HIDE DEF data
<1>13. Slice(text, m)
  BY <1>1, <1>9, <1>12, Sizes DEF Slice
<1>14. m.idx = lo /\ tail_idx(m) = hi
  BY <1>1, <1>9, <1>12, <1>13, SliceTail
<1>15. \A i \in lo .. hi : i \in indices(all)
  <2>1. SUFFICES ASSUME NEW i \in lo .. hi PROVE i \in indices(all)
    OBVIOUS
  <2>2. source(i) \in all /\ source(i).idx <= i /\ i <= tail_idx(source(i)) /\ i \in Nat
    BY <1>10, <1>9
  <2>3. i \in source(i).idx .. tail_idx(source(i))
    BY <2>2, <1>5
  <2>. QED
    BY <2>2, <2>3, InIndices
<1>. HIDE DEF m
<1>16. /\ \E a \in all : m.idx = a.idx
       /\ \E a \in all : tail_idx(m) = tail_idx(a)
       /\ \A b \in all : m.idx <= b.idx /\ tail_idx(b) <= tail_idx(m)
  BY <1>3, <1>4, <1>5, <1>14 DEF lo, hi
<1>. QED
  BY <1>13, <1>14, <1>15, <1>16 DEF all, m

-----------------------------------------------------------------------------
(* _buf and _unassembled_bytes *)

\* The segments are slices with no byte in common, and _unassembled_bytes counts theirs.
Bufs(text, r) ==
    /\ r \in ReassemblerType(Byte)
    /\ \A b \in r.buf : Slice(text, b)
    /\ \A a, b \in r.buf : a # b => Apart(a, b)
    /\ r.unassembled_bytes = Cardinality(indices(r.buf))

\* s differs from r in _buf and _unassembled_bytes only.
OnlyBuf(r, s) ==
    /\ s.output = r.output /\ s.capacity = r.capacity
    /\ s.eof = r.eof /\ s.eof_index = r.eof_index

\* The values of _buf.
SegmentSets == SUBSET [idx : Nat, data : Seq(Byte)]

\* r after an assignment to both.
assigned(r, c, B) == [r EXCEPT !.unassembled_bytes = c, !.buf = B]

\* An assignment to the two fields keeps the rest of the object, and its types.
LEMMA Assign ==
    ASSUME NEW r \in ReassemblerType(Byte), NEW c \in Int,
           NEW B \in SegmentSets
    PROVE  LET s == assigned(r, c, B) IN
           /\ OnlyBuf(r, s) /\ s \in ReassemblerType(Byte)
           /\ s.unassembled_bytes = c /\ s.buf = B
<1>. USE DEF assigned
<1>. DEFINE s == assigned(r, c, B)
            OO == ByteStreamType(Byte)
<1>1. r \in [output : OO, capacity : Nat, eof_index : Nat,
            unassembled_bytes : Int, eof : BOOLEAN, buf : SegmentSets]
  BY Zenon DEF ReassemblerType, SegmentSets
<1>. HIDE DEF OO
<1>3. s \in [output : OO, capacity : Nat, eof_index : Nat,
            unassembled_bytes : Int, eof : BOOLEAN, buf : SegmentSets]
  BY <1>1
<1>4. s \in ReassemblerType(Byte)
  BY <1>3, Zenon DEF ReassemblerType, SegmentSets, OO
<1>. QED
  BY <1>1, <1>4 DEF OnlyBuf

\* The bytes of two sets of segments apart from each other are counted apart.
LEMMA IndicesApart ==
    ASSUME NEW text \in InStreams,
           NEW A, NEW B, \A b \in A : Slice(text, b), \A b \in B : Slice(text, b),
           \A a \in A, b \in B : Apart(a, b)
    PROVE  /\ indices(A \cup B) = indices(A) \cup indices(B)
           /\ indices(A) \cap indices(B) = {}
           /\ Cardinality(indices(A)) \in Nat /\ Cardinality(indices(B)) \in Nat
           /\ Cardinality(indices(A \cup B)) = Cardinality(indices(A)) + Cardinality(indices(B))
<1>1. indices(A \cup B) = indices(A) \cup indices(B)
  BY Zenon DEF indices
<1>2. ASSUME NEW i \in indices(A), i \in indices(B) PROVE FALSE
  <2>1. PICK a \in A : i \in a.idx .. tail_idx(a)
    BY InIndices
  <2>2. PICK b \in B : i \in b.idx .. tail_idx(b)
    BY <1>2, InIndices
  <2>3. Apart(a, b) /\ Slice(text, a) /\ Slice(text, b)
    OBVIOUS
  <2>4. a.idx \in Nat /\ tail_idx(a) \in Nat /\ b.idx \in Nat /\ tail_idx(b) \in Nat
    BY <2>3, SliceTail
  <2>. QED
    BY <2>1, <2>2, <2>3, <2>4 DEF Apart
<1>3. indices(A) \cap indices(B) = {}
  BY <1>2
<1>4. IsFiniteSet(indices(A)) /\ IsFiniteSet(indices(B))
  BY IndicesFinite
<1>. QED
  BY <1>1, <1>3, <1>4, CountApart

\* The bytes of one segment.
LEMMA IndicesOfOne ==
    ASSUME NEW text \in InStreams, NEW b, Slice(text, b)
    PROVE  indices({b}) = b.idx .. tail_idx(b) /\ Cardinality(indices({b})) = length(b)
<1>1. indices({b}) = b.idx .. tail_idx(b)
  BY Zenon DEF indices
<1>2. Cardinality(b.idx .. tail_idx(b)) = Len(b.data)
  <2>. DEFINE lo == b.idx
              hi == tail_idx(b)
              n == Len(b.data)
  <2>1. lo \in Int /\ hi \in Int /\ n \in Nat /\ hi = lo + n - 1 /\ ~(lo > hi)
    BY SliceTail
  <2>. HIDE DEF lo, hi, n
  <2>2. Cardinality(lo .. hi) = hi - lo + 1
    BY <2>1, FS_Interval
  <2>3. Cardinality(lo .. hi) = n
    BY <2>1, <2>2
  <2>. QED
    BY <2>3 DEF lo, hi, n
<1>. QED
  BY <1>1, <1>2 DEF length

\* _buf_erase keeps the count.
LEMMA EraseKeeps ==
    ASSUME NEW text \in InStreams, NEW r, Bufs(text, r), NEW E \in SUBSET r.buf
    PROVE  LET s == buf_erase(r, E) IN
           Bufs(text, s) /\ OnlyBuf(r, s) /\ s.buf = r.buf \ E
<1>. DEFINE s == buf_erase(r, E)
            R == r.buf \ E
<1>1. s = [r EXCEPT !.unassembled_bytes = @ - Cardinality(indices(E)), !.buf = R]
  BY DEF buf_erase, total_length
<1>2. /\ R \cup E = r.buf
      /\ \A b \in R \cup E : Slice(text, b)
      /\ \A a \in R, b \in E : Apart(a, b)
  BY DEF Bufs
<1>3. /\ Cardinality(indices(R)) \in Nat /\ Cardinality(indices(E)) \in Nat
      /\ Cardinality(indices(r.buf)) = Cardinality(indices(R)) + Cardinality(indices(E))
  <2>. HIDE DEF R
  <2>1. /\ Cardinality(indices(R)) \in Nat /\ Cardinality(indices(E)) \in Nat
        /\ Cardinality(indices(R \cup E)) = Cardinality(indices(R)) + Cardinality(indices(E))
    <3>1. (\A b \in R : Slice(text, b)) /\ (\A b \in E : Slice(text, b))
      BY <1>2
    <3>2. \A a \in R, b \in E : Apart(a, b)
      BY <1>2
    <3>. QED
      BY <3>1, <3>2, IndicesApart, Zenon
  <2>. QED
    BY <2>1, <1>2
<1>. HIDE DEF s
<1>4. OnlyBuf(r, s) /\ s.buf = R /\ s \in ReassemblerType(Byte)
      /\ s.unassembled_bytes = r.unassembled_bytes - Cardinality(indices(E))
  <2>. DEFINE c == r.unassembled_bytes - Cardinality(indices(E))
  <2>1. r \in ReassemblerType(Byte) /\ R \in SegmentSets
    BY DEF Bufs, ReassemblerType, SegmentSets
  <2>2. c \in Int /\ s = assigned(r, c, R)
    BY <1>1, <1>3 DEF Bufs, ReassemblerType, assigned
  <2>. HIDE DEF c, R
  <2>3. OnlyBuf(r, s) /\ s \in ReassemblerType(Byte) /\ s.unassembled_bytes = c /\ s.buf = R
    BY <2>1, <2>2, Assign
  <2>. QED
    BY <2>3, Zenon DEF c
<1>5. s.unassembled_bytes = Cardinality(indices(R))
  BY <1>3, <1>4 DEF Bufs
<1>6. Bufs(text, s)
  BY <1>4, <1>5 DEF Bufs
<1>. QED
  BY <1>4, <1>6 DEF s

\* _buf_insert keeps the count when what it inserts is apart from the rest.
LEMMA InsertKeeps ==
    ASSUME NEW text \in InStreams,
           NEW r, Bufs(text, r), NEW m, Slice(text, m), \A b \in r.buf : Apart(m, b)
    PROVE  LET s == buf_insert(r, m) IN
           Bufs(text, s) /\ OnlyBuf(r, s) /\ s.buf = r.buf \cup {m}
<1>. DEFINE s == buf_insert(r, m)
            R == r.buf \cup {m}
<1>1. \A b \in r.buf : b.idx # m.idx
  <2>1. SUFFICES ASSUME NEW b \in r.buf, b.idx = m.idx PROVE FALSE
    OBVIOUS
  <2>2. Apart(m, b) /\ Slice(text, b)
    BY DEF Bufs
  <2>3. /\ m.idx \in Nat /\ tail_idx(m) \in Nat /\ m.idx <= tail_idx(m)
        /\ b.idx \in Nat /\ tail_idx(b) \in Nat /\ b.idx <= tail_idx(b)
    BY <2>2, SliceTail
  <2>. QED
    BY <2>1, <2>2, <2>3 DEF Apart
<1>2. s = [r EXCEPT !.unassembled_bytes = @ + length(m), !.buf = R]
  <2>1. (IF \E b \in r.buf : b.idx = m.idx THEN r.buf ELSE r.buf \cup {m}) = R
    BY <1>1
  <2>. QED
    BY <2>1, Zenon DEF buf_insert
<1>3. /\ \A b \in r.buf \cup {m} : Slice(text, b)
      /\ \A a \in r.buf, b \in {m} : Apart(a, b)
  BY DEF Bufs, Apart
<1>4. /\ Cardinality(indices(r.buf)) \in Nat /\ length(m) \in Nat
      /\ Cardinality(indices(R)) = Cardinality(indices(r.buf)) + length(m)
  <2>1. Cardinality(indices({m})) = length(m)
    BY IndicesOfOne
  <2>2. /\ Cardinality(indices(r.buf)) \in Nat /\ Cardinality(indices({m})) \in Nat
        /\ Cardinality(indices(R)) = Cardinality(indices(r.buf)) + Cardinality(indices({m}))
    <3>. DEFINE M == {m}
    <3>1. /\ \A b \in r.buf \cup M : Slice(text, b)
          /\ \A a \in r.buf, b \in M : Apart(a, b)
      BY <1>3
    <3>. HIDE DEF M
    <3>2. /\ Cardinality(indices(r.buf)) \in Nat /\ Cardinality(indices(M)) \in Nat
          /\ Cardinality(indices(r.buf \cup M))
                = Cardinality(indices(r.buf)) + Cardinality(indices(M))
      BY <3>1, IndicesApart, ZenonT(40)
    <3>. QED
      BY <3>2 DEF M
  <2>. QED
    BY <2>1, <2>2
<1>5. m \in [idx : Nat, data : Seq(Byte)]
  BY DEF Slice
<1>. HIDE DEF s
<1>6. OnlyBuf(r, s) /\ s.buf = R /\ s \in ReassemblerType(Byte)
      /\ s.unassembled_bytes = r.unassembled_bytes + length(m)
  <2>. DEFINE c == r.unassembled_bytes + length(m)
  <2>1. r \in ReassemblerType(Byte) /\ R \in SegmentSets
    BY <1>5 DEF Bufs, ReassemblerType, SegmentSets
  <2>2. c \in Int /\ s = assigned(r, c, R)
    BY <1>2, <1>4 DEF Bufs, ReassemblerType, assigned
  <2>. HIDE DEF c, R
  <2>3. OnlyBuf(r, s) /\ s \in ReassemblerType(Byte) /\ s.unassembled_bytes = c /\ s.buf = R
    BY <2>1, <2>2, Assign
  <2>. QED
    BY <2>3, Zenon DEF c
<1>7. s.unassembled_bytes = Cardinality(indices(R))
  BY <1>4, <1>6 DEF Bufs
<1>8. \A a, b \in R : a # b => Apart(a, b)
  BY DEF Bufs, Apart
<1>9. Bufs(text, s)
  BY <1>3, <1>6, <1>7, <1>8 DEF Bufs
<1>. QED
  BY <1>6, <1>9 DEF s

-----------------------------------------------------------------------------
(* The output *)

\* What was read and what waits in the output are the stream's bytes in order, as many as
\* the counters say and no more than fit.
OutOK(text, r, t) ==
    /\ r \in ReassemblerType(Byte) /\ t \in Seq(Byte)
    /\ r.capacity = Capacity /\ r.output.capacity = Capacity
    /\ r.output.bytes_r = Len(t)
    /\ r.output.bytes_w = Len(t) + Len(r.output.buff)
    /\ r.output.bytes_w <= Len(text) /\ Len(r.output.buff) <= Capacity
    /\ \A k \in 1 .. Len(t) : t[k] = text[k]
    /\ \A k \in 1 .. Len(r.output.buff) : r.output.buff[k] = text[Len(t) + k]

\* The window: its bounds are in order and the whole of it can be named.
LEMMA Window ==
    ASSUME NEW text \in InStreams, NEW r, NEW t, OutOK(text, r, t)
    PROVE  /\ first_unassembled(r) \in Nat /\ first_unacceptable(r) \in Nat
           /\ first_unassembled(r) <= Len(text)
           /\ first_unassembled(r) <= first_unacceptable(r)
           /\ first_unread(r) = Len(t) /\ first_unacceptable(r) = Len(t) + Capacity
           /\ first_unacceptable(r) - first_unassembled(r) = Capacity - Len(r.output.buff)
<1>1. r.output \in ByteStreamType(Byte)
  BY DEF OutOK, ReassemblerType
<1>2. /\ Len(t) \in Nat /\ Len(r.output.buff) \in Nat /\ Len(r.output.buff) <= Capacity
      /\ r.output.bytes_r = Len(t) /\ r.capacity = Capacity
      /\ r.output.bytes_w = Len(t) + Len(r.output.buff) /\ r.output.bytes_w <= Len(text)
  BY <1>1 DEF OutOK, ByteStreamType
<1>3. Len(text) \in Nat /\ Capacity \in Nat
  BY Sizes
<1>. QED
  BY <1>2, <1>3 DEF first_unassembled, first_unread, first_unacceptable,
                     bytes_read, bytes_written

-----------------------------------------------------------------------------
(* _handle_substring *)

\* A part of a slice is a slice.
LEMMA SubSlice ==
    ASSUME NEW text \in InStreams,
           NEW b, Slice(text, b), NEW p \in 1 .. Len(b.data), NEW q \in p .. Len(b.data)
    PROVE  LET c == [idx |-> b.idx + (p - 1), data |-> SubSeq(b.data, p, q)] IN
           Slice(text, c) /\ tail_idx(c) = b.idx + (q - 1)
<1>. DEFINE d == SubSeq(b.data, p, q)
            x == b.idx + (p - 1)
            c == [idx |-> x, data |-> d]
<1>1. b.data \in Seq(Byte) /\ b.idx \in Nat /\ Len(b.data) \in Nat /\ b.idx + Len(b.data) <= Len(text)
  BY DEF Slice
<1>2. p \in Nat /\ q \in Nat /\ 1 <= p /\ p <= q /\ q <= Len(b.data)
  BY <1>1
<1>3. d \in Seq(Byte) /\ Len(d) = q - p + 1
  BY <1>1, <1>2
<1>4. \A k \in 1 .. (q - p + 1) : d[k] = b.data[p + k - 1]
  BY <1>1, <1>2
<1>5. \A k \in 1 .. (q - p + 1) : d[k] = text[x + k]
  <2>1. SUFFICES ASSUME NEW k \in 1 .. (q - p + 1) PROVE d[k] = text[x + k]
    OBVIOUS
  <2>2. p + k - 1 \in 1 .. Len(b.data) /\ b.idx + (p + k - 1) = x + k
    BY <1>1, <1>2
  <2>3. b.data[p + k - 1] = text[b.idx + (p + k - 1)]
    BY <2>2 DEF Slice
  <2>. QED
    BY <1>4, <2>2, <2>3
<1>. HIDE DEF d
<1>6. x \in Nat /\ 1 <= q - p + 1 /\ x + (q - p + 1) <= Len(text)
  BY <1>1, <1>2, Sizes, SMTT(40)
<1>. HIDE DEF x
<1>7. Slice(text, c)
  BY <1>3, <1>5, <1>6 DEF Slice
<1>8. tail_idx(c) = x + (q - p + 1) - 1
  BY <1>7, <1>3, SliceTail
<1>9. tail_idx(c) = b.idx + (q - 1)
  BY <1>8, <1>1, <1>2 DEF x
<1>. QED
  BY <1>7, <1>9 DEF x, d

\* What the two cuts leave of a segment that has a byte in the window: it holds all those
\* bytes, and reaches beyond the window's end only if it begins at the first unassembled byte.
LEMMA CutSlice ==
    ASSUME NEW text \in InStreams,
           NEW r, NEW t, OutOK(text, r, t), NEW seg, Slice(text, seg), ~outside(r, seg)
    PROVE  LET cut == trim_back(r, trim_front(r, seg), seg.idx)
               f == first_unassembled(r)
               u == first_unacceptable(r)
           IN  /\ Slice(text, cut)
               /\ cut.idx = f \/ (f < cut.idx /\ tail_idx(cut) < u)
               /\ \A i \in Nat : f <= i /\ i < u =>
                     (i \in cut.idx .. tail_idx(cut) <=> i \in seg.idx .. tail_idx(seg))
<1>. DEFINE f == first_unassembled(r)
            u == first_unacceptable(r)
            n == Len(seg.data)
            x == seg.idx
            front == trim_front(r, seg)
            cut == trim_back(r, front, seg.idx)
            Goal == /\ Slice(text, cut)
                    /\ cut.idx = f \/ (f < cut.idx /\ tail_idx(cut) < u)
                    /\ \A i \in Nat : f <= i /\ i < u =>
                          (i \in cut.idx .. tail_idx(cut) <=> i \in x .. tail_idx(seg))
<1>1. f \in Nat /\ u \in Nat /\ f <= u
  BY Window
<1>2. /\ x \in Nat /\ n \in Nat /\ 1 <= n /\ x + n <= Len(text)
      /\ tail_idx(seg) = x + n - 1
  BY SliceTail DEF Slice
<1>3. x < u /\ f <= x + n - 1
  BY <1>1, <1>2 DEF outside
<1>4. /\ Slice(text, front) /\ tail_idx(front) = x + n - 1
      /\ x < f => front.idx = f
      /\ f <= x => front = seg
  <2>1. CASE x < f
    <3>. DEFINE p == f - x + 1
    <3>1. p \in 1 .. n /\ n \in p .. n /\ x + (p - 1) = f /\ x + (n - 1) = x + n - 1
      BY <2>1, <1>1, <1>2, <1>3
    <3>2. front = [idx |-> f, data |-> SubSeq(seg.data, p, n)]
      BY <2>1 DEF trim_front, length
    <3>3. front = [idx |-> seg.idx + (p - 1), data |-> SubSeq(seg.data, p, n)]
      BY <3>1, <3>2
    <3>. HIDE DEF front, p
    <3>4. Slice(text, front) /\ tail_idx(front) = seg.idx + (n - 1)
      BY <3>1, <3>3, SubSlice
    <3>5. front.idx = f
      BY <3>2
    <3>6. tail_idx(front) = x + n - 1 /\ ~(f <= x)
      BY <3>1, <3>4, <2>1, <1>1, <1>2
    <3>. QED
      BY <3>4, <3>5, <3>6, Zenon
  <2>2. CASE ~(x < f)
    <3>1. front = seg
      BY <2>2, Zenon DEF trim_front
    <3>. QED
      BY <3>1, <2>2, <1>2
  <2>. QED
    BY <2>1, <2>2
<1>. DEFINE m == Len(front.data)
            y == front.idx
<1>5. /\ y \in Nat /\ m \in Nat /\ 1 <= m /\ y + m - 1 = x + n - 1 /\ f <= y /\ x <= y
      /\ y = f \/ y = x
  <2>1. /\ y \in Nat /\ m \in Nat /\ 1 <= m /\ tail_idx(front) = y + m - 1
    BY <1>4, SliceTail DEF Slice
  <2>2. (x < f /\ y = f) \/ (f <= x /\ y = x)
    BY <1>1, <1>2, <1>4
  <2>. HIDE DEF f, x, y, m, n, front
  <2>. QED
    BY <2>1, <2>2, <1>1, <1>2, <1>4
<1>. HIDE DEF front
<1>. HIDE DEF f, u, x, y, m, n
<1>6. ASSUME tail_idx(front) >= u
       PROVE Goal
  <2>. DEFINE q == min(m, u - x)
  <2>0. u - x \in Nat /\ 1 <= u - x
    BY <1>1, <1>2, <1>3
  <2>1. q \in Nat /\ (q = m \/ q = u - x) /\ q <= m /\ q <= u - x
    BY <2>0, <1>5 DEF min
  <2>2. cut = [front EXCEPT !.data = SubSeq(@, 1, q)]
    BY <1>6 DEF trim_back, m, u, x
  <2>3. front \in [idx : Nat, data : Seq(Byte)]
    BY <1>4 DEF Slice
  <2>. HIDE DEF q
  <2>4. 1 \in 1 .. m /\ q \in 1 .. m
    BY <2>0, <2>1, <1>5
  <2>5. cut = [idx |-> front.idx + (1 - 1), data |-> SubSeq(front.data, 1, q)]
    <3>1. cut = [idx |-> front.idx, data |-> SubSeq(front.data, 1, q)]
      BY <2>2, <2>3
    <3>2. front.idx + (1 - 1) = front.idx
      BY <1>5 DEF y
    <3>. QED
      BY <3>1, <3>2, Zenon
  <2>. HIDE DEF cut
  <2>6. Slice(text, cut) /\ tail_idx(cut) = y + (q - 1)
    BY <2>4, <2>5, <1>4, SubSlice DEF m, y
  <2>7. cut.idx = y
    BY <2>5, <1>5 DEF y
  <2>8. cut.idx = f \/ (f < cut.idx /\ tail_idx(cut) < u)
    BY <2>6, <2>7, <2>1, <1>1, <1>2, <1>5
  <2>9. ASSUME NEW i \in Nat, f <= i, i < u
        PROVE  i \in cut.idx .. tail_idx(cut) <=> i \in x .. tail_idx(seg)
    <3>1. u <= x + n - 1
      BY <1>6, <1>4
    <3>2. y <= i <=> x <= i
      BY <2>9, <1>1, <1>2, <1>5
    <3>3. i <= y + (q - 1)
      BY <2>9, <3>1, <2>1, <1>1, <1>2, <1>5, <1>3
    <3>4. i <= x + n - 1
      BY <2>9, <3>1, <1>1, <1>2
    <3>. QED
      BY <3>2, <3>3, <3>4, <2>6, <2>7, <1>2, <1>5, <2>1
  <2>. QED
    BY <2>6, <2>8, <2>9
<1>7. ASSUME ~(tail_idx(front) >= u)
       PROVE Goal
  <2>1. cut = front
    BY <1>7, Zenon DEF trim_back, u
  <2>2. tail_idx(front) < u
    BY <1>7, <1>1, <1>2, <1>4
  <2>3. ASSUME NEW i \in Nat, f <= i, i < u
        PROVE  i \in front.idx .. tail_idx(front) <=> i \in x .. tail_idx(seg)
    BY <2>3, <1>1, <1>2, <1>4, <1>5 DEF y
  <2>4. y = f \/ (f < y /\ tail_idx(front) < u)
    BY <2>2, <1>1, <1>5
  <2>. HIDE DEF cut
  <2>. QED
    BY <2>1, <2>3, <2>4, <1>4 DEF y
<1>8. Goal
  BY <1>6, <1>7
<1>. QED
  BY <1>8, Zenon DEF Goal, cut, front, f, u, x

\* Where a segment may be when push_substring looks for contiguous ones.
Placed(b, f, u) == b.idx = f \/ (f < b.idx /\ tail_idx(b) < u)

\* The segments not overlapped stay apart from the merged one.
LEMMA MergedApart ==
    ASSUME NEW text \in InStreams, NEW r, Bufs(text, r), NEW seg, Slice(text, seg),
           NEW b \in r.buf, ~overlaps(seg, b)
    PROVE  Apart(merge_seg(seg, {a \in r.buf : overlaps(seg, a)}), b)
<1>. DEFINE S == {a \in r.buf : overlaps(seg, a)}
            m == merge_seg(seg, S)
<1>1. \A a \in r.buf : Slice(text, a)
  BY DEF Bufs
<1>2. \A a \in S : Slice(text, a) /\ ~Apart(seg, a)
  BY <1>1, OverlapApart
<1>. HIDE DEF m, S
<1>3. Slice(text, m) /\ \A i \in m.idx .. tail_idx(m) : i \in indices(S \cup {seg})
  BY <1>2, MergeSlice DEF m
<1>4. \A a \in S \cup {seg} : Slice(text, a) /\ Apart(a, b)
  <2>1. Apart(seg, b)
    BY <1>1, OverlapApart
  <2>2. ASSUME NEW a \in S PROVE Apart(a, b)
    BY DEF Bufs, S
  <2>. QED
    BY <1>2, <2>1, <2>2
<1>5. /\ m.idx \in Nat /\ tail_idx(m) \in Nat /\ m.idx <= tail_idx(m)
      /\ b.idx \in Nat /\ tail_idx(b) \in Nat /\ b.idx <= tail_idx(b)
  BY <1>1, <1>3, SliceTail
<1>6. ASSUME ~Apart(m, b) PROVE FALSE
  <2>. DEFINE i == IF m.idx <= b.idx THEN b.idx ELSE m.idx
  <2>1. i \in Nat /\ i \in m.idx .. tail_idx(m) /\ i \in b.idx .. tail_idx(b)
    BY <1>5, <1>6 DEF Apart
  <2>. HIDE DEF i
  <2>2. PICK a \in S \cup {seg} : i \in a.idx .. tail_idx(a)
    BY <2>1, <1>3, InIndices
  <2>3. Apart(a, b) /\ a.idx \in Nat /\ tail_idx(a) \in Nat
    BY <1>4, SliceTail
  <2>. QED
    BY <2>1, <2>2, <2>3, <1>5 DEF Apart
<1>. QED
  BY <1>6 DEF m, S

\* _handle_overlap loses no byte and keeps the segments apart and in their places.
LEMMA OverlapKeeps ==
    ASSUME NEW text \in InStreams, NEW r, Bufs(text, r), NEW seg, Slice(text, seg)
    PROVE  LET s == handle_overlap(r, seg) IN
           /\ Bufs(text, s) /\ OnlyBuf(r, s)
           /\ \A i : i \in indices(s.buf) <=> i \in indices(r.buf) \/ i \in seg.idx .. tail_idx(seg)
           /\ \A f, u \in Nat : (\A b \in r.buf \cup {seg} : Placed(b, f, u))
                                  => \A b \in s.buf : Placed(b, f, u)
<1>. DEFINE S == {b \in r.buf : overlaps(seg, b)}
            m == merge_seg(seg, S)
            e == buf_erase(r, S)
            s == handle_overlap(r, seg)
            all == S \cup {seg}
<1>1. \A b \in r.buf : Slice(text, b)
  BY DEF Bufs
<1>2. \A b \in S : Slice(text, b) /\ ~Apart(seg, b)
  BY <1>1, OverlapApart
<1>3. s = buf_insert(e, m)
  BY Zenon DEF handle_overlap
<1>4. S \in SUBSET r.buf
  OBVIOUS
<1>5. \A b \in r.buf \ S : Apart(m, b)
  BY MergedApart
<1>. HIDE DEF S, m, e, s
<1>6. Bufs(text, e) /\ OnlyBuf(r, e) /\ e.buf = r.buf \ S
  BY <1>4, EraseKeeps DEF e
<1>7. /\ Slice(text, m)
      /\ \E a \in all : m.idx = a.idx
      /\ \E a \in all : tail_idx(m) = tail_idx(a)
      /\ \A b \in all : m.idx <= b.idx /\ tail_idx(b) <= tail_idx(m)
      /\ \A i \in m.idx .. tail_idx(m) : i \in indices(all)
  BY <1>2, MergeSlice DEF m
<1>. HIDE DEF all
<1>8. Bufs(text, s) /\ OnlyBuf(e, s) /\ s.buf = (r.buf \ S) \cup {m}
  BY <1>3, <1>5, <1>6, <1>7, InsertKeeps
<1>9. OnlyBuf(r, s)
  BY <1>6, <1>8 DEF OnlyBuf
<1>10. \A b \in all : b.idx \in Nat /\ tail_idx(b) \in Nat
  BY <1>2, SliceTail DEF all
<1>11. m.idx \in Nat /\ tail_idx(m) \in Nat
  BY <1>7, SliceTail
<1>12. ASSUME NEW i PROVE i \in m.idx .. tail_idx(m) <=> i \in indices(all)
  <2>1. ASSUME i \in indices(all) PROVE i \in m.idx .. tail_idx(m)
    <3>1. PICK b \in all : i \in b.idx .. tail_idx(b)
      BY <2>1, InIndices
    <3>. QED
      BY <3>1, <1>7, <1>10, <1>11
  <2>. QED
    BY <2>1, <1>7
<1>13. ASSUME NEW i
       PROVE  i \in indices(s.buf) <=> i \in indices(r.buf) \/ i \in seg.idx .. tail_idx(seg)
  <2>1. i \in indices(s.buf) <=> (\E b \in r.buf \ S : i \in b.idx .. tail_idx(b))
                                   \/ i \in m.idx .. tail_idx(m)
    BY <1>8, InIndices
  <2>2. i \in m.idx .. tail_idx(m) <=> (\E b \in S : i \in b.idx .. tail_idx(b))
                                         \/ i \in seg.idx .. tail_idx(seg)
    BY <1>12, InIndices DEF all
  <2>3. i \in indices(r.buf) <=> (\E b \in r.buf \ S : i \in b.idx .. tail_idx(b))
                                   \/ (\E b \in S : i \in b.idx .. tail_idx(b))
    BY <1>4, InIndices, Zenon
  <2>. QED
    BY <2>1, <2>2, <2>3
<1>14. ASSUME NEW f \in Nat, NEW u \in Nat, \A b \in r.buf \cup {seg} : Placed(b, f, u)
       PROVE  \A b \in s.buf : Placed(b, f, u)
  <2>1. \A b \in all : Placed(b, f, u)
    BY <1>4, <1>14 DEF all
  <2>2. PICK a1 \in all : m.idx = a1.idx
    BY <1>7
  <2>3. PICK a2 \in all : tail_idx(m) = tail_idx(a2)
    BY <1>7
  <2>4. Placed(m, f, u)
    <3>1. Placed(a1, f, u) /\ Placed(a2, f, u)
      BY <2>1
    <3>2. m.idx <= a2.idx
      BY <1>7
    <3>. QED
      BY <3>1, <3>2, <2>2, <2>3, <1>10, <1>11 DEF Placed
  <2>. QED
    BY <1>8, <1>14, <2>4
<1>. QED
  BY <1>8, <1>9, <1>13, <1>14 DEF s

\* The state of the object between _handle_substring and the writing of what has become
\* contiguous, and t, what has been read from its output.
Stored(text, r, t) ==
    /\ OutOK(text, r, t) /\ Bufs(text, r)
    /\ \A b \in r.buf : Placed(b, first_unassembled(r), first_unacceptable(r))
    /\ r.eof => r.eof_index = Len(text)
    /\ input_ended(r.output) => r.eof /\ first_unassembled(r) = Len(text)

\* OutOK and the end of input do not look at _buf.
LEMMA StoredOnlyBuf ==
    ASSUME NEW text \in InStreams,
           NEW r, NEW s, NEW t, Stored(text, r, t), Bufs(text, s), OnlyBuf(r, s),
           \A b \in s.buf : Placed(b, first_unassembled(r), first_unacceptable(r))
    PROVE  /\ Stored(text, s, t)
           /\ first_unassembled(s) = first_unassembled(r)
           /\ first_unacceptable(s) = first_unacceptable(r)
<1>1. /\ first_unassembled(s) = first_unassembled(r)
      /\ first_unacceptable(s) = first_unacceptable(r)
  BY DEF OnlyBuf, first_unassembled, first_unacceptable, first_unread
<1>2. OutOK(text, s, t)
  BY DEF Stored, OutOK, OnlyBuf, Bufs
<1>3. s.eof => s.eof_index = Len(text)
  BY DEF Stored, OnlyBuf
<1>4. input_ended(s.output) => s.eof /\ first_unassembled(s) = Len(text)
  BY <1>1 DEF Stored, OnlyBuf
<1>. QED
  BY <1>1, <1>2, <1>3, <1>4 DEF Stored

\* _handle_substring: of the window it comes to hold what it held and what it was given.
LEMMA StoreKeeps ==
    ASSUME NEW text \in InStreams, NEW r, NEW t, Stored(text, r, t), NEW seg, Slice(text, seg)
    PROVE  LET s == handle_substring(r, seg)
               f == first_unassembled(r)
               u == first_unacceptable(r)
           IN  /\ Stored(text, s, t) /\ OnlyBuf(r, s)
               /\ first_unassembled(s) = f /\ first_unacceptable(s) = u
               /\ \A i \in Nat : f <= i /\ i < u =>
                     (i \in indices(s.buf) <=>
                        i \in indices(r.buf) \/ i \in seg.idx .. tail_idx(seg))
<1>. DEFINE f == first_unassembled(r)
            u == first_unacceptable(r)
            s == handle_substring(r, seg)
            cut == trim_back(r, trim_front(r, seg), seg.idx)
            Gained(q, b) == \A i \in Nat : f <= i /\ i < u =>
                (i \in indices(q.buf) <=> i \in indices(r.buf) \/ i \in b.idx .. tail_idx(b))
            Kept(q) == /\ Stored(text, q, t) /\ OnlyBuf(r, q)
                       /\ first_unassembled(q) = f /\ first_unacceptable(q) = u
<1>1. OutOK(text, r, t) /\ Bufs(text, r) /\ \A b \in r.buf : Placed(b, f, u)
  BY DEF Stored
<1>2. f \in Nat /\ u \in Nat /\ f <= u
  BY <1>1, Window
<1>3. ASSUME outside(r, seg) PROVE Kept(s) /\ Gained(s, seg)
  <2>1. s = r
    BY <1>3, Zenon DEF handle_substring
  <2>2. seg.idx >= u \/ tail_idx(seg) < f
    BY <1>3, Zenon DEF outside
  <2>3. \A i \in Nat : f <= i /\ i < u => ~(i \in seg.idx .. tail_idx(seg))
    BY <2>2, <1>2, SliceTail
  <2>. QED
    BY <2>1, <2>3 DEF OnlyBuf
<1>4. ASSUME ~outside(r, seg) PROVE Kept(s) /\ Gained(s, seg)
  <2>1. /\ Slice(text, cut) /\ Placed(cut, f, u)
        /\ \A i \in Nat : f <= i /\ i < u =>
              (i \in cut.idx .. tail_idx(cut) <=> i \in seg.idx .. tail_idx(seg))
    BY <1>1, <1>4, CutSlice, Zenon DEF Placed
  <2>2. s = IF r.buf = {} THEN buf_insert(r, cut) ELSE handle_overlap(r, cut)
    BY <1>4, Zenon DEF handle_substring
  <2>. HIDE DEF cut, s
  <2>3. /\ Bufs(text, s) /\ OnlyBuf(r, s)
        /\ \A i : i \in indices(s.buf) <=> i \in indices(r.buf) \/ i \in cut.idx .. tail_idx(cut)
        /\ \A b \in s.buf : Placed(b, f, u)
    <3>1. CASE r.buf = {}
      <4>1. s = buf_insert(r, cut)
        BY <2>2, <3>1, Zenon
      <4>2. Bufs(text, s) /\ OnlyBuf(r, s) /\ s.buf = r.buf \cup {cut}
        BY <4>1, <3>1, <2>1, <1>1, InsertKeeps
      <4>3. \A i : i \in indices(s.buf) <=>
                      i \in indices(r.buf) \/ i \in cut.idx .. tail_idx(cut)
        BY <4>2, InIndices
      <4>. QED
        BY <4>2, <4>3, <1>1, <2>1
    <3>2. CASE r.buf # {}
      <4>1. s = handle_overlap(r, cut)
        BY <2>2, <3>2, Zenon
      <4>2. \A b \in r.buf \cup {cut} : Placed(b, f, u)
        BY <1>1, <2>1
      <4>3. /\ Bufs(text, s) /\ OnlyBuf(r, s)
            /\ \A i : i \in indices(s.buf) <=>
                        i \in indices(r.buf) \/ i \in cut.idx .. tail_idx(cut)
            /\ \A ff, uu \in Nat : (\A b \in r.buf \cup {cut} : Placed(b, ff, uu))
                                  => \A b \in s.buf : Placed(b, ff, uu)
        BY <4>1, <1>1, <2>1, OverlapKeeps, Zenon
      <4>4. \A b \in s.buf : Placed(b, f, u)
        BY <4>2, <4>3, <1>2
      <4>. QED
        BY <4>3, <4>4
    <3>. QED
      BY <3>1, <3>2
  <2>4. Kept(s)
    BY <2>3, StoredOnlyBuf
  <2>. QED
    BY <2>1, <2>3, <2>4
<1>. QED
  BY <1>3, <1>4

-----------------------------------------------------------------------------
(* Writing what has become contiguous *)

\* reassembled_end is the first byte of the window that is missing, or the window's end.
LEMMA EndOfRun ==
    ASSUME NEW text \in InStreams, NEW r, NEW t, Stored(text, r, t)
    PROVE  LET f == first_unassembled(r)
               u == first_unacceptable(r)
               e == reassembled_end(r)
           IN  /\ e \in Nat /\ f <= e /\ e <= u /\ e <= Len(text)
               /\ \A i \in f .. (e - 1) : i \in indices(r.buf)
               /\ e = u \/ e \notin indices(r.buf)
               /\ input_ended(r.output) => e = f
<1>. DEFINE f == first_unassembled(r)
            u == first_unacceptable(r)
            e == reassembled_end(r)
            X == indices(r.buf)
<1>1. f \in Nat /\ u \in Nat /\ f <= u /\ f <= Len(text)
  BY Window DEF Stored
<1>2. X \subseteq 0 .. (Len(text) - 1)
  BY IndicesFinite DEF Stored, Bufs
<1>3. /\ e \in f .. u /\ f .. (e - 1) \subseteq X /\ (e = u \/ e \notin X)
      /\ input_ended(r.output) => e = f
  <2>1. CASE input_ended(r.output)
    <3>1. e = f
      BY <2>1, Zenon DEF reassembled_end
    <3>2. f \notin X
      BY <2>1, <1>2, Sizes DEF Stored
    <3>. QED
      BY <3>1, <3>2, <1>1
  <2>2. CASE ~input_ended(r.output)
    <3>1. e = CHOOSE x \in f .. u : f .. (x - 1) \subseteq X /\ (x = u \/ x \notin X)
      BY <2>2, Zenon DEF reassembled_end
    <3>. HIDE DEF e, X, f, u
    <3>2. \E x \in f .. u : f .. (x - 1) \subseteq X /\ (x = u \/ x \notin X)
      BY <1>1, FirstGap
    <3>3. e \in f .. u /\ f .. (e - 1) \subseteq X /\ (e = u \/ e \notin X)
      BY <3>1, <3>2, Zenon
    <3>. QED
      BY <3>3, <2>2
  <2>. QED
    BY <2>1, <2>2
<1>. HIDE DEF e, X, f, u
<1>4. e \in Nat /\ f <= e /\ e <= u
  BY <1>1, <1>3
<1>5. e <= Len(text)
  <2>1. CASE e = f
    BY <2>1, <1>1
  <2>2. CASE e # f
    <3>1. e - 1 \in f .. (e - 1)
      BY <2>2, <1>1, <1>4
    <3>2. e - 1 \in 0 .. (Len(text) - 1)
      BY <3>1, <1>2, <1>3
    <3>. QED
      BY <3>2, <1>4, Sizes
  <2>. QED
    BY <2>1, <2>2
<1>. QED
  BY <1>3, <1>4, <1>5 DEF e, X, f, u

\* The bytes buffered for a run of indexes are the stream's.
LEMMA BufferedRun ==
    ASSUME NEW text \in InStreams,
           NEW r, \A b \in r.buf : Slice(text, b), NEW f \in Nat, NEW e \in Nat, f <= e,
           \A i \in f .. (e - 1) : i \in indices(r.buf)
    PROVE  LET d == buffered(r, f, e) IN
           d \in Seq(Byte) /\ Len(d) = e - f /\ \A k \in 1 .. (e - f) : d[k] = text[f + k]
<1>. DEFINE pick(k) == CHOOSE b \in r.buf : covers(b, f + k - 1)
            d == [k \in 1 .. (e - f) |-> pick(k).data[f + k - pick(k).idx]]
<1>1. buffered(r, f, e) = d
  BY Zenon DEF buffered
<1>2. ASSUME NEW k \in 1 .. (e - f)
      PROVE  pick(k).data[f + k - pick(k).idx] = text[f + k] /\ text[f + k] \in Byte
  <2>. DEFINE i == f + k - 1
              b == pick(k)
  <2>1. i \in f .. (e - 1) /\ i \in Nat /\ f + k = i + 1
    OBVIOUS
  <2>2. \E c \in r.buf : covers(c, f + k - 1)
    <3>1. PICK c \in r.buf : i \in c.idx .. tail_idx(c)
      BY <2>1, InIndices
    <3>2. c.idx \in Nat /\ tail_idx(c) \in Nat
      BY SliceTail
    <3>. QED
      BY <3>1, <3>2 DEF covers
  <2>3. b \in r.buf /\ covers(b, i)
    BY <2>2, Zenon
  <2>. HIDE DEF b, i
  <2>4. Slice(text, b)
    BY <2>3
  <2>5. /\ b.idx \in Nat /\ Len(b.data) \in Nat /\ tail_idx(b) = b.idx + Len(b.data) - 1
        /\ tail_idx(b) < Len(text) /\ b.idx <= i /\ i <= tail_idx(b)
    BY <2>3, <2>4, SliceTail DEF covers
  <2>6. i + 1 - b.idx \in 1 .. Len(b.data)
    BY <2>1, <2>5
  <2>7. b.data[i + 1 - b.idx] = text[b.idx + (i + 1 - b.idx)]
    BY <2>4, <2>6 DEF Slice
  <2>8. /\ b.idx + (i + 1 - b.idx) = f + k /\ f + k \in 1 .. Len(text)
        /\ f + k - b.idx = i + 1 - b.idx
    <3>1. i + 1 \in 1 .. Len(text)
      BY <2>1, <2>5, Sizes, SMTT(40)
    <3>2. b.idx + (i + 1 - b.idx) = i + 1
      BY <2>1, <2>5
    <3>3. b.idx \in Int /\ i \in Int /\ f + k = i + 1
      BY <2>1, <2>5
    <3>4. f + k - b.idx = i + 1 - b.idx
      BY <3>3
    <3>. QED
      BY <3>1, <3>2, <3>3, <3>4
  <2>9. b.data[f + k - b.idx] = text[f + k]
    BY <2>7, <2>8
  <2>10. text[f + k] \in Byte
    BY <2>8, Text
  <2>. QED
    BY <2>9, <2>10, Zenon DEF b
<1>. HIDE DEF pick
<1>3. d \in Seq(Byte) /\ Len(d) = e - f /\ \A k \in 1 .. (e - f) : d[k] = text[f + k]
  <2>. DEFINE n == e - f
              byte(k) == pick(k).data[f + k - pick(k).idx]
              at(k) == text[f + k]
  <2>1. n \in Nat
    OBVIOUS
  <2>2. \A k \in 1 .. n : byte(k) = at(k) /\ at(k) \in Byte
    BY <1>2
  <2>3. d = [k \in 1 .. n |-> byte(k)]
    OBVIOUS
  <2>. HIDE DEF n, byte, at, d
  <2>4. d \in Seq(Byte) /\ Len(d) = n /\ \A k \in 1 .. n : d[k] = at(k)
    BY <2>1, <2>2, <2>3
  <2>. QED
    BY <2>4 DEF n, at
<1>. QED
  BY <1>1, <1>3, Zenon

\* The bytes of two sequences joined.
LEMMA Joined ==
    ASSUME NEW a \in Seq(Byte), NEW c \in Seq(Byte)
    PROVE  /\ a \o c \in Seq(Byte) /\ Len(a \o c) = Len(a) + Len(c)
           /\ Len(a) \in Nat /\ Len(c) \in Nat
           /\ \A k \in 1 .. Len(a) : (a \o c)[k] = a[k]
           /\ \A k \in 1 .. Len(c) : (a \o c)[Len(a) + k] = c[k]
  OBVIOUS

\* bs_write of the stream's next bytes, when they fit.
LEMMA WriteNext ==
    ASSUME NEW text \in InStreams,
           NEW r, NEW t, OutOK(text, r, t), NEW e \in Nat, NEW d \in Seq(Byte),
           first_unassembled(r) <= e, e <= first_unacceptable(r), e <= Len(text),
           Len(d) = e - first_unassembled(r),
           \A k \in 1 .. Len(d) : d[k] = text[first_unassembled(r) + k],
           input_ended(r.output) => e = first_unassembled(r),
           NEW s \in ReassemblerType(Byte), s.output = bs_write(r.output, d),
           s.capacity = r.capacity
    PROVE  /\ OutOK(text, s, t) /\ first_unassembled(s) = e
           /\ first_unacceptable(s) = first_unacceptable(r)
           /\ input_ended(s.output) = input_ended(r.output)
<1>. DEFINE f == first_unassembled(r)
            n == write_size(r.output, d)
            o == r.output
            B == o.buff
            b == Len(B)
            h == Len(t)
            u == first_unacceptable(r)
<1>1. f \in Nat /\ u \in Nat /\ f <= Len(text) /\ u - f = Capacity - b
  BY Window
<1>2. /\ o \in ByteStreamType(Byte) /\ B \in Seq(Byte) /\ b \in Nat /\ h \in Nat
      /\ o.capacity = Capacity /\ o.bytes_w = f /\ f = h + b
  <2>1. o \in ByteStreamType(Byte)
    BY DEF OutOK, ReassemblerType
  <2>2. o.capacity = Capacity /\ o.bytes_w = h + b /\ t \in Seq(Byte)
    BY DEF OutOK
  <2>3. B \in Seq(Byte)
    BY <2>1 DEF ByteStreamType
  <2>4. o.bytes_w = f
    BY DEF first_unassembled, bytes_written
  <2>5. b \in Nat /\ h \in Nat
    BY <2>2, <2>3
  <2>. QED
    BY <2>1, <2>2, <2>3, <2>4, <2>5
<1>3. n = Len(d) /\ n = e - f /\ Len(d) \in Nat
  <2>0. Len(d) \in Nat /\ Len(d) = e - f /\ e <= u
    OBVIOUS
  <2>1. Len(d) <= Capacity - b
    <3>. HIDE DEF f, u, b
    <3>. QED
      BY <2>0, <1>1, <1>2, Sizes
  <2>2. CASE input_ended(o)
    BY <2>0, <2>2, <1>1 DEF write_size
  <2>3. CASE ~input_ended(o)
    <3>1. n = min(Len(d), Capacity - b)
      BY <2>3, <1>2 DEF write_size, remaining_capacity
    <3>. HIDE DEF n, b, f
    <3>. QED
      BY <3>1, <2>0, <2>1, <1>1, <1>2, Sizes DEF min
  <2>. QED
    BY <2>2, <2>3
<1>4. s.output = [o EXCEPT !.bytes_w = @ + n, !.buff = @ \o SubSeq(d, 1, n)]
  BY Zenon DEF bs_write
<1>. HIDE DEF n
<1>. DEFINE D == SubSeq(d, 1, n)
            B2 == B \o D
<1>5. D \in Seq(Byte) /\ Len(D) = n /\ \A k \in 1 .. n : D[k] = d[k]
  BY <1>3
<1>. HIDE DEF D
<1>6. /\ B2 \in Seq(Byte) /\ Len(B2) = b + n
      /\ \A k \in 1 .. b : B2[k] = B[k]
      /\ \A k \in 1 .. n : B2[b + k] = D[k]
  <2>1. B \in Seq(Byte) /\ D \in Seq(Byte) /\ Len(D) = n
    BY <1>2, <1>5
  <2>. HIDE DEF B
  <2>. QED
    BY <2>1, Joined DEF b
<1>7. /\ s.output.buff = B2 /\ s.output.bytes_w = f + n /\ s.output.bytes_r = o.bytes_r
      /\ s.output.capacity = Capacity /\ s.output.end_input = o.end_input
  BY <1>2, <1>4 DEF ByteStreamType, D
<1>. HIDE DEF B2
<1>8. \A k \in 1 .. Len(B2) : B2[k] = text[Len(t) + k]
  <2>1. SUFFICES ASSUME NEW k \in 1 .. Len(B2) PROVE B2[k] = text[Len(t) + k]
    OBVIOUS
  <2>. HIDE DEF b, h, f
  <2>2. CASE k <= b
    <3>1. k \in 1 .. b
      BY <2>2, <1>2, <1>3, <1>6
    <3>2. B[k] = text[Len(t) + k]
      BY <3>1 DEF OutOK, b
    <3>. QED
      BY <3>1, <3>2, <1>6
  <2>3. CASE ~(k <= b)
    <3>. DEFINE j == k - b
    <3>1. j \in 1 .. n /\ k = b + j /\ f + j = h + k
      BY <2>3, <1>2, <1>3, <1>6
    <3>2. d[j] = text[f + j]
      BY <3>1, <1>3 DEF f
    <3>. HIDE DEF j
    <3>3. B2[b + j] = d[j]
      BY <3>1, <1>5, <1>6
    <3>4. B2[k] = text[h + k]
      BY <3>1, <3>2, <3>3
    <3>. QED
      BY <3>4 DEF h
  <2>. QED
    BY <2>2, <2>3
<1>9. /\ f + n = e /\ f + n = h + Len(B2) /\ Len(B2) <= Capacity
  <2>1. e <= u
    OBVIOUS
  <2>2. Len(text) \in Nat /\ Capacity \in Nat
    BY Sizes
  <2>. HIDE DEF f, u, b, h
  <2>. QED
    BY <2>1, <2>2, <1>1, <1>2, <1>3, <1>6
<1>10. OutOK(text, s, t)
  BY <1>7, <1>8, <1>9 DEF OutOK
<1>11. first_unassembled(s) = e /\ input_ended(s.output) = input_ended(r.output)
       /\ first_unacceptable(s) = first_unacceptable(r)
  BY <1>7, <1>9 DEF first_unassembled, first_unacceptable, first_unread, bytes_written,
                    bytes_read, input_ended
<1>. QED
  BY <1>10, <1>11

\* r after an assignment to _output.
with_output(r, o) == [r EXCEPT !.output = o]

\* An assignment to _output keeps the rest of the object, and its types.
LEMMA NewOutput ==
    ASSUME NEW r \in ReassemblerType(Byte), NEW o \in ByteStreamType(Byte)
    PROVE  LET s == with_output(r, o) IN
           /\ s \in ReassemblerType(Byte) /\ s.output = o
           /\ s.capacity = r.capacity /\ s.eof = r.eof /\ s.eof_index = r.eof_index
           /\ s.buf = r.buf /\ s.unassembled_bytes = r.unassembled_bytes
<1>. DEFINE s == with_output(r, o)
            OO == ByteStreamType(Byte)
<1>1. r \in [output : OO, capacity : Nat, eof_index : Nat,
            unassembled_bytes : Int, eof : BOOLEAN, buf : SegmentSets]
  BY Zenon DEF ReassemblerType, SegmentSets
<1>2. o \in OO
  OBVIOUS
<1>. HIDE DEF OO
<1>3. /\ s \in [output : OO, capacity : Nat, eof_index : Nat,
               unassembled_bytes : Int, eof : BOOLEAN, buf : SegmentSets]
      /\ s.output = o
      /\ s.capacity = r.capacity /\ s.eof = r.eof /\ s.eof_index = r.eof_index
      /\ s.buf = r.buf /\ s.unassembled_bytes = r.unassembled_bytes
  BY <1>1, <1>2 DEF with_output
<1>4. s \in ReassemblerType(Byte)
  BY <1>3, Zenon DEF ReassemblerType, SegmentSets, OO
<1>. QED
  BY <1>3, <1>4

\* bs_write of bytes gives a ByteStream.
LEMMA WriteType ==
    ASSUME NEW o \in ByteStreamType(Byte), NEW d \in Seq(Byte), Len(o.buff) <= o.capacity
    PROVE  bs_write(o, d) \in ByteStreamType(Byte)
<1>. DEFINE n == write_size(o, d)
            D == SubSeq(d, 1, n)
<1>1. /\ o.buff \in Seq(Byte) /\ Len(o.buff) \in Nat /\ o.capacity \in Nat /\ Len(d) \in Nat
      /\ o.bytes_w \in Nat
  BY DEF ByteStreamType
<1>2. n \in Nat /\ n <= Len(d)
  BY <1>1 DEF write_size, min, remaining_capacity
<1>3. bs_write(o, d) = [o EXCEPT !.bytes_w = @ + n, !.buff = @ \o D]
  BY Zenon DEF bs_write
<1>. HIDE DEF n
<1>4. D \in Seq(Byte)
  BY <1>2
<1>. HIDE DEF D
<1>5. o.buff \o D \in Seq(Byte) /\ o.bytes_w + n \in Nat
  BY <1>1, <1>2, <1>4, Joined
<1>. QED
  BY <1>3, <1>5 DEF ByteStreamType

\* The state of the object after what was contiguous has been written.
Written(text, r, t) ==
    /\ OutOK(text, r, t) /\ Bufs(text, r)
    /\ \A b \in r.buf : /\ first_unassembled(r) < b.idx
                        /\ tail_idx(b) < first_unacceptable(r)
    /\ r.eof => r.eof_index = Len(text)
    /\ input_ended(r.output) => r.eof /\ first_unassembled(r) = Len(text)

\* The bytes of the window the object holds or has passed on.
Holds(r, i) == i < first_unassembled(r) \/ i \in indices(r.buf)

\* Writing moves bytes of the window from _buf to the output and forgets none.
LEMMA WriteKeeps ==
    ASSUME NEW text \in InStreams, NEW r, NEW t, Stored(text, r, t)
    PROVE  LET w == write_contiguous(r) IN
           /\ Written(text, w, t) /\ w.eof = r.eof
           /\ first_unacceptable(w) = first_unacceptable(r)
           /\ first_unassembled(r) <= first_unassembled(w)
           /\ input_ended(w.output) = input_ended(r.output)
           /\ \A i \in Nat : i < first_unacceptable(r) => (Holds(w, i) <=> Holds(r, i))
<1>. DEFINE f == first_unassembled(r)
            u == first_unacceptable(r)
            e == reassembled_end(r)
            done == {b \in r.buf : b.idx = f \/ b.idx < e}
            d == buffered(r, f, e)
            x == buf_erase(r, done)
            o == bs_write(r.output, d)
            w == write_contiguous(r)
            X == indices(r.buf)
<1>1. /\ OutOK(text, r, t) /\ Bufs(text, r) /\ r \in ReassemblerType(Byte)
      /\ \A b \in r.buf : Slice(text, b) /\ Placed(b, f, u)
      /\ r.eof => r.eof_index = Len(text)
      /\ input_ended(r.output) => r.eof /\ f = Len(text)
  BY DEF Stored, Bufs
<1>2. f \in Nat /\ u \in Nat /\ f <= u
  BY <1>1, Window
<1>3. /\ e \in Nat /\ f <= e /\ e <= u /\ e <= Len(text)
      /\ \A i \in f .. (e - 1) : i \in X
      /\ e = u \/ e \notin X
      /\ input_ended(r.output) => e = f
  BY EndOfRun
<1>4. d \in Seq(Byte) /\ Len(d) = e - f /\ \A k \in 1 .. (e - f) : d[k] = text[f + k]
  <2>1. \A i \in f .. (e - 1) : i \in indices(r.buf)
    BY <1>3
  <2>2. (\A b \in r.buf : Slice(text, b)) /\ f \in Nat /\ e \in Nat /\ f <= e
    BY <1>1, <1>2, <1>3
  <2>. HIDE DEF f, e
  <2>. QED
    BY <2>1, <2>2, BufferedRun
<1>5. Bufs(text, x) /\ OnlyBuf(r, x) /\ x.buf = r.buf \ done
  <2>1. done \in SUBSET r.buf
    OBVIOUS
  <2>. HIDE DEF done
  <2>. QED
    BY <2>1, <1>1, EraseKeeps
<1>6. w = with_output(x, o)
  <2>1. w = [x EXCEPT !.output = bs_write(@, d)]
    BY Zenon DEF write_contiguous
  <2>2. x.output = r.output
    BY <1>5 DEF OnlyBuf
  <2>. HIDE DEF x, w, d
  <2>. QED
    BY <2>1, <2>2 DEF with_output
<1>. HIDE DEF e, d, x, w, done
<1>7. o \in ByteStreamType(Byte)
  BY <1>1, <1>4, WriteType DEF ReassemblerType, OutOK
<1>. HIDE DEF o
<1>8. /\ w \in ReassemblerType(Byte) /\ w.output = o /\ w.capacity = r.capacity
      /\ w.eof = r.eof /\ w.eof_index = r.eof_index /\ w.buf = r.buf \ done
      /\ w.unassembled_bytes = x.unassembled_bytes
  BY <1>5, <1>6, <1>7, NewOutput DEF Bufs, OnlyBuf
<1>9. /\ OutOK(text, w, t) /\ first_unassembled(w) = e /\ first_unacceptable(w) = u
      /\ input_ended(w.output) = input_ended(r.output)
  BY <1>1, <1>3, <1>4, <1>8, WriteNext DEF o
<1>10. Bufs(text, w)
  BY <1>5, <1>8 DEF Bufs
<1>11. \A b \in r.buf : b.idx \in Nat /\ tail_idx(b) \in Nat /\ b.idx <= tail_idx(b)
  BY <1>1, SliceTail
<1>. HIDE DEF f, u, X
<1>12. ASSUME NEW b \in w.buf PROVE e < b.idx /\ tail_idx(b) < u
  <2>1. b \in r.buf /\ b.idx # f /\ ~(b.idx < e)
    BY <1>8 DEF done
  <2>2. f < b.idx /\ tail_idx(b) < u
    BY <2>1, <1>1 DEF Placed
  <2>3. b.idx # e
    <3>1. SUFFICES ASSUME b.idx = e PROVE FALSE
      OBVIOUS
    <3>2. e \notin X
      BY <3>1, <2>1, <2>2, <1>2, <1>3, <1>11
    <3>3. b.idx \in b.idx .. tail_idx(b)
      BY <2>1, <1>11
    <3>. QED
      BY <3>1, <3>2, <3>3, <2>1, InIndices DEF X
  <2>. QED
    BY <2>1, <2>2, <2>3, <1>3, <1>11
<1>13. ASSUME NEW i \in Nat, i < u
       PROVE  i < e \/ i \in indices(w.buf) <=> i < f \/ i \in X
  <2>1. ASSUME i < e PROVE i < f \/ i \in X
    BY <2>1, <1>2, <1>3
  <2>2. ASSUME i \in indices(w.buf) PROVE i \in X
    BY <2>2, <1>8, InIndices DEF X
  <2>3. ASSUME i < f PROVE i < e
    BY <2>3, <1>2, <1>3
  <2>4. ASSUME i \in X, ~(i < e) PROVE i \in indices(w.buf)
    <3>1. PICK b \in r.buf : i \in b.idx .. tail_idx(b)
      BY <2>4, InIndices DEF X
    <3>2. b.idx <= i /\ i <= tail_idx(b) /\ e <= i /\ e # u
      BY <2>4, <3>1, <1>2, <1>3, <1>11, <1>13
    <3>3. e \notin X
      BY <3>2, <1>3
    <3>4. ~(e \in b.idx .. tail_idx(b))
      BY <3>3, InIndices DEF X
    <3>5. e < b.idx
      BY <3>2, <3>4, <1>3, <1>11
    <3>6. b \in w.buf
      BY <3>5, <1>2, <1>3, <1>8, <1>11 DEF done
    <3>. QED
      BY <3>1, <3>6, InIndices
  <2>. QED
    BY <2>1, <2>2, <2>3, <2>4
<1>14. Written(text, w, t)
  <2>1. input_ended(w.output) => w.eof /\ first_unassembled(w) = Len(text)
    BY <1>1, <1>3, <1>8, <1>9
  <2>. QED
    BY <2>1, <1>1, <1>8, <1>9, <1>10, <1>12 DEF Written
<1>. QED
  BY <1>3, <1>8, <1>9, <1>13, <1>14 DEF Holds, w, f, u, X

-----------------------------------------------------------------------------
(* push_substring and read *)

\* The inductive invariant: what push_substring and read leave, t being what has been read.
Good(text, r, t) ==
    /\ Written(text, r, t)
    /\ input_ended(r.output) <=> r.eof /\ first_unassembled(r) = Len(text)

\* Ending the input at the last byte drops no segment: none is left.
LEMMA FinishKeeps ==
    ASSUME NEW text \in InStreams, NEW r, NEW t, Written(text, r, t)
    PROVE  LET s == finish(r) IN
           /\ Good(text, s, t) /\ s.buf = r.buf /\ s.eof = r.eof
           /\ first_unassembled(s) = first_unassembled(r)
           /\ first_unacceptable(s) = first_unacceptable(r)
<1>. DEFINE s == finish(r)
<1>1. /\ OutOK(text, r, t) /\ Bufs(text, r) /\ r \in ReassemblerType(Byte)
      /\ r.eof => r.eof_index = Len(text)
  BY DEF Written, Bufs
<1>2. CASE r.eof /\ first_unassembled(r) = r.eof_index
  <2>. DEFINE o == end_input(r.output)
  <2>1. first_unassembled(r) = Len(text)
    BY <1>1, <1>2
  <2>2. r.buf = {}
    <3>1. SUFFICES ASSUME NEW b \in r.buf PROVE FALSE
      OBVIOUS
    <3>2. Len(text) < b.idx /\ Slice(text, b)
      BY <2>1 DEF Written, Bufs
    <3>. QED
      BY <3>2, SliceTail, Sizes
  <2>3. s = [r EXCEPT !.output = o, !.buf = {}]
    BY <1>2, Zenon DEF finish
  <2>4. s = with_output(r, o)
    BY <2>2, <2>3, <1>1 DEF with_output, ReassemblerType
  <2>5. r.output \in ByteStreamType(Byte)
    BY <1>1 DEF ReassemblerType
  <2>6. /\ o \in ByteStreamType(Byte) /\ o.end_input = TRUE
        /\ o.buff = r.output.buff /\ o.capacity = r.output.capacity
        /\ o.bytes_r = r.output.bytes_r /\ o.bytes_w = r.output.bytes_w
    BY <2>5 DEF end_input, ByteStreamType
  <2>. HIDE DEF o, s
  <2>7. /\ s \in ReassemblerType(Byte) /\ s.output = o
        /\ s.capacity = r.capacity /\ s.eof = r.eof /\ s.eof_index = r.eof_index
        /\ s.buf = r.buf /\ s.unassembled_bytes = r.unassembled_bytes
    BY <2>4, <2>6, <1>1, NewOutput
  <2>8. OutOK(text, s, t)
    BY <1>1, <2>6, <2>7 DEF OutOK
  <2>9. Bufs(text, s)
    BY <1>1, <2>7 DEF Bufs
  <2>10. /\ first_unassembled(s) = first_unassembled(r)
         /\ first_unacceptable(s) = first_unacceptable(r)
    BY <2>6, <2>7 DEF first_unassembled, first_unacceptable, first_unread, bytes_read,
                      bytes_written
  <2>11. input_ended(s.output) /\ s.eof /\ first_unassembled(s) = Len(text)
    BY <1>2, <2>1, <2>6, <2>7, <2>10 DEF input_ended
  <2>12. Written(text, s, t)
    BY <1>1, <2>2, <2>7, <2>8, <2>9, <2>11 DEF Written
  <2>. QED
    BY <2>7, <2>10, <2>11, <2>12 DEF Good, s
<1>3. CASE ~(r.eof /\ first_unassembled(r) = r.eof_index)
  <2>1. s = r
    BY <1>3, Zenon DEF finish
  <2>2. input_ended(r.output) <=> r.eof /\ first_unassembled(r) = Len(text)
    BY <1>1, <1>3 DEF Written
  <2>. QED
    BY <2>1, <2>2 DEF Good
<1>. QED
  BY <1>2, <1>3

\* The substring a Push action gives is a slice, when it is not empty.
LEMMA PushedSlice ==
    ASSUME NEW text \in InStreams,
           NEW index \in 0 .. Len(text), NEW len \in 0 .. Len(text), index + len <= Len(text)
    PROVE  LET data == SubSeq(text, index + 1, index + len)
               seg == [idx |-> index, data |-> data]
           IN  /\ data \in Seq(Byte) /\ Len(data) = len
               /\ data # << >> => Slice(text, seg) /\ tail_idx(seg) = index + len - 1
<1>. DEFINE data == SubSeq(text, index + 1, index + len)
            seg == [idx |-> index, data |-> data]
<1>1. index \in Nat /\ len \in Nat /\ Len(text) \in Nat
  BY Sizes
<1>2. data \in Seq(Byte) /\ Len(data) = len
  BY <1>1, Text
<1>3. \A k \in 1 .. len : data[k] = text[index + k]
  <2>1. \A k \in 1 .. len : data[k] = text[index + 1 + k - 1]
    BY <1>1, Text
  <2>2. \A k \in 1 .. len : index + 1 + k - 1 = index + k
    BY <1>1
  <2>. QED
    BY <2>1, <2>2
<1>. HIDE DEF data
<1>4. ASSUME data # << >> PROVE Slice(text, seg) /\ tail_idx(seg) = index + len - 1
  <2>1. 1 <= len
    BY <1>1, <1>2, <1>4
  <2>2. Slice(text, seg)
    BY <1>1, <1>2, <1>3, <2>1 DEF Slice
  <2>. QED
    BY <2>2, <1>2, SliceTail
<1>. QED
  BY <1>2, <1>4 DEF data

\* Noting the end of the stream.
LEMMA NoteKeeps ==
    ASSUME NEW text \in InStreams,
           NEW r, NEW t, Good(text, r, t), NEW index \in 0 .. Len(text), NEW data \in Seq(Byte),
           NEW is_eof \in BOOLEAN, is_eof => index + Len(data) = Len(text)
    PROVE  LET s == note_eof(r, data, index, is_eof) IN
           /\ Stored(text, s, t) /\ s.buf = r.buf /\ s.eof = (r.eof \/ is_eof)
           /\ first_unassembled(s) = first_unassembled(r)
           /\ first_unacceptable(s) = first_unacceptable(r)
<1>. DEFINE s == note_eof(r, data, index, is_eof)
<1>1. /\ OutOK(text, r, t) /\ Bufs(text, r) /\ r \in ReassemblerType(Byte)
      /\ r.eof => r.eof_index = Len(text)
      /\ \A b \in r.buf : Placed(b, first_unassembled(r), first_unacceptable(r))
      /\ input_ended(r.output) => r.eof /\ first_unassembled(r) = Len(text)
  BY DEF Good, Written, Bufs, Placed
<1>2. /\ s \in ReassemblerType(Byte) /\ s.output = r.output /\ s.capacity = r.capacity
      /\ s.buf = r.buf /\ s.unassembled_bytes = r.unassembled_bytes
      /\ s.eof = (r.eof \/ is_eof)
      /\ s.eof => s.eof_index = Len(text)
  <2>1. CASE is_eof
    <3>1. U64(index + Len(data)) = Len(text) /\ Len(text) \in Nat
      BY <2>1, Sizes, U64Small
    <3>2. s = [r EXCEPT !.eof_index = Len(text), !.eof = TRUE]
      BY <2>1, <3>1 DEF note_eof
    <3>. DEFINE OO == ByteStreamType(Byte)
    <3>3. r \in [output : OO, capacity : Nat, eof_index : Nat,
                unassembled_bytes : Int, eof : BOOLEAN, buf : SegmentSets]
      BY <1>1, Zenon DEF ReassemblerType, SegmentSets
    <3>. HIDE DEF OO, s
    <3>4. /\ s \in [output : OO, capacity : Nat, eof_index : Nat,
                  unassembled_bytes : Int, eof : BOOLEAN, buf : SegmentSets]
          /\ s.output = r.output /\ s.capacity = r.capacity
          /\ s.buf = r.buf /\ s.unassembled_bytes = r.unassembled_bytes
          /\ s.eof = TRUE /\ s.eof_index = Len(text)
      BY <3>1, <3>2, <3>3
    <3>5. s \in ReassemblerType(Byte)
      BY <3>4, Zenon DEF ReassemblerType, SegmentSets, OO
    <3>. QED
      BY <2>1, <3>4, <3>5
  <2>2. CASE ~is_eof
    <3>1. s = r
      BY <2>2, Zenon DEF note_eof
    <3>2. r.eof \in BOOLEAN
      BY <1>1 DEF ReassemblerType
    <3>. QED
      BY <2>2, <3>1, <3>2, <1>1
  <2>. QED
    BY <2>1, <2>2
<1>. HIDE DEF s
<1>3. /\ first_unassembled(s) = first_unassembled(r)
      /\ first_unacceptable(s) = first_unacceptable(r)
  BY <1>2 DEF first_unassembled, first_unacceptable, first_unread
<1>4. OutOK(text, s, t) /\ Bufs(text, s)
  BY <1>1, <1>2 DEF OutOK, Bufs
<1>5. Stored(text, s, t)
  BY <1>1, <1>2, <1>3, <1>4 DEF Stored
<1>. QED
  BY <1>2, <1>3, <1>5 DEF s

\* push_substring: the object remembers of the window what it held and what it is given.
LEMMA PushKeeps ==
    ASSUME NEW text \in InStreams, NEW r, NEW t, Good(text, r, t),
           NEW index \in 0 .. Len(text), NEW len \in 0 .. Len(text), NEW is_eof \in BOOLEAN,
           index + len <= Len(text), is_eof => index + len = Len(text)
    PROVE  LET s == push_substring(r, SubSeq(text, index + 1, index + len), index, is_eof) IN
           /\ Good(text, s, t) /\ s.eof = (r.eof \/ is_eof)
           /\ first_unacceptable(s) = first_unacceptable(r)
           /\ first_unassembled(r) <= first_unassembled(s)
           /\ \A i \in Nat : i < first_unacceptable(r) =>
                 (Holds(s, i) <=> Holds(r, i) \/ i \in index .. (index + len - 1))
<1>. DEFINE data == SubSeq(text, index + 1, index + len)
            seg == [idx |-> index, data |-> data]
            noted == note_eof(r, data, index, is_eof)
            stored == IF data = << >> THEN noted ELSE handle_substring(noted, seg)
            written == write_contiguous(stored)
            s == push_substring(r, data, index, is_eof)
            f == first_unassembled(r)
            u == first_unacceptable(r)
<1>0. index \in Nat /\ len \in Nat
  BY Sizes
<1>1. s = finish(written)
  BY Zenon DEF push_substring
<1>2. /\ data \in Seq(Byte) /\ Len(data) = len
      /\ data # << >> => Slice(text, seg) /\ tail_idx(seg) = index + len - 1
  BY PushedSlice
<1>3. f \in Nat /\ u \in Nat /\ f <= u
  BY Window DEF Good, Written
<1>. HIDE DEF data
<1>4. /\ Stored(text, noted, t) /\ noted.buf = r.buf /\ noted.eof = (r.eof \/ is_eof)
      /\ first_unassembled(noted) = f /\ first_unacceptable(noted) = u
  <2>1. data \in Seq(Byte) /\ (is_eof => index + Len(data) = Len(text))
    BY <1>2
  <2>. QED
    BY <2>1, NoteKeeps
<1>. HIDE DEF noted
<1>5. /\ Stored(text, stored, t) /\ stored.eof = noted.eof
      /\ first_unassembled(stored) = f /\ first_unacceptable(stored) = u
      /\ \A i \in Nat : f <= i /\ i < u =>
            (i \in indices(stored.buf) <=>
               i \in indices(r.buf) \/ i \in index .. (index + len - 1))
  <2>1. CASE data = << >>
    <3>1. len = 0
      BY <2>1, <1>2
    <3>2. \A i \in Nat : ~(i \in index .. (index + len - 1))
      BY <3>1, <1>0
    <3>3. stored = noted
      BY <2>1, Zenon
    <3>. HIDE DEF stored
    <3>. QED
      BY <3>2, <3>3, <1>4
  <2>2. CASE data # << >>
    <3>1. stored = handle_substring(noted, seg)
      BY <2>2, Zenon
    <3>2. Slice(text, seg) /\ seg.idx = index /\ tail_idx(seg) = index + len - 1
      BY <2>2, <1>2
    <3>. HIDE DEF stored, seg, f, u
    <3>3. /\ Stored(text, stored, t) /\ OnlyBuf(noted, stored)
          /\ first_unassembled(stored) = f /\ first_unacceptable(stored) = u
          /\ \A i \in Nat : f <= i /\ i < u =>
                (i \in indices(stored.buf) <=>
                   i \in indices(noted.buf) \/ i \in seg.idx .. tail_idx(seg))
      BY <3>1, <3>2, <1>4, StoreKeeps
    <3>. QED
      BY <3>2, <3>3, <1>4 DEF OnlyBuf
  <2>. QED
    BY <2>1, <2>2
<1>. HIDE DEF stored
<1>6. /\ Written(text, written, t) /\ written.eof = stored.eof
      /\ first_unacceptable(written) = u /\ f <= first_unassembled(written)
      /\ \A i \in Nat : i < u => (Holds(written, i) <=> Holds(stored, i))
  BY <1>5, WriteKeeps
<1>. HIDE DEF written
<1>7. /\ Good(text, s, t) /\ s.buf = written.buf /\ s.eof = written.eof
      /\ first_unassembled(s) = first_unassembled(written)
      /\ first_unacceptable(s) = first_unacceptable(written)
  BY <1>1, <1>6, FinishKeeps
<1>. HIDE DEF s
<1>8. ASSUME NEW i \in Nat, i < u
      PROVE  Holds(s, i) <=> Holds(r, i) \/ i \in index .. (index + len - 1)
  <2>1. Holds(s, i) <=> Holds(stored, i)
    BY <1>6, <1>7, <1>8 DEF Holds
  <2>2. CASE i < f
    BY <2>1, <2>2, <1>5 DEF Holds
  <2>3. CASE ~(i < f)
    <3>1. f <= i
      BY <2>3, <1>3
    <3>. QED
      BY <2>1, <2>3, <3>1, <1>5, <1>8 DEF Holds
  <2>. QED
    BY <2>2, <2>3
<1>. QED
  BY <1>4, <1>5, <1>6, <1>7, <1>8 DEF s, data

\* read moves bytes from the output to the reader and moves the window on.
LEMMA ReadKeeps ==
    ASSUME NEW text \in InStreams, NEW r, NEW t, Good(text, r, t), NEW len \in Nat
    PROVE  LET out == bs_read(r.output, len)
               s == [r EXCEPT !.output = out.stream]
           IN  /\ Good(text, s, t \o out.data)
               /\ s.buf = r.buf /\ s.eof = r.eof
               /\ input_ended(s.output) = input_ended(r.output)
               /\ first_unassembled(s) = first_unassembled(r)
               /\ first_unread(s) = first_unread(r) + Len(out.data)
               /\ Len(out.data) <= Len(r.output.buff) /\ Len(out.data) <= len
<1>. DEFINE o == r.output
            B == o.buff
            b == Len(B)
            h == Len(t)
            n == min(len, b)
            D == SubSeq(B, 1, n)
            B2 == SubSeq(B, n + 1, b)
            p == pop_output(o, len)
            s == with_output(r, p)
            T == t \o D
<1>1. /\ OutOK(text, r, t) /\ Bufs(text, r) /\ r \in ReassemblerType(Byte)
  BY DEF Good, Written, Bufs
<1>2. /\ o \in ByteStreamType(Byte) /\ B \in Seq(Byte) /\ b \in Nat /\ h \in Nat
      /\ t \in Seq(Byte) /\ o.bytes_w = h + b /\ b <= Capacity /\ o.bytes_r = h
  BY <1>1 DEF OutOK, ReassemblerType, ByteStreamType
<1>3. bs_read(o, len).data = D /\ bs_read(o, len).stream = p
  BY DEF bs_read, peek_output
<1>4. n \in Nat /\ n <= b /\ n <= len
  BY <1>2 DEF min
<1>5. p = [o EXCEPT !.bytes_r = @ + n, !.buff = B2]
  BY DEF pop_output
<1>. HIDE DEF n, B
<1>6. D \in Seq(Byte) /\ Len(D) = n /\ \A k \in 1 .. n : D[k] = B[k]
  BY <1>2, <1>4
<1>7. B2 \in Seq(Byte) /\ Len(B2) = b - n /\ \A k \in 1 .. (b - n) : B2[k] = B[n + k]
  <2>1. B2 \in Seq(Byte) /\ Len(B2) = b - n
    BY <1>2, <1>4
  <2>2. \A k \in 1 .. (b - n) : B2[k] = B[n + 1 + k - 1]
    BY <1>2, <1>4
  <2>3. \A k \in 1 .. (b - n) : n + 1 + k - 1 = n + k
    BY <1>2, <1>4
  <2>. QED
    BY <2>1, <2>2, <2>3
<1>8. /\ p \in ByteStreamType(Byte) /\ p.buff = B2 /\ p.bytes_r = h + n
      /\ p.bytes_w = o.bytes_w /\ p.capacity = o.capacity /\ p.end_input = o.end_input
  <2>. HIDE DEF p, B2, h, o
  <2>1. h + n \in Nat
    BY <1>2, <1>4
  <2>. QED
    BY <1>2, <1>5, <1>7, <2>1 DEF ByteStreamType
<1>. HIDE DEF p, D, B2
<1>9. /\ s \in ReassemblerType(Byte) /\ s.output = p
      /\ s.capacity = r.capacity /\ s.eof = r.eof /\ s.eof_index = r.eof_index
      /\ s.buf = r.buf /\ s.unassembled_bytes = r.unassembled_bytes
  BY <1>1, <1>8, NewOutput
<1>10. /\ T \in Seq(Byte) /\ Len(T) = h + n
       /\ \A k \in 1 .. h : T[k] = t[k]
       /\ \A k \in 1 .. n : T[h + k] = D[k]
  BY <1>2, <1>6, Joined
<1>. HIDE DEF s, T
<1>11. \A k \in 1 .. Len(T) : T[k] = text[k]
  <2>1. SUFFICES ASSUME NEW k \in 1 .. Len(T) PROVE T[k] = text[k]
    OBVIOUS
  <2>. HIDE DEF h, b
  <2>2. CASE k <= h
    <3>1. k \in 1 .. h
      BY <2>2, <1>2, <1>4, <1>10
    <3>2. t[k] = text[k]
      BY <3>1, <1>1 DEF OutOK, h
    <3>. QED
      BY <3>1, <3>2, <1>10
  <2>3. CASE ~(k <= h)
    <3>. DEFINE j == k - h
    <3>1. j \in 1 .. n /\ k = h + j /\ j \in 1 .. b
      BY <2>3, <1>2, <1>4, <1>10
    <3>. HIDE DEF j
    <3>2. B[j] = text[h + j]
      BY <3>1, <1>1 DEF OutOK, h, b, B
    <3>. QED
      BY <3>1, <3>2, <1>6, <1>10
  <2>. QED
    BY <2>2, <2>3
<1>12. \A k \in 1 .. Len(B2) : B2[k] = text[Len(T) + k]
  <2>1. SUFFICES ASSUME NEW k \in 1 .. Len(B2) PROVE B2[k] = text[Len(T) + k]
    OBVIOUS
  <2>. HIDE DEF h, b
  <2>2. k \in 1 .. (b - n) /\ n + k \in 1 .. b /\ h + (n + k) = Len(T) + k
    BY <1>2, <1>4, <1>7, <1>10
  <2>3. B[n + k] = text[h + (n + k)]
    BY <2>2, <1>1 DEF OutOK, h, b, B
  <2>. QED
    BY <2>2, <2>3, <1>7
<1>13. h + b = Len(T) + Len(B2) /\ Len(B2) <= Capacity
  <2>. HIDE DEF h, b
  <2>1. Len(B2) = b - n /\ Len(T) = h + n
    BY <1>7, <1>10
  <2>2. h \in Nat /\ b \in Nat /\ n \in Nat /\ n <= b /\ b <= Capacity /\ Capacity \in Nat
    BY <1>2, <1>4, Sizes
  <2>. QED
    BY <2>1, <2>2
<1>14. OutOK(text, s, T)
  BY <1>1, <1>2, <1>8, <1>9, <1>10, <1>11, <1>12, <1>13 DEF OutOK
<1>15. Bufs(text, s)
  BY <1>1, <1>9 DEF Bufs
<1>16. /\ first_unassembled(s) = first_unassembled(r)
       /\ first_unread(s) = first_unread(r) + n
       /\ input_ended(s.output) = input_ended(r.output)
  BY <1>2, <1>8, <1>9 DEF first_unassembled, first_unread, bytes_read, bytes_written,
                          input_ended
<1>17. /\ first_unacceptable(r) \in Nat /\ first_unacceptable(s) \in Nat
       /\ first_unacceptable(r) <= first_unacceptable(s)
  <2>1. /\ first_unacceptable(r) = h + Capacity /\ first_unacceptable(s) = Len(T) + Capacity
    BY <1>1, <1>14, Window
  <2>. HIDE DEF h
  <2>. QED
    BY <2>1, <1>2, <1>4, <1>10, Sizes
<1>18. \A a \in s.buf : first_unassembled(s) < a.idx /\ tail_idx(a) < first_unacceptable(s)
  <2>1. SUFFICES ASSUME NEW a \in r.buf
                 PROVE  first_unassembled(s) < a.idx /\ tail_idx(a) < first_unacceptable(s)
    BY <1>9
  <2>2. /\ first_unassembled(r) < a.idx /\ tail_idx(a) < first_unacceptable(r) /\ Slice(text, a)
    BY DEF Good, Written, Bufs
  <2>3. tail_idx(a) \in Nat
    BY <2>2, SliceTail
  <2>. QED
    BY <2>2, <2>3, <1>16, <1>17
<1>19. Good(text, s, T)
  BY <1>9, <1>14, <1>15, <1>16, <1>18 DEF Good, Written
<1>. QED
  BY <1>3, <1>4, <1>6, <1>9, <1>16, <1>19 DEF s, T, with_output, B

\* In a good state, what the contract calls received is what is held below the window's end.
LEMMA Received ==
    ASSUME NEW text \in InStreams, NEW r, NEW t, Good(text, r, t)
    PROVE  /\ \A i : i \in (0 .. (first_unassembled(r) - 1)) \cup indices(r.buf) <=>
                       i \in Nat /\ i < first_unacceptable(r) /\ Holds(r, i)
           /\ first_unassembled(r) \notin (0 .. (first_unassembled(r) - 1)) \cup indices(r.buf)
           /\ input_ended(r.output) = (r.eof /\ first_unassembled(r) = Len(text))
<1>. DEFINE f == first_unassembled(r)
            u == first_unacceptable(r)
<1>1. /\ OutOK(text, r, t) /\ \A b \in r.buf : Slice(text, b) /\ f < b.idx /\ tail_idx(b) < u
  BY DEF Good, Written, Bufs
<1>2. f \in Nat /\ u \in Nat /\ f <= u
  BY <1>1, Window
<1>3. ASSUME NEW i \in indices(r.buf) PROVE i \in Nat /\ f < i /\ i < u
  <2>1. PICK b \in r.buf : i \in b.idx .. tail_idx(b)
    BY InIndices
  <2>2. b.idx \in Nat /\ tail_idx(b) \in Nat /\ f < b.idx /\ tail_idx(b) < u
    BY <1>1, SliceTail
  <2>. QED
    BY <2>1, <2>2, <1>2
<1>4. ASSUME NEW i
      PROVE  i \in (0 .. (f - 1)) \cup indices(r.buf) <=> i \in Nat /\ i < u /\ Holds(r, i)
  <2>. HIDE DEF u
  <2>. QED
    BY <1>2, <1>3 DEF Holds
<1>5. f \notin (0 .. (f - 1)) \cup indices(r.buf)
  <2>. HIDE DEF f
  <2>. QED
    BY <1>2, <1>3
<1>6. r.output.end_input \in BOOLEAN
  BY <1>1 DEF OutOK, ReassemblerType, ByteStreamType
<1>7. input_ended(r.output) = (r.eof /\ f = Len(text))
  BY <1>6 DEF Good, input_ended
<1>. QED
  BY <1>4, <1>5, <1>7

\* A new object is good.
LEMMA NewGood ==
    ASSUME NEW text \in InStreams
    PROVE  Good(text, new_StreamReassembler(Capacity), << >>)
<1>. DEFINE r == new_StreamReassembler(Capacity)
<1>1. /\ r.output = new_ByteStream(Capacity) /\ r.capacity = Capacity
      /\ r.eof_index = 0 /\ r.unassembled_bytes = 0 /\ r.eof = FALSE /\ r.buf = {}
  BY DEF new_StreamReassembler
<1>2. new_ByteStream(Capacity) \in ByteStreamType(Byte)
  BY CapacityAssumption DEF new_ByteStream, ByteStreamType
<1>3. r \in ReassemblerType(Byte)
  BY <1>2, CapacityAssumption DEF new_StreamReassembler, ReassemblerType
<1>. HIDE DEF r
<1>4. OutOK(text, r, << >>) /\ first_unassembled(r) = 0
  BY <1>1, <1>3, Sizes DEF OutOK, new_ByteStream, first_unassembled, bytes_written
<1>5. indices({}) = {}
  BY Zenon DEF indices
<1>6. Bufs(text, r)
  BY <1>1, <1>3, <1>5, FS_EmptySet DEF Bufs
<1>7. ~input_ended(r.output)
  BY <1>1 DEF new_ByteStream, input_ended
<1>. QED
  BY <1>1, <1>4, <1>6, <1>7 DEF Good, Written, r

\* In a good state what was read and what waits to be read begin the stream.
LEMMA GoodPrefix ==
    ASSUME NEW text \in InStreams, NEW r, NEW t, Good(text, r, t)
    PROVE  t \o r.output.buff = SubSeq(text, 1, first_unassembled(r))
<1>. DEFINE f == first_unassembled(r)
            B == r.output.buff
            T == t \o B
            P == SubSeq(text, 1, f)
<1>1. OutOK(text, r, t)
  BY DEF Good, Written
<1>2. f \in Nat /\ f <= Len(text)
  BY <1>1, Window
<1>3. t \in Seq(Byte) /\ B \in Seq(Byte)
  BY <1>1 DEF OutOK, ReassemblerType, ByteStreamType
<1>4. f = Len(t) + Len(B)
  BY <1>1 DEF OutOK, first_unassembled, bytes_written
<1>. HIDE DEF B, f
<1>5. /\ T \in Seq(Byte) /\ Len(T) = Len(t) + Len(B)
      /\ Len(t) \in Nat /\ Len(B) \in Nat
      /\ \A k \in 1 .. Len(t) : T[k] = t[k]
      /\ \A k \in 1 .. Len(B) : T[Len(t) + k] = B[k]
  BY <1>3, Joined
<1>6. P \in Seq(Byte) /\ Len(P) = f /\ \A k \in 1 .. f : P[k] = text[k]
  BY <1>2, Text
<1>. HIDE DEF T, P
<1>7. ASSUME NEW k \in 1 .. f PROVE T[k] = text[k]
  <2>1. CASE k \in 1 .. Len(t)
    BY <2>1, <1>5, <1>1 DEF OutOK
  <2>2. CASE k \notin 1 .. Len(t)
    <3>. DEFINE j == k - Len(t)
    <3>1. j \in 1 .. Len(B) /\ k = Len(t) + j
      BY <2>2, <1>4, <1>5, <1>2
    <3>. HIDE DEF j
    <3>2. B[j] = text[Len(t) + j]
      BY <3>1, <1>1 DEF OutOK, B
    <3>. QED
      BY <3>1, <3>2, <1>5
  <2>. QED
    BY <2>1, <2>2
<1>8. T = P
  BY <1>4, <1>5, <1>6, <1>7, <1>2
<1>. QED
  BY <1>8 DEF T, P, B, f

\* What the contract calls received.
received_by(r) == (0 .. (first_unassembled(r) - 1)) \cup indices(r.buf)

\* A push does to r what the contract's Deliver says.
Delivered(text, r, s, index, len, is_eof) ==
    /\ received_by(s) = received_by(r) \cup
          {i \in index .. (index + len - 1) :
              first_unassembled(r) <= i /\ i < first_unread(r) + Capacity}
    /\ first_unassembled(s) \in Nat
    /\ 0 .. (first_unassembled(s) - 1) \subseteq received_by(s)
    /\ first_unassembled(s) \notin received_by(s)
    /\ s.eof = (r.eof \/ is_eof)
    /\ input_ended(s.output) = (s.eof /\ first_unassembled(s) = Len(text))
    /\ first_unread(s) = first_unread(r)

\* push_substring of a piece of the stream is a Delivered step.
LEMMA PushDelivers ==
    ASSUME NEW text \in InStreams,
           NEW r, NEW t, Good(text, r, t), NEW index \in 0 .. Len(text), NEW len \in 0 .. Len(text),
           NEW is_eof \in BOOLEAN, index + len <= Len(text), is_eof => index + len = Len(text),
           NEW s, s = push_substring(r, SubSeq(text, index + 1, index + len), index, is_eof)
    PROVE  Delivered(text, r, s, index, len, is_eof)
<1>2. /\ Good(text, s, t) /\ s.eof = (r.eof \/ is_eof)
      /\ first_unacceptable(s) = first_unacceptable(r)
      /\ \A i \in Nat : i < first_unacceptable(r) =>
            (Holds(s, i) <=> Holds(r, i) \/ i \in index .. (index + len - 1))
  BY PushKeeps
<1>. DEFINE f == first_unassembled(r)
            u == first_unacceptable(r)
            g == first_unassembled(s)
            was == received_by(r)
            is == received_by(s)
<1>3. /\ f \in Nat /\ u \in Nat /\ f <= u /\ first_unread(r) = Len(t)
      /\ u = Len(t) + Capacity /\ OutOK(text, r, t)
  BY Window DEF Good, Written
<1>4. g \in Nat /\ first_unread(s) = Len(t)
  BY <1>2, Window DEF Good, Written
<1>5. \A i : i \in was <=> i \in Nat /\ i < u /\ Holds(r, i)
  BY Received DEF received_by
<1>6. /\ \A i : i \in is <=> i \in Nat /\ i < u /\ Holds(s, i)
      /\ g \notin is /\ input_ended(s.output) = (s.eof /\ g = Len(text))
  BY <1>2, Received DEF received_by
<1>. HIDE DEF was, is, u
<1>7. is = was \cup {i \in index .. (index + len - 1) : f <= i /\ i < u}
  <2>1. ASSUME NEW i \in is
        PROVE  i \in was \cup {j \in index .. (index + len - 1) : f <= j /\ j < u}
    <3>1. i \in Nat /\ i < u /\ (Holds(r, i) \/ i \in index .. (index + len - 1))
      BY <1>2, <1>6 DEF u
    <3>2. CASE Holds(r, i)
      BY <3>1, <3>2, <1>5
    <3>3. CASE ~Holds(r, i)
      <4>1. f <= i
        BY <3>1, <3>3, <1>3 DEF Holds
      <4>. QED
        BY <3>1, <3>3, <4>1
    <3>. QED
      BY <3>2, <3>3
  <2>2. ASSUME NEW i \in was PROVE i \in is
    BY <1>2, <1>5, <1>6 DEF u
  <2>3. ASSUME NEW i \in index .. (index + len - 1), f <= i, i < u PROVE i \in is
    <3>1. i \in Nat
      BY Sizes
    <3>. QED
      BY <2>3, <3>1, <1>2, <1>6 DEF u
  <2>. QED
    BY <2>1, <2>2, <2>3
<1>8. 0 .. (g - 1) \subseteq is
  BY DEF is, received_by
<1>9. u = first_unread(r) + Capacity
  BY <1>3
<1>. QED
  BY <1>2, <1>3, <1>4, <1>6, <1>7, <1>8, <1>9 DEF Delivered, was, is

\* A read does to r what the contract's Consume says, for some number of bytes.
Consumed(text, r, s, n) ==
    /\ n \in 1 .. Len(text) /\ n <= Capacity
    /\ first_unread(r) + n <= first_unassembled(r)
    /\ first_unread(s) = first_unread(r) + n
    /\ received_by(s) = received_by(r) /\ first_unassembled(s) = first_unassembled(r)
    /\ s.eof = r.eof /\ input_ended(s.output) = input_ended(r.output)

\* Reading from the output keeps Good and is a Consumed step.
LEMMA ReadConsumes ==
    ASSUME NEW text \in InStreams,
           NEW r, NEW t, Good(text, r, t), NEW len \in 1 .. Len(text),
           bs_read(r.output, len).data # << >>,
           NEW s, s = [r EXCEPT !.output = bs_read(r.output, len).stream]
    PROVE  /\ Good(text, s, t \o bs_read(r.output, len).data)
           /\ \E n : Consumed(text, r, s, n)
<1>. DEFINE out == bs_read(r.output, len)
            n == Len(out.data)
<1>1. len \in Nat
  BY Sizes
<1>3. /\ Good(text, s, t \o out.data)
      /\ s.buf = r.buf /\ s.eof = r.eof
      /\ input_ended(s.output) = input_ended(r.output)
      /\ first_unassembled(s) = first_unassembled(r)
      /\ first_unread(s) = first_unread(r) + n
      /\ n <= Len(r.output.buff) /\ n <= len
  BY <1>1, ReadKeeps
<1>4. out.data \in Seq(Byte)
  <2>1. r.output.buff \in Seq(Byte)
    BY DEF Good, Written, OutOK, ReassemblerType, ByteStreamType
  <2>2. out.data = SubSeq(r.output.buff, 1, min(len, Len(r.output.buff)))
    BY DEF bs_read, peek_output
  <2>3. min(len, Len(r.output.buff)) \in 0 .. Len(r.output.buff)
    BY <1>1, <2>1 DEF min
  <2>. HIDE DEF out
  <2>. QED
    BY <2>1, <2>2, <2>3
<1>5. n \in Nat /\ n # 0
  <2>1. out.data # << >>
    OBVIOUS
  <2>. HIDE DEF out
  <2>. QED
    BY <2>1, <1>4
<1>6. /\ first_unread(r) = Len(t) /\ first_unassembled(r) = Len(t) + Len(r.output.buff)
      /\ Len(t) \in Nat /\ Len(r.output.buff) \in Nat /\ Len(r.output.buff) <= Capacity
  BY DEF Good, Written, OutOK, ReassemblerType, ByteStreamType,
         first_unassembled, first_unread, bytes_written, bytes_read
<1>. HIDE DEF n
<1>a. Len(text) \in Nat /\ Capacity \in Nat
  BY Sizes
<1>7. n \in 1 .. Len(text) /\ n <= Capacity /\ first_unread(r) + n <= first_unassembled(r)
  BY <1>1, <1>3, <1>5, <1>6, <1>a
<1>8. Consumed(text, r, s, n)
  BY <1>3, <1>7 DEF Consumed, received_by
<1>. QED
  BY <1>3, <1>8

-----------------------------------------------------------------------------
(* The receiver around the reassembler *)

\* A number from the peer is the absolute number it was made from, if that is near the
\* first unassembled byte, and a number beyond the window if it is further behind.
LEMMA Unwrapped ==
    ASSUME NEW i \in WrappingInt32, NEW abs \in Nat, NEW f \in Nat, NEW u \in Nat,
           f <= u, f + Mod32 < Mod64, abs + Mod32 > u, abs <= f + Half32
    PROVE  unwrap(wrap(abs, i), i, f) = IF f < abs + Half32 THEN abs ELSE abs + Mod32
<1>1. CASE f < abs + Half32
  BY <1>1, UnwrapRecovers
<1>2. CASE ~(f < abs + Half32)
  <2>0. Mod32 \in Nat \ {0} /\ Mod32 = 2 * Half32 /\ Half32 \in Nat \ {0} /\ i \in Int
    BY Moduli, Half32Assumption DEF WrappingInt32, Mod32
  <2>. DEFINE n == wrap(abs, i)
  <2>1. n \in WrappingInt32
    BY WrapOffset
  <2>2. PICK k1 \in Int : n = i + abs + Mod32 * k1
    BY WrapOffset
  <2>3. PICK offset \in 0 .. (Mod32 - 1), k2 \in Int :
            /\ n = i + f + offset + Mod32 * k2
            /\ unwrap(n, i, f) = IF offset > Half32 /\ f + offset >= Mod32
                                 THEN f + offset - Mod32 ELSE f + offset
    BY <2>1, UnwrapValue
  <2>. HIDE DEF n
  <2>. DEFINE m == Mod32
              j == k1 - k2 - 1
              a == abs
  <2>. HIDE DEF m, a
  <2>4. m * j = f + offset - (a + m) /\ j \in Int
    <3>1. m * j = m * k1 - m * k2 - m /\ m \in Nat
      BY <2>0 DEF m
    <3>2. i + a + m * k1 = i + f + offset + m * k2 /\ offset \in Int /\ a \in Int
          /\ m * k1 \in Int /\ m * k2 \in Int
      BY <2>0, <2>2, <2>3 DEF m, a
    <3>. QED
      BY ONLY <3>1, <3>2, <2>0, k1 \in Int, k2 \in Int, f \in Nat
  <2>5. -m < f + offset - (a + m) /\ f + offset - (a + m) < m
    BY <2>0, <1>2 DEF m, a
  <2>6. j = 0
    <3>. HIDE DEF j
    <3>1. m \in Nat \ {0}
      BY <2>0 DEF m
    <3>. QED
      BY <2>4, <2>5, <3>1, SmallMultiple
  <2>7. f + offset = abs + Mod32 /\ offset <= Half32
    <3>1. m * 0 = 0
      BY <2>0 DEF m
    <3>2. f + offset - (a + m) = 0
      BY <3>1, <2>4, <2>6
    <3>. QED
      BY <3>2, <2>0, <1>2 DEF m, a
  <2>. QED
    BY <2>3, <2>7, <2>0, <1>2 DEF n
<1>. QED
  BY <1>1, <1>2

\* A substring beyond the window and an empty one are the same to the reassembler.
LEMMA PushedOutside ==
    ASSUME NEW r, NEW data, NEW x \in Nat, first_unacceptable(r) \in Nat,
           data # << >> => x >= first_unacceptable(r)
    PROVE  push_substring(r, data, x, FALSE) = push_substring(r, << >>, 0, FALSE)
<1>. DEFINE seg == [idx |-> x, data |-> data]
<1>1. note_eof(r, data, x, FALSE) = r /\ note_eof(r, << >>, 0, FALSE) = r
  BY DEF note_eof
<1>2. ASSUME data # << >> PROVE handle_substring(r, seg) = r
  BY <1>2 DEF handle_substring, outside
<1>. QED
  BY <1>1, <1>2 DEF push_substring

\* The reassembler of v is good, and the ISN is the peer's from the SYN on.
ReceiverOK(text, v, t, isn) ==
    /\ v \in ReceiverType(Byte) /\ Good(text, v.reassembler, t)
    /\ isn \in WrappingInt32 /\ (v.syn => v.isn = isn)

\* seg is the peer's from the absolute number abs on: the SYN alone, or its own bytes.
PeerSegment(text, seg, abs, isn) ==
    /\ abs \in Nat /\ seg.seqno = wrap(abs, isn)
    /\ seg.syn <=> abs = 0
    /\ seg.syn => seg.payload = << >> /\ ~seg.fin
    /\ abs # 0 => /\ abs - 1 + Len(seg.payload) <= Len(text)
                  /\ seg.payload = SubSeq(text, abs, abs - 1 + Len(seg.payload))
                  /\ seg.fin => abs - 1 + Len(seg.payload) = Len(text)

\* Or it has nothing in it.
Bare(seg) == seg.payload = << >> /\ ~seg.fin /\ ~seg.syn

\* A piece of the peer's stream is pushed at its own place: the one in seg, or an empty one.
Pushes(text, seg, abs, r, s) ==
    \E index \in 0 .. Len(text), len \in 0 .. Len(text), is_eof \in BOOLEAN :
        /\ index + len <= Len(text) /\ (is_eof => index + len = Len(text))
        /\ s = push_substring(r, SubSeq(text, index + 1, index + len), index, is_eof)
        /\ \/ len = 0 /\ ~is_eof
           \/ abs = index + 1 /\ len = Len(seg.payload) /\ is_eof = seg.fin

\* Pushing nothing, as for a SYN that comes again, is one of the Pushes.
LEMMA EmptyPush ==
    ASSUME NEW text \in InStreams, NEW seg, NEW abs, NEW r
    PROVE  Pushes(text, seg, abs, r, push_substring(r, << >>, 0, FALSE))
<1>1. SubSeq(text, 0 + 1, 0 + 0) = << >> /\ 0 \in 0 .. Len(text) /\ 0 + 0 <= Len(text)
  BY Text, Sizes
<1>2. FALSE \in BOOLEAN /\ (FALSE => 0 + 0 = Len(text)) /\ ~FALSE /\ 0 = 0
  OBVIOUS
<1>. QED
  BY <1>1, <1>2, Zenon DEF Pushes

\* Every segment of the peer that the receiver does not drop is a push.
LEMMA SegmentPushed ==
    ASSUME NEW text \in InStreams, NEW v, NEW t, NEW isn, ReceiverOK(text, v, t, isn),
           Len(text) + Capacity + Mod32 < Mod64,
           NEW seg \in SegmentType(Byte), NEW abs,
           Bare(seg) \/ (/\ PeerSegment(text, seg, abs, isn) /\ Len(seg.payload) <= Half32
                         /\ abs + Mod32 > first_unacceptable(v.reassembler)
                         /\ abs <= first_unassembled(v.reassembler) + Half32)
    PROVE  LET w == receiver_segment_received(v, seg) IN
           \/ w = v /\ ~v.syn /\ ~seg.syn
           \/ /\ Pushes(text, seg, abs, v.reassembler, w.reassembler)
              /\ w = [reassembler |-> w.reassembler, syn |-> TRUE, isn |-> isn]
<1>. DEFINE r == v.reassembler
            w == receiver_segment_received(v, seg)
            data == seg.payload
            f == first_unassembled(r)
            u == first_unacceptable(r)
            x == stream_index_of(v, seg)
            p == push_substring(r, data, x, seg.fin)
<1>1. /\ v \in [reassembler : ReassemblerType(Byte), syn : BOOLEAN, isn : WrappingInt32]
      /\ isn \in WrappingInt32 /\ (v.syn => v.isn = isn)
  BY DEF ReceiverOK, ReceiverType
<1>2. /\ f \in Nat /\ u \in Nat /\ f <= u /\ f <= Len(text) /\ f + Mod32 < Mod64
      /\ Len(text) \in Nat /\ Capacity \in Nat /\ Len(text) + Capacity + Mod32 < Mod64
      /\ Mod32 \in Nat \ {0} /\ Mod64 \in Nat \ {0} /\ Half32 \in Nat \ {0} /\ Mod32 = 2 * Half32
  <2>1. f \in Nat /\ u \in Nat /\ f <= u /\ f <= Len(text)
    BY Window DEF ReceiverOK, Good, Written
  <2>2. Len(text) \in Nat /\ Capacity \in Nat /\ Len(text) + Capacity + Mod32 < Mod64
    BY Sizes
  <2>3. Mod32 \in Nat \ {0} /\ Mod64 \in Nat \ {0} /\ Half32 \in Nat \ {0} /\ Mod32 = 2 * Half32
    BY Moduli, Half32Assumption DEF Mod32
  <2>. HIDE DEF f, u
  <2>. QED
    BY <2>1, <2>2, <2>3
<1>3. /\ seg.seqno \in WrappingInt32 /\ seg.syn \in BOOLEAN /\ seg.fin \in BOOLEAN
      /\ data \in Seq(Byte)
  BY DEF SegmentType
<1>4. CASE ~v.syn
  <2>1. CASE ~seg.syn
    BY <2>1, <1>4 DEF receiver_segment_received
  <2>2. CASE seg.syn
    <3>0. PeerSegment(text, seg, abs, isn)
      BY <2>2 DEF Bare
    <3>1. seg.seqno = isn
      <4>1. isn = isn + 0 + Mod32 * 0
        BY <1>1, Moduli DEF WrappingInt32
      <4>2. wrap(0, isn) = isn
        BY <4>1, <1>1, WrapCongruent
      <4>. QED
        BY <4>2, <2>2, <3>0 DEF PeerSegment
    <3>2. w = [reassembler |-> push_substring(r, data, 0, seg.fin), syn |-> TRUE,
               isn |-> seg.seqno]
      BY <2>2, <1>4 DEF receiver_segment_received
    <3>3. data = << >> /\ seg.fin = FALSE
      BY <2>2, <3>0, <1>3 DEF PeerSegment
    <3>4. w = [reassembler |-> push_substring(r, << >>, 0, FALSE), syn |-> TRUE, isn |-> isn]
      BY <3>1, <3>2, <3>3
    <3>. HIDE DEF w
    <3>5. w.reassembler = push_substring(r, << >>, 0, FALSE)
      BY <3>4
    <3>. QED
      BY <3>4, <3>5, EmptyPush DEF w
  <2>. QED
    BY <2>1, <2>2, <1>3
<1>5. CASE v.syn
  <2>1. v.isn = isn /\ isn \in WrappingInt32
    BY <1>1, <1>5
  <2>2. w = [reassembler |-> p, syn |-> TRUE, isn |-> isn] /\ w.reassembler = p
    <3>1. w = [v EXCEPT !.reassembler = p]
      BY <1>5 DEF receiver_segment_received
    <3>. HIDE DEF p, w
    <3>. QED
      BY <3>1, <1>1, <1>5, <2>1
  <2>3. x \in Nat
    <3>. DEFINE y == unwrap(seg.seqno, v.isn, f)
    <3>1. y \in Int
      <4>. DEFINE n == seg.seqno
      <4>1. n \in WrappingInt32 /\ isn \in WrappingInt32 /\ f \in Nat /\ f + Mod32 < Mod64
        BY <1>2, <1>3, <2>1
      <4>. HIDE DEF n, f
      <4>2. unwrap(n, isn, f) \in Int
        BY ONLY <4>1, UnwrapValue, Moduli
      <4>. QED
        BY <4>2, <2>1 DEF n, f
    <3>. HIDE DEF y
    <3>2. (y - 1) % Mod64 \in Nat
      BY <3>1, <1>2
    <3>. QED
      BY <3>2 DEF stream_index_of, U64, y
  <2>. HIDE DEF x
  <2>4. CASE data = << >> /\ ~seg.fin
    <3>1. push_substring(r, << >>, x, FALSE) = push_substring(r, << >>, 0, FALSE)
      BY <2>3, <1>2, PushedOutside
    <3>2. p = push_substring(r, << >>, 0, FALSE)
      BY <3>1, <2>4, <1>3
    <3>. QED
      BY <3>2, <2>2, EmptyPush
  <2>5. CASE ~(data = << >> /\ ~seg.fin)
    <3>1. PeerSegment(text, seg, abs, isn) /\ Len(data) <= Half32
          /\ abs + Mod32 > u /\ abs <= f + Half32
      BY <2>5 DEF Bare
    <3>2. /\ abs \in Nat /\ abs # 0 /\ seg.seqno = wrap(abs, isn) /\ ~seg.syn
          /\ abs - 1 + Len(data) <= Len(text) /\ data = SubSeq(text, abs, abs - 1 + Len(data))
          /\ (seg.fin => abs - 1 + Len(data) = Len(text)) /\ Len(data) \in Nat
      BY <2>5, <3>1, <1>3 DEF PeerSegment
    <3>3. x = U64((IF f < abs + Half32 THEN abs ELSE abs + Mod32) - 1)
      <4>1. /\ f \in Nat /\ u \in Nat /\ f <= u /\ f + Mod32 < Mod64 /\ abs + Mod32 > u
            /\ abs <= f + Half32 /\ abs \in Nat /\ isn \in WrappingInt32
        BY <2>1, <1>2, <3>1, <3>2
      <4>. HIDE DEF f, u
      <4>2. unwrap(wrap(abs, isn), isn, f) = IF f < abs + Half32 THEN abs ELSE abs + Mod32
        BY ONLY <4>1, Unwrapped
      <4>. QED
        BY <4>2, <2>1, <3>2 DEF stream_index_of, x, f
    <3>4. CASE f < abs + Half32
      <4>. DEFINE index == abs - 1
                  len == Len(data)
      <4>1. /\ index \in 0 .. Len(text) /\ len \in 0 .. Len(text) /\ index < Mod64
            /\ index + len <= Len(text) /\ index \in Nat /\ abs = index + 1
        BY <3>2, <1>2
      <4>2. seg.fin => index + len = Len(text)
        BY <3>2
      <4>3. x = index
        <5>1. x = U64(index)
          BY <3>3, <3>4
        <5>. QED
          BY <5>1, <4>1, U64Small
      <4>4. data = SubSeq(text, index + 1, index + len)
        BY <4>1, <3>2
      <4>. HIDE DEF index, len
      <4>5. p = push_substring(r, SubSeq(text, index + 1, index + len), index, seg.fin)
        BY <4>3, <4>4
      <4>6. len = Len(seg.payload)
        BY DEF len
      <4>. HIDE DEF p
      <4>7. Pushes(text, seg, abs, r, p)
        BY <4>1, <4>2, <4>5, <4>6, <1>3 DEF Pushes
      <4>. QED
        BY <4>7, <2>2
    <3>5. CASE ~(f < abs + Half32)
      <4>1. ~seg.fin
        <5>. SUFFICES ASSUME seg.fin PROVE FALSE
          OBVIOUS
        <5>1. abs - 1 + Len(data) = Len(text)
          BY <3>2
        <5>. QED
          BY <5>1, <3>5, <3>1, <3>2, <1>2
      <4>. DEFINE y == abs + Mod32 - 1
      <4>2. y \in Nat /\ y < Mod64 /\ y >= u
        BY <3>5, <3>1, <3>2, <1>2
      <4>3. x = y
        <5>0. (IF f < abs + Half32 THEN abs ELSE abs + Mod32) - 1 = y
          BY <3>5, <3>2, <1>2
        <5>. HIDE DEF y
        <5>1. x = U64(y)
          BY <3>3, <5>0
        <5>. QED
          BY <5>1, <4>2, U64Small
      <4>. HIDE DEF y, data
      <4>4. push_substring(r, data, x, FALSE) = push_substring(r, << >>, 0, FALSE)
        BY <4>2, <4>3, <1>2, PushedOutside
      <4>5. p = push_substring(r, << >>, 0, FALSE)
        BY <4>4, <4>1, <1>3
      <4>. QED
        BY <4>5, <2>2, EmptyPush
    <3>. QED
      BY <3>4, <3>5
  <2>. QED
    BY <2>4, <2>5
<1>. QED
  BY <1>4, <1>5, <1>1

\* It keeps the receiver good, and it is a Deliver of the contract.
LEMMA SegmentTaken ==
    ASSUME NEW text \in InStreams, NEW r, NEW t, Good(text, r, t), NEW isn \in WrappingInt32,
           NEW seg, NEW abs, NEW s, Pushes(text, seg, abs, r, s)
    PROVE  /\ ReceiverOK(text, [reassembler |-> s, syn |-> TRUE, isn |-> isn], t, isn)
           /\ \E index \in 0 .. Len(text), len \in 0 .. Len(text), is_eof \in BOOLEAN :
                 /\ index + len <= Len(text) /\ (is_eof => index + len = Len(text))
                 /\ Delivered(text, r, s, index, len, is_eof)
                 /\ \/ len = 0 /\ ~is_eof
                    \/ abs = index + 1 /\ len = Len(seg.payload) /\ is_eof = seg.fin
<1>1. PICK index \in 0 .. Len(text), len \in 0 .. Len(text), is_eof \in BOOLEAN :
          /\ index + len <= Len(text) /\ (is_eof => index + len = Len(text))
          /\ s = push_substring(r, SubSeq(text, index + 1, index + len), index, is_eof)
          /\ \/ len = 0 /\ ~is_eof
             \/ abs = index + 1 /\ len = Len(seg.payload) /\ is_eof = seg.fin
  BY DEF Pushes
<1>2. Good(text, s, t)
  BY <1>1, PushKeeps
<1>3. Delivered(text, r, s, index, len, is_eof)
  BY <1>1, PushDelivers
<1>4. s \in ReassemblerType(Byte)
  BY <1>2 DEF Good, Written, OutOK
<1>5. ReceiverOK(text, [reassembler |-> s, syn |-> TRUE, isn |-> isn], t, isn)
  BY <1>2, <1>4 DEF ReceiverOK, ReceiverType
<1>. QED
  BY <1>1, <1>3, <1>5

=============================================================================
