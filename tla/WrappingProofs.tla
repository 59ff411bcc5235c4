--------------------------- MODULE WrappingProofs ---------------------------
(***************************************************************************)
(* unwrap inverts wrap, for every width of the two integer types.          *)
(***************************************************************************)
EXTENDS WrappingSpec, InboundLemmas

\* unwrap answers with a number that wraps to n, and no other is closer to the checkpoint.
LEMMA UnwrapClosest ==
    ASSUME NEW n \in WrappingInt32, NEW i \in WrappingInt32, NEW c \in Nat,
           c + Mod32 < Mod64
    PROVE  LET u == unwrap(n, i, c)
           IN  /\ wrap(u, i) = n
               /\ \A v \in {u - Mod32, u + Mod32} :
                       v >= 0 => distance(u, c) <= distance(v, c)
<1>0. Mod32 \in Nat \ {0} /\ i \in Int /\ n \in Int /\ Mod32 = 2 * Half32 /\ Half32 \in Nat
  BY Moduli, Half32Assumption DEF WrappingInt32, Mod32
<1>. DEFINE u == unwrap(n, i, c)
<1>1. PICK offset \in 0 .. (Mod32 - 1), k \in Int :
          /\ n = i + c + offset + Mod32 * k
          /\ u = IF offset > Half32 /\ c + offset >= Mod32
                 THEN c + offset - Mod32 ELSE c + offset
  BY UnwrapValue
<1>. HIDE DEF u
<1>2. u \in Int /\ wrap(u, i) = n
  <2>1. CASE u = c + offset
    <3>1. n = i + u + Mod32 * k /\ u \in Int
      BY <2>1, <1>0, <1>1
    <3>. QED
      BY <3>1, WrapCongruent
  <2>2. CASE u = c + offset - Mod32
    <3>1. n = i + u + Mod32 * (k + 1) /\ k + 1 \in Int /\ u \in Int
      BY <2>2, <1>0, <1>1
    <3>. QED
      BY <3>1, WrapCongruent
  <2>. QED
    BY <2>1, <2>2, <1>1
<1>3. ASSUME NEW v \in {u - Mod32, u + Mod32}, v >= 0
      PROVE  distance(u, c) <= distance(v, c)
  BY <1>0, <1>1, <1>2, <1>3 DEF distance
<1>. QED
  BY <1>2, <1>3 DEF u

-----------------------------------------------------------------------------
\* The variables keep the widths of the code's integers.
THEOREM TypeCorrect == WrappingSpec => []WrappingTypeOK
<1>1. WrappingInit => WrappingTypeOK
  BY MaxAbsAssumption DEF WrappingInit, WrappingTypeOK
<1>2. WrappingTypeOK /\ [WrappingNext]_wrapping_vars => WrappingTypeOK'
  BY MaxAbsAssumption DEF WrappingTypeOK, WrappingNext, Advance, Follow, LateCopy, wrapping_vars
<1>. QED
  BY <1>1, <1>2, PTL DEF WrappingSpec

\* For every ISN, every checkpoint and every number within half the sequence space of it,
\* unwrap gives back what wrap was given, whatever the integers' width.
THEOREM UnwrapInvertsWrap == WrappingSpec => []Recovered
<1>1. WrappingTypeOK => Recovered
  <2>. SUFFICES ASSUME WrappingTypeOK, checkpoint < abs + Half32, abs <= checkpoint + Half32
                PROVE  unwrap(wrap(abs, isn), isn, checkpoint) = abs
    BY DEF Recovered
  <2>1. isn \in WrappingInt32 /\ abs \in Nat /\ checkpoint \in Nat
        /\ checkpoint + Mod32 < Mod64
    BY MaxAbsAssumption, Moduli DEF WrappingTypeOK
  <2>. QED
    BY <2>1, UnwrapRecovers
<1>. QED
  BY <1>1, TypeCorrect, PTL

\* What wrapping_integers.hh says of unwrap holds for every 32-bit number it is given.
THEOREM UnwrapMeetsItsDoc == WrappingSpec => []UnwrapIsClosest
<1>1. WrappingTypeOK => UnwrapIsClosest
  <2>. SUFFICES ASSUME WrappingTypeOK, NEW n \in WrappingInt32
                PROVE  LET u == unwrap(n, isn, checkpoint)
                       IN  /\ wrap(u, isn) = n
                           /\ \A v \in {u - Mod32, u + Mod32} :
                                v >= 0 => distance(u, checkpoint) <= distance(v, checkpoint)
    BY DEF UnwrapIsClosest
  <2>1. isn \in WrappingInt32 /\ checkpoint \in Nat /\ checkpoint + Mod32 < Mod64
    BY MaxAbsAssumption, Moduli DEF WrappingTypeOK
  <2>. QED
    BY <2>1, UnwrapClosest
<1>. QED
  BY <1>1, TypeCorrect, PTL

=============================================================================
