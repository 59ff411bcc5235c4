---------------------------- MODULE WrappingSpec ----------------------------
(***************************************************************************)
(* wrap and unwrap as the two ends of a stream use them: one end numbers   *)
(* its bytes, the other turns each 32-bit number back into a 64-bit one    *)
(* with the help of a checkpoint that follows at some distance.            *)
(***************************************************************************)
EXTENDS WrappingIntegers

CONSTANT MaxAbs            \* bound: the last absolute number used
ASSUME MaxAbsAssumption == MaxAbs \in Nat /\ MaxAbs + 2 * Mod32 < Mod64

VARIABLES isn, abs, checkpoint
wrapping_vars == << isn, abs, checkpoint >>

WrappingInit == isn \in WrappingInt32 /\ abs = 0 /\ checkpoint = 0

\* The sending end uses the next number.
Advance == abs < MaxAbs /\ abs' = abs + 1 /\ UNCHANGED << isn, checkpoint >>

\* The receiving end has got as far as any number up to the one last used, and a late
\* copy of an earlier number may still arrive.
Follow == checkpoint < abs /\ checkpoint' = checkpoint + 1 /\ UNCHANGED << isn, abs >>
LateCopy == 0 < abs /\ abs' = abs - 1 /\ UNCHANGED << isn, checkpoint >>

WrappingNext == Advance \/ Follow \/ LateCopy

WrappingSpec == WrappingInit /\ [][WrappingNext]_wrapping_vars

\* The variables have the widths of the code's integers.
WrappingTypeOK == isn \in WrappingInt32 /\ abs \in 0 .. MaxAbs /\ checkpoint \in 0 .. MaxAbs

\* A number less than half the sequence space behind the checkpoint, or at most half ahead
\* of it, is recovered exactly by unwrap: the TCPReceiver's seqnos and the TCPSender's acknos.
Recovered ==
    checkpoint < abs + Half32 /\ abs <= checkpoint + Half32
        => unwrap(wrap(abs, isn), isn, checkpoint) = abs

distance(a, b) == IF a <= b THEN b - a ELSE a - b

\* "the absolute sequence number that wraps to n and is closest to checkpoint"
\* (wrapping_integers.hh:35), for every n.
UnwrapIsClosest ==
    \A n \in WrappingInt32 :
        LET u == unwrap(n, isn, checkpoint)
        IN  /\ wrap(u, isn) = n
            /\ \A v \in {u - Mod32, u + Mod32} :
                    v >= 0 => distance(u, checkpoint) <= distance(v, checkpoint)

=============================================================================
