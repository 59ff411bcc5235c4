-------------------------- MODULE WrappingIntegers --------------------------
(***************************************************************************)
(* libsponge/wrapping_integers.{hh,cc}: 32-bit sequence numbers and their   *)
(* conversion to and from 64-bit absolute sequence numbers.  Half32 stands *)
(* for 2^31, so that the arithmetic keeps its width and TLC can wrap it    *)
(* with a handful of values; 2^32 and 2^64 are derived from it.            *)
(***************************************************************************)
EXTENDS Integers

CONSTANT Half32                      \* 2^31 in the code
ASSUME Half32Assumption == Half32 \in Nat \ {0}

Mod32 == 2 * Half32                  \* 1ul << 32
Mod64 == Mod32 * Mod32

WrappingInt32 == 0 .. (Mod32 - 1)    \* raw_value()

\* Arithmetic of uint32_t and of uint64_t / size_t.
U32(n) == n % Mod32
U64(n) == n % Mod64

wrap(n, isn) == U32(isn + U32(n))
\* Mutants of unwrap: half the ring counts as behind; the test for underflow is missing.
unwrap_half_behind(n, isn, checkpoint) ==
    LET offset == U32(n - wrap(checkpoint, isn))
        pos    == U64(checkpoint + offset)
    IN  IF offset >= Half32 /\ pos >= Mod32 THEN pos - Mod32 ELSE pos
unwrap_underflow(n, isn, checkpoint) ==
    LET offset == U32(n - wrap(checkpoint, isn))
        pos    == U64(checkpoint + offset)
    IN  IF offset > Half32 THEN U64(pos - Mod32) ELSE pos

unwrap(n, isn, checkpoint) ==
    LET offset == U32(n - wrap(checkpoint, isn))
        pos    == U64(checkpoint + offset)
    IN  IF offset > Half32 /\ pos >= Mod32 THEN pos - Mod32 ELSE pos

=============================================================================
