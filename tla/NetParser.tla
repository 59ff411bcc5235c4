----------------------------- MODULE NetParser -----------------------------
(***************************************************************************)
(* libsponge/util/parser.{hh,cc}, InternetChecksum of util.{hh,cc} and the  *)
(* prefix operations of buffer.cc: bytes on the wire.  A byte is 0 .. 255, *)
(* a Buffer is a sequence of them.  A 32-bit number is the pair of its     *)
(* 16-bit halves, which is all the codecs compute with.                    *)
(***************************************************************************)
EXTENDS Naturals, SequencesExt

\* Buffer::remove_prefix, BufferList::concatenate
buffer_remove_prefix(b, n) == SubSeq(b, n + 1, Len(b))
concatenate(buffers) == FoldLeft(LAMBDA whole, b : whole \o b, << >>, buffers)

\* The number len bytes stand for, most significant byte first, and the bytes of a number.
u16_of(hi, lo) == 256 * hi + lo
number_of(b) ==
    CASE Len(b) = 1 -> b[1]
      [] Len(b) = 2 -> u16_of(b[1], b[2])
      [] Len(b) = 4 -> << u16_of(b[1], b[2]), u16_of(b[3], b[4]) >>
zero(len) == IF len = 4 THEN << 0, 0 >> ELSE 0

unparse_u8(v) == << v >>
unparse_u16(v) == << v \div 256, v % 256 >>
unparse_u32(v) == unparse_u16(v[1]) \o unparse_u16(v[2])

-----------------------------------------------------------------------------
(* NetParser: what is left of the buffer, whether a read failed, and the   *)
(* numbers read so far.                                                    *)

new_NetParser(b) == [buffer |-> b, error |-> "NoError", numbers |-> << >>]

check_size(p, size) == IF size > Len(p.buffer) THEN [p EXCEPT !.error = "PacketTooShort"] ELSE p

\* After an error every number is zero and nothing is consumed.
parse_int(p, len) ==
    LET checked == check_size(p, len)
    IN  IF checked.error # "NoError"
        THEN [checked EXCEPT !.numbers = Append(@, zero(len))]
        ELSE [checked EXCEPT !.numbers = Append(@, number_of(SubSeq(p.buffer, 1, len))),
                             !.buffer = buffer_remove_prefix(@, len)]

\* The numbers of the given lengths, one after the other.
parse_ints(p, lengths) == FoldLeft(parse_int, p, lengths)

parser_remove_prefix(p, n) ==
    LET checked == check_size(p, n)
    IN  IF checked.error # "NoError" THEN checked
        ELSE [checked EXCEPT !.buffer = buffer_remove_prefix(@, n)]

\* The k-th bit of a number.
bit(v, k) == (v \div 2 ^ k) % 2 = 1
bits(flags) == FoldLeft(LAMBDA v, f : (2 * v) + (IF f THEN 1 ELSE 0), 0, flags)

-----------------------------------------------------------------------------
(* InternetChecksum: the sum so far and whether the next byte is a low one. *)

new_InternetChecksum(initial_sum) == [sum |-> initial_sum, parity |-> FALSE]

checksum_add(c, data) ==
    FoldLeft(LAMBDA a, byte : [sum    |-> a.sum + (IF a.parity THEN byte ELSE 256 * byte),
                               parity |-> ~a.parity],
             c, data)

\* The carries are added back until none is left: at most twice below 2^32.
fold_carry(v) == (v \div 65536) + (v % 65536)
checksum_value(c) == 65535 - fold_carry(fold_carry(c.sum))

=============================================================================
