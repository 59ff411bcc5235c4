----------------------------- MODULE ByteStream -----------------------------
(***************************************************************************)
(* libsponge/byte_stream.{hh,cc}: the bounded in-order byte stream that     *)
(* ends both halves of a connection.  The class is a record; each method   *)
(* is an operator from the stream to the stream after the call (or to the  *)
(* value it returns).  A byte is any value; size_t counters are naturals.  *)
(***************************************************************************)
EXTENDS Naturals, Sequences

\* std::min
min(a, b) == IF a <= b THEN a ELSE b

ByteStreamType(B) ==
    [buff : Seq(B), capacity : Nat, bytes_r : Nat, bytes_w : Nat,
     end_input : BOOLEAN, error : BOOLEAN]

\* The constructor.
new_ByteStream(cap) ==
    [buff |-> << >>, capacity |-> cap, bytes_r |-> 0, bytes_w |-> 0,
     end_input |-> FALSE, error |-> FALSE]

input_ended(s) == s.end_input
buffer_size(s) == Len(s.buff)
buffer_empty(s) == s.buff = << >>
eof(s) == input_ended(s) /\ buffer_empty(s)
bytes_written(s) == s.bytes_w
bytes_read(s) == s.bytes_r
remaining_capacity(s) == s.capacity - Len(s.buff)

\* How many bytes of data a call of write accepts (its return value).
write_size(s, data) ==
    IF input_ended(s) THEN 0 ELSE min(Len(data), remaining_capacity(s))

bs_write(s, data) ==
    LET n == write_size(s, data)
    IN  [s EXCEPT !.bytes_w = @ + n, !.buff = @ \o SubSeq(data, 1, n)]

peek_output(s, len) == SubSeq(s.buff, 1, min(len, Len(s.buff)))

\* Mutant: the bytes are counted but stay.
pop_output_keeps(s, len) == [s EXCEPT !.bytes_r = @ + min(len, Len(s.buff))]

pop_output(s, len) ==
    LET n == min(len, Len(s.buff))
    IN  [s EXCEPT !.bytes_r = @ + n,
                  !.buff = SubSeq(@, n + 1, Len(@))]

\* read is peek_output (the value returned) and then pop_output (the new stream).
bs_read(s, len) == [data |-> peek_output(s, len), stream |-> pop_output(s, len)]

end_input(s) == [s EXCEPT !.end_input = TRUE]
set_error(s) == [s EXCEPT !.error = TRUE]

=============================================================================
