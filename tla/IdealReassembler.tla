-------------------------- MODULE IdealReassembler --------------------------
(***************************************************************************)
(* What a StreamReassembler promises, with no segment in it: it remembers  *)
(* which bytes of a stream of Length bytes have been pushed while they     *)
(* were inside the window, and has written exactly the ones before the     *)
(* first that is missing.                                                  *)
(***************************************************************************)
EXTENDS Naturals

CONSTANTS Length, Capacity

VARIABLES received,     \* indexes of the bytes kept or already written
          written,      \* how many bytes the output has been given
          read,         \* how many the reader has taken
          end_known,    \* the end of the stream has been pushed
          ended         \* the output has been closed

Init ==
    /\ received = {} /\ written = 0 /\ read = 0
    /\ end_known = FALSE /\ ended = FALSE

Deliver(index, len, is_eof) ==
    /\ index + len <= Length
    /\ is_eof => index + len = Length
    /\ received' = received \cup
                   {i \in index .. (index + len - 1) : written <= i /\ i < read + Capacity}
    /\ written' \in Nat
    /\ 0 .. (written' - 1) \subseteq received' /\ written' \notin received'
    /\ end_known' = (end_known \/ is_eof)
    /\ ended' = (end_known' /\ written' = Length)
    /\ UNCHANGED read

Consume(n) ==
    /\ read + n <= written
    /\ read' = read + n
    /\ UNCHANGED << received, written, end_known, ended >>

Next ==
    \/ \E index, len \in 0 .. Length, is_eof \in BOOLEAN : Deliver(index, len, is_eof)
    \/ \E n \in 1 .. Length : Consume(n)

Spec == Init /\ [][Next]_<< received, written, read, end_known, ended >>

=============================================================================
