--------------------------- MODULE StreamContract ---------------------------
(***************************************************************************)
(* What TCP promises for one direction of a connection: the reader's side  *)
(* is given the bytes the writer wrote, in order and once, and is told     *)
(* that the stream has ended only when it has them all.                    *)
(***************************************************************************)
EXTENDS Naturals, Sequences

VARIABLES written,      \* the bytes the writer's stream has accepted
          finished,     \* the writer has ended its stream
          delivered,    \* the bytes the reader's side has been given
          ended         \* the reader's side has seen the end of the stream

Init == written = << >> /\ finished = FALSE /\ delivered = << >> /\ ended = FALSE

\* The writer's and the reader's side may each do several things in one step.
Next ==
    /\ \E n \in 0 .. Len(written') : written = SubSeq(written', 1, n)
    /\ finished => finished' /\ written' = written
    /\ \E n \in 0 .. Len(written) : delivered' = SubSeq(written, 1, n) /\ n >= Len(delivered)
    /\ ended' => finished /\ delivered' = written
    /\ ended => ended'

Spec == Init /\ [][Next]_<< written, finished, delivered, ended >>

=============================================================================
