--------------------------- MODULE InboundStream ---------------------------
(***************************************************************************)
(* What a StreamReassembler is made with, alone or inside a TCPReceiver,   *)
(* and the streams it can be given.                                        *)
(***************************************************************************)
EXTENDS StreamReassembler, Bytes

CONSTANT Capacity

ASSUME CapacityAssumption == Capacity \in Nat

\* size_t has room for every index the sender or the window can name.
InStreams == {text \in Seq(Byte) : Len(text) + Capacity < Mod64}

=============================================================================
