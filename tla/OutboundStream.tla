--------------------------- MODULE OutboundStream ---------------------------
(***************************************************************************)
(* What a TCPSender is made with, alone or inside a TCPConnection, and the *)
(* streams it can be given.                                                *)
(***************************************************************************)
EXTENDS TCPSender, Bytes

CONSTANT RetxTimeout

ASSUME TimeoutAssumption == RetxTimeout \in Nat \ {0}

\* The SYN, the bytes and the FIN take no more than half the sequence space.
OutStreams == {text \in Seq(Byte) : Len(text) + 2 <= Half32}

in_window(s) == IF s.last_win = 0 THEN 1 ELSE s.last_win
\* The timeout after n retransmissions in a row.
doubled[n \in Nat] == IF n = 0 THEN RetxTimeout ELSE 2 * doubled[n - 1]

=============================================================================
