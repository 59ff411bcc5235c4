---------------------------- MODULE InboundText ----------------------------
(* The stream that a StreamReassembler, alone or inside a TCPReceiver, gets. *)
EXTENDS InboundStream

CONSTANT Stream

ASSUME StreamAssumption == Stream \in InStreams

N == Len(Stream)

=============================================================================
