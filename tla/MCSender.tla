------------------------------ MODULE MCSender ------------------------------
(* A stream of StreamLen distinct bytes, so that a byte out of place shows. *)
EXTENDS SenderSpec
CONSTANT StreamLen
MCByte == 1 .. StreamLen
MCStream == [i \in 1 .. StreamLen |-> i]
=============================================================================
