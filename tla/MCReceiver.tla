----------------------------- MODULE MCReceiver -----------------------------
(* A stream of StreamLen distinct bytes, so that a byte out of place shows. *)
EXTENDS ReceiverSpec
CONSTANT StreamLen
MCByte == 1 .. StreamLen
MCStream == [i \in 1 .. StreamLen |-> i]
=============================================================================
