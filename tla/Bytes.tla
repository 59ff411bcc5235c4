------------------------------- MODULE Bytes -------------------------------
(* The values of a byte: streams and segments carry them and look at none. *)
CONSTANT Byte
=============================================================================
