------------------------------ MODULE TCPState ------------------------------
(***************************************************************************)
(* libsponge/tcp_helpers/tcp_state.{hh,cc}: the state of a connection as    *)
(* the TCP state diagram names it, read off its sender and its receiver.   *)
(***************************************************************************)
EXTENDS TCPSender, TCPReceiver

receiver_summary(v) ==
    CASE stream_out(v).error -> "error"
      [] ~stream_out(v).error /\ ~has_ackno(v) -> "listen"
      [] ~stream_out(v).error /\ has_ackno(v) /\ input_ended(stream_out(v)) -> "fin_recv"
      [] OTHER -> "syn_recv"

sender_summary(s) ==
    IF s.stream.error THEN "error"
    ELSE IF s.next_seqno = 0 THEN "closed"
    ELSE IF s.next_seqno = bytes_in_flight(s) THEN "syn_sent"
    ELSE IF ~eof(s.stream) \/ s.next_seqno < bytes_written(s.stream) + 2 THEN "syn_acked"
    ELSE IF bytes_in_flight(s) > 0 THEN "fin_sent"
    ELSE "fin_acked"

\* A TCPState.  A connection that is no longer active does not linger.
state(sender, receiver, active, linger) ==
    [sender |-> sender_summary(sender), receiver |-> receiver_summary(receiver),
     active |-> active, linger |-> active /\ linger]

\* The official states: the constructor from a TCPState::State.
official(receiver, sender, linger, active) ==
    [sender |-> sender, receiver |-> receiver, active |-> active, linger |-> linger]

State ==
    [LISTEN      |-> official("listen",   "closed",    TRUE,  TRUE),
     SYN_RCVD    |-> official("syn_recv", "syn_sent",  TRUE,  TRUE),
     SYN_SENT    |-> official("listen",   "syn_sent",  TRUE,  TRUE),
     ESTABLISHED |-> official("syn_recv", "syn_acked", TRUE,  TRUE),
     CLOSE_WAIT  |-> official("fin_recv", "syn_acked", FALSE, TRUE),
     LAST_ACK    |-> official("fin_recv", "fin_sent",  FALSE, TRUE),
     CLOSING     |-> official("fin_recv", "fin_sent",  TRUE,  TRUE),
     FIN_WAIT_1  |-> official("syn_recv", "fin_sent",  TRUE,  TRUE),
     FIN_WAIT_2  |-> official("syn_recv", "fin_acked", TRUE,  TRUE),
     TIME_WAIT   |-> official("fin_recv", "fin_acked", TRUE,  TRUE),
     RESET       |-> official("error",    "error",     FALSE, FALSE),
     CLOSED      |-> official("fin_recv", "fin_acked", FALSE, FALSE)]

=============================================================================
