----------------------------- MODULE MCAdapter -----------------------------
EXTENDS AdapterSpec
MCLocal == [ip |-> << 2560, 1 >>, port |-> 80]
MCElsewhere == [ip |-> << 2560, 1 >>, port |-> 81]
MCRemotes == {[ip |-> << 2560, 2 >>, port |-> 1000], [ip |-> << 2560, 2 >>, port |-> 1001],
              [ip |-> << 2560, 3 >>, port |-> 1000]}
MCSegments ==
    {[header |-> [new_TCPHeader EXCEPT !.syn = TRUE, !.seqno = << 65535, 65535 >>, !.win = 256],
      payload |-> << >>],
     [header |-> [new_TCPHeader EXCEPT !.syn = TRUE, !.rst = TRUE], payload |-> << >>],
     [header |-> [new_TCPHeader EXCEPT !.ack = TRUE, !.ackno = << 1, 2 >>, !.psh = TRUE],
      payload |-> << 7 >>],
     [header |-> [new_TCPHeader EXCEPT !.ack = TRUE, !.fin = TRUE, !.doff = 6, !.urg = TRUE,
                                       !.uptr = 513],
      payload |-> << 0, 255 >>]}
=============================================================================
