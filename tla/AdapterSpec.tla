---------------------------- MODULE AdapterSpec ----------------------------
(***************************************************************************)
(* Segments written by the adapters of several hosts, the network that     *)
(* damages or cuts a datagram or leaves it alone, and one adapter, over    *)
(* UDP or over IPv4, that starts out listening and reads them.             *)
(***************************************************************************)
EXTENDS FdAdapter

CONSTANTS Local,         \* the address the reading adapter is bound to
          Remotes,       \* the addresses of the hosts that send
          Elsewhere,     \* an address that is not the reader's
          Segments       \* what they send

ASSUME AdapterAssumption == ANY # Local /\ Elsewhere # Local /\ Local \notin Remotes

VARIABLES layer,      \* "udp" or "tun"
          far,        \* the adapter that reads
          flying,     \* the datagrams on their way, at most one
          last        \* what the last read was given, its bytes aside, and its answer
adapter_vars == << layer, far, flying, last >>

AdapterInit ==
    /\ layer \in {"udp", "tun"}
    /\ far = new_FdAdapter(Local, ANY, TRUE)
    /\ flying = {} /\ last = {}

send(a, seg) == IF layer = "udp" THEN udp_write(a, seg) ELSE tun_write(a, seg)
receive(a, dgram) == IF layer = "udp" THEN udp_read(a, dgram) ELSE tun_read(a, dgram)

\* The adapter of the host at remote, connected to destination, writes seg.
SendSegment(remote, destination, seg) ==
    /\ flying = {}
    /\ layer = "udp" => destination = Local       \* the kernel sees to it
    /\ LET dgram == send(new_FdAdapter(remote, destination, FALSE), seg)
       IN  flying' = {[source |-> dgram.source, bytes |-> dgram.bytes, from |-> remote,
                       to |-> destination, seg |-> seg, intact |-> TRUE]}
    /\ last' = {}
    /\ UNCHANGED << layer, far >>

\* One byte changes on the way.
Values(byte) == {0, 255, (byte + 1) % 256, (byte + 128) % 256} \ {byte}
Damage ==
    /\ \E d \in flying, i \in 1 .. 60 :
          /\ d.intact /\ d.to = Local /\ i <= Len(d.bytes)
          /\ \E v \in Values(d.bytes[i]) :
                flying' = {[d EXCEPT !.bytes[i] = v, !.intact = FALSE]}
    /\ UNCHANGED << layer, far, last >>

\* The end is cut off an IPv4 datagram; a UDP payload arrives whole or not at all.
Cut ==
    /\ layer = "tun"
    /\ \E d \in flying, n \in 0 .. 60 :
          /\ d.intact /\ d.to = Local /\ n < Len(d.bytes)
          /\ flying' = {[d EXCEPT !.bytes = SubSeq(@, 1, n), !.intact = FALSE]}
    /\ UNCHANGED << layer, far, last >>

ReadDatagram(drop) ==
    /\ \E d \in flying :
          LET answer == lossy_read(receive(far, d), drop)
          IN  /\ far' = answer.adapter
              /\ last' = {[before |-> far, dgram |-> [d EXCEPT !.bytes = << >>],
                           segs |-> answer.segs, dropped |-> drop]}
    /\ flying' = {}
    /\ UNCHANGED layer

AdapterNext ==
    \/ \E remote \in Remotes, destination \in {Local, Elsewhere}, seg \in Segments :
          SendSegment(remote, destination, seg)
    \/ Damage \/ Cut
    \/ \E drop \in BOOLEAN : ReadDatagram(drop)

AdapterSpec == AdapterInit /\ [][AdapterNext]_adapter_vars

-----------------------------------------------------------------------------
\* What a read answers is the segment that was sent, field by field and byte by byte, or
\* nothing: no damage of one byte and no cut gets past the checksums and lengths, although
\* TCPSegment::parse and IPv4Datagram::parse drop what the parse of the header returned.
EndToEnd ==
    \A r \in last : \A seg \in r.segs :
        same_header(seg.header, r.dgram.seg.header) /\ seg.payload = r.dgram.seg.payload

\* The adapter hears one peer: the sender of the SYN that ended listening, under the
\* address it sent from, and nobody else afterwards, whether or not the SYN itself was dropped.
OnePeer ==
    \A r \in last :
        /\ r.segs # {} => ~far.listening /\ far.destination = r.dgram.from
        /\ ~r.before.listening => far = r.before
        /\ ~far.listening => far.destination \in Remotes

\* And it hears that peer: a segment that arrives as it was sent, addressed to us, is read,
\* by a listening adapter if it is a SYN.
Delivers ==
    \A r \in last :
        /\ r.dgram.intact /\ r.dgram.to = Local /\ ~r.dropped
        /\ IF r.before.listening THEN r.dgram.seg.header.syn /\ ~r.dgram.seg.header.rst
           ELSE r.dgram.from = r.before.destination
        => r.segs # {}

=============================================================================
