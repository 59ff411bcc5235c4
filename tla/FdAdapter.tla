----------------------------- MODULE FdAdapter -----------------------------
(***************************************************************************)
(* libsponge/tcp_helpers/fd_adapter, tcp_over_ip, tuntap_adapter and        *)
(* lossy_fd_adapter: segments in UDP payloads or in IPv4 datagrams, and    *)
(* which of the datagrams that arrive are for this connection.  An address *)
(* is a pair of an IPv4 address and a port.                                *)
(***************************************************************************)
EXTENDS TCPCodec, IPv4Codec

ANY == [ip |-> << 0, 0 >>, port |-> 0]           \* a default-constructed Address

new_FdAdapter(source, destination, listening) ==
    [source |-> source, destination |-> destination, listening |-> listening]

\* The answer of a read: the adapter after it, and the segment if there is one.
nothing(a) == [adapter |-> a, segs |-> {}]
just(a, seg) == [adapter |-> a, segs |-> {seg}]

\* Only a SYN that is not a RST ends listening.
opens(syn, rst) == syn /\ ~rst

-----------------------------------------------------------------------------
(* TCPOverUDPSocketAdapter *)

\* Mutant: the sender is not compared with the peer.
udp_is_for_us_any(a, source) == TRUE
udp_is_for_us(a, source) == a.listening \/ source = a.destination

\* A valid segment from source: the end of read().
udp_accept(a, source, syn, rst, seg) ==
    IF ~a.listening THEN just(a, seg)
    ELSE IF opens(syn, rst)
    THEN just([a EXCEPT !.destination = source, !.listening = FALSE], seg)
    ELSE nothing(a)

udp_take(a, source, parsed) ==
    IF parsed.result # "NoError" THEN nothing(a)
    ELSE udp_accept(a, source, parsed.seg.header.syn, parsed.seg.header.rst, parsed.seg)
udp_read(a, dgram) ==
    IF udp_is_for_us(a, dgram.source)
    THEN udp_take(a, dgram.source, tcp_segment_parse(dgram.bytes, 0)) ELSE nothing(a)

with_ports(a, seg) ==
    [seg EXCEPT !.header.sport = a.source.port, !.header.dport = a.destination.port]

\* The kernel adds the address of the socket, here the adapter's source.
udp_write(a, seg) ==
    [source |-> a.source, bytes |-> tcp_segment_serialize(with_ports(a, seg), 0)]

-----------------------------------------------------------------------------
(* TCPOverIPv4Adapter, and TCPOverIPv4OverTunFdAdapter on top of it *)

\* The tests of the IPv4 header, and of the ports once the segment is parsed.
ip_is_for_us(a, header) ==
    /\ a.listening \/ (header.dst = a.source.ip /\ header.src = a.destination.ip)
    /\ header.proto = PROTO_TCP

\* The adapter after the SYN that ends listening.
bound(a, header, h) ==
    [source |-> [a.source EXCEPT !.ip = header.dst],
     destination |-> [ip |-> header.src, port |-> h.sport], listening |-> FALSE]
ip_accept(a, header, h, seg) ==
    IF h.dport # a.source.port THEN nothing(a)
    ELSE IF a.listening
    THEN IF opens(h.syn, h.rst) THEN just(bound(a, header, h), seg) ELSE nothing(a)
    ELSE IF h.sport = a.destination.port THEN just(a, seg) ELSE nothing(a)

ip_take(a, header, parsed) ==
    IF parsed.result # "NoError" THEN nothing(a)
    ELSE ip_accept(a, header, parsed.seg.header, parsed.seg)
unwrap_tcp_in_ip(a, header, payload) ==
    IF ip_is_for_us(a, header)
    THEN ip_take(a, header, tcp_segment_parse(payload, pseudo_cksum(header))) ELSE nothing(a)

ip_header_for(a, seg) ==
    [new_IPv4Header EXCEPT !.src = a.source.ip, !.dst = a.destination.ip,
                           !.len = IPV4_LENGTH + 4 * seg.header.doff + Len(seg.payload)]
ip_datagram(a, seg, header) ==
    [header |-> header, payload |-> tcp_segment_serialize(with_ports(a, seg), pseudo_cksum(header))]
wrap_tcp_in_ip(a, seg) == ip_datagram(a, seg, ip_header_for(a, seg))

ip_taken(a, ip) ==
    IF ip.result # "NoError" THEN nothing(a) ELSE unwrap_tcp_in_ip(a, ip.header, ip.payload)
tun_read(a, dgram) == ip_taken(a, ipv4_datagram_parse(dgram.bytes))

ip_written(a, ip) ==
    [source |-> a.source, bytes |-> ipv4_datagram_serialize(ip.header, ip.payload)]
tun_write(a, seg) == ip_written(a, wrap_tcp_in_ip(a, seg))

-----------------------------------------------------------------------------
\* LossyFdAdapter: the datagram to be dropped is read and taken into account first.
lossy_read(answer, drop) == IF drop THEN nothing(answer.adapter) ELSE answer

=============================================================================
