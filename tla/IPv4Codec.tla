----------------------------- MODULE IPv4Codec -----------------------------
(***************************************************************************)
(* libsponge/tcp_helpers/ipv4_header.{hh,cc} and ipv4_datagram.{hh,cc}.     *)
(***************************************************************************)
EXTENDS NetParser

IPV4_LENGTH == 20
DEFAULT_TTL == 128
PROTO_TCP == 6
\* version and hlen, tos, len, id, flags and offset, ttl, proto, cksum, src, dst
IPv4HeaderLengths == << 1, 1, 2, 2, 2, 1, 1, 2, 4, 4 >>

new_IPv4Header ==
    [ver |-> 4, hlen |-> 5, tos |-> 0, len |-> 0, id |-> 0, df |-> TRUE, mf |-> FALSE,
     offset |-> 0, ttl |-> DEFAULT_TTL, proto |-> PROTO_TCP, cksum |-> 0,
     src |-> << 0, 0 >>, dst |-> << 0, 0 >>]

ipv4_header_of(n) ==
    [ver |-> n[1] \div 16, hlen |-> n[1] % 16, tos |-> n[2], len |-> n[3], id |-> n[4],
     df |-> bit(n[5], 14), mf |-> bit(n[5], 13), offset |-> n[5] % 2 ^ 13,
     ttl |-> n[6], proto |-> n[7], cksum |-> n[8], src |-> n[9], dst |-> n[10]]

\* The tests after the fields are read, in their order.
ipv4_header_error(header, whole) ==
    IF Len(whole) < 4 * header.hlen THEN "PacketTooShort"
    ELSE IF header.ver # 4 THEN "WrongIPVersion"
    ELSE IF header.hlen < 5 THEN "HeaderTooShort"
    ELSE IF Len(whole) # header.len THEN "TruncatedPacket" ELSE "NoError"
ipv4_cksum_ok(header, whole) ==
    checksum_value(checksum_add(new_InternetChecksum(0), SubSeq(whole, 1, 4 * header.hlen))) = 0

\* Every early return leaves the fields read so far and the parser as they are.
ipv4_header_ends(read, header, whole) ==
    LET error == ipv4_header_error(header, whole)
    IN  IF error # "NoError" THEN [header |-> header, parser |-> read, result |-> error]
        ELSE [header |-> header,
              parser |-> parser_remove_prefix(read, 4 * header.hlen - IPV4_LENGTH),
              result |-> IF ipv4_cksum_ok(header, whole) THEN "NoError" ELSE "BadChecksum"]
ipv4_header_read(read, whole) == ipv4_header_ends(read, ipv4_header_of(read.numbers), whole)
ipv4_header_parse(p) ==
    IF Len(p.buffer) < IPV4_LENGTH
    THEN [header |-> new_IPv4Header, parser |-> p, result |-> "PacketTooShort"]
    ELSE ipv4_header_read(parse_ints(p, IPv4HeaderLengths), p.buffer)

ipv4_header_serialize(h) ==
    concatenate(<<
        unparse_u8(16 * h.ver + h.hlen), unparse_u8(h.tos), unparse_u16(h.len),
        unparse_u16(h.id), unparse_u16(2 ^ 13 * bits(<< h.df, h.mf >>) + h.offset),
        unparse_u8(h.ttl), unparse_u8(h.proto), unparse_u16(h.cksum),
        unparse_u32(h.src), unparse_u32(h.dst),
        [i \in 1 .. (4 * h.hlen - IPV4_LENGTH) |-> 0] >>)

\* uint16_t
payload_length(h) == (h.len + 65536 - 4 * h.hlen) % 65536

\* Mutant: the addresses are left out.
pseudo_cksum_no_addresses(h) == h.proto + payload_length(h)
pseudo_cksum(h) ==
    h.src[1] + h.src[2] + h.dst[1] + h.dst[2] + h.proto + payload_length(h)

\* Mutant: the length is compared with the whole datagram's.
size_agrees_whole(h, payload) == Len(payload) = h.len
size_agrees(h, payload) == Len(payload) = payload_length(h)

\* What the header's parse returns is dropped: a header with a bad checksum, version or
\* length gets through unless the payload's size gives it away.
ipv4_datagram_of(parsed) ==
    [result |-> IF size_agrees(parsed.header, parsed.parser.buffer) THEN parsed.parser.error
                ELSE "PacketTooShort",
     header |-> parsed.header, payload |-> parsed.parser.buffer]
ipv4_datagram_parse(buffer) == ipv4_datagram_of(ipv4_header_parse(new_NetParser(buffer)))

ipv4_datagram_serialize(header, payload) ==
    LET zeroed == [header EXCEPT !.cksum = 0]
        check == checksum_add(new_InternetChecksum(0), ipv4_header_serialize(zeroed))
    IN  ipv4_header_serialize([zeroed EXCEPT !.cksum = checksum_value(check)]) \o payload

=============================================================================
