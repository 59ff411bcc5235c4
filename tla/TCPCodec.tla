------------------------------ MODULE TCPCodec ------------------------------
(***************************************************************************)
(* libsponge/tcp_helpers/tcp_header.{hh,cc} and tcp_segment.cc: a segment   *)
(* as bytes.                                                               *)
(***************************************************************************)
EXTENDS NetParser

TCP_LENGTH == 20
\* sport, dport, seqno, ackno, doff, flags, win, cksum, uptr
TCPHeaderLengths == << 2, 2, 4, 4, 1, 1, 2, 2, 2 >>

new_TCPHeader ==
    [sport |-> 0, dport |-> 0, seqno |-> << 0, 0 >>, ackno |-> << 0, 0 >>, doff |-> 5,
     urg |-> FALSE, ack |-> FALSE, psh |-> FALSE, rst |-> FALSE, syn |-> FALSE, fin |-> FALSE,
     win |-> 0, cksum |-> 0, uptr |-> 0]

tcp_header_of(n) ==
    [sport |-> n[1], dport |-> n[2], seqno |-> n[3], ackno |-> n[4], doff |-> n[5] \div 16,
     urg |-> bit(n[6], 5), ack |-> bit(n[6], 4), psh |-> bit(n[6], 3),
     rst |-> bit(n[6], 2), syn |-> bit(n[6], 1), fin |-> bit(n[6], 0),
     win |-> n[7], cksum |-> n[8], uptr |-> n[9]]

\* A doff that is too small is reported, but the parser has no error then.
tcp_header_ends(read, header) ==
    IF header.doff < 5
    THEN [header |-> header, parser |-> read, result |-> "HeaderTooShort"]
    ELSE LET skipped == parser_remove_prefix(read, 4 * header.doff - TCP_LENGTH)
         IN  [header |-> header, parser |-> skipped, result |-> skipped.error]
tcp_header_read(read) == tcp_header_ends(read, tcp_header_of(read.numbers))
tcp_header_parse(p) == tcp_header_read(parse_ints(p, TCPHeaderLengths))

\* Options are zero bytes.
tcp_header_serialize(h) ==
    LET fields == concatenate(<<
            unparse_u16(h.sport), unparse_u16(h.dport),
            unparse_u32(h.seqno), unparse_u32(h.ackno), unparse_u8(16 * h.doff),
            unparse_u8(bits(<< h.urg, h.ack, h.psh, h.rst, h.syn, h.fin >>)),
            unparse_u16(h.win), unparse_u16(h.cksum), unparse_u16(h.uptr) >>)
    IN  fields \o [i \in 1 .. (4 * h.doff - TCP_LENGTH) |-> 0]

\* TCPHeader::operator==, which leaves out the ports and the checksum.
same_header(a, b) ==
    \A field \in {"seqno", "ackno", "doff", "urg", "ack", "psh", "rst", "syn", "fin", "win", "uptr"} :
        a[field] = b[field]

segment_cksum_ok(buffer, pseudo) ==
    checksum_value(checksum_add(new_InternetChecksum(pseudo), buffer)) = 0
\* What the header's parse returns is dropped: only the parser's own error counts.
segment_of(parsed) ==
    [result |-> parsed.parser.error,
     seg |-> [header |-> parsed.header, payload |-> parsed.parser.buffer]]
\* Mutant: the checksum is not looked at.
tcp_segment_parse_unchecked(buffer, pseudo) == segment_of(tcp_header_parse(new_NetParser(buffer)))
tcp_segment_parse(buffer, pseudo) ==
    IF segment_cksum_ok(buffer, pseudo) THEN segment_of(tcp_header_parse(new_NetParser(buffer)))
    ELSE [result |-> "BadChecksum", seg |-> [header |-> new_TCPHeader, payload |-> << >>]]

tcp_segment_serialize(seg, pseudo) ==
    LET zeroed == [seg.header EXCEPT !.cksum = 0]
        check == checksum_add(checksum_add(new_InternetChecksum(pseudo),
                                           tcp_header_serialize(zeroed)), seg.payload)
    IN  tcp_header_serialize([zeroed EXCEPT !.cksum = checksum_value(check)]) \o seg.payload

=============================================================================
