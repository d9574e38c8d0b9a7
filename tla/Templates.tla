------------------------------ MODULE Templates ------------------------------
(* templ-pkt.c and templ-payloads.c: the packets the program sends.  A      *)
(* packet is [ip, tp, data]: the words of the IP header, those of the       *)
(* transport header and the bytes that follow; an ARP request is [arp].     *)
(* A template holds such a packet with what differs between probes zeroed,  *)
(* and the partial checksums over it.                                       *)
EXTENDS Checksums

\* syn-cookie.c: a keyed hash of the two ends, a 32-bit number as two words.
CONSTANT SynCookie(_, _, _, _)

\* ^ of two words, of which the sums need no more than that it is a word.
CONSTANT XorOf(_, _)

(* ---- targets: a port, and in the same number the kind of probe *)
Templ_TCP == 0
Templ_UDP == 65536
Templ_SCTP == 2 * 65536
Templ_ICMP_echo == 3 * 65536
Templ_ICMP_timestamp == 3 * 65536 + 1
Templ_ARP == 3 * 65536 + 2
Templ_Oproto_first == 3 * 65536 + 256

Kind(port) ==
    CASE port < Templ_UDP -> "tcp" [] port >= Templ_UDP /\ port < Templ_SCTP -> "udp"
      [] port >= Templ_SCTP /\ port < Templ_ICMP_echo -> "sctp"
      [] port = Templ_ICMP_echo -> "ping" [] port = Templ_ICMP_timestamp -> "timestamp"
      [] port = Templ_ARP -> "arp" [] OTHER -> "none"

(* ---- the packets the templates are made from *)
IpHeader(length, proto) == <<17664, length, 0, 0, 255 * 256 + proto, 65535, 0, 0, 0, 0>>
default_tcp_template == [ip |-> IpHeader(40, 6), tp |-> <<0, 0, 0, 0, 0, 0, 20482, 1024, 65535, 0>>]
default_udp_template == [ip |-> IpHeader(28, 17), tp |-> <<65244, 0, 8, 0>>]
default_sctp_template ==
    [ip |-> IpHeader(52, 132), tp |-> <<0, 0, 0, 0, 22756, 23862, 256, 20, 40589, 21029, 0, 32768, 10, 2048, 17946, 57151>>]
default_icmp_ping_template ==
    [ip |-> IpHeader(76, 1), tp |-> <<2048, 0, 0, 0>> \o [i \in 1..24 |-> 257 * (6 + 2*i) + 1]]
default_icmp_timestamp_template == [ip |-> IpHeader(40, 1), tp |-> <<3328, 0, 0, 0, 0, 0, 0, 0, 0, 0>>]
DefaultTemplates ==
    [tcp |-> default_tcp_template, udp |-> default_udp_template, sctp |-> default_sctp_template,
     ping |-> default_icmp_ping_template, timestamp |-> default_icmp_timestamp_template]

\* The identification, the checksum and the addresses are zeroed, in the
\* transport header the ports, the number and the checksum of TCP.
_template_init(k) ==
    LET d == DefaultTemplates[k]
        ip == [i \in 1..10 |-> IF i \in {3, 6, 7, 8, 9, 10} THEN 0 ELSE d.ip[i]]
        tp == IF k = "tcp" THEN [i \in 1..10 |-> IF i \in {1, 2, 3, 4, 9} THEN 0 ELSE d.tp[i]] ELSE d.tp
    IN [ip |-> ip, tp |-> tp, checksum_ip |-> ip_header_checksum(ip),
        checksum_tcp |-> CASE k = "tcp" -> tcp_checksum2(ip, tp, 2 * Len(tp))
                           [] k \in {"ping", "timestamp"} -> icmp_checksum2(tp) [] OTHER -> 0]

\* ARP: the opcode, the sender's two addresses and the target's.
default_arp_template(mac) == [op |-> 1, sha |-> mac, spa |-> <<0, 0>>, tpa |-> <<0, 0>>]

\* The byte at 8 of what stands at offset_ip: of an ARP request, which has no
\* such field, the first byte of the sender's hardware address.
template_set_ttl(t, ttl) ==
    LET ip == [t.ip EXCEPT ![5] = ttl * 256 + (@ % 256)] IN
    [t EXCEPT !.ip = ip, !.checksum_ip = ip_header_checksum(ip)]
ArpTemplateSetTtl(a, ttl) == [a EXCEPT !.sha[1] = ttl]

template_packet_init(mac, ttl) ==
    LET made == [k \in DOMAIN DefaultTemplates |->
                    IF ttl = 0 THEN _template_init(k) ELSE template_set_ttl(_template_init(k), ttl)]
        arp == default_arp_template(mac)
    IN [pkts |-> made, arp |-> IF ttl = 0 THEN arp ELSE ArpTemplateSetTtl(arp, ttl)]

(* ---- UDP payloads, and where each protocol carries the cookie *)
CookieBytes(c) == <<c[1] \div 256, c[1] % 256, c[2] \div 256, c[2] % 256>>
Overwrite(px, at, bytes) ==
    [i \in 1..Len(px) |-> IF i > at /\ i <= at + Len(bytes) THEN bytes[i - at] ELSE px[i]]

dns_set_cookie(px, c) == IF Len(px) > 2 THEN Overwrite(px, 0, SubSeq(CookieBytes(c), 3, 4)) ELSE px
ntp_set_cookie(px, c) == px
coap_udp_set_cookie(px, c) == IF Len(px) < 4 THEN px ELSE Overwrite(px, 2, SubSeq(CookieBytes(c), 3, 4))
memcached_udp_set_cookie(px, c) == IF Len(px) < 2 THEN px ELSE Overwrite(px, 0, SubSeq(CookieBytes(c), 3, 4))
\* In the request's own integer, whose length says how much fits; the sign
\* bit is kept clear.  at is where that integer begins.
snmp_set_cookie(px, c, at) ==
    LET b == CookieBytes(c)
        n == px[at]
    IN CASE n \in 1..4 -> Overwrite(px, at, [i \in 1..n |-> IF i = 1 THEN b[4 - n + i] % 128 ELSE b[4 - n + i]])
         [] n = 5 -> Overwrite(px, at, <<0>> \o b) [] OTHER -> px

\* hard_coded_udp_payloads: version.bind, the NTP list, the NetBIOS status,
\* two system variables, /.well-known/core and stats, by port.
Letters(n) == [i \in 1..n |-> 65]
DnsQuery == <<80, 182, 1, 32, 0, 1, 0, 0, 0, 0, 0, 0, 7>> \o Letters(7) \o <<4>> \o Letters(4) \o <<0, 0, 16, 0, 3>>
NbtQuery == <<171, 18, 0, 0, 0, 1, 0, 0, 0, 0, 0, 0, 32>> \o Letters(32) \o <<0, 0, 33, 0, 1>>
NtpQuery == <<23, 0, 3, 42>> \o [i \in 1..44 |-> 0]
SnmpHeader == <<48, 57, 2, 1, 0, 4, 6>> \o Letters(6) \o <<160, 44, 2, 4>>
SnmpVariable == <<48, 13, 6, 9, 43, 6, 1, 128, 2, 1, 1, 1, 0, 5, 0>>
SnmpQuery == SnmpHeader \o <<0, 0, 0, 0, 2, 1, 0, 2, 1, 0, 48, 30>> \o SnmpVariable \o SnmpVariable
CoapQuery == <<64, 1, 1, 206, 187>> \o Letters(11) \o <<4>> \o Letters(4)
MemcachedQuery == <<0, 0, 0, 0, 0, 1, 0, 0>> \o Letters(7)
hard_coded_udp_payloads ==
    [port \in {53, 123, 137, 161, 5683, 11211} |->
        CASE port = 53 -> DnsQuery [] port = 123 -> NtpQuery [] port = 137 -> NbtQuery
          [] port = 161 -> SnmpQuery [] port = 5683 -> CoapQuery [] port = 11211 -> MemcachedQuery]

\* payloads_udp_lookup: nothing follows the header when there is no payload.
payloads_udp_lookup(port) ==
    IF port \in DOMAIN hard_coded_udp_payloads THEN hard_coded_udp_payloads[port] ELSE <<>>
udp_payload_fixup(port, c) ==
    LET px == payloads_udp_lookup(port) IN
    CASE port \in {53, 137} -> dns_set_cookie(px, c) [] port = 123 -> ntp_set_cookie(px, c)
      [] port = 161 -> snmp_set_cookie(px, c, Len(SnmpHeader)) [] port = 5683 -> coap_udp_set_cookie(px, c)
      [] port = 11211 -> memcached_udp_set_cookie(px, c) [] OTHER -> px

(* ---- packets *)
Xor3(a, b, c) == XorOf(XorOf(a, b), c)
\* The fields of the IP header, and its checksum from the beginning.
SetIp(ip, length, id, me, them) ==
    LET h == [ip EXCEPT ![2] = length, ![3] = id, ![6] = 0,
                        ![7] = me[1], ![8] = me[2], ![9] = them[1], ![10] = them[2]]
    IN [h EXCEPT ![6] = Complement(ip_header_checksum(h))]

\* A TCP or ICMP checksum goes on from the partial one.
TcpProbe(t, them, port, me, sport, seqno) ==
    [t.tp EXCEPT ![1] = sport, ![2] = port, ![3] = seqno[1], ![4] = seqno[2],
                 ![9] = Complement(Fold(Fold(FoldWide(<<me, them, seqno>>, <<t.checksum_tcp, sport, port>>))))]
IcmpProbe(t, number) ==
    [t.tp EXCEPT ![3] = number[1], ![4] = number[2],
                 ![2] = Complement(Fold(Fold(FoldWide(<<number>>, <<t.checksum_tcp>>))))]
SctpProbe(t, port, sport, seqno) == [t.tp EXCEPT ![1] = sport, ![2] = port, ![9] = seqno[1], ![10] = seqno[2]]
WithUdpSum(ip, tp, data) ==
    [tp EXCEPT ![4] = Complement(udp_checksum2(ip, tp \o WordsOf(data), 8 + Len(data)))]
UdpProbe(ip, t, port, sport, data) ==
    WithUdpSum(ip, [t.tp EXCEPT ![1] = sport, ![2] = port, ![3] = 8 + Len(data), ![4] = 0], data)

\* The addresses, and what is sent along, which only UDP probes have.
Addressed(t, them, port, me, seqno, data) ==
    [data |-> data, ip |-> SetIp(t.ip, 20 + 2 * Len(t.tp) + Len(data), Xor3(them[2], port, seqno[2]), me, them)]

\* The probe for a target; "none" when there is no template for it.
template_set_target(set, them, target, me, sport, seqno) ==
    LET k == Kind(target)
        port == target % 65536
        t == set.pkts[k]
        Packet(p) ==
            [ip |-> p.ip, data |-> p.data,
             tp |-> CASE k = "tcp" -> TcpProbe(t, them, port, me, sport, seqno)
                      [] k = "udp" -> UdpProbe(p.ip, t, port, sport, p.data)
                      [] k = "sctp" -> SctpProbe(t, port, sport, seqno)
                      [] OTHER -> IcmpProbe(t, SynCookie(them, target, me, 0))]
    IN CASE k = "arp" -> [arp |-> [set.arp EXCEPT !.spa = me, !.tpa = them]]
         [] k = "none" -> [none |-> TRUE]
         [] OTHER -> Packet(Addressed(t, them, port, me, seqno,
                                      IF k = "udp" THEN udp_payload_fixup(port, seqno) ELSE <<>>))

\* Any later segment of a connection: the IP checksum is the partial one and
\* what was filled in, folded twice.
tcp_create_packet(t, them, port, me, sport, seqno, ackno, flags, data) ==
    LET length == 40 + Len(data)
        id == Xor3(them[2], port, seqno[2])
        h == [t.ip EXCEPT ![2] = length, ![3] = id, ![7] = me[1], ![8] = me[2], ![9] = them[1], ![10] = them[2]]
        ip == [h EXCEPT ![6] = Complement(Fold(FoldWide(<<me, them>>, <<t.checksum_ip, id, length - t.ip[2]>>)))]
        tp0 == [t.tp EXCEPT ![1] = sport, ![2] = port, ![3] = seqno[1], ![4] = seqno[2], ![5] = ackno[1], ![6] = ackno[2],
                            ![7] = (@ \div 256) * 256 + flags, ![8] = 1200, ![9] = 0]
    IN [ip |-> ip, data |-> data,
        tp |-> [tp0 EXCEPT ![9] = Complement(tcp_checksum2(ip, tp0 \o WordsOf(data), 20 + Len(data)))]]

(* What a host makes of a packet: SCTP's sum is a CRC, left out here.       *)
ProtoOf(p) == p.ip[5] % 256
Genuine(p) ==
    LET words == p.tp \o WordsOf(p.data)
        length == 2 * Len(p.tp) + Len(p.data)
    IN /\ Verifies(SumOf(p.ip)) /\ p.ip[2] = 20 + length
       /\ CASE ProtoOf(p) = 6 -> Verifies(PseudoSum(6, p.ip, words, length))
            [] ProtoOf(p) = 17 -> p.tp[4] = 0 \/ Verifies(PseudoSum(17, p.ip, words, length))
            [] ProtoOf(p) = 1 -> Verifies(SumOf(words))
            [] OTHER -> TRUE
==============================================================================
