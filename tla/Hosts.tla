-------------------------------- MODULE Hosts --------------------------------
(* What arrives at the adapters: the answers of the hosts that were probed, *)
(* and frames nothing was sent for.  Nothing here is code of the program;   *)
(* an answer takes what it repeats from the probe itself.                   *)
EXTENDS Templates

(* ---- frames, as module Frames takes them apart *)
Link(l) ==
    CASE l = "ethernet" -> [type |-> 1, size |-> 14, hs |-> <<[next |-> "ipv4"]>>]
      [] l = "vlan" -> [type |-> 1, size |-> 18, hs |-> <<[next |-> "vlan"], [next |-> "ipv4"]>>]
      [] l = "mpls" -> [type |-> 1, size |-> 18, hs |-> <<[next |-> "mpls"], [bottom |-> TRUE]>>]
      [] l = "raw" -> [type |-> 12, size |-> 0, hs |-> <<>>]
      [] l = "sll" -> [type |-> 113, size |-> 16, hs |-> <<[next |-> "ipv4"]>>]
      [] l = "wifi" -> [type |-> 127, size |-> 42,
                        hs |-> <<[size |-> 8, fcs |-> FALSE],
                                 [protected |-> FALSE, fragment |-> FALSE, wds |-> FALSE, qos |-> TRUE],
                                 [snap |-> TRUE, oui |-> 0, next |-> "ipv4"]>>]
Zeros(n) == [i \in 1..n |-> 0]
\* Ethernet pads what is shorter than 60 bytes.
Padded(l, n) == IF l \in {"ethernet", "vlan", "mpls"} /\ n < 60 THEN 60 ELSE n
IpFrame(l, src, dst, next, transport, payload, more) ==
    LET k == Link(l)
        total == 20 + transport.size + Len(payload)
        len == Padded(l, k.size + total)
    IN [link |-> k.type, len |-> len, more |-> more,
        hs |-> k.hs \o <<[version |-> 4, size |-> 20, total |-> total, fragment |-> FALSE,
                          next |-> next, src |-> src, dst |-> dst], transport>>,
        px |-> Zeros(k.size + 20 + transport.size) \o payload \o Zeros(len - k.size - total)]
ArpFrame(l, op, src, dst) ==
    LET k == Link(l)
        last == Len(k.hs)
        len == Padded(l, k.size + 28)
    IN [link |-> k.type, len |-> len, more |-> [op |-> op], px |-> Zeros(len),
        hs |-> [k.hs EXCEPT ![last].next = "arp"] \o <<[op |-> op, src |-> src, dst |-> dst]>>]

Next32(c) == IF c[2] < W - 1 THEN <<c[1], c[2] + 1>> ELSE <<(c[1] + 1) % W, 0>>
Previous32(c) == IF c[2] > 0 THEN <<c[1], c[2] - 1>> ELSE <<(c[1] + W - 1) % W, W - 1>>

TheirSeqno == <<0, 0>>                   \* every host begins at 0

(* ---- the answers to a probe *)
Source(pkt) == <<pkt.ip[7], pkt.ip[8]>>
Target(pkt) == <<pkt.ip[9], pkt.ip[10]>>
TcpAnswer(l, pkt, flags, ack) ==
    IpFrame(l, Target(pkt), Source(pkt), "tcp", [sport |-> pkt.tp[2], dport |-> pkt.tp[1], size |-> 20], <<>>,
            [flags |-> flags, ack |-> ack])
SctpAnswer(l, pkt, chunk, flags) ==
    IpFrame(l, Target(pkt), Source(pkt), "sctp", [sport |-> pkt.tp[2], dport |-> pkt.tp[1], size |-> 12], Zeros(4),
            [tag |-> <<pkt.tp[9], pkt.tp[10]>>, chunk |-> chunk, flags |-> flags, ack |-> <<0, 0>>])
UdpAnswer(l, pkt, payload) ==
    IpFrame(l, Target(pkt), Source(pkt), "udp", [sport |-> pkt.tp[2], dport |-> pkt.tp[1], size |-> 8], payload,
            [crc |-> FALSE])
Unreachable(l, src, dst, inner) ==
    IpFrame(l, src, dst, "icmp", [type |-> 3, code |-> 3, size |-> 8], Zeros(28), [number |-> <<0, 0>>, inner |-> inner])

\* The version of a name server, the names of a NetBIOS host, a system's name.
NameServer(q) ==
    SubSeq(q, 1, 2) \o <<129, 128, 0, 1, 0, 1, 0, 0, 0, 0>> \o SubSeq(q, 13, Len(q))
    \o <<192, 54, 0, 16, 0, 3, 0, 0, 0, 0, 0, 6, 5>> \o Letters(5)
NetBios(q) ==
    SubSeq(q, 1, 2) \o <<132, 0, 0, 0, 0, 1, 0, 0, 0, 0, 32>> \o Letters(32) \o <<0, 0, 33, 0, 1>>
    \o <<0, 0, 0, 0, 0, 25, 1>> \o Letters(18) \o Zeros(6)
SnmpAgent(q) ==
    <<48, 39, 2, 1, 0, 4, 6>> \o Letters(6) \o <<162, 26, 2, 4>> \o SubSeq(q, 18, 21)
    \o <<2, 1, 0, 2, 1, 0, 48, 12, 48, 10, 6, 3, 43, 6, 1, 4, 3, 65, 65, 65>>
\* The payload a server of that port sends for a query that it understands.
Answered(port, q) ==
    CASE port = 53 -> NameServer(q) [] port = 137 -> NetBios(q) [] port = 161 -> SnmpAgent(q)
      [] port = 123 -> <<151, 0, 3, 42, 0, 1, 0, 8>> \o Zeros(8)
      [] port = 5683 -> <<96, 69>> \o SubSeq(q, 3, 4) \o <<193, 40, 255, 60, 97, 62, 44, 60, 98, 62>>
      [] port = 11211 -> SubSeq(q, 1, 8) \o Letters(10)
      [] OTHER -> Letters(4)

Kinds(k) ==
    CASE k = "tcp" -> {"open", "closed", "both"} [] k = "sctp" -> {"open", "closed"}
      [] k = "udp" -> {"open", "unreachable"} [] k = "ping" -> {"open"} [] k = "arp" -> {"up"} [] OTHER -> {}
Reply(l, pkt, k, kind) ==
    CASE k = "tcp" -> TcpAnswer(l, pkt, CASE kind = "open" -> {"SYN", "ACK"} [] kind = "closed" -> {"RST", "ACK"}
                                          [] OTHER -> {"SYN", "ACK", "RST"}, Next32(<<pkt.tp[3], pkt.tp[4]>>))
      [] k = "sctp" -> IF kind = "open" THEN SctpAnswer(l, pkt, 2, {}) ELSE SctpAnswer(l, pkt, 6, {"FIN"})
      [] k = "udp" /\ kind = "open" -> UdpAnswer(l, pkt, Answered(pkt.tp[2], pkt.data))
      [] k = "udp" /\ kind # "open" -> Unreachable(l, Target(pkt), Source(pkt),
                                  [me |-> Source(pkt), pme |-> pkt.tp[1], them |-> Target(pkt), pthem |-> pkt.tp[2], proto |-> 17])
      [] k = "ping" -> IpFrame(l, Target(pkt), Source(pkt), "icmp", [type |-> 0, code |-> 0, size |-> 8], Zeros(48),
                               [number |-> <<pkt.tp[3], pkt.tp[4]>>])
      [] k = "arp" -> ArpFrame(l, 2, pkt.arp.tpa, pkt.arp.spa)

(* ---- frames nothing was sent for: from whom, to whom *)
Stray(l, what, them, pthem, me, pme) ==
    LET ports == [sport |-> pthem, dport |-> pme, size |-> 20]
        udp == [sport |-> pthem, dport |-> pme, size |-> 8]
        Tcp(flags) == IpFrame(l, them, me, "tcp", ports, <<>>, [flags |-> flags, ack |-> <<7, 7>>])
    IN CASE what = "synack" -> Tcp({"SYN", "ACK"}) [] what = "rst" -> Tcp({"RST"})
         [] what = "fin" -> Tcp({"FIN", "ACK"}) [] what = "syn" -> Tcp({"SYN"})
         [] what = "long" -> [Tcp({"SYN", "ACK"}) EXCEPT !.len = 1600]
         [] what = "cut" -> [Tcp({"SYN", "ACK"}) EXCEPT !.len = 40]
         [] what = "fragment" -> [Tcp({"SYN", "ACK"}) EXCEPT !.hs[Len(Link(l).hs) + 1].fragment = TRUE]
         [] what = "short dns" -> IpFrame(l, them, me, "udp", udp, Zeros(9), [crc |-> FALSE])
         [] what = "dns" -> IpFrame(l, them, me, "udp", udp, <<1, 2, 129, 128>> \o Zeros(8), [crc |-> FALSE])
         [] what = "zeroaccess" -> IpFrame(l, them, me, "udp", udp, Zeros(4) \o <<76, 116, 101, 114>> \o Zeros(4)
                                                                    \o <<1, 0, 0, 0>> \o Zeros(8), [crc |-> TRUE])
         [] what = "unreachable" -> Unreachable(l, them, me, [me |-> me, pme |-> pme, them |-> them, pthem |-> pthem, proto |-> 6])
         [] what = "arp request" -> ArpFrame(l, 1, them, me) [] what = "arp reply" -> ArpFrame(l, 2, them, me)
=============================================================================
