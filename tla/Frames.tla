------------------------------- MODULE Frames -------------------------------
(* proto-preprocess.c: how a frame from the adapter is taken apart, down to *)
(* the addresses, the ports and the length of what the transport carries.   *)
(* A frame is [link, hs, len]: the type of the link, its headers in order   *)
(* and the bytes that were captured, which may be fewer than the headers    *)
(* say (the capture is cut) or more (Ethernet pads what is short).  A header *)
(* has its size and the fields the code looks at; senders are consistent:   *)
(* the header that follows is the one a header announces.                   *)
EXTENDS Integers, Sequences

(* Where the parser stands: the label it jumps to, the offset, the bytes    *)
(* that count, and the addresses once they are known.                       *)
At(label, at, len, ip) == [to |-> label, at |-> at, len |-> len, ip |-> ip]
Bad == [to |-> "bad"]                                            \* return 0
Found(what, s, sport, dport, at) ==
    [to |-> "done", found |-> what, them |-> s.ip.src, me |-> s.ip.dst, transport |-> s.at,
     sport |-> sport, dport |-> dport, at |-> at, app |-> s.len - at]  \* return 1
VERIFY_REMAINING(s, n) == s.at + n <= s.len
Skip(s, label, n) == At(label, s.at + n, s.len, s.ip)

parse_linktype == [l \in {1, 12, 105, 113, 119, 127} |->
    CASE l = 1 -> "eth" [] l = 12 -> "ipv4" [] l = 105 -> "wifi" [] l = 113 -> "sll"
      [] l = 119 -> "prism" [] l = 127 -> "radiotap"]

\* The label an Ethernet type leads to: one below 2000 is a length.
parse_ethertype(type) == IF type \in {"llc", "ipv4", "arp", "ipv6", "vlan", "mpls"} THEN type ELSE "bad"

parse_ethernet(h, s) ==
    IF VERIFY_REMAINING(s, 14) THEN Skip(s, parse_ethertype(h.next), 14) ELSE Bad

parse_ipv4(h, s) ==
    IF /\ VERIFY_REMAINING(s, 20) /\ h.version = 4
       /\ VERIFY_REMAINING(s, h.size) /\ ~h.fragment
       /\ VERIFY_REMAINING(s, h.total) /\ h.total >= h.size
    THEN At(IF h.next \in {"icmp", "tcp", "udp", "sctp"} THEN h.next ELSE "bad",
            s.at + h.size, s.at + h.total, [src |-> h.src, dst |-> h.dst])
    ELSE Bad

parse_tcp(h, s) ==
    IF VERIFY_REMAINING(s, 20) /\ VERIFY_REMAINING(s, h.size)
    THEN Found("tcp", s, h.sport, h.dport, s.at + h.size) ELSE Bad

\* What comes from or goes to port 53 must have room for half a DNS header.
parse_udp(h, s) ==
    LET dns == 53 \in {h.sport, h.dport} IN
    IF VERIFY_REMAINING(s, 8) /\ (dns => VERIFY_REMAINING(s, 16))
    THEN Found(IF dns THEN "dns" ELSE "udp", s, h.sport, h.dport, s.at + 8) ELSE Bad

parse_icmp(h, s) == IF VERIFY_REMAINING(s, 4) THEN Found("icmp", s, h.type, h.code, s.at) ELSE Bad
parse_sctp(h, s) ==
    IF VERIFY_REMAINING(s, 12) THEN Found("sctp", s, h.sport, h.dport, s.at + 12) ELSE Bad

\* The addresses of IPv6 are read as if they were four bytes long: nobody's.
parse_ipv6(h, s) ==
    IF VERIFY_REMAINING(s, 40) /\ h.version = 6 /\ VERIFY_REMAINING(s, 40 + h.payload)
    THEN At(h.next, s.at + 40, s.at + 40 + h.payload, [src |-> "v6", dst |-> "v6"]) ELSE Bad
\* The length of the options is in units of eight bytes and is taken for bytes.
parse_ipv6_hop_by_hop(h, s) ==
    IF VERIFY_REMAINING(s, 8) /\ VERIFY_REMAINING(s, h.units + 8)
    THEN IF h.units = 0 THEN Skip(s, h.next, 8) ELSE Bad ELSE Bad
parse_icmpv6(h, s) == Found("ipv6", s, 0, 0, s.at)

parse_vlan8021q(h, s) ==
    IF VERIFY_REMAINING(s, 4) THEN Skip(s, parse_ethertype(h.next), 4) ELSE Bad
parse_vlanmpls(h, s) ==
    IF VERIFY_REMAINING(s, 4) THEN Skip(s, IF h.bottom THEN "ipv4" ELSE "mpls", 4) ELSE Bad

\* A frame between access points carries a fourth address.
\* Whether a frame is protected is looked up in the second byte of all that was
\* captured: behind a radiotap or prism header that is a byte of it, which is 0.
Protected(h, s) == s.at = 0 /\ h.protected
parse_wifi(h, s) ==
    IF VERIFY_REMAINING(s, 24) /\ ~Protected(h, s) /\ ~h.fragment
    THEN Skip(s, "llc", 24 + (IF h.wds THEN 6 ELSE 0) + (IF h.qos THEN 2 ELSE 0)) ELSE Bad
\* The checksum of the radio frame may still be at its end.
parse_radiotap_header(h, s) ==
    IF VERIFY_REMAINING(s, 8) /\ VERIFY_REMAINING(s, h.size)
    THEN At("wifi", s.at + h.size, IF h.fcs THEN s.len - 4 ELSE s.len, s.ip) ELSE Bad
parse_prism_header(h, s) ==
    IF VERIFY_REMAINING(s, 8) /\ VERIFY_REMAINING(s, h.size) THEN Skip(s, "wifi", h.size) ELSE Bad
parse_llc(h, s) ==
    IF VERIFY_REMAINING(s, 8) /\ h.snap /\ h.oui = 0 THEN Skip(s, parse_ethertype(h.next), 8) ELSE Bad
parse_linux_sll(h, s) ==
    IF VERIFY_REMAINING(s, 16) THEN Skip(s, parse_ethertype(h.next), 16) ELSE Bad

\* The opcode takes the place of the ports.
parse_arp(h, s) ==
    IF VERIFY_REMAINING(s, 8) /\ VERIFY_REMAINING(s, 28)
    THEN Found("arp", [s EXCEPT !.ip = [src |-> h.src, dst |-> h.dst]], h.op, 0, s.at) ELSE Bad

Layer(h, s) ==
    CASE s.to = "eth" -> parse_ethernet(h, s) [] s.to = "ipv4" -> parse_ipv4(h, s)
      [] s.to = "tcp" -> parse_tcp(h, s) [] s.to = "udp" -> parse_udp(h, s)
      [] s.to = "icmp" -> parse_icmp(h, s) [] s.to = "sctp" -> parse_sctp(h, s)
      [] s.to = "ipv6" -> parse_ipv6(h, s) [] s.to = "hop" -> parse_ipv6_hop_by_hop(h, s)
      [] s.to = "icmpv6" -> parse_icmpv6(h, s) [] s.to = "vlan" -> parse_vlan8021q(h, s)
      [] s.to = "mpls" -> parse_vlanmpls(h, s) [] s.to = "wifi" -> parse_wifi(h, s)
      [] s.to = "radiotap" -> parse_radiotap_header(h, s) [] s.to = "prism" -> parse_prism_header(h, s)
      [] s.to = "llc" -> parse_llc(h, s) [] s.to = "sll" -> parse_linux_sll(h, s)
      [] s.to = "arp" -> parse_arp(h, s) [] OTHER -> Bad

\* Header by header, until one of them ends it.
Below(h, s) == IF s.to \in {"bad", "done"} THEN s ELSE Layer(h, s)
Descend(hs, s) ==
    LET at[k \in 0..Len(hs)] == IF k = 0 THEN s ELSE Below(hs[k], at[k - 1])
    IN at[Len(hs)]

preprocess_frame(f) ==
    IF f.link \notin DOMAIN parse_linktype THEN Bad
    ELSE LET s == Descend(f.hs, At(parse_linktype[f.link], 0, f.len, [src |-> "none", dst |-> "none"])) IN
         IF s.to = "done" THEN s ELSE Bad
=============================================================================
