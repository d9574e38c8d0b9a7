------------------------------ MODULE MCReceive ------------------------------
(* Scenarios for module Receive: one adapter or two, every kind of probe,   *)
(* every format, rotation by time and by size, a second run, and floods.    *)
(* 246.37.221.187 is an address for which folding twice is not enough.      *)
EXTENDS Receive, TLC, Bitwise

Me == [ip |-> <<2560, 1>>, port |-> 40000]
Me2 == [ip |-> <<2560, 2>>, port |-> 40001]
Them == <<2561, 5>>
\* The flow from port 80 has the largest cookie, so that its answer is 0.
MCSynCookie(them, port, me, mine) ==
    IF port = 80 THEN <<W - 1, W - 1>>
    ELSE <<(them[2] * 7 + mine) % W, (port + 3 * (port \div W) + them[2] * 64 + me[2] * 31) % W>>
MCXor(a, b) == a ^^ b
MCRstIndex(flow) == flow.port % 2

T(them, target) == [them |-> them, target |-> target]
S(what, them, port) == [what |-> what, them |-> them, port |-> port, me |-> Me.ip, mine |-> Me.port]
Base == [nics |-> 1, link |-> "ethernet", src |-> <<Me, Me2>>, ttl |-> 0, targets |-> {T(Them, 80)}, strays |-> {},
         kinds |-> {"open", "closed", "both", "unreachable", "up"}, arp |-> FALSE, tcb |-> FALSE, banners |-> FALSE,
         noreset |-> FALSE, show_open |-> TRUE, show_closed |-> TRUE, format |-> "xml", append |-> FALSE,
         period |-> 0, offset |-> 0, filesize |-> 0, mayFail |-> FALSE, start |-> 4, until |-> 4, lag |-> 0, frames |-> 3, runs |-> 1]
With(r) == r @@ Base

\* Two flows of one bucket, and one of another.
Same == {T(Them, 80), T(<<2561, 4>>, 81), T(Them, 443)}
Duplicates == With([targets |-> Same, frames |-> 4, kinds |-> {"open"}])
Closed == With([targets |-> {T(Them, 443)}, noreset |-> TRUE, show_closed |-> FALSE, format |-> "list",
                strays |-> {S("synack", Them, 443), S("rst", Them, 443), S("unreachable", Them, 443), S("cut", Them, 443)}])
Udp(port, link) == With([targets |-> {T(Them, Templ_UDP + port)}, link |-> link, banners |-> TRUE, frames |-> 2,
                         format |-> "binary", strays |-> {S("short dns", Them, 53), S("dns", Them, 53),
                                                        S("zeroaccess", Them, 16464)}])
Others(link) == With([targets |-> {T(Them, Templ_SCTP + 80), T(Them, Templ_ICMP_echo), T(Them, Templ_ICMP_timestamp),
                                   T(Them, Templ_Oproto_first)}, link |-> link, nics |-> 2, append |-> TRUE, frames |-> 2])
Arp == With([targets |-> {T(Them, Templ_ARP)}, arp |-> TRUE, ttl |-> 64,
             strays |-> {S("arp request", Them, 0), S("arp reply", <<2561, 9>>, 0), S("fragment", Them, 80), S("long", Them, 80)}])
\* In a binary file, with another record before it and behind it.
ArpBinary == [Arp EXCEPT !.format = "binary", !.targets = @ \cup {T(<<2561, 6>>, Templ_ARP)},
                         !.strays = {S("unreachable", Them, 443)}]
Banners == With([tcb |-> TRUE, banners |-> TRUE, format |-> "json", frames |-> 4, kinds |-> {"open"},
                 strays |-> {S("rst", Them, 80), S("fin", Them, 80), S("synack", Them, 81), S("fin", <<63013, 56763>>, 82)}])
Flood == With([tcb |-> TRUE, targets |-> {}, strays |-> {S("fin", Them, 80), S("fin", Them, 81)}, frames |-> 17, format |-> "none"])
Rotated(format, period, offset, size) ==
    With([format |-> format, targets |-> {T(Them, 80), T(Them, 81), T(Them, 82)}, kinds |-> {"open"}, frames |-> 3, noreset |-> TRUE,
          period |-> period, offset |-> offset, filesize |-> size, until |-> IF period > 0 THEN 8 ELSE 4, runs |-> 2])
Dated == [Rotated("grep", 3, 0, 0) EXCEPT !.targets = {T(Them, 80), T(Them, 81)}]
\* Ports and banners of TCP, stamped with global_now, or of UDP, with the packet's second.
LateBanners == [Rotated("list", 2, 0, 0) EXCEPT !.targets = {T(Them, 80)}, !.tcb = TRUE, !.banners = TRUE, !.runs = 1]
LateDatagrams == [Rotated("xml", 2, 0, 0) EXCEPT !.targets = {T(Them, Templ_UDP + 161)}, !.banners = TRUE,
                                                 !.lag = 1, !.runs = 1]
MCScenarios ==
    {Duplicates, Closed, Arp, ArpBinary, Banners, Flood, LateBanners, LateDatagrams}
    \cup {Udp(port, "raw") : port \in {53, 123, 137, 161, 5683, 11211, 99}} \cup {Udp(161, "vlan"), Udp(53, "sll")}
    \cup {Others("mpls"), Others("wifi")}
    \cup {[format |-> "grep", period |-> 2] @@ Dated, [format |-> "ndjson", offset |-> 1, runs |-> 1, mayFail |-> TRUE] @@ Dated,
          Rotated("binary", 0, 0, 115), Rotated("json", 0, 0, 0), Rotated("certs", 0, 0, 0), Rotated("unicorn", 0, 0, 0)}
===============================================================================
