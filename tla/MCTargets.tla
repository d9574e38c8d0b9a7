----------------------------- MODULE MCTargets -----------------------------
(***************************************************************************)
(* Three kinds of instances.  With plan = "ranges", all lists of ranges over *)
(* eight addresses; with plan = "settings", all sequences of arguments     *)
(* below, before or after a small range and with ports of two protocols.   *)
(* With plan = "rdpscan", every file and every one or two arguments.       *)
(***************************************************************************)
EXTENDS Targets

Arg(n, v) == [dash |-> FALSE, name |-> n, index |-> 0, value |-> v]
Indexed(n, k, v) == [dash |-> FALSE, name |-> n, index |-> k, value |-> v]
Dash(n, v) == [dash |-> TRUE, name |-> n, index |-> 0, value |-> v]

One(a) == [kind |-> "one", from |-> a, to |-> a, bits |-> 0]
Cidr(a, b) == [kind |-> "cidr", from |-> a, to |-> a, bits |-> b]
FromTo(a, b) == [kind |-> "range", from |-> a, to |-> b, bits |-> 0]

Port(p, a, b) == [proto |-> p, span |-> Span(a, b)]

SomePorts == {<<Port("", 5, 5)>>, <<Port("", 6, 6), Port("U", 0, 0)>>}
TwoProtocols == {<<Port("", 5, 5), Port("U", 3, 3)>>}

\* Words, sizes and times that differ in how they are read.
SettingWords ==
    {Arg("banners", Word("true")), Arg("nobanner", Word("no")), Arg("noreset", Word("off")),
     Arg("arp", Word("true")), Arg("ping", Word("true")), Arg("randomize-hosts", Word("true")),
     Arg("nmap-payloads", Word("payloads")), Arg("nmap-service-probes", Word("probes")),
     Arg("pcap", Word("out.pcap")), Arg("pcap-payloads", Word("in.pcap")),
     Arg("hello", Word("ssl")), Arg("hello", Word("smbv1")),
     Indexed("hello-string", 5, Word("aGk=")), Indexed("hello-file", 5, Word("file")),
     Indexed("hello-filename", 5, Word("missing")),
     Arg("capture", Word("html")), Arg("capture", Word("ticketbleed")),
     Arg("output-file", Word("out.txt")), Arg("output-format", Word("json")),
     Arg("output-format", Word("redis")), Arg("output-format", Word("greppable")),
     Arg("show", Parts(<<"open", "closed">>)), Arg("noshow", Parts(<<"open">>)),
     Arg("show", Parts(<<"host">>)), Arg("open", Word("")), Arg("append-output", Word("false")),
     Arg("stylesheet", Word("a.xsl")), Arg("no-stylesheet", Word("")), Arg("webxml", Word("")),
     Arg("script", Word("nse")), Arg("http-user-agent", Word("agent")),
     Arg("http-header", Value("x", 0, <<"name">>)),
     Arg("nostatus", Word("")), Arg("infinite", Word("")), Arg("bpf", Word("filter")),
     Arg("banner-types", Word("http")), Arg("banner-app", Word("gopher")),
     Arg("debug", Word("if")), Arg("test", Word("csv")), Arg("echo", Word("")),
     Arg("includefile", Word("missing")), Arg("readrange", Word("")), Arg("backtrace", Word("")), Arg("traceroute", Word("")),
     Arg("heartbleed", Word("")), Arg("vuln", Word("poodle")), Arg("vuln", Word("ntp-monlist")),
     Arg("nocapture", Word("cert")), Arg("selftest", Word(""))}

SettingNumbers ==
    {Arg("rate", Value("#", 100, <<>>)), Arg("max-rate", Value("#", 0, <<2, 5>>)),
     Arg("shards", Parts(<<1, 2>>)), Arg("shard", Parts(<<2, 2>>)), Arg("shard", Parts(<<3, 2>>)),
     Arg("retry", Num(2)), Arg("retries", Num(1000)), Arg("seed", Num(3)),
     Arg("resume-index", Num(1)), Arg("resume-count", Num(1)), Arg("hello-timeout", Num(4)),
     Arg("min-pkt", Num(64)), Arg("rotate", Value("h", 1, <<>>)), Arg("rotate", Value("d", 0, <<>>)),
     Arg("rotate-dir", Word("logs")), Arg("rotate-offset", Value("m", 10, <<"-">>)),
     Arg("rotate-size", Value("k", 2, <<>>)), Arg("rotate-size", Value("x", 1, <<>>)),
     Arg("ttl", Num(300)), Arg("wait", Word("forever")), Arg("top-ports", Num(2)),
     Arg("redis", Parts(<<5, 6379>>)), Arg("redis", Parts(<<5, 0>>)),
     Arg("seed", Word("time")), Arg("blackrock-rounds", Num(4))}

SettingNics ==
    {Arg("source-ip", Parts(<<FromTo(4, 5)>>)), Arg("adapter-ip", Parts(<<FromTo(4, 7)>>)),
     Arg("adapter-ip", Parts(<<FromTo(4, 6)>>)), Arg("source-port", Parts(<<Port("", 4, 5)>>)),
     Arg("router-mac", Word("66-55")), Arg("router-ip", Parts(<<One(1)>>)),
     Arg("spoof-mac", Word("11-22")), Arg("adapter-mac", Word("bad")), Arg("if", Word("eth0")), Indexed("adapter", 1, Word("eth1")),
     Indexed("adapter-ip", 1, Parts(<<Cidr(2, 1)>>)), Arg("vlan", Num(7))}

SettingRanges ==
    {Arg("ports", Parts(<<Port("T", 65535, 65535), Port("U", 0, 0), Port("", 3, 3)>>)),
     Arg("ports", Parts(<<Port("", 4, 4), Port("I", 0, 1)>>)),
     Arg("ports", Parts(<<Port("", 4, 4), Port("O", 300, 300)>>)),
     Arg("udp-port", Parts(<<Port("", 2, 4)>>)), Arg("oproto", Parts(<<Port("", 6, 6)>>)),
     Arg("tcp-ports", Parts(<<Port("S", 2, 2)>>)), Arg("exclude-port", Parts(<<Port("", 4, 5)>>)),
     Arg("exclude-ports", Parts(<<Port("", 4, 2)>>)),
     Arg("exclude", Parts(<<One(0)>>)), Arg("conf", Parts(<<Line("rate", 0, Value("#", 7, <<>>)),
                                                              Line("banners", 0, Word("true"))>>))}

SettingDashes ==
    {Dash("oX", Word("out.xml")), Dash("oR", Value("0.0.0.5:6379", 0, <<5, 6379>>)), Dash("oR", Word("out.redis")), Dash("oG", Word("out.g")),
     Dash("sU", Word("")), Dash("sZ", Word("")), Dash("sL", Word("")), Dash("Pn", Word("")),
     Dash("p", Parts(<<Port("", 1, 2)>>)), Dash("p", Parts(<<>>)), Dash("V", Word("")),
     Dash("A", Word("")), Dash("W", Word("")), Dash("oR", Word("-")), Dash("oJ", Word("")),
     Dash("iR", Word("")), Arg("help", Word("")), Arg("top-ports", Word("")),
     Arg("readscan", Word("")), Arg("", Word("bare"))}

SomeSettings == SettingWords \cup SettingNumbers \cup SettingNics \cup SettingRanges \cup SettingDashes

\* /etc/masscan/masscan.conf: none, or the excludes it usually names and a
\* few settings of its own.
SomeEtcFiles ==
    {<<>>,
     <<Line("exclude", 0, Parts(<<Cidr(6, 2)>>)), Line("banners", 0, Word("true")),
       Line("hello-string", 7, Word("aG8=")), Line("output-format", 0, Word("json"))>>}

\* Names, addresses, ranges of both forms, one of them empty and one of a
\* single address.
SomeRdpArguments ==
    {One(3), FromTo(1, 4), FromTo(0, 7), Cidr(6, 2), Cidr(3, 3), FromTo(4, 2)}

SomeSpans == {Span(2, 3)}
=============================================================================
