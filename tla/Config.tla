------------------------------- MODULE Config -------------------------------
(***************************************************************************)
(* The settings of a scan (struct Masscan), how a parameter of the command *)
(* line or of a file changes them, and the file that echoes them, which is *)
(* what a paused scan leaves behind (main-conf.c).                         *)
(*                                                                         *)
(* A value is what its text says: a word, a number or a list of parts.     *)
(* The 32 bits of an address are AddrBits here.                            *)
(***************************************************************************)
EXTENDS RangeList, FiniteSets

CONSTANT AddrBits

ASSUME ConfigAssumption == AddrBits \in Nat /\ MaxAddr + 1 = 2 ^ AddrBits

Value(word, num, parts) == [word |-> word, num |-> num, parts |-> parts]
Word(w) == Value(w, 0, <<>>)
Num(n) == Value("#", n, <<>>)
Parts(s) == Value("", 0, s)
Line(name, index, value) == [name |-> name, index |-> index, value |-> value]

\* Where the ports of a protocol begin in the list of ports.
Templ == [T |-> 0, U |-> 65536, S |-> 2 * 65536, I |-> 3 * 65536, O |-> 3 * 65536 + 256]
Templ_ICMP_echo == Templ.I
Templ_ARP == Templ.I + 2
Templ_VulnCheck == 4 * 65536

NoAddress == Span(0, 0)
NoNic == [ifname |-> "", ip |-> NoAddress, port |-> NoAddress, my_mac |-> "",
          router_mac |-> "", router_ip |-> 0, vlan |-> 0]

\* What main sets up before it reads anything.  The seed is random then: 0
\* stands for a seed that nobody has given.  more holds what is never echoed;
\* returned says that the rest of the command line is not looked at.
Defaults ==
    [op |-> "default", scan_type |-> {}, targets |-> Empty, ports |-> Empty,
     exclude_ip |-> Empty, exclude_port |-> Empty, banner_types |-> {}, top_ports |-> 0,
     resume_index |-> 0, resume_count |-> 0, seed |-> 0, rate |-> 1000, shard |-> <<1, 1>>,
     banners |-> FALSE, retries |-> 0, noreset |-> FALSE,
     nmap_payloads |-> "", nmap_service_probes |-> "",
     pcap_filename |-> "", pcap_payloads |-> "",
     hello |-> {}, hello_strings |-> <<>>, hello_timeout |-> 0, min_packet |-> 60,
     capture |-> {"cert"}, filename |-> "", format |-> "default",
     show |-> {"open"}, append |-> FALSE,
     rotate |-> [timeout |-> 0, directory |-> ".", offset |-> 0, filesize |-> 0],
     stylesheet |-> "", script |-> "", redis |-> <<0, 0>>,
     nic |-> <<NoNic, NoNic>>, nic_count |-> 1,
     http_user_agent |-> "", http_headers |-> <<>>, vuln |-> "",
     returned |-> FALSE,
     more |-> ("blackrock-rounds" :> 4) @@ [wait |-> 10, status |-> TRUE]]

Exit(c) == [c EXCEPT !.op = "exit"]
Over(c) == c.op = "exit"

----------------------------------------------------------------------------
(* Parsing values.                                                         *)

\* What has no digits is 0.  Bound: a number fits the C type it is read into.
parseInt(v) == v.num
isInteger(v) == v.word = "#"

parseBoolean(v) ==
    IF isInteger(v) THEN v.num # 0 ELSE v.word \notin {"false", "off", "no"}

\* A number with a unit; "hourly" is a unit without a number.  -1 ends the
\* program.  A plain number is taken as it is, whatever its size or sign.
Seconds == [s |-> 1, m |-> 60, h |-> 3600, d |-> 86400, w |-> 7 * 86400]

parseTime(v) ==
    LET num == (IF v.num = 0 THEN 1 ELSE v.num) * Seconds[v.word]
    IN  CASE v.word = "#" -> v.num
          [] v.word \notin DOMAIN Seconds -> -1
          [] OTHER -> IF num >= 86400 THEN -1
                      ELSE IF v.parts = <<"-">> THEN 86400 - num ELSE num

Powers == <<"k", "m", "g", "t", "p", "e">>

parseSize(v) ==
    CASE v.word = "#" -> v.num
      [] ~Contains(Powers, v.word) -> -1
      [] OTHER -> (IF v.num = 0 THEN 1 ELSE v.num)
                    * 1024 ^ (CHOOSE k \in DOMAIN Powers : Powers[k] = v.word)

is_power_of_two(n) == \E k \in 0 .. 30 : n = 2 ^ k

\* The rate in tenths.  The place value of a digit behind the point grows
\* from a tenth to one to ten: "point" is divided where it should be multiplied.
RateOf(v) ==
    10 * v.num + FoldLeft(LAMBDA n, k : n + v.parts[k] * 10 ^ (k - 1), 0,
                          [k \in DOMAIN v.parts |-> k])

\* rangelist_parse_ports: a letter holds for the ports after it too; the
\* first bad port ends the parsing.
rangelist_parse_ports(list, items, offset) ==
    LET step(acc, p) ==
            LET at == IF p.proto = "" THEN acc.at ELSE Templ[p.proto]
                bad == \/ p.span.begin > 255 /\ at = Templ.O
                       \/ p.span.begin > 65535 \/ p.span.end > 65535
                       \/ ~IsValid(p.span)
            IN  IF acc.error THEN acc
                ELSE [t |-> IF bad THEN acc.t
                            ELSE AddRange(acc.t, Span(p.span.begin + at, p.span.end + at)),
                      at |-> at, error |-> bad]
    IN  FoldLeft(step, [t |-> list, at |-> offset, error |-> FALSE], items)

\* range_parse_ipv4: one address, a prefix with a length, or two addresses.
range_parse_ipv4(p) ==
    LET size == 2 ^ (AddrBits - p.bits)
        begin == p.from - (p.from % size)
    IN  CASE p.kind = "cidr" -> Span(begin, begin + size - 1)
          [] p.kind = "range" -> IF p.to < p.from THEN Span(MaxAddr, 0)
                                 ELSE Span(p.from, p.to)
          [] p.kind = "one" -> Span(p.from, p.from)

----------------------------------------------------------------------------
(* The parameters of the new table, config_parameters.  What a setter does *)
(* for the echo is under "Echoing" below.                                  *)

SET_arpscan(c, v) ==
    [c EXCEPT !.ports = Sort(AddRange(@, Span(Templ_ARP, Templ_ARP))),
              !.nic[1].router_mac = "broadcast",
              !.scan_type = @ \cup {"arp"}]

SET_banners(c, v) == [c EXCEPT !.banners = parseBoolean(v)]
SET_nobanners(c, v) == [c EXCEPT !.banners = ~parseBoolean(v)]
SET_noreset(c, v) == [c EXCEPT !.noreset = parseBoolean(v)]

\* "nocapture" is understood here but not in the table that leads here.
SET_capture(c, v) ==
    IF v.word \in {"cert", "html", "heartbleed", "ticketbleed"}
    THEN [c EXCEPT !.capture = @ \cup {v.word}] ELSE c

SET_hello(c, v) ==
    IF v.word \in {"ssl", "smbv1"} THEN [c EXCEPT !.hello = @ \cup {v.word}] ELSE c

\* Pushed in front; the port is the index of the name.
SET_hello_string(c, i, v) == [c EXCEPT !.hello_strings = <<<<i, v.word>>>> \o @]

\* The file's contents become a hello-string; one that cannot be read nothing.
SET_hello_file(c, i, v) ==
    IF v.word = "missing" THEN c ELSE SET_hello_string(c, i, Word(v.word \o " in base64"))

SET_hello_timeout(c, v) == [c EXCEPT !.hello_timeout = parseInt(v)]
SET_min_packet(c, v) == [c EXCEPT !.min_packet = parseInt(v)]
SET_nmap_payloads(c, v) == [c EXCEPT !.nmap_payloads = v.word]
SET_nmap_service_probes(c, v) == [c EXCEPT !.nmap_service_probes = v.word]
SET_pcap_filename(c, v) == [c EXCEPT !.pcap_filename = v.word]
SET_pcap_payloads(c, v) == [c EXCEPT !.pcap_payloads = v.word]

SET_output_append(c, v) == [c EXCEPT !.append = parseBoolean(v)]

XmlByDefault(c) == [c EXCEPT !.format = IF @ = "default" THEN "xml" ELSE @]
SET_output_filename(c, v) == [XmlByDefault(c) EXCEPT !.filename = v.word]
SET_output_stylesheet(c, v) == [XmlByDefault(c) EXCEPT !.stylesheet = v.word]

FormatNames == {"interactive", "list", "unicornscan", "xml", "binary", "grepable", "json",
            "ndjson", "certs", "none", "redis"}
SET_output_format(c, v) ==
    CASE v.word = "unknown(0)" -> [c EXCEPT !.format = "interactive"]
      [] v.word = "greppable" -> [c EXCEPT !.format = "grepable"]
      [] v.word \in FormatNames -> [c EXCEPT !.format = v.word]
      [] OTHER -> c

\* "host" is tested for as a second "open", so it is no known status.
Statuses(w) ==
    CASE w = "open" -> {"open"} [] w \in {"closed", "close"} -> {"closed"}
      [] w = "all" -> {"open", "closed", "host"} [] OTHER -> {}
SET_output_show(c, v) ==
    IF \E k \in DOMAIN v.parts : Statuses(v.parts[k]) = {} THEN Exit(c)
    ELSE [c EXCEPT !.show = @ \cup UNION {Statuses(v.parts[k]) : k \in DOMAIN v.parts}]
SET_output_noshow(c, v) ==
    IF \E k \in DOMAIN v.parts : Statuses(v.parts[k]) = {} THEN Exit(c)
    ELSE [c EXCEPT !.show = @ \ UNION {Statuses(v.parts[k]) : k \in DOMAIN v.parts}]
SET_output_show_open(c, v) == [c EXCEPT !.show = {"open"}]

SET_rate(c, v) == IF ~isInteger(v) THEN c ELSE [c EXCEPT !.rate = RateOf(v)]
SET_resume_count(c, v) == [c EXCEPT !.resume_count = parseInt(v)]
SET_resume_index(c, v) == [c EXCEPT !.resume_index = parseInt(v)]
SET_retries(c, v) == IF v.num >= 1000 THEN c ELSE [c EXCEPT !.retries = v.num]

Timed(c, v, new) == IF parseTime(v) = -1 THEN Exit(c) ELSE new
SET_rotate_time(c, v) == Timed(c, v, [c EXCEPT !.rotate.timeout = parseTime(v)])
SET_rotate_offset(c, v) == Timed(c, v, [c EXCEPT !.rotate.offset = parseTime(v)])
\* The word is what is left of the name without its last slashes, which
\* are the value's parts.
SET_rotate_directory(c, v) == [c EXCEPT !.rotate.directory = v.word]
SET_rotate_filesize(c, v) ==
    IF parseSize(v) = -1 THEN Exit(c) ELSE [c EXCEPT !.rotate.filesize = parseSize(v)]

Remember(c, n, x) == [c EXCEPT !.more = (n :> x) @@ @]
SET_script(c, v) == [Remember(c, "scripting", v.word # "") EXCEPT !.script = v.word]

\* "time" is the time, for which Now stands.
Now == 2
SET_seed(c, v) == [c EXCEPT !.seed = IF v.word = "time" THEN Now ELSE parseInt(v)]

SET_shard(c, v) ==
    IF v.parts[1] < 1 \/ v.parts[1] > v.parts[2] THEN c ELSE [c EXCEPT !.shard = v.parts]

----------------------------------------------------------------------------
(* The older parameters, and the dispatch on a name (masscan_set_parameter).*)

\* Other names of the same parameter.  Case and punctuation never matter.
Alternatives ==
    << <<"arpscan", {"arp"}>>, <<"rate", {"max-rate"}>>, <<"shard", {"shards"}>>,
       <<"banners", {"banner"}>>, <<"nobanners", {"nobanner"}>>,
       <<"retries", {"retry", "max-retries", "max-retry"}>>,
       <<"nmap-payloads", {"nmap-payload"}>>,
       <<"nmap-service-probes", {"nmap-service-probe"}>>,
       <<"pcap-filename", {"pcap"}>>, <<"pcap-payloads", {"pcap-payload"}>>, <<"hello-file", {"hello-filename"}>>,
       <<"min-packet", {"min-pkt"}>>, <<"output-filename", {"output-file"}>>,
       <<"output-show", {"output-status", "show"}>>, <<"output-noshow", {"noshow"}>>,
       <<"output-show-open", {"open", "open-only"}>>, <<"output-append", {"append-output"}>>,
       <<"rotate", {"output-rotate", "rotate-output", "rotate-time"}>>,
       <<"rotate-dir", {"output-rotate-dir", "rotate-directory"}>>,
       <<"rotate-offset", {"output-rotate-offset"}>>,
       <<"rotate-size", {"output-rotate-filesize", "rotate-filesize"}>> >>

OldAlternatives ==
    << <<"conf", {"config"}>>, <<"adapter", {"if", "interface"}>>,
       <<"adapter-ip", {"source-ip", "source-address", "spoof-ip", "spoof-address", "src-ip"}>>,
       <<"adapter-port", {"source-port", "src-port", "sourceport"}>>,
       <<"adapter-mac", {"spoof-mac", "source-mac", "src-mac"}>>,
       <<"router-mac", {"router", "dest-mac", "destination-mac", "dst-mac", "target-mac"}>>,
       <<"udp-ports", {"udp-port"}>>, <<"oprotos", {"oproto"}>>, <<"tcp-ports", {"tcp-port"}>>,
       <<"ports", {"port", "dst-port", "dest-port", "destination-port", "target-port"}>>,
       <<"banner-types", {"banner-type", "banner-apps", "banner-app"}>>,
       <<"exclude-ports", {"exclude-port"}>>, <<"ping", {"ping-sweep"}>>,
       <<"range", {"ranges", "ip", "ipv4", "dst-ip", "dest-ip", "destination-ip", "target-ip"}>>,
       <<"exclude", {"exclude-range", "exclude-ranges", "exclude-ip", "exclude-ipv4"}>>,
       <<"connection-timeout", {"tcp-timeout"}>>, <<"vlan", {"adapter-vlan"}>>,
       <<"packet-trace", {"trace-packet"}>>, <<"sendq", {"sendqueue"}>>,
       <<"selftest", {"self-test"}>> >>

EQUALS(name) ==
    LET all == Alternatives \o OldAlternatives
        at == {k \in DOMAIN all : name \in all[k][2]}
    IN  IF at = {} THEN name ELSE all[CHOOSE k \in at : TRUE][1]

\* Parameters of nmap: those that end the program, and those that only say so.
Unsupported ==
    {"dns-servers", "host-timeout", "ip-options", "log-errors", "min-hostgroup", "max-hostgroup",
     "min-parallelism", "max-parallelism", "min-rtt-timeout", "max-rtt-timeout",
     "initial-rtt-timeout", "mtu", "nmap", "osscan-limit", "osscan-guess", "privileged",
     "unprivileged", "port-ratio", "scan-delay", "max-scan-delay", "scanflags", "send-ip",
     "system-dns", "traceroute", "version", "version-intensity", "version-light", "version-all",
     "version-trace"}
Ignored == {"min-rate", "release-memory", "send-eth", "nobacktrace", "backtrace"}

\* What is remembered and never echoed.
Flags == {"badsum", "infinite", "offline", "packet-trace", "pfring", "reason", "sendq",
          "interactive", "status"}
Cleared == [nostatus |-> "status", nointeractive |-> "interactive"]
Numbers == {"blackrock-rounds", "connection-timeout", "data-length", "ttl", "wait"}
Texts == {"bpf", "datadir"}
SetNumber(c, n, v) ==
    IF v.num >= (CASE n = "ttl" -> 256 [] n = "data-length" -> 1514 - 14 - 40 [] OTHER -> v.num + 1)
    THEN c
    ELSE Remember(c, n, IF v.word = "forever" THEN "forever" ELSE parseInt(v))

Scanning(c) == [c EXCEPT !.op = IF @ = "default" THEN "scan" ELSE @]

\* "range" stops at the first that cannot be parsed; "exclude" takes 0.0.0.0
\* for the sign of one and ends the program.
SetRange(c, v) ==
    LET r(k) == range_parse_ipv4(v.parts[k])
        good == {k \in DOMAIN v.parts : \A j \in 1 .. k : IsValid(r(j))}
    IN  Scanning([c EXCEPT !.targets = AddAll(@, [k \in 1 .. Cardinality(good) |-> r(k)])])

SetExclude(c, v) ==
    LET r(k) == range_parse_ipv4(v.parts[k])
    IN  IF \E k \in DOMAIN v.parts : r(k) = Span(0, 0) THEN Exit(c)
        ELSE Scanning([c EXCEPT !.exclude_ip = AddAll(@, [k \in DOMAIN v.parts |-> r(k)])])

\* rangefile_read: what the file holds, and the list sorted.  A file that
\* cannot be read ends the program.
FileRead(list, v) == Sort(AddAll(list, [k \in DOMAIN v.parts |-> range_parse_ipv4(v.parts[k])]))
SetIncludeFile(c, v) ==
    IF v.word = "missing" THEN Exit(c)
    ELSE Scanning([c EXCEPT !.targets = FileRead(@, v)])
SetExcludeFile(c, v) ==
    IF v.word = "missing" THEN Exit(c) ELSE [c EXCEPT !.exclude_ip = FileRead(@, v)]

PortsAt(c, v, offset) ==
    Scanning([c EXCEPT !.ports = rangelist_parse_ports(@, v.parts, offset).t])
SetPorts(c, n, v) ==
    CASE n = "udp-ports" -> PortsAt([c EXCEPT !.scan_type = @ \cup {"udp"}], v, Templ.U)
      [] n = "oprotos" -> PortsAt([c EXCEPT !.scan_type = @ \cup {"oproto"}], v, Templ.O)
      [] n = "tcp-ports" -> PortsAt([c EXCEPT !.scan_type = @ \cup {"tcp"}], v, Templ.T)
      [] n = "ports" -> PortsAt(c, v, IF "udp" \in c.scan_type THEN Templ.U ELSE Templ.T)

\* The names masscan_string_to_app knows; ssh and ssh2 are one.
Apps == {"ssh1", "ssh2", "ssh", "http", "ftp", "dns-ver", "snmp", "nbtstat", "ssl", "smtp",
         "smb", "pop", "imap", "x509", "zeroaccess", "title", "html", "ntp", "vuln",
         "heartbleed", "ticketbleed", "vnc", "safe", "memcached", "scripting", "versioning",
         "coap", "telnet", "rdp"}
SetBannerTypes(c, v) ==
    IF v.word \notin Apps THEN Exit(c)
    ELSE [c EXCEPT !.banner_types = @ \cup {IF v.word = "ssh" THEN "ssh2" ELSE v.word}]

SetExcludePorts(c, v) ==
    LET r == rangelist_parse_ports(c.exclude_port, v.parts, Templ.T)
    IN  IF r.error THEN Exit(c) ELSE [c EXCEPT !.exclude_port = r.t]

SetPing(c) ==
    [c EXCEPT !.ports = Sort(AddRange(@, Span(Templ_ICMP_echo, Templ_ICMP_echo))),
              !.scan_type = @ \cup {"ping"}]

\* The adapter's settings; only its name says that there is such an adapter.
SetAdapter(c, i, v) ==
    [c EXCEPT !.nic[i + 1].ifname = v.word,
              !.nic_count = IF @ < i + 1 THEN i + 1 ELSE @]
SetAdapterIp(c, i, v) ==
    LET r == range_parse_ipv4(v.parts[1])
    IN  IF ~IsValid(r) \/ ~is_power_of_two(SizeOf(r)) THEN Exit(c)
        ELSE [c EXCEPT !.nic[i + 1].ip = r]
SetAdapterPort(c, i, v) ==
    LET r == rangelist_parse_ports(Empty, v.parts, Templ.T)
    IN  IF r.error \/ Len(r.t.list) # 1 THEN Exit(c)
        ELSE IF ~is_power_of_two(SizeOf(r.t.list[1])) THEN Exit(c)
        ELSE [c EXCEPT !.nic[i + 1].port = r.t.list[1]]
\* parse_mac_address: a MAC that cannot be parsed is only warned of.
BadMac(v) == v.word = "bad"
SetMac(c, i, v) == IF BadMac(v) THEN c ELSE [c EXCEPT !.nic[i + 1].my_mac = v.word]
SetRouterMac(c, i, v) == IF BadMac(v) THEN c ELSE [c EXCEPT !.nic[i + 1].router_mac = v.word]
SetRouterIp(c, i, v) ==
    LET r == range_parse_ipv4(v.parts[1])
    IN  IF r.begin # r.end THEN Exit(c) ELSE [c EXCEPT !.nic[i + 1].router_ip = r.begin]

SetRedis(c, v) ==
    IF v.parts = <<>> \/ 0 \in ToSet(v.parts) THEN Exit(c)
    ELSE [c EXCEPT !.redis = v.parts, !.format = "redis", !.filename = "<redis>"]

SetHttpHeader(c, v) ==
    IF Len(c.http_headers) = 16 THEN c
    ELSE [c EXCEPT !.http_headers = Append(@, <<v.parts[1], v.word>>)]

\* vulncheck_lookup: there is one.
SetVuln(c, v) ==
    IF v.word # "ntp-monlist" \/ c.vuln \notin {"", v.word} THEN Exit(c)
    ELSE [c EXCEPT !.vuln = v.word]

Operations == [iflist |-> "list-adapters", readrange |-> "readrange", readranges |-> "readrange",
               selftest |-> "selftest", regress |-> "selftest", benchmark |-> "benchmark"]

\* The default is another in a file than on the command line.
SetTopPorts(c, v, default) ==
    [c EXCEPT !.top_ports = IF isInteger(v) THEN parseInt(v) ELSE default]

\* What prints something and ends the program.
Printing == {"banner1", "echo", "echo-all"}
SetDebug(c, v) == IF v.word = "if" THEN [c EXCEPT !.op = "debug-if"] ELSE c
SetTest(c, n, v) == IF v.word = "csv" THEN Remember(c, "test-csv", n = "test") ELSE c

RECURSIVE masscan_set_parameter(_, _, _, _)

\* masscan_read_config_file: line by line, as long as the program lives.
masscan_read_config_file(c, lines) ==
    FoldLeft(LAMBDA d, l : IF Over(d) THEN d
                           ELSE masscan_set_parameter(d, l.name, l.index, l.value), c, lines)

\* The shorthands set several parameters.  "no-capture" is not known, so it
\* ends the program.
SetAll(c, settings) ==
    masscan_read_config_file(c, [k \in DOMAIN settings |->
        Line(settings[k][1], 0, Word(settings[k][2]))])

Shorthand(c, n) ==
    CASE n \in {"heartbleed", "ticketbleed"} ->
            SetAll(Remember(c, n, TRUE),
                   << <<"no-capture", "cert">>, <<"no-capture", n>>, <<"banners", "true">> >>)
      [] n \in {"poodle", "sslv3"} ->
            SetAll(Remember(c, "poodle", TRUE), << <<"no-capture", "cert">>, <<"banners", "true">> >>)
      [] n = "webxml" -> SetAll(c, << <<"stylesheet", "http://nmap.org/svn/docs/nmap.xsl">> >>)

\* The setter config_parameters holds for a name; n is none of them at the end.
config_parameters(c, n, i, v) ==
    CASE n = "resume-index" -> SET_resume_index(c, v)
      [] n = "resume-count" -> SET_resume_count(c, v)
      [] n = "seed" -> SET_seed(c, v)
      [] n = "arpscan" -> SET_arpscan(c, v)
      [] n = "randomize-hosts" -> c
      [] n = "rate" -> SET_rate(c, v)
      [] n = "shard" -> SET_shard(c, v)
      [] n = "banners" -> SET_banners(c, v)
      [] n = "nobanners" -> SET_nobanners(c, v)
      [] n = "retries" -> SET_retries(c, v)
      [] n = "noreset" -> SET_noreset(c, v)
      [] n = "nmap-payloads" -> SET_nmap_payloads(c, v)
      [] n = "nmap-service-probes" -> SET_nmap_service_probes(c, v)
      [] n = "pcap-filename" -> SET_pcap_filename(c, v)
      [] n = "pcap-payloads" -> SET_pcap_payloads(c, v)
      [] n = "hello" -> SET_hello(c, v)
      [] n = "hello-file" -> SET_hello_file(c, i, v)
      [] n = "hello-string" -> SET_hello_string(c, i, v)
      [] n = "hello-timeout" -> SET_hello_timeout(c, v)
      [] n = "min-packet" -> SET_min_packet(c, v)
      [] n = "capture" -> SET_capture(c, v)
      [] n = "output-filename" -> SET_output_filename(c, v)
      [] n = "output-format" -> SET_output_format(c, v)
      [] n = "output-show" -> SET_output_show(c, v)
      [] n = "output-noshow" -> SET_output_noshow(c, v)
      [] n = "output-show-open" -> SET_output_show_open(c, v)
      [] n = "output-append" -> SET_output_append(c, v)
      [] n = "rotate" -> SET_rotate_time(c, v)
      [] n = "rotate-dir" -> SET_rotate_directory(c, v)
      [] n = "rotate-offset" -> SET_rotate_offset(c, v)
      [] n = "rotate-size" -> SET_rotate_filesize(c, v)
      [] n = "stylesheet" -> SET_output_stylesheet(c, v)
      [] n = "script" -> SET_script(c, v)

NewParameters ==
    {"resume-index", "resume-count", "seed", "arpscan", "randomize-hosts", "rate", "shard",
     "banners", "nobanners", "retries", "noreset", "nmap-payloads", "nmap-service-probes",
     "pcap-filename", "pcap-payloads", "hello", "hello-file", "hello-string", "hello-timeout",
     "min-packet", "capture", "output-filename", "output-format", "output-show",
     "output-noshow", "output-show-open", "output-append", "rotate", "rotate-dir",
     "rotate-offset", "rotate-size", "stylesheet", "script"}

masscan_set_parameter(c, name, i, v) ==
    LET n == EQUALS(name)
    IN  CASE n \in NewParameters -> config_parameters(c, n, i, v)
          [] n = "conf" -> masscan_read_config_file(c, v.parts)
          [] n = "resume" -> SetAll(masscan_read_config_file(c, v.parts),
                                    << <<"output-append", "true">> >>)
          [] n = "adapter" -> SetAdapter(c, i, v)
          [] n = "adapter-ip" -> SetAdapterIp(c, i, v)
          [] n = "adapter-port" -> SetAdapterPort(c, i, v)
          [] n = "adapter-mac" -> SetMac(c, i, v)
          [] n = "router-mac" -> SetRouterMac(c, i, v)
          [] n = "router-ip" -> SetRouterIp(c, i, v)
          [] n = "vlan" -> [c EXCEPT !.nic[i + 1].vlan = parseInt(v)]
          [] n \in {"udp-ports", "oprotos", "tcp-ports", "ports"} -> SetPorts(c, n, v)
          [] n = "banner-types" -> SetBannerTypes(c, v)
          [] n = "exclude-ports" -> SetExcludePorts(c, v)
          [] n = "ping" -> SetPing(c)
          [] n = "range" -> SetRange(c, v)
          [] n = "exclude" -> SetExclude(c, v)
          [] n = "includefile" -> SetIncludeFile(c, v)
          [] n = "excludefile" -> SetExcludeFile(c, v)
          [] n \in DOMAIN Cleared -> Remember(c, Cleared[n], FALSE)
          [] n \in Flags -> Remember(c, n, TRUE)
          [] n \in Numbers -> SetNumber(c, n, v)
          [] n \in Texts -> Remember(c, n, v.word)
          [] n \in DOMAIN Operations -> [c EXCEPT !.op = Operations[n]]
          [] n = "debug" -> SetDebug(c, v)
          [] n \in {"test", "notest"} -> SetTest(c, n, v)
          [] n = "http-user-agent" -> [c EXCEPT !.http_user_agent = v.word]
          [] n = "http-header" -> SetHttpHeader(c, v)
          [] n = "redis" -> SetRedis(c, v)
          [] n = "top-ports" -> SetTopPorts(c, v, 100)
          [] n = "no-stylesheet" -> [c EXCEPT !.stylesheet = ""]
          [] n \in {"heartbleed", "ticketbleed", "webxml"} -> Shorthand(c, n)
          [] n = "vuln" /\ v.word \in {"heartbleed", "ticketbleed", "poodle", "sslv3"} ->
                Shorthand(c, v.word)
          [] n = "vuln" -> SetVuln(c, v)
          [] n \in Ignored -> c
          [] n \in Unsupported \cup Printing -> Exit(c)
          [] OTHER -> Exit(c)

----------------------------------------------------------------------------
(* The command line (masscan_command_line).                                *)

\* An option with one dash is another way to set a parameter, -oX and the
\* like a format and a file, -sU and the like a kind of scan.  "include", for
\* which -iR stands, is no parameter.
DashParameters == [c |-> "conf", e |-> "adapter", i |-> "adapter", g |-> "adapter-port",
                   iL |-> "includefile", iR |-> "include", p |-> "ports", S |-> "adapter-ip",
                   V |-> "version"]
DashFormats == [oB |-> "binary", oD |-> "ndjson", oJ |-> "json", oX |-> "xml",
                oG |-> "grepable", oL |-> "list", oU |-> "unicornscan", oR |-> "redis"]
DashScans == [sO |-> "oproto", sS |-> "tcp", sU |-> "udp", sZ |-> "sctp"]
DashIgnored == {"d", "v", "n", "Pn", "sT", "sY"}

\* The file's name must follow; "-" is one.  With -oR it is an address too.
DashFormat(c, d, v) ==
    LET f == [c EXCEPT !.format = DashFormats[d]]
        g == IF d = "oR" /\ v.word # "-" THEN SetRedis(f, v) ELSE f
    IN  IF v.word = "" \/ Over(g) THEN Exit(c) ELSE SET_output_filename(g, v)

DashOption(c, d, v) ==
    CASE d = "p" /\ v.parts = <<>> -> c
      [] d \in DOMAIN DashParameters -> masscan_set_parameter(c, DashParameters[d], 0, v)
      [] d \in DOMAIN DashFormats -> DashFormat(c, d, v)
      [] d \in DOMAIN DashScans -> [c EXCEPT !.scan_type = @ \cup {DashScans[d]}]
      [] d = "W" -> [c EXCEPT !.op = "list-adapters", !.returned = TRUE]
      [] d = "sL" -> [c EXCEPT !.op = "listscan"]
      [] d \in DashIgnored -> c
      [] OTHER -> Exit(c)

\* What is looked for on the command line only.  --readscan skips the names
\* after it.
CommandOption(c, a) ==
    CASE a.name = "help" -> Exit(c)
      [] a.name = "top-ports" -> SetTopPorts(c, a.value, 1000)
      [] a.name = "readscan" -> [c EXCEPT !.op = "readscan", !.banners = TRUE]
      [] OTHER -> masscan_set_parameter(c, a.name, a.index, a.value)

\* An argument without a name is an address, if it starts like one.
BareArgument(c, v) ==
    IF v.parts = <<>> THEN Exit(c) ELSE masscan_set_parameter(c, "range", 0, v)

\* An argument is a line whose name starts with a dash, or is that of a
\* parameter, or "".
Argument(c, a) ==
    IF c.returned THEN c
    ELSE IF a.name = "" THEN BareArgument(c, a.value)
    ELSE IF a.dash THEN DashOption(c, a.name, a.value)
    ELSE CommandOption(c, a)

\* The ports nmap finds open most often; the list is cut after three here.
top_tcp_ports == <<1, 3, 4>>

\* For a UDP scan too it is TCP ports that are added.
config_top_ports(c) ==
    LET n == IF c.top_ports < Len(top_tcp_ports) THEN c.top_ports ELSE Len(top_tcp_ports)
        top == [k \in 1 .. n |-> Span(top_tcp_ports[k], top_tcp_ports[k])]
    IN  [c EXCEPT !.ports =
            Sort(AddAll(AddAll(@, IF "tcp" \in c.scan_type THEN top ELSE <<>>),
                        IF "udp" \in c.scan_type THEN top ELSE <<>>))]

EndOfCommandLine(c) ==
    LET sorted == [c EXCEPT !.targets = Sort(@), !.ports = Sort(@),
                            !.exclude_ip = Sort(@), !.exclude_port = Sort(@),
                            !.scan_type = IF @ \cap {"udp", "sctp", "ping", "arp", "oproto"} = {}
                                          THEN @ \cup {"tcp"} ELSE @]
    IN  IF c.returned THEN c
        ELSE IF c.top_ports = 0 THEN sorted ELSE config_top_ports(sorted)

\* main applies the excludes.  After a pause they must not change anything.
ApplyAllExcludes(c) ==
    LET d == [c EXCEPT !.targets = Exclude(@, c.exclude_ip),
                       !.ports = Exclude(@, c.exclude_port)]
        before == Count(c.targets) * Count(c.ports)
        after == Count(d.targets) * Count(d.ports)
    IN  IF (before # 0 /\ after = 0) \/ (before # after /\ c.resume_index # 0)
        THEN Exit(d) ELSE d

\* main_scan and main_listscan before they start.
Started(c) ==
    LET asked == IF c.ports.list # <<>> THEN c.ports
                 ELSE IF c.op = "listscan" THEN AddRange(c.ports, Span(80, 80))
                 ELSE IF c.vuln # "" THEN AddRange(c.ports, Span(123 + Templ.U, 123 + Templ.U))
                 ELSE c.ports
        check(r) == Span((r.begin % 65536) + Templ_VulnCheck, (r.end % 65536) + Templ_VulnCheck)
        ports == IF c.op = "scan" /\ c.vuln # ""
                 THEN [asked EXCEPT !.list = [k \in DOMAIN @ |-> check(@[k])]] ELSE asked
    IN  IF \/ Count(c.targets) = 0 \/ Count(ports) = 0
           \/ c.op = "scan" /\ IsContained(ports, Templ_ARP) /\ Len(ports.list) # 1
        THEN Exit(c) ELSE [c EXCEPT !.ports = ports]

\* main: every other operation prints what it has to and ends.
Dispatched(c) == IF c.op \in {"scan", "listscan"} THEN Started(c) ELSE Exit(c)

----------------------------------------------------------------------------
(* Echoing (masscan_echo): the lines, in order.  A setting that has its    *)
(* usual value is not written, and what has no line is lost.               *)

When(condition, name, value) == IF condition THEN <<Line(name, 0, value)>> ELSE <<>>
Each(s, LineOf(_)) == [k \in DOMAIN s |-> LineOf(s[k])]

\* The setters' own echo, in the order of config_parameters.
EchoParameters(c) ==
    When(c.resume_index # 0, "resume-index", Num(c.resume_index))
    \o When(c.resume_count # 0, "resume-count", Num(c.resume_count))
    \o When(TRUE, "seed", Num(c.seed))
    \o When("arp" \in c.scan_type, "arpscan", Word("true"))
    \o When(TRUE, "rate", Value("#", c.rate \div 10, <<c.rate % 10, 0>>))
    \o When(c.shard[1] # 1 /\ c.shard[2] # 1, "shard", Parts(c.shard))
    \o When(c.banners, "banners", Word("true"))
    \o When(c.retries # 0, "retries", Num(c.retries))
    \o When(c.noreset, "noreset", Word("true"))
    \o When(c.nmap_payloads # "", "nmap-payloads", Word(c.nmap_payloads))
    \o When(c.nmap_service_probes # "", "nmap-service-probes", Word(c.nmap_service_probes))
    \o When(c.pcap_filename # "", "pcap-filename", Word(c.pcap_filename))
    \o When(c.pcap_payloads # "", "pcap-payloads", Word(c.pcap_payloads))
    \o When("ssl" \in c.hello, "hello", Word("ssl"))
    \o When("smbv1" \in c.hello, "hello", Word("smbv1"))
    \o Each(c.hello_strings, LAMBDA h : Line("hello-string", h[1], Word(h[2])))
    \o When(c.hello_timeout # 0, "hello-timeout", Num(c.hello_timeout))
    \o When(c.min_packet # 60, "min-packet", Num(c.min_packet))
    \o When("cert" \notin c.capture, "nocapture", Word("cert"))
    \o When("html" \in c.capture, "capture", Word("html"))
    \o When("heartbleed" \in c.capture, "capture", Word("heartbleed"))
    \o When("ticketbleed" \in c.capture, "capture", Word("ticketbleed"))
    \o When(c.filename # "", "output-filename", Word(c.filename))
    \o When(c.format # "default", "output-format", Word(c.format))
    \o When(c.format = "redis", "redis", Parts(c.redis))
    \o When(c.append, "output-append", Word("true"))
    \o When(c.rotate.timeout # 0, "rotate", Num(c.rotate.timeout))
    \o When(c.rotate.directory # ".", "rotate-dir", Word(c.rotate.directory))
    \o When(c.rotate.offset # 0, "rotate-offset", Num(c.rotate.offset))
    \o When(c.rotate.filesize # 0, "rotate-size", Num(c.rotate.filesize))
    \o When(c.stylesheet # "", "stylesheet", Word(c.stylesheet))
    \o When(c.script # "", "script", Word(c.script))

\* The test for a single source address is for two, and prints one of them.
masscan_echo_nic(c, k) ==
    LET n == c.nic[k]
        index == IF c.nic_count <= 1 THEN 0 ELSE k - 1
        at(condition, name, value) == IF condition THEN <<Line(name, index, value)>> ELSE <<>>
        one(a) == Parts(<<[kind |-> "one", from |-> a, to |-> a, bits |-> 0]>>)
        two == Parts(<<[kind |-> "range", from |-> n.ip.begin, to |-> n.ip.end, bits |-> 0]>>)
    IN  at(n.ifname # "", "adapter", Word(n.ifname))
        \o at(n.ip.begin + 1 = n.ip.end, "adapter-ip", one(n.ip.begin))
        \o at(n.ip.begin + 1 < n.ip.end, "adapter-ip", two)
        \o at(n.my_mac # "", "adapter-mac", Word(n.my_mac))
        \o at(n.router_ip # 0, "router-ip", one(n.router_ip))
        \o at(n.router_ip = 0 /\ n.router_mac # "", "router-mac", Word(n.router_mac))

\* Fault: the protocols' prefixes are forgotten.
PortParts_Plain(r) == <<[proto |-> "", span |-> Span(r.begin % 65536, r.end % 65536)]>>

\* A range of ports is cut where one protocol ends and the next begins; what
\* is not TCP, UDP or SCTP counts from Templ_ICMP_echo.
PortParts(r) ==
    LET first == <<"T", "U", "S", "I">>
        low(k) == IF r.begin > Templ[first[k]] THEN r.begin ELSE Templ[first[k]]
        here(k) == low(k) <= r.end /\ (k < 4 => low(k) < Templ[first[k + 1]])
        high(k) == IF r.end - Templ[first[k]] > 65535 THEN 65535 ELSE r.end - Templ[first[k]]
        part(k) == [proto |-> IF k = 1 THEN "" ELSE first[k],
                    span |-> Span(low(k) - Templ[first[k]], high(k))]
    IN  [k \in 1 .. Cardinality({j \in 1 .. 4 : here(j)}) |->
            part((CHOOSE j \in 1 .. 4 : here(j) /\ \A l \in 1 .. j - 1 : ~here(l)) + k - 1)]

\* The length of the prefix a range is, or 0.
count_cidr_bits(r) ==
    LET fits(b) == r.begin % (2 ^ (AddrBits - b)) = 0
                    /\ r.end + 1 = r.begin + 2 ^ (AddrBits - b)
    IN  IF \E b \in 0 .. AddrBits - 1 : fits(b)
        THEN CHOOSE b \in 0 .. AddrBits - 1 : fits(b) ELSE 0

AddressPart(r) ==
    [kind |-> IF r.begin = r.end THEN "one"
              ELSE IF count_cidr_bits(r) # 0 THEN "cidr" ELSE "range",
     from |-> r.begin, to |-> r.end, bits |-> count_cidr_bits(r)]

\* What --readrange prints of the targets, in the same way.
main_readrange(c) == Each(c.targets.list, AddressPart)

masscan_echo(c) ==
    EchoParameters(c)
    \o FlattenSeq([k \in 1 .. c.nic_count |-> masscan_echo_nic(c, k)])
    \o When(TRUE, "ports", Parts(FlattenSeq(Each(c.ports.list, PortParts))))
    \o Each(c.targets.list, LAMBDA r : Line("range", 0, Parts(<<AddressPart(r)>>)))
    \o When(c.http_user_agent # "", "http-user-agent", Word(c.http_user_agent))
    \o Each(c.http_headers, LAMBDA h : Line("http-header", 0, Value(h[2], 0, <<h[1]>>)))
=============================================================================
