------------------------------ MODULE Targets ------------------------------
(***************************************************************************)
(* From the command line to the addresses and ports of a scan: settings    *)
(* and ranges are collected (main-conf.c), the excludes applied (main.c),  *)
(* and every index is shuffled and picked (main-listscan.c, the loop       *)
(* transmit_thread has too).  A scan may be paused once; another process   *)
(* then goes on with what the saved file says.  The machines of a --shard  *)
(* scan do their parts one after another.                                  *)
(*                                                                         *)
(* Beside it rdpscan's main, which has copies of both algorithms and walks *)
(* a range of its own before the pool of module Workers gets it.           *)
(***************************************************************************)
EXTENDS Config, Blackrock

CONSTANTS Ports,           \* the ports that may be asked for with the ranges
          ExcludedAddrs,   \* the addresses --exclude may name
          Seeds,           \* the seed a start may draw
          Shards,          \* the values of OF in --shard ONE/OF
          OtherPorts,      \* the ports with which other settings are given
          Settings,        \* other arguments
          RdpArguments,    \* the arguments and the lines of a file for rdpscan
          EtcFiles,        \* what /etc/masscan/masscan.conf may hold
          FewSpans,        \* the ranges that are given with other settings
          PauseAt,         \* bound: the indices at which a scan is paused
          MaxAdds,         \* bound: ranges given
          MaxExcludes,     \* bound: excludes given
          MaxSettings      \* bound: other settings given

VARIABLES masscan,            \* struct Masscan
          plan,               \* what varies: "ranges", "settings" or "rdpscan"
          phase,
          adds,               \* how many arguments of a kind have been given
          br,                 \* the shuffle
          i,
          etc, file,          \* the two configuration files; <<>> is none
          paused,             \* the settings of the scan that was paused
          wanted, unwanted,   \* what the ranges and excludes given stand for
          listed,             \* <<address, port>> as they come out
          procs, named        \* rdpscan's processes to run, and the first one

rdpscan == <<procs, named>>
input == <<plan, etc, wanted, unwanted, rdpscan>>
scan == <<br, i, listed>>
saved == <<file, paused>>
vars == <<masscan, phase, adds, scan, saved, input>>

NoShuffle == [range |-> 0, seed |-> 0, a |-> 0, b |-> 0]
NotPaused == [op |-> "not paused"]
WasPaused == paused.op # "not paused"

\* Every program starts with what /etc/masscan/masscan.conf says.
Fresh(lines) == masscan_read_config_file(Defaults, lines)

\* rdpscan is given a file, or arguments, or both.
Given(args, lines) == [args |-> args, lines |-> lines]
Lines == {<<>>} \cup {<<a>> : a \in RdpArguments}
Arguments == Lines \cup {<<a, b>> : a \in RdpArguments, b \in RdpArguments}

Init ==
    /\ \/ /\ plan \in {"ranges", "rdpscan"} /\ etc = <<>>
          /\ \E p \in Ports, of \in Shards :
                masscan = SET_shard(PortsAt(Fresh(etc), Parts(p), 0), Parts(<<1, of>>))
       \/ /\ plan = "settings" /\ etc \in EtcFiles
          /\ \E p \in OtherPorts : masscan = PortsAt(Fresh(etc), Parts(p), 0)
    /\ IF plan = "rdpscan"
       THEN /\ named \in {Given(a, l) : a \in Arguments, l \in Lines} \ {Given(<<>>, <<>>)}
            /\ phase = "rdpscan" /\ procs = <<named>>
       ELSE named = Given(<<>>, <<>>) /\ phase = "targets" /\ procs = <<>>
    /\ adds = 0
    /\ br = NoShuffle /\ i = 0
    /\ file = <<>> /\ paused = NotPaused
    /\ wanted = {} /\ unwanted = AllMembers(masscan.exclude_ip)
    /\ listed = <<>>

\* The program goes on with settings c, unless they have ended it.
Goes(c, next) ==
    /\ masscan' = c
    /\ phase' = IF Over(c) THEN "failed" ELSE next

\* Bound: --vuln is not given with a range of ports of two protocols, which
\* main_scan would turn into one that ends before it begins.
Sensible(c) ==
    c.vuln # "" => \A k \in DOMAIN c.ports.list :
        c.ports.list[k].begin \div 65536 = c.ports.list[k].end \div 65536

GoesIfSensible(c) == Sensible(c) /\ Goes(c, "targets")

\* main looks for --readscan before anything else, and reads no /etc then.
Give ==
    /\ plan = "settings" /\ phase = "targets" /\ wanted = {} /\ adds < MaxSettings
    /\ \E a \in Settings :
          /\ a.name = "readscan" => etc = <<>>
          /\ GoesIfSensible(Argument(masscan, a))
    /\ adds' = adds + 1
    /\ UNCHANGED <<scan, saved, input>>

OneOf(r) == Parts(<<[kind |-> "range", from |-> r.begin, to |-> r.end, bits |-> 0]>>)

\* A range is named, with or without a parameter, or read from a file, which
\* sorts the list.
NameWith(name, r) == [dash |-> FALSE, name |-> name, index |-> 0, value |-> OneOf(r)]
AddTarget ==
    /\ phase = "targets"
    /\ IF plan = "ranges" THEN adds < MaxAdds ELSE wanted = {} /\ adds <= MaxSettings
    /\ \E name \in {"", "range", "includefile"}, r \in IF plan = "ranges" THEN Spans ELSE FewSpans :
          /\ IsValid(r)
          /\ Goes(Argument(masscan, NameWith(name, r)), "targets")
          /\ wanted' = IF masscan.returned THEN wanted ELSE wanted \cup Members(r)
    /\ adds' = adds + 1
    /\ UNCHANGED <<scan, saved, plan, etc, unwanted, rdpscan>>

Excludes ==
    /\ phase = "targets"
    /\ phase' = "excludes" /\ adds' = 0
    /\ UNCHANGED <<masscan, scan, saved, input>>

AddExclude ==
    /\ plan = "ranges" /\ phase = "excludes" /\ adds < MaxExcludes
    /\ \E name \in {"exclude", "excludefile"}, r \in Spans :
          /\ IsValid(r) /\ Members(r) \subseteq ExcludedAddrs
          /\ Goes(Argument(masscan, NameWith(name, r)), "excludes")
          /\ unwanted' = unwanted \cup Members(r)
    /\ adds' = adds + 1
    /\ UNCHANGED <<scan, saved, plan, etc, wanted, rdpscan>>

\* The end of the command line, the excludes, and the first index.
DispatchedUnlessOver(c) == IF Over(c) THEN c ELSE Dispatched(c)
Begins(c) ==
    /\ Goes(c, "scan")
    /\ IF Over(c) THEN UNCHANGED <<br, i>>
       ELSE /\ br' = New(Count(c.targets) * Count(c.ports), c.seed)
            /\ i' = c.resume_index + c.shard[1] - 1
Start ==
    /\ phase \in {"excludes", "resumed"}
    /\ \E seed \in Seeds :
          Begins([DispatchedUnlessOver(ApplyAllExcludes(EndOfCommandLine(masscan)))
                    EXCEPT !.seed = IF @ = 0 THEN seed ELSE @])
    /\ adds' = 0
    /\ UNCHANGED <<listed, saved, input>>

\* Bound: without the indices --retries adds behind the range, which repeat
\* targets; module ScanControl has them.
End == LET start == masscan.resume_index + masscan.shard[1] - 1
           n == masscan.resume_count
       IN  IF n # 0 /\ br.range > start + n THEN start + n ELSE br.range

List ==
    /\ phase = "scan" /\ i < End
    /\ LET xXx == Shuffle(br, i)
           ip == Pick(masscan.targets, xXx % Count(masscan.targets))
           port == Pick(masscan.ports, xXx \div Count(masscan.targets))
       IN  listed' = Append(listed, <<ip, port>>)
    /\ i' = i + masscan.shard[2]
    /\ UNCHANGED <<masscan, phase, adds, br, saved, input>>

\* The next machine of a sharded scan has the same command line.
NextShard ==
    /\ phase = "scan" /\ i >= End
    /\ LET one == masscan.shard[1]
       IN  IF plan = "ranges" /\ one < masscan.shard[2]
           THEN /\ masscan' = [masscan EXCEPT !.shard[1] = one + 1]
                /\ i' = masscan.resume_index + one
                /\ phase' = "scan"
           ELSE phase' = "done" /\ UNCHANGED <<masscan, i>>
    /\ UNCHANGED <<adds, br, listed, saved, input>>

\* main_scan saves the index it has read, here the one that is next, and the
\* settings.
Pause ==
    /\ phase = "scan" /\ masscan.op = "scan" /\ ~WasPaused
    /\ i < br.range /\ i \in PauseAt
    /\ plan = "ranges" => masscan.shard[2] = 1
    /\ masscan' = [masscan EXCEPT !.resume_index = i]
    /\ file' = masscan_echo(masscan')
    /\ paused' = masscan'
    /\ phase' = "paused"
    /\ UNCHANGED <<adds, scan, input>>

\* masscan --resume paused.conf
Resume ==
    /\ phase = "paused"
    /\ Goes(masscan_set_parameter(Fresh(etc), "resume", 0, Parts(file)), "resumed")
    /\ UNCHANGED <<adds, scan, saved, input>>

----------------------------------------------------------------------------
(* rdpscan.  A process that is given one range, and no file, expands it;   *)
(* one with a file or with several addresses starts a process for each     *)
(* (module Workers has how), which may be given a range again.             *)

RdpBlackrock == INSTANCE Blackrock WITH Rounds <- 3

is_ipv4_range(p) == p.kind \in {"cidr", "range"}

\* rdpscan's copies of what masscan calls.
RdpParse(p) == range_parse_ipv4(p)
RdpList(r) == Sort(AddRange(Empty, r))
RdpNew(count, seed) == RdpBlackrock!New(count, seed)
RdpShuffle(b, m) == RdpBlackrock!Shuffle(b, m)
RdpPick(t, m) == Pick(t, m)

Address(a) == [kind |-> "one", from |-> a, to |-> a, bits |-> 0]
Shuffled(t, b) == [m \in 1 .. b.range |-> Address(RdpPick(t, RdpShuffle(b, m - 1)))]

\* The targets of a process; none if its range is bad.
Expanded(g, seed) ==
    IF g.lines = <<>> /\ Len(g.args) = 1 /\ is_ipv4_range(g.args[1])
    THEN LET r == RdpParse(g.args[1])
             t == RdpList(r)
         IN  IF IsValid(r) THEN Shuffled(t, RdpNew(Count(t), seed)) ELSE <<>>
    ELSE g.args

\* spawn_workers takes the lines of the file first.
RdpMain ==
    /\ phase = "rdpscan" /\ procs # <<>>
    /\ LET g == Head(procs)
       IN  \E seed \in Seeds :
            LET targets == Expanded(g, seed)
            IN  IF g.lines # <<>> \/ Len(targets) > 1
                THEN /\ procs' = Tail(procs) \o [k \in DOMAIN (g.lines \o targets) |->
                                        Given(<<(g.lines \o targets)[k]>>, <<>>)]
                     /\ listed' = listed
                ELSE /\ procs' = Tail(procs)
                     /\ listed' = listed \o targets
    /\ phase' = IF procs' = <<>> THEN "done" ELSE "rdpscan"
    /\ UNCHANGED <<masscan, adds, br, i, saved, plan, etc, wanted, unwanted, named>>

----------------------------------------------------------------------------
Done == phase \in {"failed", "done"} /\ UNCHANGED vars

Next ==
    \/ Give \/ AddTarget \/ Excludes \/ AddExclude \/ Start
    \/ List \/ NextShard
    \/ Pause \/ Resume
    \/ RdpMain
    \/ Done

Spec == Init /\ [][Next]_vars

----------------------------------------------------------------------------
Left == wanted \ unwanted
Reduced == phase \in {"scan", "paused", "resumed", "done"}

\* range_apply_exclude marks a range that is gone with [2, 1], and the test
\* that follows it in rangelist_exclude does not know that mark from a range:
\* an exclude that begins at 0 or 1 is passed over once it has swallowed a
\* range, and the targets behind that are kept although it excludes them.
LowExclude == unwanted \cap {0, 1} # {}

\* The new way of excluding gives what the old way gave, which is what the
\* selftest of ranges.c compares on one random input.
ExcludesAgree ==
    phase = "excludes" /\ ~LowExclude =>
        LET t == Sort(masscan.targets)
            e == Sort(masscan.exclude_ip)
        IN  Exclude(t, e).list = Exclude2(t, e).list

\* What --readrange prints of the sorted ranges stands for them again.
PrintedBack ==
    phase = "excludes" =>
        UNION {Members(range_parse_ipv4(p)) :
                p \in ToSet(main_readrange([masscan EXCEPT !.targets = Sort(@)]))} = wanted

\* However ranges overlap, repeat or touch, the lists stand for exactly the
\* addresses given (rangelist_add_range, rangelist_sort, rangelist_exclude), before and after the
\* excludes and again when a saved file has been read (after a low exclude,
\* for nothing that was not given and everything that is left); and a list that
\* claims to be sorted has no two ranges that touch (save the ports of --vuln,
\* which main_scan moves, each by itself).
ListsDenote ==
    /\ ~WasPaused /\ phase # "failed" => AllMembers(masscan.exclude_ip) = unwanted
    /\ phase # "failed" =>
          LET members == AllMembers(masscan.targets)
          IN  IF Reduced /\ LowExclude
              THEN Left \subseteq members /\ members \subseteq wanted
              ELSE members = IF Reduced THEN Left ELSE wanted
    /\ \A t \in {masscan.targets, masscan.exclude_ip} : t.sorted => Canonical(t)
    /\ masscan.ports.sorted /\ masscan.vuln = "" => Canonical(masscan.ports)
    /\ ExcludesAgree
    /\ PrintedBack

\* blackrock_unshuffle undoes blackrock_shuffle, which a comment in the
\* selftest doubts, and the binary search picks what the linear one picks.
PickedBack ==
    phase = "scan" =>
        /\ \A m \in 0 .. br.range - 1 : Unshuffle(br, Shuffle(br, m)) = m
        /\ \A m \in 0 .. Count(masscan.targets) - 1 :
            Pick(masscan.targets, m) = PickLinear(masscan.targets.list, m)

\* However rdpscan's arguments and its file name an address, the processes
\* end up scanning it as often as it is named, a bad range being nobody's
\* (main, spawn_connection; three rounds of the shuffle).
Times(s, x) == Len(SelectSeq(s, LAMBDA y : y = x))
Naming(a) ==
    Cardinality({k \in DOMAIN (named.args \o named.lines) :
        LET r == range_parse_ipv4((named.args \o named.lines)[k])
        IN  IsValid(r) /\ a \in Members(r)})
RdpTargetsOnce ==
    phase = "done" /\ plan = "rdpscan" =>
        \A a \in 0 .. MaxAddr : Times(listed, Address(a)) = Naming(a)

\* A finished scan, the shards taken together or the part before a pause and
\* the part after it, has listed every address and port that is left, each
\* exactly once (blackrock_shuffle is one-to-one, rangelist_pick numbers the
\* addresses, masscan_echo keeps what both depend on).  What is picked is
\* also found again, as PickedBack says; rdpscan's part is RdpTargetsOnce.
EveryTargetOnce ==
    /\ phase = "done" /\ plan = "ranges" =>
        LET addresses == IF LowExclude THEN AllMembers(masscan.targets) ELSE Left
        IN  /\ {listed[k] : k \in DOMAIN listed} = addresses \X AllMembers(masscan.ports)
            /\ Len(listed) = Cardinality(addresses) * Cardinality(AllMembers(masscan.ports))
    /\ PickedBack
    /\ RdpTargetsOnce

\* What a file holds whatever the settings are.
Written ==
    {"resume_index", "resume_count", "seed", "rate", "banners", "retries", "noreset",
     "nmap_payloads", "nmap_service_probes", "pcap_filename", "pcap_payloads", "hello",
     "hello_timeout", "min_packet", "capture", "format", "rotate", "stylesheet", "script",
     "http_user_agent", "http_headers", "nic_count"}

\* What the file says of an adapter.  A range of one or two source addresses
\* is lost, and so is the router's MAC beside its address.
SameNic(p, r) ==
    /\ r.ifname = p.ifname /\ r.my_mac = p.my_mac /\ r.router_ip = p.router_ip
    /\ p.router_ip = 0 => r.router_mac = p.router_mac
    /\ p.ip = NoAddress \/ SizeOf(p.ip) > 2 => r.ip = p.ip

\* A --vuln scan has moved its ports to where no file can name them, and
\* "redis" without an address cannot be read back.
CannotGoOn(p) == p.vuln # "" \/ (p.format = "redis" /\ p.redis[1] = 0)

\* masscan --resume: the settings that masscan_echo writes are the settings
\* that are read, in whatever order and combination they were given, although
\* some lines change what another line has set; the first shard is the one
\* that is not written.  And a paused scan can be resumed.
ResumeRestores ==
    /\ phase = "resumed" /\ ~CannotGoOn(paused) =>
        /\ \A f \in Written : masscan[f] = paused[f]
        /\ masscan.append
        /\ Sort(masscan.ports).list = paused.ports.list
        /\ ("arp" \in masscan.scan_type) = ("arp" \in paused.scan_type)
        /\ ToSet(masscan.hello_strings) = ToSet(paused.hello_strings)
        /\ IF paused.format = "redis"
           THEN masscan.redis = paused.redis /\ masscan.filename = "<redis>"
           ELSE masscan.filename = paused.filename
        /\ paused.shard[1] # 1 => masscan.shard = paused.shard
        /\ \A k \in 1 .. paused.nic_count : SameNic(paused.nic[k], masscan.nic[k])
    /\ phase = "failed" /\ WasPaused => CannotGoOn(paused)
=============================================================================
