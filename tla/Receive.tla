------------------------------- MODULE Receive -------------------------------
(* main.c's receive_thread: what becomes of every frame an adapter hands    *)
(* over, down to the file its result is written to.  One thread per         *)
(* adapter, each with its own struct Output, table of duplicates, TCP       *)
(* connections and filter for resets; the table of echo replies is a static *)
(* variable of handle_icmp and belongs to all of them.  The transmit thread *)
(* is what it puts on the wire; hosts answer (module Hosts) in any order,   *)
(* repeatedly or never, and frames arrive that nobody asked for.            *)
(*                                                                          *)
(* Bounds: conf.frames frames and steps of connections, conf.until on the   *)
(* clock, conf.runs runs of the program; conf.lag, how long before it is    *)
(* handled a frame may have been captured.                                  *)
EXTENDS Hosts, FiniteSets

CONSTANTS Scenarios,                    \* what the program is told to do
          RstIndex(_),                  \* siphash24() & bucket_mask, by flow
          BucketCount,                  \* of the reset filter
          Forever

\* rstfilter_create rounds up to a power of two.
ASSUME BucketCountAssumption == BucketCount \in Nat \ {0} /\ BucketCount % 2 = 0

\* Addresses, ports and cookies are what they are; every adapter has an
\* address of its own, and ARP targets are those of an ARP scan.  What nobody
\* asked for does not bear the cookie (the acknowledgment of such a frame is
\* always the same), and in an ARP scan does not come from a target.
Words == 0..(W - 1)
Address == (Words \X Words) \ {<<0, 0>>}
Strays == {"synack", "rst", "fin", "syn", "long", "cut", "fragment", "short dns", "dns", "zeroaccess",
           "unreachable", "arp request", "arp reply"}
Sensible(c) ==
    /\ {"nics", "ttl", "link", "src", "targets", "strays", "arp", "tcb", "append", "lag"} \subseteq DOMAIN c
    /\ c.nics \in Nat \ {0} /\ c.ttl \in 0..255 /\ c.lag \in Nat
    /\ c.link \in {"ethernet", "vlan", "mpls", "raw", "sll", "wifi"}
    /\ \A n \in 1..c.nics :
          /\ c.src[n].ip \in Address /\ c.src[n].port \in Words \ {0}
          /\ \A m \in 1..c.nics : c.src[n].ip = c.src[m].ip => n = m
    /\ \A t \in c.targets : t.them \in Words \X Words /\ t.target \in Nat /\ (Kind(t.target) = "arp" => c.arp)
    /\ \A t \in c.targets, n \in 1..c.nics : \A mine \in {0, c.src[n].port} :
          SynCookie(t.them, t.target, c.src[n].ip, mine) \in Words \X Words
    /\ \A x \in c.strays :
          /\ x.what \in Strays /\ x.them \in Words \X Words /\ x.me \in Words \X Words
          /\ x.port \in Words /\ x.mine \in Words
          /\ SynCookie(x.them, x.port, x.me, x.mine) # <<7, 6>>
          /\ x.what = "arp reply" => \A t \in c.targets : t.them # x.them
ASSUME ScenariosAssumption == \A c \in Scenarios : Sensible(c)

VARIABLES conf,                         \* one of Scenarios
          now,                          \* time(0)
          global,                       \* global_now, which is behind it
          stage,                        \* "sending", then is_tx_done, then is_rx_done
          sent,                         \* what is on the wire
          left, runs,                   \* the bounds
          nics,                         \* the receive threads
          echo,                         \* echo_reply_dedup
          fs,                           \* the files
          log, arrived, counts, last    \* history: reports, answers, reset counters
vars == <<conf, now, global, stage, sent, left, runs, nics, echo, fs, log, arrived, counts, last>>

F == INSTANCE Frames
D == INSTANCE Datagrams
O == INSTANCE Output

set == template_packet_init(<<2, 0, 0, 0, 0, 1>>, conf.ttl)
Flow(s) == [them |-> s.them, port |-> s.sport, me |-> s.me, mine |-> s.dport]

(* ---- main-dedup.c: buckets of four *)
NoEntry == [them |-> <<0, 0>>, port |-> 0, me |-> <<0, 0>>, mine |-> 0]
Bucket(e) == Xor3((e.them[2] + e.port) % W, (e.me[2] + e.them[1]) % W, XorOf(e.them[1] \div 256, e.mine))
dedup_create == [h \in {} |-> <<>>]
NoEntries == <<NoEntry, NoEntry, NoEntry, NoEntry>>
Stored(table, h, b) == [k \in (DOMAIN table) \cup {h} |-> IF k = h THEN b ELSE table[k]]

\* What is found goes to the front.  What is new goes there too, over the
\* entry that the others have just been moved onto.
\* Fault: the others are moved and the new entry is not written.
Added_Unwritten(b, e) == <<b[2], b[3], b[4], b[4]>>
Added(b, e) == <<e, b[3], b[4], b[4]>>
dedup_is_duplicate(table, e) ==
    LET h == Bucket(e)
        b == IF h \in DOMAIN table THEN table[h] ELSE NoEntries
        at == {i \in 1..4 : b[i] = e}
        i == CHOOSE j \in at : \A k \in at : j <= k
    IN IF at # {} THEN [known |-> TRUE, table |-> Stored(table, h, [b EXCEPT ![1] = b[i], ![i] = b[1]])]
       ELSE [known |-> FALSE, table |-> Stored(table, h, Added(b, e))]

(* ---- misc-rstfilter.c: two counters to a byte, the even one on the left *)
rstfilter_create == [i \in 0..(BucketCount \div 2 - 1) |-> 0]
Nibble(byte, index) == IF index % 2 = 1 THEN byte % 16 ELSE byte \div 16
Unit(index) == IF index % 2 = 1 THEN 1 ELSE 16
\* Fault: a full counter goes on counting.
Add_Unlimited(rf, index) == [rf EXCEPT ![index \div 2] = @ + Unit(index)]
Add(rf, index) ==
    IF Nibble(rf[index \div 2], index) = 15 THEN rf ELSE [rf EXCEPT ![index \div 2] = @ + Unit(index)]
Drain(rf, index) ==
    IF Nibble(rf[index \div 2], index) = 0 THEN rf ELSE [rf EXCEPT ![index \div 2] = @ - Unit(index)]
\* The bucket that is emptied a little comes from another hash: any of them.
rstfilter_is_filter(rf, index, drained) ==
    [suppress |-> Nibble(rf[index \div 2], index) = 15, rf |-> Drain(Add(rf, index), drained)]

\* The same as counters of their own, for FilterExact.
Counted(c, index, drained) ==
    LET up == [c EXCEPT ![index] = IF @ < 15 THEN @ + 1 ELSE @] IN
    [up EXCEPT ![drained] = IF @ > 0 THEN @ - 1 ELSE @]

(* ---- what arrives *)
\* The probes that are taken in by who they are for.
Probes == {p \in sent : p.k # "reset" /\ Kinds(p.k) # {} /\ (p.k = "arp" \/ Genuine(p.pkt))}
Answer(p, kind) ==
    [frame |-> Reply(conf.link, p.pkt, p.k, kind), answer |-> TRUE, k |-> p.k, kind |-> kind,
     them |-> p.them, port |-> p.port, me |-> p.me, mine |-> p.mine]
Unasked(x) == [frame |-> Stray(conf.link, x.what, x.them, x.port, x.me, x.mine), answer |-> FALSE]
Arriving ==
    (UNION {{Answer(p, kind) : kind \in Kinds(p.k) \cap conf.kinds} : p \in Probes})
    \cup {Unasked(x) : x \in conf.strays}

is_my_ip(n, ip) == ip = conf.src[n].ip
is_my_port(n, port) == port = conf.src[n].port
is_nic_port(port) == \E n \in 1..conf.nics : is_my_port(n, port)
matches_me(ip, port) == \E n \in 1..conf.nics : is_my_ip(n, ip) /\ is_my_port(n, port)

\* A frame that gets as far as the switch on what it carries.
Parsed(n, f, s) ==
    /\ f.len <= 1514
    /\ s.to = "done"
    /\ is_my_ip(n, s.me)
Running(n) == nics[n].pc = "run" /\ stage # "over" /\ left > 0

(* ---- reporting: each record through struct Output, in the log as well *)
\* A record is stamped with the second its packet was captured in, but TCP's
\* own ports and banners with global_now, which every port that is reported sets,
\* after it was stamped.  ("when" is history: the time it was handed over.)
StatusBefore(rs, i) == \E j \in 1..(i - 1) : rs[j].kind = "status"
Stamp(rs, i, of, secs) ==
    IF ~(rs[i].proto = 6 /\ of.mine # 0) THEN secs ELSE IF StatusBefore(rs, i) THEN now ELSE global
Stamped(r, at) ==
    [field \in (DOMAIN r) \cup {"at", "when"} |->
        CASE field = "at" -> at [] field = "when" -> now [] OTHER -> r[field]]
Said(n, r, of) == [r |-> r, nic |-> n, run |-> runs, of |-> of]
Reported(w, r, ok) ==
    IF r.kind = "status" THEN O!output_report_status(w, conf, now, r, ok)
    ELSE O!output_report_banner(w, conf, r.at, now, r, ok)
Written(before, rs, ok) ==
    LET w[i \in 0..Len(rs)] == IF i = 0 THEN before ELSE Reported(w[i - 1], rs[i], ok)
    IN w[Len(rs)]
\* Whether a file can be opened when it is rotated.
Opens == IF conf.mayFail THEN BOOLEAN ELSE {TRUE}

GoesOn(n, x, w) ==
    /\ nics' = [nics EXCEPT ![n] = [x EXCEPT !.o = w.o]]
    /\ fs' = w.fs
    /\ stage' = IF w.stop /\ stage = "sending" THEN "waiting" ELSE stage
\* The thread goes on as x, having reported the records rs.
Report(n, x, rs, of, ok) ==
    \E secs \in (now - conf.lag)..now :
    LET stamped == [i \in 1..Len(rs) |-> Stamped(rs[i], Stamp(rs, i, of, secs))] IN
    /\ log' = log \o [i \in 1..Len(rs) |-> Said(n, stamped[i], of)]
    /\ global' = IF StatusBefore(rs, Len(rs) + 1) THEN now ELSE global
    /\ GoesOn(n, x, Written([fs |-> fs, o |-> x.o, stop |-> FALSE, opened |-> O!Closed], stamped, ok))
Noted(f, counted) ==
    /\ left' = left - 1
    /\ arrived' = IF f.answer /\ counted
                  THEN arrived \cup {[k |-> f.k, kind |-> f.kind, them |-> f.them, port |-> f.port, me |-> f.me,
                                      mine |-> f.mine, run |-> runs]} ELSE arrived
    /\ UNCHANGED <<conf, now, runs>>

(* ---- one action for each kind of frame: the loop from one frame to the next *)
\* Frames that are too long, corrupt, or for another address.
RxIgnored(n) ==
    /\ Running(n)
    /\ \E f \in Arriving :
          /\ ~Parsed(n, f.frame, F!preprocess_frame(f.frame))
          /\ Noted(f, FALSE)
    /\ UNCHANGED <<global, stage, sent, nics, echo, fs, log, counts, last>>

\* A request is answered (module PacketQueues); an answer counts in an ARP
\* scan, if it is a target's.
RxArp(n) ==
    /\ Running(n)
    /\ \E f \in Arriving, ok \in Opens :
       LET s == F!preprocess_frame(f.frame)
           of == [them |-> s.them, port |-> 0, me |-> s.me, mine |-> 0]
           dup == dedup_is_duplicate(nics[n].dedup, of)
           wanted == f.frame.more.op = 2 /\ conf.arp /\ \E t \in conf.targets : t.them = s.them
       IN /\ Parsed(n, f.frame, s) /\ s.found = "arp"
          /\ Report(n, IF wanted THEN [nics[n] EXCEPT !.dedup = dup.table] ELSE nics[n],
                    IF wanted /\ ~dup.known THEN <<O!Status("up", s.them, 0, 0)>> ELSE <<>>, of, ok)
          /\ Noted(f, TRUE)
    /\ UNCHANGED <<sent, echo, counts, last>>

\* The port may be another adapter's.
RxUdp(n) ==
    /\ Running(n)
    /\ \E f \in Arriving, ok \in Opens :
       LET s == F!preprocess_frame(f.frame)
           d == [px |-> f.frame.px, at |-> s.at, n |-> s.app, sport |-> s.sport,
                 cookie |-> SynCookie(s.them, s.sport + Templ_UDP, s.me, s.dport), crc |-> f.frame.more.crc]
       IN /\ Parsed(n, f.frame, s) /\ s.found \in {"udp", "dns"}
          /\ IF is_nic_port(s.dport)
             THEN \E out \in D!handle_udp(d) :
                     Report(n, nics[n],
                            [i \in 1..Len(out.banners) |-> O!Banner(out.banners[i].app, s.them, 17, s.sport, out.banners[i].length)]
                            \o (IF out.counted THEN <<O!Status("open", s.them, 17, s.sport)>> ELSE <<>>), Flow(s), ok)
             ELSE UNCHANGED <<nics, fs, log, global, stage>>
          /\ Noted(f, TRUE)
    /\ UNCHANGED <<sent, echo, counts, last>>

\* An echo reply is looked up in the table of all threads; that a port is
\* unreachable is believed if the packet inside was one of ours.
EchoReply(s, f) == s.sport = 0 /\ f.more.number = SynCookie(s.them, Templ_ICMP_echo, s.me, 0)
PortUnreachable(s, f) ==
    /\ s.sport = 3 /\ s.dport = 3 /\ f.len - s.at > 8
    /\ matches_me(f.more.inner.me, f.more.inner.pme) /\ f.more.inner.proto \in {6, 17, 132}
RxIcmp(n) ==
    /\ Running(n)
    /\ \E f \in Arriving, ok \in Opens :
       LET s == F!preprocess_frame(f.frame)
           of == [them |-> s.them, port |-> 0, me |-> s.me, mine |-> 0]
           dup == dedup_is_duplicate(echo, of)
           inner == f.frame.more.inner
       IN /\ Parsed(n, f.frame, s) /\ s.found = "icmp"
          /\ echo' = IF EchoReply(s, f.frame) THEN dup.table ELSE echo
          /\ Report(n, nics[n],
                    IF EchoReply(s, f.frame) THEN IF dup.known THEN <<>> ELSE <<O!Status("open", s.them, 1, 0)>>
                    ELSE IF PortUnreachable(s, f.frame)
                    THEN <<O!Status("closed", inner.them, inner.proto, inner.pthem)>> ELSE <<>>, of, ok)
          /\ Noted(f, TRUE)
    /\ UNCHANGED <<sent, counts, last>>

\* handle_sctp: the verification tag is the cookie.
SctpStatus(s, f, cookie) ==
    IF f.more.tag = cookie /\ s.transport + 16 <= f.len /\ f.more.chunk \in {2, 6}
    THEN <<O!Status(IF f.more.chunk = 2 THEN "open" ELSE "closed", s.them, 132, s.sport)>> ELSE <<>>

\* Connections as tcpcon_handle() begins and ends them; what happens between
\* is module TcpConn.
Connections(x, flow, flags, verified) ==
    IF ~conf.tcb THEN x.tcbs
    ELSE IF {"SYN", "ACK"} \subseteq flags THEN IF verified THEN x.tcbs \cup {flow} ELSE x.tcbs
    ELSE IF "RST" \in flags THEN x.tcbs \ {flow} ELSE x.tcbs
\* A FIN for a connection there is no more is answered with a reset, unless
\* too many were.
FilterAsked(x, flow, flags) ==
    conf.tcb /\ flow \notin x.tcbs /\ "FIN" \in flags /\ "RST" \notin flags /\ ~({"SYN", "ACK"} \subseteq flags)
Reset(flow, seqno, ackno) ==
    [k |-> "reset", pkt |-> tcp_create_packet(set.pkts.tcp, flow.them, flow.port, flow.me, flow.mine, seqno, ackno, 4, <<>>)]

\* SCTP goes the same way: its chunk flags stand where TCP's flags would.
RxTcp(n) ==
    /\ Running(n)
    /\ \E f \in Arriving, ok \in Opens, drained \in 0..(BucketCount - 1) :
       LET s == F!preprocess_frame(f.frame)
           sctp == s.found = "sctp"
           flow == Flow(s)
           flags == f.frame.more.flags
           cookie == SynCookie(s.them, s.sport + (IF sctp THEN Templ_SCTP ELSE 0), s.me, s.dport)
           verified == cookie = Previous32(f.frame.more.ack)
           x == nics[n]
           asked == FilterAsked(x, flow, flags)
           filter == rstfilter_is_filter(x.rf, RstIndex(flow), drained)
           dup == dedup_is_duplicate(x.dedup, flow)
           status == (({"SYN", "ACK"} \subseteq flags) \/ "RST" \in flags) /\ verified
           new == status /\ ~dup.known
           mine == is_my_port(n, s.dport)
       IN /\ Parsed(n, f.frame, s) /\ s.found \in {"tcp", "sctp"}
          /\ ~(mine /\ asked) => drained = 0                       \* not drawn otherwise
          /\ Report(n, IF ~mine THEN x
                       ELSE [x EXCEPT !.tcbs = Connections(x, flow, flags, verified),
                                      !.rf = IF asked THEN filter.rf ELSE @,
                                      !.dedup = IF status THEN dup.table ELSE @],
                    (IF sctp THEN SctpStatus(s, f.frame, cookie) ELSE <<>>)
                    \o (IF mine /\ new THEN <<O!Status(IF "RST" \in flags THEN "closed" ELSE "open", s.them, 6, s.sport)>>
                        ELSE <<>>), flow, ok)
          /\ sent' = sent \cup (IF mine /\ asked /\ ~filter.suppress THEN {Reset(flow, f.frame.more.ack, Next32(TheirSeqno))} ELSE {})
                    \cup (IF mine /\ new /\ ~conf.tcb /\ ~conf.noreset THEN {Reset(flow, f.frame.more.ack, <<0, 0>>)} ELSE {})
          /\ counts' = IF mine /\ asked THEN [counts EXCEPT ![n] = Counted(@, RstIndex(flow), drained)] ELSE counts
          /\ last' = IF mine /\ asked THEN [suppressed |-> filter.suppress, full |-> counts[n][RstIndex(flow)] = 15] ELSE last
          /\ Noted(f, TRUE)
    /\ UNCHANGED echo

\* A connection gives what it has read, or ends: data, timeouts, a FIN.
Conversation(n) ==
    /\ Running(n)
    /\ \E flow \in nics[n].tcbs, ok \in Opens :
       \/ Report(n, nics[n], <<O!Banner("http", flow.them, 6, flow.port, 9)>>, flow, ok)
       \/ Report(n, [nics[n] EXCEPT !.tcbs = @ \ {flow}], <<>>, flow, ok)
    /\ left' = left - 1
    /\ UNCHANGED <<conf, now, runs, sent, echo, arrived, counts, last>>

(* ---- the transmit thread, the clock, and the ends of the threads *)
\* The cookie of a probe, by what is probed.
Probe(t, me) ==
    LET k == Kind(t.target)
        portless == k \in {"ping", "arp"}
    IN [k |-> k, them |-> t.them, port |-> IF portless THEN 0 ELSE t.target % W,
        me |-> me.ip, mine |-> IF portless THEN 0 ELSE me.port,
        pkt |-> template_set_target(set, t.them, t.target, me.ip, me.port, SynCookie(t.them, t.target, me.ip, me.port))]
SendsOnce(p) == p \notin sent /\ sent' = sent \cup {p}
Transmit ==
    /\ stage = "sending"
    /\ \E t \in conf.targets, n \in 1..conf.nics : SendsOnce(Probe(t, conf.src[n]))
    /\ UNCHANGED <<conf, now, global, stage, left, runs, nics, echo, fs, log, arrived, counts, last>>

New == [pc |-> "new", o |-> [fp |-> O!Closed], dedup |-> dedup_create, tcbs |-> {}, rf |-> rstfilter_create]
NoCounts(c) == [n \in 1..c.nics |-> [i \in 0..(BucketCount - 1) |-> 0]]
Init ==
    /\ conf \in Scenarios
    /\ now = conf.start /\ global = now /\ stage = "sending" /\ sent = {} /\ left = conf.frames /\ runs = 1
    /\ nics = [n \in 1..conf.nics |-> New] /\ echo = dedup_create /\ fs = O!NoFiles
    /\ log = <<>> /\ arrived = {} /\ counts = NoCounts(conf) /\ last = [suppressed |-> FALSE, full |-> FALSE]

\* The threads start before anything is sent.
Open(n) ==
    /\ nics[n].pc = "new" /\ stage = "sending"
    /\ LET w == O!output_create(fs, conf, n, now) IN
       fs' = w.fs /\ nics' = [nics EXCEPT ![n] = [@ EXCEPT !.pc = "run", !.o = w.o]]
    /\ UNCHANGED <<conf, now, global, stage, sent, left, runs, echo, log, arrived, counts, last>>

AllDone == \A n \in 1..conf.nics : nics[n].pc = "done"
Tick ==
    /\ now < conf.until
    /\ now' = now + 1
    /\ UNCHANGED <<conf, global, stage, sent, left, runs, nics, echo, fs, log, arrived, counts, last>>

\* main_scan prints its status.
StatusUpdate ==
    /\ ~AllDone /\ global # now
    /\ global' = now
    /\ UNCHANGED <<conf, now, stage, sent, left, runs, nics, echo, fs, log, arrived, counts, last>>

\* Everything is sent, or the user has had enough; then the wait is over.
Stop ==
    /\ stage # "over" /\ \A n \in 1..conf.nics : nics[n].pc = "run"
    /\ stage' = CASE stage = "sending" -> "waiting" [] stage = "waiting" -> "over"
    /\ UNCHANGED <<conf, now, global, sent, left, runs, nics, echo, fs, log, arrived, counts, last>>

\* output_destroy, and the tables with it.
Finish(n) ==
    /\ stage = "over" /\ nics[n].pc = "run"
    /\ LET w == O!output_destroy([fs |-> fs, o |-> nics[n].o, stop |-> FALSE, opened |-> O!Closed], conf, now) IN
       fs' = w.fs /\ nics' = [nics EXCEPT ![n] = [New EXCEPT !.pc = "done"]]
    /\ UNCHANGED <<conf, now, global, stage, sent, left, runs, echo, log, arrived, counts, last>>

\* --resume: another process, which appends.
Again ==
    /\ AllDone /\ runs < conf.runs
    /\ runs' = runs + 1 /\ stage' = "sending" /\ global' = now
    /\ conf' = [conf EXCEPT !.append = TRUE]
    /\ nics' = [n \in 1..conf.nics |-> New] /\ echo' = dedup_create /\ counts' = NoCounts(conf)
    /\ UNCHANGED <<now, sent, left, fs, log, arrived, last>>

Next ==
    \/ Transmit \/ Tick \/ StatusUpdate \/ Stop \/ Again
    \/ \E n \in 1..conf.nics :
          \/ Open(n) \/ Finish(n) \/ Conversation(n)
          \/ RxIgnored(n) \/ RxArp(n) \/ RxUdp(n) \/ RxIcmp(n) \/ RxTcp(n)
Spec == Init /\ [][Next]_vars

(* ---- properties *)
Verified(r) == r.kind = "status" /\ r.proto \in {0, 1, 6, 132}
Protocol(k) == CASE k = "tcp" -> 6 [] k = "sctp" -> 132 [] k = "ping" -> 1 [] k = "arp" -> 0 [] k = "udp" -> 17
StatusOf(kind) == IF kind = "both" THEN "closed" ELSE kind
Records(a) == {i \in DOMAIN log : log[i].r.kind = "status" /\ log[i].r.proto = Protocol(a.k) /\ log[i].r.ip = a.them
                                  /\ log[i].r.port = a.port /\ log[i].run = a.run}
Unreachables == {x \in conf.strays : x.what = "unreachable"}

\* A port or a host is reported only when it answered a probe that was sent,
\* and as it answered; every answer that was read, UDP's set aside, is
\* reported, by a record of its own or an earlier one of the same flow; and
\* the same thing is reported again only if another flow of the same bucket
\* came between.  (What ICMP says is unreachable is believed without a probe.)
Believed ==
    \A i \in DOMAIN log : Verified(log[i].r) =>
       \/ \E a \in arrived : i \in Records(a) /\ log[i].r.status = StatusOf(a.kind)
       \/ \E x \in Unreachables : log[i].r.status = "closed" /\ log[i].r.ip = x.them /\ log[i].r.port = x.port
Heard == \A a \in arrived : a.k # "udp" => Records(a) # {}
OnceInARow ==
    \A i, j \in DOMAIN log :
       i < j /\ log[i].of = log[j].of /\ log[i].nic = log[j].nic /\ log[i].run = log[j].run
       /\ Verified(log[i].r) /\ Verified(log[j].r) /\ log[i].r.proto = log[j].r.proto /\ log[i].r.proto \in {0, 1, 6}
       /\ (\A x \in Unreachables : x.them # log[i].r.ip)
       => \E m \in (i+1)..(j-1) : Bucket(log[m].of) = Bucket(log[i].of) /\ log[m].of # log[i].of
AnswersCounted == Believed /\ Heard /\ OnceInARow

\* A datagram that answers a probe, in the protocol of the port, is reported:
\* its own cookie is found in it, whatever else it says.
DatagramsCounted == \A a \in arrived : a.k = "udp" /\ a.kind = "open" => Records(a) # {}

(* The records of the files, as they would be read back.                    *)
Lines(cells) ==
    IF O!Formats[conf.format].bytes THEN O!parse_file(cells, {}, {})
    ELSE LET is == SelectSeq(cells, LAMBDA c : "of" \in DOMAIN c) IN [i \in DOMAIN is |-> is[i].of]
Files == {fs.dir[name] : name \in DOMAIN fs.dir}
Times(r, seq) == Cardinality({i \in DOMAIN seq : seq[i] = r})
InFiles(r) ==
    LET n(f) == Times(r, Lines(fs.files[f]))
        sum[S \in SUBSET Files] == IF S = {} THEN 0 ELSE LET f == CHOOSE x \in S : TRUE IN n(f) + sum[S \ {f}]
    IN sum[Files]
Kept(r) ==
    LET t == O!Formats[conf.format] IN
    O!Shown(conf, r) /\ (IF r.kind = "status" THEN t.status ELSE t.banner)

\* What --readscan is sure to come to: it knows no record of a host that is up,
\* and stops reading a file at the first (in-binary.c:394-433).
Legible ==
    LET rs == [j \in DOMAIN log |-> log[j].r]
        upTo == {m \in 0..Len(rs) : \A j \in 1..m : rs[j].kind = "status" => rs[j].status # "up"}
    IN IF conf.format = "binary" THEN SubSeq(rs, 1, CHOOSE m \in upTo : \A k \in upTo : k <= m) ELSE rs


\* With rotation by time, on the hour so to speak, no file holds results that
\* were reported in two periods.  Of the three clocks the rotation goes by
\* time(0), when a port is reported, and by the banner's stamp, when a banner is:
\* one that is stamped with an earlier period than it is reported in, be it by
\* its packet's second or by a global_now nobody has set since, is excepted,
\* for it goes into the file that is open.  Nothing is said of the stamps.  An
\* offset, a second adapter and a file that could not be reopened are excepted too.
Punctual(r) == r.kind = "status" \/ r.at \div conf.period = r.when \div conf.period
OnePeriodPerFile ==
    conf.period > 0 /\ conf.offset = 0 /\ conf.nics = 1 /\ ~conf.mayFail =>
    \A f \in Files : LET rs == Lines(fs.files[f]) IN
       \A i, j \in DOMAIN rs :
          Punctual(rs[i]) /\ Punctual(rs[j]) => rs[i].when \div conf.period = rs[j].when \div conf.period

Body(cells) ==
    LET t == O!Formats[conf.format]
        head == SubSeq(cells, 1, Len(t.open))
        rotated == conf.period > 0 \/ conf.filesize > 0
        tail == IF rotated THEN <<>> ELSE t.close
        body == SubSeq(cells, Len(t.open) + 1, Len(cells) - Len(tail))
    IN /\ head = t.open /\ SubSeq(cells, Len(cells) - Len(tail) + 1, Len(cells)) = tail
       /\ \A i \in DOMAIN body : body[i] = O!Text(",") <=> t.comma /\ i % 2 = 0
       /\ t.comma => Len(body) % 2 = 1

\* A file of one run is well formed: what the format puts first is first, the
\* records are separated as it separates them, and at the end stands what the
\* format puts last, unless the file was rotated.  (JSON that is rotated is
\* excepted: a new file begins with a comma, the first record having been seen.)
\* What a file holds was reported in one period.
FilesFramed ==
    /\ AllDone /\ conf.nics = 1 /\ runs = 1 /\ ~(conf.format = "json" /\ (conf.period > 0 \/ conf.filesize > 0))
       => \A f \in Files : fs.files[f] = <<>> \/ Body(fs.files[f])
    /\ OnePeriodPerFile

\* The two counters of a byte never touch each other, and a reset is held
\* back only when its own counter is at 15.
FilterExact ==
    /\ \A n \in 1..conf.nics, i \in 0..(BucketCount - 1) :
          nics[n].pc = "run" => Nibble(nics[n].rf[i \div 2], i) = counts[n][i]
    /\ last.suppressed <=> last.full

\* Whatever is sent bears sums that its receiver finds right; of a segment of
\* a connection that is so when folding twice was enough.
TwoFoldsDo(pkt) ==
    LET t == set.pkts.tcp
        x == Fold(FoldWide(<<Source(pkt), Target(pkt)>>, <<t.checksum_ip, pkt.ip[3], pkt.ip[2] - t.ip[2]>>)) IN x < W
SentVerify ==
    \A p \in sent : p.k \in {"arp", "none"} \/ (Genuine(p.pkt) <=> (p.k = "reset" => TwoFoldsDo(p.pkt)))
==============================================================================
