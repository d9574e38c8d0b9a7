------------------------------ MODULE Datagrams ------------------------------
(* What is made of a UDP datagram (proto-udp.c and the protocols it hands   *)
(* datagrams to).  A datagram d is [px, at, n, sport, cookie, crc]: the     *)
(* bytes of its frame, where its own begin and how many they are, the port  *)
(* it comes from, the cookie of the probe it should answer, and whether the *)
(* CRC that ZeroAccess wants is right.  Offsets count from 0 as in the      *)
(* code, px[i] there is At(px, i) here.  An outcome is                      *)
(* [counted, banners]: whether the port is reported open, and the banners,  *)
(* each with the protocol and how much it says; a read of memory nothing    *)
(* was put in makes several of them possible.                               *)
EXTENDS Integers, Sequences

At(px, i) == px[i + 1]
WordAt(px, i) == 256 * At(px, i) + At(px, i + 1)
Says(app, length) == [app |-> app, length |-> length]
Outcome(counted, banners) == [counted |-> counted, banners |-> banners]
NotMine == Outcome(FALSE, <<>>)                                  \* return 1
Silent == Outcome(TRUE, <<>>)                                    \* return 0
App(d) == SubSeq(d.px, d.at + 1, d.at + d.n)

default_udp_parse(d) == Outcome(TRUE, <<Says("unknown", IF d.n > 64 THEN 64 ELSE d.n)>>)

----------------------------------------------------------------------------
(* DNS.  Names are looked at in the frame, where the links of compressed    *)
(* ones lead to as well: they count from the beginning of the frame.        *)

\* All labels are there, the name is shorter than 255, and no more than four
\* links follow one another without a label in between.
NameIsValid(px, at, max, size) ==
    LET valid[o \in Nat, name \in Nat, links \in 0..4] ==
            /\ name < 255 /\ o < max
            /\ \/ At(px, o) = 0
               \/ At(px, o) \in 1..63 /\ valid[o + At(px, o) + 1, name + At(px, o) + 1, 0]
               \/ /\ At(px, o) >= 192 /\ o + 1 < max /\ links < 4
                  /\ valid[WordAt(px, o) % 16384, name, links + 1]
    IN valid[at, size, 0]
dns_name_skip_validate(px, o, max, name) == IF NameIsValid(px, o, max, name) THEN o + 2 ELSE max + 1

dns_name_skip(px, at, max) ==
    LET skip[o \in Nat, name \in Nat] ==
            IF name >= 255 \/ o >= max THEN max + 1
            ELSE LET b == At(px, o) IN
                 CASE b = 0 -> o + 1 [] b \in 1..63 -> skip[o + b + 1, name + b + 1]
                   [] b >= 192 -> dns_name_skip_validate(px, o, max, name) [] OTHER -> max + 1
    IN skip[at, 0]

\* One question or record whose fixed part ends there: the offset behind it,
\* or "bad".
MAX_RRs == 1024
Question(px, end, max) == [at |-> end, bad |-> end > max \/ WordAt(px, end - 2) \notin {1, 3, 255}]
Record(px, end, max) ==
    LET rdlength == IF end > max THEN 0 ELSE WordAt(px, end - 2)
    IN [at |-> end + rdlength, bad |-> end + rdlength > max]

\* | of two bytes, from the highest bit down.
Bit(x, i) == (x \div 2^i) % 2
Or(x, y) ==
    LET high[n \in 0..8] ==
            IF n = 0 THEN 0
            ELSE 2 * high[n - 1] + (IF Bit(x, 8 - n) = 1 \/ Bit(y, 8 - n) = 1 THEN 1 ELSE 0)
    IN high[8]

\* What a record more makes of s; rr are the offsets of all that was begun.
OneRecord(px, max, question, additional, s) ==
    LET named == dns_name_skip(px, s.at, max)
        next == IF question THEN Question(px, named + 4, max) ELSE Record(px, named + 10, max)
        o == s.at
        opt == additional /\ o + 11 <= max /\ At(px, o) = 0 /\ At(px, o + 1) = 0 /\ At(px, o + 2) = 41
        small == opt /\ WordAt(px, o + 3) < 512
        begun == [s EXCEPT !.rr = Append(@, o)]
    IN IF s.bad THEN s
       ELSE IF Len(s.rr) >= MAX_RRs THEN [s EXCEPT !.bad = TRUE]
       ELSE IF small THEN [begun EXCEPT !.bad = TRUE]
       ELSE [begun EXCEPT !.at = next.at, !.bad = next.bad,
                          !.high = IF opt THEN Or(@, At(px, o + 5)) ELSE @]

\* Section by section: so many questions, answers and additional records.
Records(px, max, questions, answers, additional, from) ==
    LET n == questions + answers + additional
        s[k \in 0..n] ==
            IF k = 0 THEN from ELSE OneRecord(px, max, k <= questions, k > questions + answers, s[k - 1])
    IN s[IF n > MAX_RRs THEN MAX_RRs + 1 ELSE n]

\* The header, and the records as far as they can be followed.
\* The header, with what the records say: s.
Header(d, s) ==
    [id |-> WordAt(d.px, d.at), qr |-> At(d.px, d.at + 2) \div 128, rr |-> s.rr,
     rcode |-> IF s.high = 0 THEN At(d.px, d.at + 3) % 16 ELSE 16 * s.high + (At(d.px, d.at + 3) % 16),
     qdcount |-> WordAt(d.px, d.at + 4), ancount |-> WordAt(d.px, d.at + 6)]
proto_dns_parse(d) ==
    LET count(i) == WordAt(d.px, d.at + i) IN
    Header(d, Records(d.px, d.at + d.n, count(4), count(6) + count(8), count(10),
                      [at |-> d.at + 12, rr |-> <<>>, bad |-> FALSE, high |-> 0]))

\* The record whose offset is rr[i]; nothing was put there if it was not begun.
AnswerAt(px, rr, i, type, class, banner(_)) ==
    LET offsets == IF i < Len(rr) THEN {rr[i + 1]} ELSE 0 .. 2 * Len(px)
        Read(o) ==
            LET rrlen == WordAt(px, o + 8) IN
            IF o + 10 >= Len(px) THEN Silent
            ELSE IF rrlen = 0 \/ At(px, o + 10) > rrlen - 1 THEN Silent
            ELSE IF WordAt(px, o) # type \/ WordAt(px, o + 2) # class THEN Silent
            ELSE Outcome(TRUE, <<banner(o)>>)
    IN {Read(dns_name_skip(px, o, Len(px))) : o \in offsets}

\* Fewer than twelve bytes: the fields are what the stack held.
DnsJunk == {NotMine, Silent}

DnsAnswer(d, dns) ==
    LET Text(o) == Says("DNS", At(d.px, o + 10)) IN
    IF dns.id # d.cookie[2] THEN {NotMine}
    ELSE IF dns.qr # 1 THEN {Silent}
    ELSE IF dns.rcode \in 1..9 THEN {Outcome(TRUE, <<Says("DNS", 9)>>)}
    ELSE AnswerAt(d.px, dns.rr, 1, 16, 3, Text)
handle_dns(d) ==
    IF d.n < 12 THEN DnsJunk \cup {Outcome(TRUE, <<Says("DNS", 9)>>)} ELSE DnsAnswer(d, proto_dns_parse(d))

\* The names of a NetBIOS host, each of 18 bytes, and its hardware address.
handle_nbtstat_rr(px, o) ==
    LET room == (Len(px) - (o + 1)) \div 18
        names == IF At(px, o) < room THEN At(px, o) ELSE room
        left == Len(px) - (o + 1 + 18 * names)
    IN Says("NBTSTAT", names + (IF left > 0 THEN 1 ELSE 0))
NbtAnswer(d, dns) ==
    LET Names(o) == handle_nbtstat_rr(d.px, o + 10) IN
    IF dns.id # d.cookie[2] THEN {NotMine}
    ELSE IF dns.qr # 1 \/ dns.rcode # 0 \/ dns.qdcount > 1 \/ dns.ancount < 1 \/ dns.rr = <<>> THEN {Silent}
    ELSE AnswerAt(d.px, dns.rr, dns.qdcount, 33, 1, Names)
handle_nbtstat(d) == IF d.n < 12 THEN DnsJunk ELSE NbtAnswer(d, proto_dns_parse(d))

----------------------------------------------------------------------------
(* SNMP.  A reading is [v, at]: the value, or None and the end of the data. *)
None == -1
NoLength(length) == [v |-> None, at |-> length]
\* The long form: the length is in the bytes that follow.
LongLength(a, o, length) ==
    LET n == At(a, o) - 128
        bytes == [i \in 1..n |-> At(a, o + i)]
        low(i) == IF i < n THEN bytes[n - i] ELSE 0
        value == low(0) + 256 * low(1) + 65536 * low(2)
    IN IF n = 0 \/ o + n >= length THEN NoLength(length)
       ELSE IF (\E i \in 1..(n - 3) : bytes[i] # 0) \/ value > 65536 THEN NoLength(length)
       ELSE [v |-> value, at |-> o + n + 1]
asn1_length(a, o, length) ==
    IF o >= length THEN NoLength(length)
    ELSE IF At(a, o) < 128 THEN [v |-> At(a, o), at |-> o + 1] ELSE LongLength(a, o, length)
\* The bytes of an integer.
asn1_integer(a, o, length) ==
    LET size == asn1_length(a, o + 1, length) IN
    IF o >= length \/ At(a, o) # 2 \/ size.v = None \/ size.at + size.v > length \/ size.v > 20
    THEN [v |-> None, bytes |-> <<255, 255, 255, 255>>, at |-> length]
    ELSE [v |-> size.v, bytes |-> SubSeq(a, size.at + 1, size.at + size.v), at |-> size.at + size.v]
asn1_tag(a, o, length) == IF o >= length THEN 0 ELSE At(a, o)
LowWords(bytes) ==
    LET b(i) == IF i < Len(bytes) THEN bytes[Len(bytes) - i] ELSE 0 IN
    <<256 * b(3) + b(2), 256 * b(1) + b(0)>>
\* What a constructed value holds ends it, if it ends before its surroundings.
Shorter(size, length) == IF size.v # None /\ length > size.v + size.at THEN size.v + size.at ELSE length

\* A variable that is not null is one line of the banner.
VarBinds(a, from, length) ==
    LET said[o \in Nat] ==
            LET bind == asn1_length(a, o + 1, length)
                oid == asn1_length(a, bind.at + 1, length)
                var == asn1_length(a, oid.at + oid.v + 1, length)
            IN IF o >= length \/ At(a, o) # 48 THEN 0
               ELSE IF bind.v = None \/ bind.at + bind.v > length \/ asn1_tag(a, bind.at, length) # 6 THEN 0
               ELSE IF oid.v = None \/ oid.at + oid.v > length THEN 0
               ELSE IF var.v = None \/ var.at + var.v > length THEN 0
               ELSE (IF asn1_tag(a, oid.at + oid.v, length) = 5 THEN 0 ELSE 1) + said[var.at + var.v]
    IN said[from]

\* The variables of a message, after the number, the status and the index.
Variables(a, id, index, length) ==
    LET list == asn1_length(a, index.at + 1, length) IN
    [id |-> LowWords(id.bytes),
     said |-> IF asn1_tag(a, index.at, length) # 48 THEN 0 ELSE VarBinds(a, list.at, Shorter(list, length))]
Request(a, id, length) ==
    Variables(a, id, asn1_integer(a, asn1_integer(a, id.at, length).at, length), length)
Pdu(a, inner, length) == Request(a, asn1_integer(a, inner.at, length), length)

\* A version that fits, a community, and the data unit, in a sequence.
NoRequest == [id |-> <<0, 0>>, said |-> 0]
Community(a, version, community, l1) ==
    LET pdu == community.at + community.v
        inner == asn1_length(a, pdu + 1, l1)
    IN IF \/ version.v = None \/ \E i \in 1..version.v : i > version.v - 8 /\ version.bytes[i] # 0
          \/ asn1_tag(a, version.at, l1) # 4 \/ community.v = None
          \/ asn1_tag(a, pdu, l1) \notin 160..165
       THEN NoRequest ELSE Pdu(a, inner, Shorter(inner, l1))
Version(a, version, l1) == Community(a, version, asn1_length(a, version.at + 1, l1), l1)
Message(a, outer, l1) ==
    IF asn1_tag(a, 0, Len(a)) # 48 \/ outer.v = None THEN NoRequest
    ELSE Version(a, asn1_integer(a, outer.at, l1), l1)

\* The number of the request, as far as it was read, and the lines.
snmp_parse(a) == LET outer == asn1_length(a, 1, Len(a)) IN Message(a, outer, Shorter(outer, Len(a)))

\* Fault: the sign bit of the number is compared too.
Answered_Signed(d, snmp) ==
    IF snmp.id # d.cookie THEN {NotMine} ELSE {Outcome(TRUE, <<Says("SNMP", snmp.said)>>)}
\* The sign bit of the number is not part of the cookie.
Answered(d, snmp) ==
    IF snmp.id # <<d.cookie[1] % 32768, d.cookie[2]>> THEN {NotMine}
    ELSE {Outcome(TRUE, <<Says("SNMP", snmp.said)>>)}
handle_snmp(d) == Answered(d, snmp_parse(App(d)))

----------------------------------------------------------------------------
(* CoAP *)
IsSpace(c) == c = 32 \/ c \in 9..13
is_attr_char(c) ==
    c \in (48..57 \cup 65..90 \cup 97..122 \cup {33, 35, 36, 38, 43, 45, 46, 94, 95, 96, 124, 126})

\* The list of links: the state after a character, and the links begun.  The
\* ; that would end an empty value is compared with the offset.
LinkState(st, c, o) ==
    CASE st = "begin" -> IF IsSpace(c) THEN st ELSE IF c = 60 THEN "value" ELSE "invalid"
      [] st = "value" -> IF c = 62 THEN "end" ELSE st
      [] st = "end" -> IF IsSpace(c) THEN st ELSE IF c = 44 THEN "begin" ELSE IF c = 59 THEN "name first" ELSE "invalid"
      [] st = "name first" -> IF IsSpace(c) THEN st ELSE IF is_attr_char(c) THEN "name" ELSE "invalid"
      [] st = "name" -> IF c = 61 THEN "parm first" ELSE IF IsSpace(c) \/ is_attr_char(c) THEN st ELSE "invalid"
      [] st = "parm first" -> IF IsSpace(c) THEN st ELSE IF c = 34 THEN "quoted" ELSE IF o = 59 THEN "name first"
                              ELSE IF c = 44 THEN "begin" ELSE "parm"
      [] st = "parm" -> IF c = 59 THEN "name first" ELSE IF c = 44 THEN "begin" ELSE st
      [] st = "quoted" -> IF c = 92 THEN "escape" ELSE IF c = 34 THEN "parm" ELSE st
      [] st = "escape" -> "quoted"
      [] OTHER -> "invalid"
parse_links(a, from) ==
    LET links[o \in Nat, st \in STRING] ==
            IF o >= Len(a) \/ st = "invalid" THEN 0
            ELSE LET next == LinkState(st, At(a, o), o) IN
                 (IF st = "begin" /\ next = "value" THEN 1 ELSE 0) + links[o + 1, next]
    IN links[from, "begin"]

\* The extended forms of an option's number and length.
Extended(a, v, o) ==
    CASE v = 13 -> IF o >= Len(a) THEN [v |-> v, at |-> o, bad |-> TRUE]
                   ELSE [v |-> At(a, o) + 13, at |-> o + 1, bad |-> FALSE]
      [] v = 14 -> IF o + 1 >= Len(a) THEN [v |-> v, at |-> o, bad |-> TRUE]
                   ELSE [v |-> WordAt(a, o) + 269, at |-> o + 2, bad |-> FALSE]
      [] OTHER -> [v |-> v, at |-> o, bad |-> v = 15]
\* Options one after the other, until the marker, the end, or one that does
\* not fit: s is [at, num, format, said].  A format of two bytes is unknown.
Options(a, from) ==
    LET after[s \in [at : Nat, num : Nat, format : Nat, said : Nat]] ==
            LET opt == At(a, s.at)
                delta == Extended(a, opt \div 16, s.at + 1)
                size == Extended(a, opt % 16, delta.at)
                over == size.at + size.v > Len(a)
                errors == (IF delta.bad THEN 1 ELSE 0) + (IF size.bad /\ size.v # 15 THEN 1 ELSE 0) + (IF over THEN 1 ELSE 0)
                num == s.num + delta.v
                value == SubSeq(a, size.at + 1, size.at + size.v)
            IN IF s.at >= Len(a) THEN s
               ELSE IF opt = 255 THEN [s EXCEPT !.at = @ + 1]
               ELSE IF errors > 0 THEN [s EXCEPT !.at = size.at, !.said = @ + errors]
               ELSE after[[at |-> size.at + size.v, num |-> num, said |-> s.said + 1,
                           format |-> IF num # 12 THEN s.format
                                      ELSE IF LowWords(value)[1] = 0 THEN LowWords(value)[2] ELSE 65535]]
    IN after[from]

coap_parse(a) ==
    IF Len(a) < 4 \/ At(a, 0) \div 16 # 6 \/ At(a, 0) % 16 > 8 \/ 4 + (At(a, 0) % 16) > Len(a)
    THEN [valid |-> FALSE, said |-> 0]
    ELSE LET s == Options(a, [at |-> 4 + (At(a, 0) % 16), num |-> 0, format |-> 0,
                              said |-> IF At(a, 0) % 16 = 0 THEN 1 ELSE 2]) IN
         [valid |-> TRUE, said |-> s.said + 1 + (IF s.format = 40 THEN parse_links(a, s.at) ELSE 0)]

\* An answer with a wrong number is reported too, with a remark.
coap_handle_response(d) ==
    LET a == App(d)
        coap == coap_parse(a)
        mismatch == IF WordAt(a, 2) # d.cookie[2] THEN 1 ELSE 0
    IN IF coap.valid THEN {Outcome(TRUE, <<Says("CoAP", coap.said + mismatch)>>)} ELSE {default_udp_parse(d)}

----------------------------------------------------------------------------
(* memcached, NTP and ZeroAccess *)
memcached_udp_parse(d) ==
    LET a == App(d) IN
    IF d.n < 8 THEN {Silent}
    ELSE IF WordAt(a, 2) > 100 \/ WordAt(a, 4) > 100 \/ WordAt(a, 6) # 0 THEN {default_udp_parse(d)}
    ELSE {Outcome(TRUE, <<Says("memcached", IF WordAt(a, 0) # d.cookie[2] THEN 1 ELSE 0)>>)}

request_codes == (0..34 \cup {36, 37, 38, 39, 42, 43}) \ {14, 15, 24, 25}
\* An error, the size of the list, or that it is too big.
ntp_modlist_parse(a) == IF 8 >= Len(a) THEN 0 ELSE IF At(a, 4) \div 16 # 0 THEN 5 ELSE 1
ntp_priv(a) ==
    CASE At(a, 2) \in {0, 2} -> 1
      [] At(a, 2) = 3 -> 1 + (IF At(a, 3) \in request_codes THEN 2 ELSE 0)
                           + (IF At(a, 3) = 42 THEN ntp_modlist_parse(a) ELSE 0)
      [] OTHER -> 0
ntp_v2_parse(a) == IF At(a, 0) < 128 \/ At(a, 0) % 8 # 7 THEN 0 ELSE ntp_priv(a)
\* Nothing in the answer tells whose question it answers.
ntp_handle_response(d) ==
    IF d.n < 4 THEN {Silent}
    ELSE IF (At(d.px, d.at) \div 8) % 8 # 2 THEN {Silent}
    ELSE {Outcome(TRUE, <<Says("NTP", ntp_v2_parse(App(d)))>>)}

\* After the decryption: the sum, "retL", and as many addresses as it says.
handle_zeroaccess(d) ==
    LET a == App(d)
        count == At(a, 12) + 256 * At(a, 13) + 65536 * (At(a, 14) + At(a, 15))
    IN IF ~d.crc \/ d.n < 16 THEN {Silent}
       ELSE IF SubSeq(a, 5, 8) # <<76, 116, 101, 114>> \/ count > 256 \/ 16 + 8 * count > d.n THEN {Silent}
       ELSE {Outcome(TRUE, <<Says("ZeroAccess", 1 + count)>>)}

(* By the port the datagram comes from; unless the handler finds that it    *)
(* answers nothing that was asked, the port is open.                        *)
handle_udp(d) ==
    CASE d.sport = 53 -> handle_dns(d) [] d.sport = 123 -> ntp_handle_response(d)
      [] d.sport = 137 -> handle_nbtstat(d) [] d.sport = 161 -> handle_snmp(d)
      [] d.sport = 5683 -> coap_handle_response(d) [] d.sport = 11211 -> memcached_udp_parse(d)
      [] d.sport \in {16464, 16465, 16470, 16471} -> handle_zeroaccess(d)
      [] OTHER -> {default_udp_parse(d)}
=============================================================================
