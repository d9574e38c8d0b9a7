------------------------------- MODULE Streams -------------------------------
(***************************************************************************)
(* The banner of one TCP connection (banner1_parse, proto-banner1.c): the  *)
(* segments that the TCP stack delivers in order go to the heuristics that *)
(* find out the protocol, and from then on to the parser of that protocol, *)
(* which may answer, close, or switch to TLS.                              *)
(*                                                                         *)
(* The server is one that follows a script, cut into segments anywhere,    *)
(* and departs from it in a few bytes.                                     *)
(***************************************************************************)
EXTENDS LineProtocols, BinaryProtocols, PatternProtocols, TlsStream, SmbStream

CONSTANTS Servers,       \* <<script, port, TLS hello sent, bound on departures>>
          OddBytes,      \* what may come in place of a byte of the script
          MaxSegment     \* bound: bytes of a segment

VARIABLES st,            \* tcb->banner1_state
          closing,       \* tcp_close has been called
          script, at,    \* how far the server has come
          odd,           \* how often it may still depart from the script
          text,          \* all it has said
          sent           \* all that has been answered

vars == <<st, closing, script, at, odd, text, sent>>

----------------------------------------------------------------------------
(* The patterns that tell a protocol.  Of the many alike, the table of the *)
(* code has more.                                                          *)

RFB == Text(<<"R", "F", "B", " ", "0", "0", "3", ".", "0", "0">>)

\* struct Patterns: the protocol of a pattern, and its extra.
P(proto, bytes) == [proto |-> proto, extra |-> 0, pat |-> Pat(bytes, 0, TRUE)]
Extra(p, n) == [p EXCEPT !.extra = n]
Anywhere(p) == [p EXCEPT !.pat.begin = FALSE]
Patterns == <<
    [P("smb", <<0, 0, Star, Star, 255>> \o SMBText) EXCEPT !.pat.wild = TRUE],
    [P("smb", <<0, 0, Star, Star, 254>> \o SMBText) EXCEPT !.pat.wild = TRUE],
    P("smb", <<130, 0, 0, 0>>), P("smb", <<131, 0, 0, 1, 128>>),
    P("ssh", Text(<<"S", "S", "H", "-", "2", ".">>)),
    P("http", Text(<<"H", "T", "T", "P", "/", "1", ".">>)),
    P("ftp", Text(<<"2", "2", "0", "-">>)),
    Extra(P("ftp", Text(<<"2", "2", "0", " ">>)), 1),
    P("pop3", Text(<<"+", "O", "K", " ">>)),
    P("imap4", Text(<<"*", " ", "O", "K", " ">>)),
    P("smtp", Text(<<"5", "2", "1", " ">>)),
    P("ssl", <<22, 3, 1>>), P("ssl", <<22, 3, 3>>), P("ssl", <<21, 3, 3>>),
    Extra(P("vnc", RFB \o <<Ch["3"], LF>>), 3),
    Extra(P("vnc", RFB \o <<Ch["7"], LF>>), 7),
    Extra(P("vnc", RFB \o <<Ch["8"], LF>>), 8),
    P("memcached", Text(<<"S", "T", "A", "T", " ", "P", "I", "D", " ">>)),
    Anywhere(P("telnet", <<IAC, 251, 1, IAC, 251>>)),
    Anywhere(P("telnet", <<IAC, 253, 24, IAC, 253>>)),
    P("telnet", Text(<<"L", "O", "G", "I", "N", ":">>)),
    P("rdp", <<3, 0, 0, 19, 14, 208, 0, 0, 18, 52, 0, 2>>)>>

PatternsOf(list) == [i \in DOMAIN list |-> [list[i].pat EXCEPT !.id = ToString(i)]]
Index(id) == CHOOSE i \in DOMAIN Patterns : ToString(i) = id
Banner1 == Compile(PatternsOf(Patterns))

----------------------------------------------------------------------------
SubOf(proto) ==
    CASE proto \in {"ftp", "smtp"} -> [of |-> "line", code |-> 0, last |-> FALSE]
      [] proto = "vnc" -> VncSub
      [] proto = "rdp" -> RdpSub
      [] proto = "http" -> HttpSub
      [] proto = "memcached" -> McSub
      [] proto = "ssl" -> SslSub
      [] proto = "smb" -> SmbSub
      [] OTHER -> [of |-> "none"]

\* After a switch to TLS the union is read as another of its members: the
\* reply code of a line as the type of a record.
Reread(p) ==
    IF p.st.proto = "ssl" /\ p.st.sub.of = "line"
    THEN [p EXCEPT !.st.sub = [SslSub EXCEPT !.type = Wrap8(p.st.sub.code),
                                             !.hs.state = IF p.st.sub.last THEN 1 ELSE 0]]
    ELSE p

\* The parser that the protocol has when the segment begins.  garbage is what
\* lies behind the segment in memory.
ParserOf(p, px, garbage) ==
    CASE p.st.proto = "ftp" -> FoldLeft(FtpStep, p, px)
      [] p.st.proto = "smtp" -> FoldLeft(SmtpStep, p, px)
      [] p.st.proto = "pop3" -> FoldLeft(Pop3Step, p, px)
      [] p.st.proto = "imap4" -> FoldLeft(Imap4Step, p, px)
      [] p.st.proto = "ssh" -> FoldLeft(SshStep, p, px)
      [] p.st.proto = "vnc" -> FoldLeft(VncStep, p, px)
      [] p.st.proto = "telnet" -> TelnetParse(p, px)
      [] p.st.proto = "rdp" -> RdpParse(p, px)
      [] p.st.proto = "http" -> HttpParse(p, px)
      [] p.st.proto = "memcached" -> MemcachedParse(p, px, garbage)
      [] p.st.proto = "ssl" -> SslParse(p, px)
      [] p.st.proto = "smb" -> SmbParse(p, px)
      [] OTHER -> p

\* Port 25 and 587 tell smtp from ftp.
ProtocolOf(entry, port) ==
    IF entry.proto = "ftp" /\ entry.extra = 1 /\ port \in {25, 587}
    THEN "smtp" ELSE entry.proto

Detected(p, entry) ==
    LET proto == ProtocolOf(entry, p.st.port)
        sub == SubOf(proto)
    IN  [p EXCEPT !.st.proto = proto, !.st.state = 0, !.st.heur = <<>>,
                  !.st.sub = IF proto = "vnc" THEN [sub EXCEPT !.version = entry.extra] ELSE sub]

RECURSIVE Parse(_, _, _)

\* PROTO_HEUR: look for a pattern; when one is found, parse what has been
\* received so far and then this segment, unless it is TLS unasked for.
Found(p, px, garbage, entry) ==
    Parse(Parse(Detected(p, entry), p.st.heur, garbage), px, garbage)
Searched(p, px, garbage, r) ==
    IF r.id = NotFound \/ (Patterns[Index(r.id)].proto = "ssl" /\ ~p.st.hello)
    THEN [p EXCEPT !.st.state = r.state, !.st.heur = @ \o px]
    ELSE Found(p, px, garbage, Patterns[Index(r.id)])

\* Fault: the search begins anew with every segment.
Heuristics_Restart(p, px, garbage) ==
    Searched(p, px, garbage, SearchNext(Banner1, 0, px, 0))

Heuristics(p, px, garbage) ==
    Searched(p, px, garbage, SearchNext(Banner1, p.st.state, px, 0))

\* banner1_parse.
Parse(p, px, garbage) ==
    Reread(IF p.st.proto = "heur" THEN Heuristics(p, px, garbage) ELSE ParserOf(p, px, garbage))

----------------------------------------------------------------------------
Init ==
    /\ \E server \in Servers :
        /\ script = server[1]
        /\ st = [NoState EXCEPT !.port = server[2], !.hello = server[3]]
        /\ odd = server[4]
    /\ closing = FALSE
    /\ at = 0
    /\ text = <<>> /\ sent = <<>>

\* The segments the server may send now.
Segments(n) ==
    LET plain == SubSeq(script, at + 1, at + n)
    IN  {plain} \cup
        {[plain EXCEPT ![i] = b] : <<i, b>> \in IF odd > 0 THEN (1 .. n) \X OddBytes ELSE {}}

\* parse_banner, called by the TCP stack with the next bytes in order.
Returns(p) == /\ st' = p.st
              /\ closing' = p.closing
              /\ sent' = sent \o p.tx
Receive(px, garbage) ==
    /\ ~closing
    /\ Returns(Parse(Call(st), px, garbage))
    /\ text' = text \o px
    /\ at' = at + Len(px)
    /\ odd' = IF px = SubSeq(script, at + 1, at + Len(px)) THEN odd ELSE odd - 1
    /\ UNCHANGED script

Done == (closing \/ at = Len(script)) /\ UNCHANGED vars

Next ==
    \/ \E n \in 1 .. MaxSegment : \E garbage \in BOOLEAN :
        /\ at + n <= Len(script)
        /\ \E px \in Segments(n) : Receive(px, garbage)
    \/ Done

Spec == Init /\ [][Next]_vars
----------------------------------------------------------------------------
(* What the script has still to say, cut after a bytes or not.             *)

Piece(i, j) == SubSeq(script, at + i, at + j)
InOne(n) == Parse(Call(st), Piece(1, n), FALSE)
Continue(first, px) == Parse([first EXCEPT !.tx = <<>>], px, FALSE)

\* Inside one record, and no length of a certificate has been refused: ASN1_push
\* stops the decoder when the segment ends.
InRecord(n, one) ==
    /\ st.proto = "ssl" /\ st.state = 5 /\ st.remaining >= n
    /\ ~one.st.sub.x.x509.failed

\* A message of smb is cut inside a part that is handed down.
CutInPart(s) ==
    /\ s.proto = "smb"
    /\ \/ s.sub.state \in {PARAMETERS, DATA, PARSE_HEADER, PARSE_STRUCT, PARSE_BLOB}
       \/ s.sub.state = DATA_AFTER /\ s.state = 5

\* Where a parser is known to look at the end of a segment: a keyword of
\* memcached is searched for in one segment only; a part of an smb message that
\* is cut counts for a byte more; bytes behind the agreement to TLS in the same
\* segment go to the old parser; a handshake begins anew behind a record's
\* header in the same segment; and what comes in the segment of a TLS header
\* nobody asked for is not searched.
LooksAtEnd(n, first, one) ==
    \/ one.st.proto = "memcached"
    \/ CutInPart(first.st)
    \/ one.st.proto = "ssl" /\ ~InRecord(n, one)
    \/ first.closing
    \/ ~st.hello /\ (text \o Piece(1, n))[1] \in {21, 22}

\* The connection after the same bytes in one segment and in two.
Alike(one, two) == one.st = two.st /\ one.closing = two.closing
AlikeUnlessSeen(a, n, first, one) ==
    LooksAtEnd(n, first, one) \/ Alike(one, Continue(first, Piece(a + 1, n)))

\* Where TCP cuts the stream makes no difference to what is learnt of it.
FragmentsDoNotMatter ==
    ~closing =>
        \A n \in 2 .. MaxSegment + 1 : \A a \in 1 .. n - 1 :
            at + n <= Len(script) => AlikeUnlessSeen(a, n, InOne(a), InOne(n))

\* The protocol is that of a pattern which ends no later than any other in what
\* the server has said, however it was cut.  A '*' of the smb patterns is not
\* followed if the byte is the next one of the pattern; TLS nobody asked for is
\* passed over.
DetectedByFirstMatch ==
    [][LET ends == {e \in DOMAIN text' : MatchesAt(PatternsOf(Patterns), text', e) # {}}
           first == {Patterns[Index(id)] :
                        id \in MatchesAt(PatternsOf(Patterns), text', CHOOSE e \in ends : \A f \in ends : e <= f)}
           unasked == ~st.hello /\ text'[1] \in {21, 22}
       IN  st.proto = "heur" /\ ~unasked /\ (text'[1] = 0 => 255 \notin {text'[i] : i \in (3 .. 4) \cap DOMAIN text'}) =>
             IF ends = {} THEN st'.proto = "heur"
             ELSE \E entry \in first : st'.proto = ProtocolOf(entry, st.port)]_vars

\* How many replies of its protocol the server has completed: a line with its
\* code and a space; for pop3 a line, then a list with its dot, then a line.
Ends == {e \in DOMAIN text : text[e] = LF}
LineOf(e) == LET before == {f \in Ends : f < e}
                 from == IF before = {} THEN 1 ELSE 1 + CHOOSE f \in before : \A g \in before : g <= f
             IN  SelectSeq(SubSeq(text, from, e - 1), LAMBDA c : c # CR)
CodeReplies == Cardinality({e \in Ends : Len(LineOf(e)) >= 4 /\ LineOf(e)[4] = Ch[" "]})
Pop3Replies ==
    LET dots == {e \in Ends : LineOf(e) = <<Ch["."]>>}
    IN  IF dots = {} THEN IF Ends = {} THEN 0 ELSE 1
        ELSE IF \E e \in Ends : \E d \in dots : d < e THEN 3 ELSE 2

\* A command is sent only when the reply to the one before is complete.
CommandsInTurn ==
    LET hello == sent # <<>> /\ Last(sent) = "ssl hello"
        lines == Len(SelectSeq(sent, LAMBDA c : c \in {"AUTH TLS", "EHLO", "STARTTLS", "ssl hello"}))
        mail == Len(SelectSeq(sent, LAMBDA c : c \in {"CAPA", "STLS", "ssl hello"}))
    IN  /\ st.proto \in {"ftp", "smtp"} => lines <= CodeReplies
        /\ st.proto = "pop3" => mail <= Pop3Replies
        /\ st.proto = "ssl" /\ hello => lines <= CodeReplies \/ mail <= Pop3Replies

\* As long as a certificate is being decoded, the fields that are open have no
\* more bytes left than it has.
CertificateAccounted ==
    LET x == st.sub.x
    IN  st.proto = "ssl" /\ st.sub.hs.type = 11 /\ x.state = 6 => X509Inside(x.x509, x.cert)
=============================================================================
