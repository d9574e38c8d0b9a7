----------------------------- MODULE TlsStream -----------------------------
(***************************************************************************)
(* The ssl parser (proto-ssl.c): records, in them handshake messages, in   *)
(* these a server hello or certificates, in these the decoder of X509.     *)
(* Every layer counts down the length it has been given and hands the      *)
(* bytes on; the layers below have no effect on those above.               *)
(*                                                                         *)
(* The code hands down the longest piece of the segment that fits.  All    *)
(* layers but two go through a piece byte by byte without looking ahead,   *)
(* so the model hands down single bytes; what does depend on the end of a  *)
(* segment or piece (the end of a record's header, a certificate that has  *)
(* failed) is told of it.                                                  *)
(***************************************************************************)
EXTENDS X509

CONSTANT IsHeartbleed               \* --heartbleed

SslSub == [of |-> "ssl", type |-> 0,
           hs |-> [state |-> 0, type |-> 0, rem |-> 0],
           x |-> [state |-> 0, rem |-> 0, tag |-> 0, ext |-> 0, cert |-> 0,
                  certs |-> 0, x509 |-> X509Init(0, TRUE)]]

Hung == -3                          \* a loop that does not end
Unknown == 99
Heartbeat == 15

\* DROPDOWN and what most states do: the next state.
Next1(r) == [r EXCEPT !.state = @ + 1]

----------------------------------------------------------------------------
ServerHelloTag(h, c) ==
    IF h.rem < 4 THEN [h EXCEPT !.state = Unknown]
    ELSE [h EXCEPT !.state = 15, !.tag = c * 256, !.rem = @ - 1]

\* EXT_DATA and EXT_DATA_HEARTBEAT, 18 and 19.
ServerHelloExt(h, c) ==
    CASE h.ext = 0 -> ServerHelloTag(h, c)
      [] h.ext # 0 /\ h.rem = 0 -> [h EXCEPT !.state = Unknown]
      [] OTHER -> [h EXCEPT !.rem = @ - 1, !.ext = @ - 1, !.state = 18]

\* parse_server_hello: version, time, random, session, cipher, compression,
\* extensions.
ServerHelloByte(h, c) ==
    LET s == h.state
        left == [h EXCEPT !.rem = @ - 1]
    IN  CASE s = 0 -> Next1(h)
          [] s = 1 -> IF h.tag > 3 \/ c > 4 THEN [h EXCEPT !.state = Unknown] ELSE Next1(h)
          [] s \in {2, 3, 4, 9, 10, 11} -> Next1(h)
          [] s = 5 -> [Next1(h) EXCEPT !.rem = 28]
          [] s = 6 -> IF left.rem = 0 THEN Next1(left) ELSE left
          [] s \in {7, 12} -> [Next1(h) EXCEPT !.rem = c]
          [] s = 8 -> IF h.rem = 0 THEN [h EXCEPT !.state = 10]
                      ELSE IF left.rem = 0 THEN Next1(left) ELSE left
          [] s = 13 -> [Next1(h) EXCEPT !.rem = Wrap16(@ * 256 + c)]
          [] s = 14 -> ServerHelloTag(h, c)
          [] s = 15 -> [Next1(left) EXCEPT !.tag = @ + c]
          [] s = 16 -> [Next1(left) EXCEPT !.ext = c * 256]
          [] s = 17 -> [left EXCEPT !.ext = @ + c, !.state = IF h.tag = Heartbeat THEN 19 ELSE 18]
          [] s \in {18, 19} -> ServerHelloExt(h, c)
          [] OTHER -> h

\* Where version_major is kept until the minor one comes: in tag.
HelloByte(h, c) == ServerHelloByte(IF h.state = 0 THEN [h EXCEPT !.tag = c] ELSE h, c)

----------------------------------------------------------------------------
\* parse_server_cert, with d.closed for tcp_close.
CertLength(d, c) ==
    IF d.rem < 3 THEN [d EXCEPT !.state = Unknown]
    ELSE [d EXCEPT !.state = 4, !.cert = c, !.rem = @ - 1]

CertBegin(d, c) ==
    LET n == d.cert * 256 + c
    IN  [d EXCEPT !.state = 6, !.rem = @ - 1, !.cert = n, !.certs = IF @ < 2 THEN @ + 1 ELSE @,
                  !.x509 = X509Init(n, d.certs = 0)]

\* CERT: nothing is read if the certificate is empty or the list has ended
\* before it.
CertContents(d, c) ==
    CASE d.cert = 0 -> CertLength(d, c)
      [] d.cert # 0 /\ d.rem = 0 -> [d EXCEPT !.state = Hung]
      [] OTHER -> [d EXCEPT !.rem = @ - 1, !.cert = @ - 1, !.x509 = X509Byte(@, c),
                            !.state = IF d.cert = 1 THEN 3 ELSE 6]

CertByte(d, c) ==
    CASE d.state = 0 -> [d EXCEPT !.state = 1, !.rem = c]
      [] d.state \in {1, 2} -> [d EXCEPT !.state = @ + 1, !.rem = @ * 256 + c]
      [] d.state = 3 -> CertLength(d, c)
      [] d.state = 4 -> [d EXCEPT !.state = 5, !.rem = @ - 1, !.cert = @ * 256 + c]
      [] d.state = 5 -> CertBegin(d, c)
      [] d.state = 6 -> CertContents(d, c)
      [] OTHER -> d

\* tcp_close when the last certificate of the list has ended, unless the
\* answer to the heartbleed request is waited for.
CertsEnd(before, after) ==
    /\ ~IsHeartbleed /\ before.state = 6
    /\ IF before.cert = 0 THEN before.rem = 0 ELSE after.state = 3 /\ after.rem = 0

----------------------------------------------------------------------------
HandshakeStart(p, c) ==
    IF c >= 128 THEN [p EXCEPT !.st.sub.hs.state = Unknown]
    ELSE [p EXCEPT !.st.sub.hs.state = 1, !.st.sub.hs.type = c, !.st.sub.x.state = 0]

CertRead(p, cert) ==
    IF cert.state = Hung THEN Go(p, Hung)
    ELSE [p EXCEPT !.st.sub.x = cert, !.closing = @ \/ CertsEnd(p.st.sub.x, cert)]

HandshakeInner(p, c) ==
    LET type == p.st.sub.hs.type
    IN  CASE type = 2 -> [p EXCEPT !.st.sub.x = HelloByte(@, c)]
          [] type = 11 -> CertRead(p, CertByte(p.st.sub.x, c))
          [] OTHER -> p

\* parse_handshake.
HandshakeByte(p, c) ==
    LET hs == p.st.sub.hs
        n == hs.rem * 256 + c
        inner == HandshakeInner(p, c)
        left == hs.rem - 1
    IN  CASE hs.state = 0 \/ (hs.state = 4 /\ hs.rem = 0) -> HandshakeStart(p, c)
          [] hs.state = 1 -> [p EXCEPT !.st.sub.hs.state = 2, !.st.sub.hs.rem = c]
          [] hs.state = 2 -> [p EXCEPT !.st.sub.hs.state = 3, !.st.sub.hs.rem = n]
          [] hs.state = 3 ->
                [(IF hs.type = 2 /\ IsHeartbleed THEN Transmit(p, "heartbleed") ELSE p)
                    EXCEPT !.st.sub.hs.state = 4, !.st.sub.hs.rem = n]
          [] hs.state = 4 /\ hs.rem # 0 ->
                [inner EXCEPT !.st.sub.hs.rem = left,
                              !.st.sub.hs.state = IF left = 0 THEN 0 ELSE 4]
          [] OTHER -> p

\* parse_heartbeat; after its contents comes padding.
HeartbeatByte(p, c) ==
    LET hs == p.st.sub.hs
        to(s) == [p EXCEPT !.st.sub.hs.state = s]
        n == hs.rem * 256 + c
    IN  CASE hs.state = 0 -> IF c \in {1, 2} THEN [to(1) EXCEPT !.st.sub.hs.type = c]
                             ELSE to(Unknown)
          [] hs.state = 1 -> [to(2) EXCEPT !.st.sub.hs.rem = c]
          [] hs.state = 2 -> [to(3) EXCEPT !.st.sub.hs.rem = n]
          [] hs.state = 3 -> IF hs.rem <= 1 THEN [to(Unknown) EXCEPT !.st.sub.hs.rem = 0]
                             ELSE [p EXCEPT !.st.sub.hs.rem = @ - 1]
          [] OTHER -> p

\* parse_alert; the level is kept where the inner parsers keep their state.
AlertByte(p, c) ==
    LET hs == p.st.sub.hs
    IN  CASE hs.state = 0 -> [p EXCEPT !.st.sub.hs.state = 1, !.st.sub.x.state = c]
          [] hs.state = 1 -> [p EXCEPT !.st.sub.hs.state = 2]
          [] OTHER -> p

----------------------------------------------------------------------------
RecordStart(p, c) ==
    CASE c >= 128 -> Go(p, Unknown)
      [] c < 128 /\ c = p.st.sub.type -> Go(p, 1)
      [] OTHER -> [Go(p, 1) EXCEPT !.st.sub.type = c, !.st.sub.hs.state = 0]

RecordInner(p, c) ==
    CASE p.st.sub.type = 21 -> AlertByte(p, c)
      [] p.st.sub.type = 22 -> HandshakeByte(p, c)
      [] p.st.sub.type = 24 -> HeartbeatByte(p, c)
      [] OTHER -> p

\* The piece ends with the record.
RecordRead(p) ==
    CASE p.st.state = Hung -> p
      [] p.st.state # Hung /\ p.st.remaining = 1 ->
            [Go(p, 0) EXCEPT !.st.remaining = 0, !.st.sub.x.x509 = X509Save(@)]
      [] OTHER -> [p EXCEPT !.st.remaining = @ - 1]

\* One byte of a record's contents.
RecordContents(p, c) == RecordRead(RecordInner(p, c))

\* The first byte behind a header in the same segment: the handshake begins
\* anew.
RecordBegins(p, c) ==
    LET q == [Go(p, 5) EXCEPT !.st.sub.hs.state = 0]
    IN  IF p.st.remaining = 0 THEN RecordStart(q, c) ELSE RecordContents(q, c)

\* ssl_parse_record.  State 50 is CONTENTS as DROPDOWN leads on to it.
RecordByte(p, c) ==
    LET s == p.st.state
    IN  CASE s = 0 \/ (s = 5 /\ p.st.remaining = 0) -> RecordStart(p, c)
          [] s = 1 -> IF c # 3 THEN Go(p, Unknown) ELSE Go(p, 2)
          [] s = 2 -> Go(p, 3)
          [] s = 3 -> [Go(p, 4) EXCEPT !.st.remaining = c * 256]
          [] s = 4 -> [Go(p, 50) EXCEPT !.st.remaining = @ + c]
          [] s = 50 -> RecordBegins(p, c)
          [] s = 5 /\ p.st.remaining # 0 -> RecordContents(p, c)
          [] OTHER -> p

SslParse(p, px) ==
    LET q == FoldLeft(RecordByte, p, px)
    IN  [q EXCEPT !.st.state = IF @ = 50 THEN 5 ELSE @,
                  !.st.sub.x.x509 = X509Save(@)]
=============================================================================
