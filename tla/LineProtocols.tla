--------------------------- MODULE LineProtocols ---------------------------
(***************************************************************************)
(* The parsers of the protocols made of lines: ftp, smtp, pop3, imap4 and  *)
(* ssh.  Each definition is one round of a parser's loop: a byte c comes,  *)
(* the switch on the state decides.  The protocol that a connection is     *)
(* parsed with is looked up once a segment, so that a parser goes on with  *)
(* the bytes behind the switch to TLS.                                     *)
(***************************************************************************)
EXTENDS ParserState

Bad(c) == ~IsPrint(c) /\ c # CR

\* Three digits, a space or a dash, a line of text.  base is 0, 100 or 200.
ReplyDigit(p, base, c) ==
    LET first == p.st.state = base
        code == IF first THEN 0 ELSE p.st.sub.code
    IN  IF IsDigit(c)
        THEN [Go(p, p.st.state + (IF first THEN 2 ELSE 1))
                EXCEPT !.st.sub.code = code * 10 + (c - 48)]
        ELSE [Fail(p) EXCEPT !.st.sub.code = code]

ReplySeparator(p, base, c) ==
    IF c \in {Ch[" "], Ch["-"]}
    THEN [Go(p, base + 5) EXCEPT !.st.sub.last = (c = Ch[" "])]
    ELSE Fail(p)

Agreed(p, code) == IF p.st.sub.code = code THEN SwitchToSsl(p) ELSE Fail(p)

\* Fault: the next command is sent after each line of a reply.
EndOfLine_Every(p, base, payload, next) == Transmit(Go(p, next), payload)

EndOfLine(p, base, payload, next) ==
    IF p.st.sub.last THEN Transmit(Go(p, next), payload) ELSE Go(p, base)

FtpStep(p, c) ==
    LET s == p.st.state
    IN  CASE s \in 0 .. 3 -> ReplyDigit(p, 0, c)
          [] s \in 100 .. 103 -> ReplyDigit(p, 100, c)
          [] s \in {4, 104} -> ReplySeparator(p, s - 4, c)
          [] s = 5 /\ c = LF -> EndOfLine(p, 0, "AUTH TLS", 100)
          [] s = 105 /\ c = LF -> Agreed(p, 234)
          [] s \in {5, 105} /\ c # LF -> IF Bad(c) THEN Fail(p) ELSE p
          [] OTHER -> p

SmtpStep(p, c) ==
    LET s == p.st.state
    IN  CASE s \in 0 .. 3 -> ReplyDigit(p, 0, c)
          [] s \in 100 .. 103 -> ReplyDigit(p, 100, c)
          [] s \in 200 .. 203 -> ReplyDigit(p, 200, c)
          [] s \in {4, 104, 204} -> ReplySeparator(p, s - 4, c)
          [] s = 5 /\ c = LF -> EndOfLine(p, 0, "EHLO", 100)
          [] s = 105 /\ c = LF -> EndOfLine(p, 100, "STARTTLS", 200)
          [] s = 205 /\ c = LF -> Agreed(p, 220)
          [] s \in {5, 105, 205} /\ c # LF -> IF Bad(c) THEN Fail(p) ELSE p
          [] OTHER -> p

----------------------------------------------------------------------------
Expect(p, c, char, next) == IF c = Ch[char] THEN Go(p, next) ELSE Fail(p)
At(p, c, byte, q) == IF c = byte THEN q ELSE p

Pop3Dot(p, c) ==
    CASE c = Ch["."] -> Go(p, 10)
      [] c = LF -> p
      [] OTHER -> Go(p, 8)

Pop3Step(p, c) ==
    LET s == p.st.state
    IN  CASE c = CR -> p
          [] c # CR /\ s \in 0 .. 2 -> Expect(p, c, <<"+", "O", "K">>[s + 1], s + 1)
          [] c # CR /\ s = 3 -> At(p, c, LF, Transmit(Go(p, 4), "CAPA"))
          [] c # CR /\ s \in {4, 204} ->
                IF c = Ch["-"] THEN Go(p, 100) ELSE Expect(p, c, "+", s + 1)
          [] c # CR /\ s \in {5, 205} -> Expect(p, c, "O", s + 1)
          [] c # CR /\ s \in {6, 206} -> Expect(p, c, "K", s + 2)
          [] c # CR /\ s = 8 -> At(p, c, LF, Go(p, 9))
          [] c # CR /\ s = 9 -> Pop3Dot(p, c)
          [] c # CR /\ s = 10 ->
                IF c = LF THEN Transmit(Go(p, 204), "STLS") ELSE Go(p, 8)
          [] c # CR /\ s = 208 -> At(p, c, LF, SwitchToSsl(p))
          [] c # CR /\ s = 100 -> At(p, c, LF, Fail(p))
          [] OTHER -> p

\* State 1 sets the state to 0xffffffff and falls through to state 2, which
\* for an 'O' counts it on to 0.
Imap4Step(p, c) ==
    LET s == p.st.state
    IN  CASE c = CR -> p
          [] c # CR /\ s = 0 -> Expect(p, c, "*", 1)
          [] c # CR /\ s = 1 ->
                IF c = Ch[" "] THEN p
                ELSE Close(Go(p, IF c = Ch["O"] THEN 0 ELSE Dead))
          [] c # CR /\ s \in 2 .. 3 -> Expect(p, c, <<"O", "K">>[s - 1], s + 1)
          [] c # CR /\ s = 4 /\ c # LF -> At(p, c, Ch[" "], Go(p, 5))
          [] c = LF /\ s \in {4, 5} -> Transmit(Go(p, 100), "CAPABILITY")
          [] c # CR /\ s \in {100, 300} ->
                IF c = Ch["*"] THEN Go(p, s + 100)
                ELSE IF c = 97 THEN Go(p, s + 1) ELSE Fail(p)
          [] c # CR /\ s \in {101, 102, 301, 302} -> Expect(p, c, "0", s + 1)
          [] c # CR /\ s = 103 -> Expect(p, c, "1", 104)
          [] c # CR /\ s = 303 -> Expect(p, c, "2", 304)
          [] c # CR /\ s \in {104, 304} -> Expect(p, c, " ", s + 1)
          [] c = LF /\ s = 105 -> Transmit(Go(p, 300), "STARTTLS")
          [] c = LF /\ s \in {200, 400} -> Go(p, s - 100)
          [] c = LF /\ s = 305 -> SwitchToSsl(p)
          [] OTHER -> p

SshStep(p, c) ==
    IF p.st.state = 0 /\ Bad(c) THEN Close(Go(p, 1)) ELSE p
=============================================================================
