---------------------------- MODULE ParserState ----------------------------
(***************************************************************************)
(* What every stream parser of the banner code works on: the bytes of one  *)
(* segment, the ProtocolState kept between segments, and what a call may   *)
(* say to the TCP stack and to the banner (proto-interactive.c,            *)
(* proto-banout.c).  The text of a banner is left out unless a parser      *)
(* reads it back.                                                          *)
(***************************************************************************)
EXTENDS Integers, SequencesExt

\* Bytes are numbers; Ch["A"] is the ASCII code of a printable character.
Printable == <<" ", "!", "\"", "#", "$", "%", "&", "'", "(", ")", "*", "+", ",",
    "-", ".", "/", "0", "1", "2", "3", "4", "5", "6", "7", "8", "9", ":", ";",
    "<", "=", ">", "?", "@", "A", "B", "C", "D", "E", "F", "G", "H", "I", "J",
    "K", "L", "M", "N", "O", "P", "Q", "R", "S", "T", "U", "V", "W", "X", "Y", "Z">>
Ch == [s \in {Printable[i] : i \in DOMAIN Printable} |->
            31 + CHOOSE i \in DOMAIN Printable : Printable[i] = s]
Text(s) == [i \in DOMAIN s |-> Ch[s[i]]]
LF == 10
CR == 13
IsPrint(c) == c \in 32 .. 126
IsDigit(c) == c \in 48 .. 57
IsLetter(c) == c \in 65 .. 90 \/ c \in 97 .. 122
ToLower(c) == IF c \in 65 .. 90 THEN c + 32 ELSE c

Dead == -1                          \* state = 0xffffffff, of 32 bits
Wrap8(n) == n % 256
Wrap16(n) == n % 65536

\* struct ProtocolState: sub is the union of what the protocols keep.  heur
\* is the banner of PROTO_HEUR: what was received before the protocol was
\* known, empty here once it has been read again.
NoState == [proto |-> "heur", state |-> 0, remaining |-> 0, port |-> 0,
            hello |-> FALSE, heur |-> <<>>, sub |-> [of |-> "none"]]

\* A call in progress: st, the payload tcp_transmit left, if any (the last one
\* wins), and is_closing.
Call(st) == [st |-> st, tx |-> <<>>, closing |-> FALSE]

Go(p, state) == [p EXCEPT !.st.state = state]
Close(p) == [p EXCEPT !.closing = TRUE]
Transmit(p, payload) == [p EXCEPT !.tx = <<payload>>]

\* state = 0xffffffff; tcp_close(more);
Fail(p) == Close(Go(p, Dead))

\* What ftp, smtp, pop3 and imap4 do when the server agrees to TLS: the whole
\* state is cleared but for the port.
SwitchToSsl(p) ==
    Transmit([p EXCEPT !.st = [NoState EXCEPT !.proto = "ssl", !.hello = TRUE,
                                  !.port = p.st.port,
                                  !.sub = [of |-> "line", code |-> 0, last |-> FALSE]]],
             "ssl hello")
=============================================================================
