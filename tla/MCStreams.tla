----------------------------- MODULE MCStreams -----------------------------
(* A short script for each protocol that is told by what the server says.  *)
EXTENDS Streams

T(s) == Text(s)
Line(s) == Append(Text(s), LF)
Zeros(n) == [i \in 1 .. n |-> 0]

\* A record of type t; a handshake message of type t.
Record(t, body) == <<t, 3, 3, 0, Len(body)>> \o body
Message(t, body) == <<t, 0, 0, Len(body)>> \o body

ServerHello == Message(2, <<3, 3>> \o Zeros(32) \o <<0, 0, 53, 0, 0, 8, 0, 15, 0, 1, 1, 0, 1, 0>>)
\* SEQUENCE { SEQUENCE { [0], INTEGER, SEQUENCE { OID 2.5 } } }
Der == <<48, 16, 48, 14, 160, 3, 2, 1, 2, 2, 1, 5, 48, 4, 6, 2, 85, 4>>
CertList == Message(11, <<0, 0, Len(Der) + 3, 0, 0, Len(Der)>> \o Der)
Alert == Record(21, <<2, 40>>)

FtpServer == Line(<<"2", "2", "0", "-", "A">>) \o Line(<<"2", "2", "0", " ", "B">>)
             \o Line(<<"2", "3", "4", " ", "C">>) \o Alert
MailServer == Line(<<"2", "2", "0", " ", "A">>) \o Line(<<"2", "5", "0", "-", "B">>)
              \o Line(<<"2", "5", "0", " ", "C">>) \o Line(<<"2", "2", "0", " ", "D">>)
Pop3Server == Line(<<"+", "O", "K", " ", "A">>) \o Line(<<"+", "O", "K">>)
              \o Line(<<"S", ".">>) \o Line(<<".">>) \o Line(<<"+", "O", "K">>)
Imap4Server == Line(<<"*", " ", "O", "K", " ", "A">>) \o Line(<<"*", " ", "B">>)
               \o <<97>> \o Line(<<"0", "0", "1", " ", "O", "K">>)
               \o <<97>> \o Line(<<"0", "0", "2", " ", "O", "K">>)
VncServer(v) == Line(<<"R", "F", "B", " ", "0", "0", "3", ".", "0", "0", v>>)
                \o (IF v = "3" THEN <<0, 0, 0, 1>> ELSE <<2, 1, 2, 0, 0, 0, 0>>)
                \o Zeros(20) \o <<0, 0, 0, 1, 65>>
WebServer == Line(<<"H", "T", "T", "P", "/", "1", ".", "0", " ", "2">>)
             \o Line(<<"V", "I", "A", ":", " ", "V", "I">>) \o Line(<<"X", ":">>)
             \o <<CR, LF>> \o T(<<"<", "<", "T", "I", "T", "L", "E", ">", "A", "<">>)
MemcachedServer == T(<<"S", "T", "A", "T", " ", "P", "I", "D", " ", "1">>) \o <<CR, LF>>
                   \o T(<<"S", "T", "A", "T", " ", "T", "I", "M", "E", " ", "2">>) \o <<CR, LF>>
                   \o Line(<<"E", "N", "D">>)
TelnetServer == <<65, IAC, 251, 1, IAC, 251, 3, IAC, 253, 1, IAC, 250, 24, 1, IAC, 240, 65>>
RdpServer == <<3, 0, 0, 19, 14, 208, 0, 0, 18, 52, 0, 2, 15, 8, 0, 0, 0, 0, 0>>

\* A record of NetBIOS; the headers of SMBv1 and SMBv2.
Nbt(body) == <<0, 0, 0, Len(body)>> \o body
Smb1(command, flags2, words, data) ==
    <<255>> \o SMBText \o <<command>> \o Zeros(6) \o <<flags2>> \o Zeros(20)
        \o <<Len(words) \div 2>> \o words \o <<Len(data), 0>> \o data
Smb2(opcode, id, struct, blob) ==
    <<254>> \o SMBText \o <<64, 0>> \o Zeros(6) \o <<opcode, 0, 0, 0, 1>> \o Zeros(7)
        \o <<id>> \o Zeros(39) \o <<Len(struct) + 3, 0>> \o struct \o blob
\* [1] SEQUENCE { [2] OCTET STRING }
Token == <<161, 8, 48, 6, 162, 4, 4, 2, 78, 84>>
\* With a challenge; with a security token.
Smb1Server == Nbt(Smb1(114, 128, Zeros(15) \o <<1>> \o Zeros(17) \o <<1>>, <<7, 68, 0, 0, 0, 78, 0, 0, 0>>))
              \o Nbt(Smb1(115, 0, Zeros(6), <<0, 79, 0, 86, 0, 68, 0>>))
Smb1Token == Nbt(Smb1(114, 8, Zeros(34), <<1, 2>>))
             \o Nbt(Smb1(115, 8, Zeros(6) \o <<Len(Token), 0>>, Token \o <<79, 0, 0, 0>>))
Smb2Server == Nbt(Smb2(0, 1, Zeros(54) \o <<128, 0, Len(Token), 0>> \o Zeros(4), Token))
              \o Nbt(Smb2(1, 2, <<0, 0, 72, 0, Len(Token), 0>>, Token))

Plain(port, t, n) == <<t, port, FALSE, n>>
Tls(t) == <<t, 443, TRUE, 1>>

AllServers == {
    Plain(21, FtpServer, 1), Plain(25, FtpServer, 0), Plain(25, MailServer, 1),
    Plain(110, Pop3Server, 1), Plain(143, Imap4Server, 1), Plain(80, WebServer, 1),
    Plain(11211, MemcachedServer, 1), Plain(5900, VncServer("3"), 1),
    Plain(5900, VncServer("7"), 1), Plain(5900, VncServer("8"), 1),
    Plain(23, TelnetServer, 1), Plain(3389, RdpServer, 1),
    Plain(22, Line(<<"S", "S", "H", "-", "2", ".", "0">>), 1), Plain(443, Alert, 1),
    Tls(Alert), Tls(Record(22, ServerHello)),
    Tls(Record(22, CertList) \o Record(22, Message(14, <<>>))),
    Plain(445, Smb1Server, 0), Plain(445, Smb1Token, 0), Plain(445, Smb2Server, 0)}
=============================================================================
