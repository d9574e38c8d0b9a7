------------------------------ MODULE RdpClient ------------------------------
(***************************************************************************)
(* What one rdpscan process does with its one target: it connects, through *)
(* a SOCKS5 proxy if one is set (--socks5), goes through the layers of RDP *)
(* (tcp.c, iso.c, mcs.c, secure.c, licence.c, rdp.c, rdp5.c), joins the    *)
(* channel MS_T120 among the others, sends its check packets on it when    *)
(* the server draws (mst120.c, orders.c), and says what it makes of the    *)
(* answer. RESULT() writes that verdict and exits, wherever in the layers  *)
(* it is called.                                                           *)
(*                                                                         *)
(* The server, or the proxy, may send anything that the client tells       *)
(* apart, may close or reset the connection, and may fall silent; it sends *)
(* no more than Messages things. An action takes one of them to the point  *)
(* where the client waits for the next.                                    *)
(***************************************************************************)
EXTENDS Naturals, SequencesExt

CONSTANTS Channels,  \* channels to join: the user's, the global one, and MS_T120
          SendMax,   \* MST120_SEND_MAX
          Timeout,   \* MST120_TIMEOUT, in seconds
          Retries,   \* g_connect_retries
          Pause,     \* seconds between a closed connection and the next
          Messages   \* bound: what the server sends

ASSUME RdpClientAssumption ==
    /\ Channels \in Nat \ {0} /\ SendMax \in Nat /\ Timeout \in Nat \ {0}
    /\ Retries \in Nat \ {0} /\ Pause \in Nat /\ Messages \in Nat

VARIABLES proxy,      \* g_socks5_server is set
          pc,         \* what the client waits for
          verdict,    \* what RESULT wrote
          retries,    \* g_connect_retries
          confirmed,  \* g_is_iso_confirmed: the target has spoken RDP
          negotiate,  \* g_negotiate_rdp_protocol
          tls,        \* g_ssl; what runs in it is not encrypted again
          keyed,      \* keys were agreed for the encryption of RDP itself
          joined,     \* channels joined
          licensed,   \* g_licence_issued or g_licence_error_result
          shareid,    \* g_rdp_shareid is set
          main,       \* rdp_connect has returned
          redirect,   \* g_redirect
          nested,     \* the rdp_recv of process_demand_active that waits, or 0
          rest,       \* PDUs of the packet behind g_next_packet
          checks,     \* g_check_count
          waited,     \* seconds since g_first_check, or Unset
          idle,       \* seconds since timeof_last_receive
          received,   \* g_total_data_received > 0
          left        \* what the server may still send

connection == <<retries, confirmed, negotiate>>
session == <<tls, keyed, joined, licensed>>
sharing == <<shareid, main, redirect, nested, rest>>
clock == <<waited, idle, received>>
vars == <<proxy, pc, verdict, connection, session, sharing, checks, clock, left>>

Unset == Timeout + 2
Elapsed(t, s) == IF t = Unset THEN Unset ELSE Min({t + s, Timeout + 1})
Idle(t, s) == Min({t + s, 2 * Timeout + 1})

\* What rdp_loop does different things with; "plain" is everything it passes over.
Orders == {"memblt", "patblt"}
\* An update draws, brings a bitmap of a depth that bitmap_decompress does not
\* know, or is passed over.
Updates == Orders \cup {"bad_depth", "plain"}
PDUs == Updates \cup {"demand_active", "redirect", "redirect_info"}

Verdicts == {"patched", "nla", "not_rdp", "not_windows", "vulnerable", "unknown", "timeout"}

\* The steps of SOCKS5, by what the client waits for.
Socks == {"socks_method", "socks_reply", "socks_bound"}

TypeOK ==
    /\ pc \in Socks \cup {"connect", "negotiate", "tls", "mcs", "aucf", "cjcf", "data", "over"}
    /\ verdict \in Verdicts \cup {"none"}
    /\ retries \in 1 .. Retries /\ joined \in 0 .. Channels
    /\ {proxy, confirmed, negotiate, tls, keyed, licensed, shareid, main, redirect, received} \subseteq BOOLEAN
    /\ nested \in 0 .. 4
    /\ rest \in Seq(PDUs) /\ checks \in 0 .. SendMax + 1
    /\ waited \in 0 .. Unset /\ idle \in 0 .. 2 * Timeout + 1 /\ left \in 0 .. Messages

Init ==
    /\ proxy \in BOOLEAN /\ pc = "connect" /\ verdict = "none" /\ retries = Retries
    /\ confirmed = FALSE /\ negotiate = TRUE /\ tls = FALSE /\ keyed = FALSE
    /\ joined = 0 /\ licensed = FALSE /\ shareid = FALSE /\ main = FALSE
    /\ redirect = FALSE /\ nested = 0 /\ rest = <<>> /\ checks = 0
    /\ waited = Unset /\ idle = 0 /\ received = FALSE /\ left = Messages

\* RESULT(v): the line, and exit().
Say(v) == pc' = "over" /\ verdict' = v

Go(to) == pc' = to /\ UNCHANGED verdict

Waiting == pc \in {"negotiate", "mcs", "aucf", "cjcf", "data"} /\ rest = <<>>

\* Something comes in, up to a second after the last thing did.
Arrives ==
    /\ left > 0 /\ left' = left - 1
    /\ received' = TRUE /\ idle' = 0
    /\ \E s \in 0 .. 1 : waited' = Elapsed(waited, s)

----------------------------------------------------------------------------
(* tcp.c *)

\* sockets_connect, to the target or to the proxy: the connection stands, is
\* refused, or never answered, about which nothing is said unless -v asks for it.
Connect ==
    /\ pc = "connect"
    /\ \/ Go(IF proxy THEN "socks_method" ELSE "negotiate")
       \/ \E v \in {"unknown", "none"} : pc' = "over" /\ verdict' = v
    /\ UNCHANGED <<proxy, connection, session, sharing, checks, clock, left>>

\* socks_receive: the proxy answers.  These bytes are not tcp_recv's, and its
\* clocks do not see them.
SocksAnswer(stage) ==
    /\ pc = stage /\ left > 0 /\ left' = left - 1
    /\ UNCHANGED <<proxy, connection, session, sharing, checks, clock>>

\* socks5_connect gives up: tcp_connect and with it rdp_connect fail, main()
\* goes on to its loop, and tcp_recv does not select() on a socket that is -1.
SocksFails == Say("unknown")

\* The method is to be 0, no authentication, of version 5.
SocksMethod ==
    /\ SocksAnswer("socks_method")
    /\ Go("socks_reply") \/ SocksFails

\* The first bytes of the reply: a bound address of IPv4 or IPv6 follows.
SocksReply ==
    /\ SocksAnswer("socks_reply")
    /\ Go("socks_bound") \/ SocksFails

\* Only with the bound address are the reply's version and code looked at.
SocksBound ==
    /\ SocksAnswer("socks_bound")
    /\ Go("negotiate") \/ SocksFails

\* Nothing can be sent, recv() fails, or g_scan_timeout goes by; a proxy that
\* has closed the connection is waited for just as long.
SocksSilence ==
    /\ pc \in Socks
    /\ SocksFails
    /\ UNCHANGED <<proxy, connection, session, sharing, checks, clock, left>>

\* tcp_send: send() fails, and RESULT ends the process at once; after a failed
\* SSL_write nothing more is sent or received (g_network_error), every layer
\* returns, and main() says it.
SendFails ==
    /\ Waiting
    /\ Say("unknown")
    /\ UNCHANGED <<proxy, connection, session, sharing, checks, clock, left>>

\* Fault: the silence of a server that has sent something is waited out.
Patience_Endless(t) == received \/ t <= 2 * Timeout

Patience(t) == t <= 2 * Timeout

\* tcp_recv: a second goes by and select() returns without data; the clock of
\* the checks is read first (mst120_check(0)), then that of the last data.
Tick ==
    /\ Waiting
    /\ waited' = Elapsed(waited, 1) /\ idle' = Idle(idle, 1)
    /\ IF waited' # Unset /\ waited' > Timeout THEN Say("patched")
       ELSE IF ~Patience(idle') THEN Say("timeout")
       ELSE Go(pc)
    /\ UNCHANGED <<proxy, connection, session, sharing, checks, received, left>>

\* The connection is closed or reset.  Before the target has spoken RDP (or,
\* with a reset, has sent anything) the client pauses and connects once more,
\* as long as it has retries.
MayRetry(fin) == ~tls /\ retries > 1 /\ (IF fin THEN ~confirmed ELSE ~received)

Closed(fin) ==
    /\ Waiting /\ left > 0 /\ left' = left - 1
    /\ IF MayRetry(fin)
       THEN /\ retries' = retries - 1
            /\ idle' = Idle(idle, Pause) /\ Go("connect")
       ELSE Say("unknown") /\ UNCHANGED <<retries, idle>>
    /\ UNCHANGED <<proxy, confirmed, negotiate, session, sharing, checks, waited, received>>

----------------------------------------------------------------------------
(* iso.c: what answers the connection request. *)

Iso(step) ==
    /\ pc = "negotiate" /\ Arrives /\ step
    /\ UNCHANGED <<proxy, retries, keyed, joined, licensed, tls, sharing, checks>>

\* A header too short for itself: iso_connect tries again, and does not count.
BadHeader == Iso(Go("connect") /\ UNCHANGED <<confirmed, negotiate>>)

\* SSH, HTTP, or anything that is not TPKT version 3; version 3 but no CC.
Foreign == Iso(Say("not_rdp") /\ UNCHANGED <<confirmed, negotiate>>)

Confirm(answer) ==
    /\ confirmed' = TRUE
    /\ CASE answer = "nla"         -> Say("nla") /\ UNCHANGED negotiate
         [] answer = "without_ssl" -> Go("connect") /\ negotiate' = FALSE
         [] answer = "refused"     -> Say("unknown") /\ UNCHANGED negotiate
         [] answer = "ssl"         -> Go("tls") /\ UNCHANGED negotiate
         [] answer = "plain"       -> Go("mcs") /\ UNCHANGED negotiate

\* A CC: its RDP_NEG_RSP, its RDP_NEG_FAILURE, or neither.
ConnectionConfirm ==
    \E answer \in {"nla", "without_ssl", "refused", "ssl", "plain"} : Iso(Confirm(answer))

\* tcp_tls_connect: it stands, it fails, or TLS 1.0 cannot be had and the
\* client connects again and asks for plain RDP.
TlsConnect ==
    /\ pc = "tls"
    /\ \/ Go("mcs") /\ tls' = TRUE
       \/ Say("unknown") /\ UNCHANGED tls
       \/ Go("connect") /\ UNCHANGED tls
    /\ UNCHANGED <<proxy, connection, keyed, joined, licensed, sharing, checks, clock, left>>

----------------------------------------------------------------------------
(* mcs.c and the keys of secure.c *)

\* sec_parse_crypt_info: of what a server can send for its part of the keys,
\* its own key with or without a good signature, a chain of certificates, a
\* single one, one whose key has a size out of bounds, or nothing.
KeyInfo == {"rdp4", "rdp4_bad_signature", "chain", "single", "bad_size", "none"}

Keys(info) == info \in {"rdp4", "chain"}

\* mcs_recv_connect_response; sec_process_crypt_info makes the keys or does
\* not, and the connection goes on either way.
ConnectResponse ==
    /\ pc = "mcs" /\ Arrives
    /\ Go("aucf") /\ \E info \in KeyInfo : keyed' = (Keys(info) /\ ~tls)
    /\ UNCHANGED <<proxy, connection, tls, joined, licensed, sharing, checks>>

AttachUserConfirm ==
    /\ pc = "aucf" /\ Arrives
    /\ Go("cjcf")
    /\ UNCHANGED <<proxy, connection, session, sharing, checks>>

\* mcs_recv_cjcf, for one channel after the other; then sec_establish_key and
\* rdp_send_logon_info.
ChannelJoinConfirm ==
    /\ pc = "cjcf" /\ Arrives
    /\ joined' = joined + 1
    /\ Go(IF joined' = Channels THEN "data" ELSE "cjcf")
    /\ UNCHANGED <<proxy, connection, tls, keyed, licensed, sharing, checks>>

\* Fault: the failure of a join is not looked at.
SetupFails_GoesOn ==
    /\ pc \in {"mcs", "aucf", "cjcf"} /\ Arrives
    /\ Go("data")
    /\ UNCHANGED <<proxy, connection, session, sharing, checks>>

\* Anything else: mcs_connect_finalize disconnects, rdp_connect fails, and
\* the loop of main() finds the socket gone.
SetupFails ==
    /\ pc \in {"mcs", "aucf", "cjcf"} /\ Arrives
    /\ Say("unknown")
    /\ UNCHANGED <<proxy, connection, session, sharing, checks>>

----------------------------------------------------------------------------
(* mst120.c: the checks. *)

\* Fault: the clock starts with the first check.
mst120_check_Early(is_send, now) ==
    /\ waited' = (IF now = Unset THEN 0 ELSE now)
    /\ checks' = IF checks > SendMax THEN checks ELSE checks + (IF is_send THEN 1 ELSE 0)

\* mst120_check(is_send): two packets, until SendMax + 1 times were enough;
\* from then on the first call starts the clock and a later one reads it.
mst120_check(is_send, now) ==
    IF checks > SendMax
    THEN waited' = (IF now = Unset THEN 0 ELSE now) /\ UNCHANGED checks
    ELSE waited' = now /\ checks' = checks + (IF is_send THEN 1 ELSE 0)

TimeIsUp(update) == update \in Orders /\ checks > SendMax /\ waited' > Timeout

\* process_memblt sends, process_patblt only looks at the clock.
Draw(update, now) ==
    IF update \in Orders THEN mst120_check(update = "memblt", now)
    ELSE waited' = now /\ UNCHANGED checks

\* The verdicts that are said while an update is drawn.
Ends(update) == TimeIsUp(update) \/ update = "bad_depth"
EndOf(update) == Say(IF update = "bad_depth" THEN "not_windows" ELSE "patched") /\ UNCHANGED main

----------------------------------------------------------------------------
(* rdp.c: the packets of the session. *)

\* Without TLS and without keys the PDUs of a packet are noise.
Understood == tls \/ keyed

\* A packet is used up: rdp_loop returns, rdp_connect ends with a share id or
\* a redirection, rdp_main_loop with a redirection.
LoopReturns ==
    /\ main' = (main \/ shareid' \/ redirect')
    /\ IF main /\ redirect' THEN Say("unknown") ELSE Go("data")

LoopGoesOn == Go("data") /\ UNCHANGED main

\* rdp_recv in process_demand_active drops what it has read; the fourth time
\* the answer to the demand is complete.
Dropped == IF nested = 0 THEN 0 ELSE (nested + 1) % 5

\* A data packet: the PDUs behind each other in it.
DataPacket ==
    /\ pc = "data" /\ rest = <<>> /\ Arrives
    /\ \E p \in {<<x>> : x \in PDUs} \cup {<<x, y>> : x, y \in PDUs} :
         rest' = IF Understood THEN p ELSE <<"plain">>
    /\ Go("data")
    /\ UNCHANGED <<proxy, connection, session, shareid, main, redirect, nested, checks>>

\* A fast-path packet, or one for another channel, is dealt with in rdp_recv.
FastPath ==
    /\ pc = "data" /\ rest = <<>> /\ left > 0 /\ left' = left - 1
    /\ received' = TRUE /\ idle' = 0
    /\ \E s \in 0 .. 1, update \in Updates :
         LET drawn == IF Understood THEN update ELSE "plain"
         IN /\ Draw(drawn, Elapsed(waited, s))
            /\ nested' = Dropped
            /\ UNCHANGED <<shareid, redirect>>
            /\ IF Ends(drawn) THEN EndOf(drawn)
               ELSE IF nested' = 0 THEN LoopReturns ELSE LoopGoesOn
    /\ UNCHANGED <<proxy, connection, session, rest>>

\* licence_process: what is asked for is answered, and a new licence, the word
\* that none is needed, or an error settles the matter.
LicenceTags == {"request", "challenge", "new", "new_cut_short", "valid_client", "error", "unknown"}

Settles(tag) == tag \in {"new", "valid_client", "error"}

\* sec_recv keeps licence packets to itself; once that is settled, and without
\* encryption, it no longer knows one.
LicencePacket ==
    /\ pc = "data" /\ rest = <<>> /\ Arrives
    /\ IF ~tls \/ ~licensed
       THEN (\E tag \in LicenceTags : licensed' = (licensed \/ Settles(tag))) /\ UNCHANGED rest
       ELSE rest' = <<"plain">> /\ UNCHANGED licensed
    /\ Go("data")
    /\ UNCHANGED <<proxy, connection, tls, keyed, joined, shareid, main, redirect, nested, checks>>

\* mcs_recv: the server disconnects at the layer of MCS.
DisconnectUltimatum ==
    /\ pc = "data" /\ rest = <<>> /\ Arrives
    /\ Say("vulnerable")
    /\ UNCHANGED <<proxy, connection, session, sharing, checks>>

\* A packet that some layer refuses: rdp_recv returns NULL.  In the answer to
\* a demand nobody looks; rdp_connect fails of it, but main() goes on to its
\* loop all the same; there it is the end.
Refused ==
    /\ pc = "data" /\ rest = <<>> /\ Arrives
    /\ nested' = Dropped
    /\ UNCHANGED <<shareid, redirect>>
    /\ IF nested > 0 THEN IF nested' = 0 THEN LoopReturns ELSE LoopGoesOn
       ELSE /\ main' = TRUE
            /\ IF main THEN Say("unknown") ELSE Go("data")
    /\ UNCHANGED <<proxy, connection, session, rest, checks>>

\* process_redirect_pdu: a redirection is remembered, with its server, user and
\* cookie that nobody asks for; one that only informs takes it back.
Redirections == {"redirect", "redirect_info"}
Redirected(pdu) == IF pdu \in Redirections THEN pdu = "redirect" ELSE redirect

\* The PDU at g_next_packet, dropped or dispatched.
NextPdu ==
    /\ pc = "data" /\ rest # <<>>
    /\ LET pdu == IF nested > 0 THEN "plain" ELSE Head(rest)
       IN /\ rest' = Tail(rest)
          /\ nested' = IF pdu = "demand_active" THEN 1 ELSE Dropped
          /\ shareid' = (shareid \/ pdu = "demand_active")
          /\ redirect' = Redirected(pdu)
          /\ Draw(pdu, waited)
          /\ IF Ends(pdu) THEN EndOf(pdu)
             ELSE IF pdu \in Redirections \/ (rest' = <<>> /\ nested' = 0) THEN LoopReturns
             ELSE LoopGoesOn
    /\ UNCHANGED <<proxy, connection, session, idle, received, left>>

Over == pc = "over" /\ UNCHANGED vars

Step ==
    \/ Connect \/ SocksSilence \/ TlsConnect \/ Tick \/ NextPdu

Next ==
    \/ Step
    \/ SocksMethod \/ SocksReply \/ SocksBound \/ SendFails
    \/ \E fin \in BOOLEAN : Closed(fin)
    \/ BadHeader \/ Foreign \/ ConnectionConfirm
    \/ ConnectResponse \/ AttachUserConfirm \/ ChannelJoinConfirm \/ SetupFails
    \/ DataPacket \/ FastPath \/ LicencePacket \/ DisconnectUltimatum \/ Refused
    \/ Over

\* The client runs and time passes; the server need not send anything.
Spec == Init /\ [][Next]_vars /\ WF_vars(Step)

----------------------------------------------------------------------------
(* Properties. *)

\* A target is only called patched when all the checks were sent, on channels
\* that were all joined and in packets the server can read, and the seconds
\* of MST120_TIMEOUT have gone by since (mst120.c:72-97, tcp.c:313-319).
PatchedMeansTried ==
    verdict = "patched" =>
        checks > SendMax /\ waited = Timeout + 1 /\ joined = Channels /\ Understood

\* No check leaves before the channel it is sent on is joined, whatever order
\* the server's packets come in and however often the client reconnected.
ChecksOnJoinedChannel == TypeOK /\ (checks > 0 => joined = Channels /\ confirmed /\ Understood)

\* Every scan comes to an end, with a verdict or without one: a server that
\* falls silent at any point, closes, or redirects cannot keep the process.
\* (PDUs have a length here: one of length 0 is read for ever, rdp.c:1710.)
ClientEnds == <>(pc = "over")
=============================================================================
