--------------------------- MODULE Rdpscan_proofs ---------------------------
(***************************************************************************)
(* rdpscan.  The verdict "patched" and the check packets of a client, for  *)
(* any number of channels, checks, retries and messages and any timeout;   *)
(* and the pool of the children that are such clients, for any list of     *)
(* targets, any limits and any pipe, as long as the limits leave room for  *)
(* a child and one read() takes a line of every child that may run at once.*)
(***************************************************************************)
EXTENDS RdpClient, Workers, FiniteSetTheorems, TLAPS

\* The stages a client goes through know what went before: it is not told
\* apart by any one variable, since a reconnection takes it back to the
\* beginning.
Confirmed == pc \in {"tls", "mcs", "aucf", "cjcf", "data"} => confirmed
HasReceived == confirmed => received
Joining ==
    /\ pc \in Socks \cup {"connect", "negotiate", "tls", "mcs", "aucf"} => joined = 0
    /\ pc = "cjcf" => joined < Channels
    /\ pc = "data" => joined = Channels
\* No check is sent before the session, and then over a connection that is
\* not given up for another.
Checking ==
    checks > 0 => /\ pc \in {"data", "over"}
                  /\ joined = Channels /\ confirmed /\ Understood
ClockRuns == waited # Unset => checks > SendMax
SaidLast == verdict = "patched" => pc = "over"
\* Only a client that can read them keeps the PDUs of a packet.
Noise ==
    /\ rest # <<>> => pc \in {"data", "over"}
    /\ ~Understood => \A k \in DOMAIN rest : rest[k] = "plain"

IInv ==
    /\ TypeOK /\ Confirmed /\ HasReceived /\ Joining /\ Checking /\ ClockRuns
    /\ SaidLast /\ Noise /\ PatchedMeansTried

LEMMA MinOfTwo ==
    ASSUME NEW a \in Nat, NEW b \in Nat
    PROVE  Min({a, b}) = IF a <= b THEN a ELSE b
<1> DEFINE m == IF a <= b THEN a ELSE b
<1>1. m \in {a, b} /\ \A y \in {a, b} : m <= y
    OBVIOUS
<1>2. \A x \in {a, b} : (\A y \in {a, b} : x <= y) => x = m
    OBVIOUS
<1> QED
    BY <1>1, <1>2 DEF Min

LEMMA ElapsedType ==
    ASSUME NEW t \in 0 .. Unset, NEW s \in 0 .. 1
    PROVE  /\ Elapsed(t, s) \in 0 .. Unset
           /\ Elapsed(t, s) = Unset <=> t = Unset
           /\ Elapsed(t, s) # Unset => Elapsed(t, s) <= Timeout + 1
<1>1. Timeout + 1 \in Nat /\ t + s \in Nat
    BY RdpClientAssumption DEF Unset
<1>2. Min({t + s, Timeout + 1}) = IF t + s <= Timeout + 1 THEN t + s ELSE Timeout + 1
    BY <1>1, MinOfTwo
<1> QED
    BY <1>1, <1>2, RdpClientAssumption DEF Elapsed, Unset

LEMMA IdleType ==
    ASSUME NEW t \in 0 .. 2 * Timeout + 1, NEW s \in Nat
    PROVE  Idle(t, s) \in 0 .. 2 * Timeout + 1
<1>1. 2 * Timeout + 1 \in Nat /\ t + s \in Nat
    BY RdpClientAssumption
<1>2. Min({t + s, 2 * Timeout + 1}) = IF t + s <= 2 * Timeout + 1 THEN t + s ELSE 2 * Timeout + 1
    BY <1>1, MinOfTwo
<1> QED
    BY <1>1, <1>2, RdpClientAssumption DEF Idle

LEMMA InitInv == Init => IInv
<1> SUFFICES ASSUME Init PROVE IInv
    OBVIOUS
<1>1. TypeOK
    <2>1. {proxy, confirmed, negotiate, tls, keyed, licensed, shareid, main, redirect, received} \subseteq BOOLEAN
        BY DEF Init
    <2>2. rest \in Seq(PDUs)
        BY DEF Init
    <2> QED
        BY <2>1, <2>2, RdpClientAssumption DEF Init, TypeOK, Unset
<1>2. Confirmed /\ HasReceived /\ Joining /\ SaidLast
    BY RdpClientAssumption DEF Init, Confirmed, HasReceived, Joining, SaidLast
<1>5. ClockRuns /\ PatchedMeansTried
    BY DEF Init, ClockRuns, PatchedMeansTried
<1>3. Checking
    BY DEF Init, Checking
<1>4. Noise
    BY DEF Init, Noise
<1> QED
    BY <1>1, <1>2, <1>3, <1>4, <1>5 DEF IInv

USE DEF connection, session, sharing, clock, Confirmed, HasReceived, Joining, Checking,
        ClockRuns, SaidLast, PatchedMeansTried, Understood, Socks

\* What arrives keeps the clocks in their bounds.
LEMMA ArrivesKeeps ==
    ASSUME IInv, Arrives
    PROVE  /\ left' \in 0 .. Messages /\ idle' \in 0 .. 2 * Timeout + 1
           /\ received' = TRUE /\ waited' \in 0 .. Unset
           /\ waited' = Unset <=> waited = Unset
<1>1. PICK s \in 0 .. 1 : waited' = Elapsed(waited, s)
    BY DEF Arrives
<1>2. waited' \in 0 .. Unset /\ (waited' = Unset <=> waited = Unset)
    BY <1>1, ElapsedType DEF IInv, TypeOK
<1> QED
    BY <1>2, RdpClientAssumption DEF IInv, TypeOK, Arrives

LEMMA NoiseKept ==
    ASSUME IInv, pc \notin {"data", "over"} \/ rest = <<>>, rest' = rest
    PROVE  Noise'
BY DEF IInv, Noise

\* The steps of SOCKS5 and a failed send change the stage and the verdict only.
LEMMA SocksStep ==
    ASSUME IInv, SocksMethod \/ SocksReply \/ SocksBound \/ SocksSilence \/ SendFails
    PROVE  IInv'
<1>1. /\ UNCHANGED <<proxy, connection, session, sharing, checks, clock>>
      /\ left' \in {left, left - 1} /\ (left' # left => left > 0)
      /\ pc \notin {"over"} /\ (pc \notin {"data"} \/ rest = <<>>)
    BY DEF SocksMethod, SocksReply, SocksBound, SocksSilence, SendFails, SocksAnswer, Socks, Waiting
<1>2. \/ pc' = "over" /\ verdict' = "unknown"
      \/ pc \in Socks /\ pc' \in {"socks_reply", "socks_bound", "negotiate"} /\ verdict' = verdict
    BY DEF SocksMethod, SocksReply, SocksBound, SocksSilence, SendFails, SocksAnswer, SocksFails,
           Socks, Go, Say
<1>3. left' \in 0 .. Messages
    BY <1>1, RdpClientAssumption DEF IInv, TypeOK
<1>4. TypeOK'
    BY <1>1, <1>2, <1>3 DEF IInv, TypeOK, Socks, Verdicts
<1>5. Noise'
    BY <1>1, NoiseKept
<1> QED
    BY <1>1, <1>2, <1>4, <1>5 DEF IInv, Socks

LEMMA ConnectStep == ASSUME IInv, Connect PROVE IInv'
<1>1. Noise'
    BY NoiseKept DEF Connect
<1> QED
    BY <1>1 DEF IInv, TypeOK, Connect, Go, Verdicts, Socks

LEMMA TlsConnectStep == ASSUME IInv, TlsConnect PROVE IInv'
<1>1. Noise'
    BY NoiseKept DEF TlsConnect
<1> QED
    BY <1>1 DEF IInv, TypeOK, TlsConnect, Go, Say, Verdicts

LEMMA TickStep == ASSUME IInv, Tick PROVE IInv'
<1>1. idle' \in 0 .. 2 * Timeout + 1
    BY IdleType DEF IInv, TypeOK, Tick
<1>2. waited' \in 0 .. Unset /\ (waited' # Unset => waited' <= Timeout + 1)
      /\ (waited' = Unset <=> waited = Unset)
    <2>1. waited \in 0 .. Unset /\ waited' = Elapsed(waited, 1)
        BY DEF IInv, TypeOK, Tick
    <2> QED
        BY <2>1, ElapsedType
<1>3. checks' = checks /\ joined' = joined /\ tls' = tls /\ keyed' = keyed
    BY DEF Tick
<1>6. Noise'
    BY NoiseKept DEF Tick, Waiting
<1>4. CASE waited' # Unset /\ waited' > Timeout
    <2>1. waited' = Timeout + 1 /\ checks > SendMax
        BY <1>2, <1>4, RdpClientAssumption DEF IInv, Unset
    <2>2. checks > 0
        BY <2>1, RdpClientAssumption DEF IInv, TypeOK
    <2>3. verdict' = "patched" /\ pc' = "over"
        BY <1>4 DEF Tick, Say
    <2>4. TypeOK'
        BY <1>1, <1>2, <2>3 DEF IInv, TypeOK, Tick, Verdicts
    <2>5. joined = Channels /\ confirmed /\ Understood /\ Understood'
        BY <2>2, <1>3 DEF IInv
    <2> QED
        BY <1>3, <1>6, <2>1, <2>3, <2>4, <2>5 DEF IInv, Tick
<1>5. CASE ~(waited' # Unset /\ waited' > Timeout)
    <2>1. \/ verdict' = "timeout" /\ pc' = "over"
          \/ verdict' = verdict /\ pc' = pc
        BY <1>5 DEF Tick, Say, Go
    <2>2. verdict # "patched"
        BY DEF Tick, Waiting, IInv
    <2> QED
        BY <1>1, <1>2, <1>3, <1>6, <2>1, <2>2 DEF IInv, TypeOK, Tick, Verdicts
<1> QED
    BY <1>4, <1>5

LEMMA ClosedStep == ASSUME IInv, NEW fin \in BOOLEAN, Closed(fin) PROVE IInv'
<1>1. idle' \in 0 .. 2 * Timeout + 1 /\ retries' \in 1 .. Retries
    <2>1. idle \in 0 .. 2 * Timeout + 1 /\ retries \in 1 .. Retries /\ Pause \in Nat
        BY RdpClientAssumption DEF IInv, TypeOK
    <2>2. CASE MayRetry(fin)
        <3>1. idle' = Idle(idle, Pause) /\ retries' = retries - 1 /\ retries > 1
            BY <2>2 DEF Closed, MayRetry
        <3> QED
            BY <2>1, <3>1, IdleType, RdpClientAssumption
    <2>3. CASE ~MayRetry(fin)
        BY <2>1, <2>3 DEF Closed
    <2> QED
        BY <2>2, <2>3
<1>2. pc \in {"negotiate", "mcs", "aucf", "cjcf", "data"} /\ verdict # "patched"
    BY DEF Closed, Waiting, IInv
\* Only a client that has not been confirmed connects again.
<1>3. MayRetry(fin) => ~confirmed
    BY DEF MayRetry, IInv
<1>4. \/ pc' = "connect" /\ verdict' = verdict /\ MayRetry(fin)
      \/ pc' = "over" /\ verdict' = "unknown"
    BY DEF Closed, Say, Go
<1>5. TypeOK'
    <2>1. left' \in 0 .. Messages
        BY RdpClientAssumption DEF IInv, TypeOK, Closed
    <2> QED
        BY <1>1, <1>4, <2>1 DEF IInv, TypeOK, Closed, Verdicts
<1>6. Noise'
    BY NoiseKept DEF Closed, Waiting
<1> QED
    BY <1>2, <1>3, <1>4, <1>5, <1>6 DEF IInv, Closed

LEMMA NegotiateStep ==
    ASSUME IInv, BadHeader \/ Foreign \/ ConnectionConfirm
    PROVE  IInv'
<1>1. pc = "negotiate" /\ Arrives
      /\ UNCHANGED <<proxy, retries, keyed, joined, licensed, tls, sharing, checks>>
    BY DEF BadHeader, Foreign, ConnectionConfirm, Iso
<1>2. /\ left' \in 0 .. Messages /\ idle' \in 0 .. 2 * Timeout + 1
      /\ received' = TRUE /\ waited' \in 0 .. Unset /\ (waited' = Unset <=> waited = Unset)
    BY <1>1, ArrivesKeeps
<1>3. \/ pc' \in {"connect", "over"} /\ confirmed' \in BOOLEAN /\ negotiate' \in BOOLEAN
      \/ pc' \in {"tls", "mcs"} /\ confirmed' = TRUE /\ negotiate' \in BOOLEAN
    BY DEF BadHeader, Foreign, ConnectionConfirm, Iso, Confirm, Say, Go, IInv, TypeOK
<1>4. verdict' \in {verdict, "not_rdp", "nla", "unknown"}
    BY DEF BadHeader, Foreign, ConnectionConfirm, Iso, Confirm, Say, Go
<1>5. verdict # "patched" /\ ~(checks > 0)
    BY <1>1 DEF IInv
<1>6. TypeOK'
    BY <1>1, <1>2, <1>3, <1>4 DEF IInv, TypeOK, Verdicts
<1>7. Noise'
    BY <1>1, NoiseKept
<1> QED
    BY <1>1, <1>2, <1>3, <1>4, <1>5, <1>6, <1>7 DEF IInv

\* The way to the session: nothing is sent on a channel that is not joined.
LEMMA SetupStep ==
    ASSUME IInv, ConnectResponse \/ AttachUserConfirm \/ ChannelJoinConfirm \/ SetupFails
    PROVE  IInv'
<1>1. /\ pc \in {"mcs", "aucf", "cjcf"} /\ Arrives
      /\ UNCHANGED <<proxy, connection, tls, licensed, sharing, checks>>
    BY DEF ConnectResponse, AttachUserConfirm, ChannelJoinConfirm, SetupFails
<1>2. /\ left' \in 0 .. Messages /\ idle' \in 0 .. 2 * Timeout + 1
      /\ received' = TRUE /\ waited' \in 0 .. Unset /\ (waited' = Unset <=> waited = Unset)
    BY <1>1, ArrivesKeeps
<1>3. \/ pc = "mcs" /\ pc' = "aucf" /\ joined' = joined
      \/ pc = "aucf" /\ pc' = "cjcf" /\ joined' = joined
      \/ pc = "cjcf" /\ joined' = joined + 1 /\ pc' = IF joined' = Channels THEN "data" ELSE "cjcf"
      \/ pc' = "over" /\ joined' = joined
    BY DEF ConnectResponse, AttachUserConfirm, ChannelJoinConfirm, SetupFails, Go, Say
<1>4. verdict' \in {verdict, "unknown"} /\ keyed' \in BOOLEAN
    BY DEF ConnectResponse, AttachUserConfirm, ChannelJoinConfirm, SetupFails, Go, Say, IInv, TypeOK,
           Keys
<1>5. verdict # "patched" /\ ~(checks > 0)
    BY <1>1 DEF IInv
<1>6. joined' \in 0 .. Channels /\ Joining'
    BY <1>1, <1>3, RdpClientAssumption DEF IInv, TypeOK
<1>7. TypeOK'
    BY <1>1, <1>2, <1>3, <1>4, <1>6 DEF IInv, TypeOK, Verdicts
<1>8. Noise'
    BY <1>1, NoiseKept
<1> QED
    BY <1>1, <1>2, <1>3, <1>4, <1>5, <1>6, <1>7, <1>8 DEF IInv

\* What all the steps of a session leave alone, and what they keep.
Session ==
    /\ pc = "data" /\ pc' \in {"data", "over"}
    /\ UNCHANGED <<proxy, connection, tls, keyed, joined>>
    /\ {licensed', shareid', main', redirect', received'} \subseteq BOOLEAN
    /\ received => received'
    /\ nested' \in 0 .. 4 /\ rest' \in Seq(PDUs)
    /\ ~Understood => \A k \in DOMAIN rest' : rest'[k] = "plain"
    /\ idle' \in 0 .. 2 * Timeout + 1 /\ left' \in 0 .. Messages
    /\ verdict' = verdict \/ (verdict' \in Verdicts /\ pc' = "over")

\* The checks and their clock in such a step.
ChecksKept ==
    /\ checks' \in 0 .. SendMax + 1 /\ waited' \in 0 .. Unset
    /\ checks' > 0 => Understood
    /\ waited' # Unset => checks' > SendMax
    /\ verdict' = "patched" => checks' > SendMax /\ waited' = Timeout + 1

LEMMA SessionStep == ASSUME IInv, Session, ChecksKept PROVE IInv'
<1>1. TypeOK'
    BY DEF IInv, TypeOK, Session, ChecksKept
<1>2. joined = Channels /\ confirmed /\ received'
    BY DEF IInv, Session
<1>3. verdict' = "patched" => pc' = "over"
    <2>1. pc = "data"
        BY DEF Session
    <2>2. verdict = "patched" => pc = "over"
        BY DEF IInv
    <2>3. verdict' = verdict \/ pc' = "over"
        BY DEF Session
    <2> QED
        BY <2>1, <2>2, <2>3
<1>4. verdict' = "patched" => checks' > 0
    BY RdpClientAssumption DEF ChecksKept
<1>5. Noise'
    BY DEF Session, Noise
<1> QED
    BY <1>1, <1>2, <1>3, <1>4, <1>5 DEF IInv, Session, ChecksKept

\* The check packets and the clock of them, in one step of the session.
LEMMA DrawKeeps ==
    ASSUME IInv, NEW pdu \in PDUs, NEW now \in 0 .. Unset,
           now = Unset <=> waited = Unset, now # Unset => now <= Timeout + 1,
           pdu \in Orders => Understood, Draw(pdu, now)
    PROVE  /\ checks' \in 0 .. SendMax + 1 /\ waited' \in 0 .. Unset
           /\ checks' > 0 => Understood
           /\ waited' # Unset => checks' > SendMax
           /\ TimeIsUp(pdu) => checks' > SendMax /\ waited' = Timeout + 1
<1>1. /\ checks \in 0 .. SendMax + 1 /\ (waited # Unset => checks > SendMax)
      /\ checks > 0 => Understood
    BY DEF IInv, TypeOK
<1>2. SendMax \in Nat /\ Timeout \in Nat /\ Unset = Timeout + 2
    BY RdpClientAssumption DEF Unset
<1>3. CASE pdu \in Orders /\ checks > SendMax
    <2>1. waited' = (IF now = Unset THEN 0 ELSE now) /\ checks' = checks
        BY <1>3 DEF Draw, mst120_check
    <2> QED
        BY <1>1, <1>2, <1>3, <2>1 DEF TimeIsUp
<1>4. CASE pdu \in Orders /\ ~(checks > SendMax)
    <2>1. waited' = now /\ checks' = checks + (IF pdu = "memblt" THEN 1 ELSE 0)
        BY <1>4 DEF Draw, mst120_check
    <2> QED
        BY <1>1, <1>2, <1>4, <2>1 DEF TimeIsUp
<1>5. CASE pdu \notin Orders
    <2>1. waited' = now /\ checks' = checks
        BY <1>5 DEF Draw
    <2> QED
        BY <1>1, <1>2, <1>5, <2>1 DEF TimeIsUp
<1> QED
    BY <1>3, <1>4, <1>5

LEMMA DroppedType == ASSUME IInv PROVE Dropped \in 0 .. 4
BY DEF IInv, TypeOK, Dropped

\* A packet that is only put down, or refused: no check is sent.
LEMMA NoDrawKeeps ==
    ASSUME IInv, pc = "data", checks' = checks, waited' \in 0 .. Unset,
           waited' = Unset <=> waited = Unset, verdict' # "patched"
    PROVE  ChecksKept
BY RdpClientAssumption DEF IInv, TypeOK, ChecksKept

LEMMA PacketStep ==
    ASSUME IInv, DataPacket \/ LicencePacket \/ DisconnectUltimatum \/ Refused
    PROVE  IInv'
<1>1. /\ pc = "data" /\ Arrives /\ checks' = checks
      /\ UNCHANGED <<proxy, connection, tls, keyed, joined>>
    BY DEF DataPacket, LicencePacket, DisconnectUltimatum, Refused
<1>2. /\ left' \in 0 .. Messages /\ idle' \in 0 .. 2 * Timeout + 1
      /\ received' = TRUE /\ waited' \in 0 .. Unset /\ (waited' = Unset <=> waited = Unset)
    BY <1>1, ArrivesKeeps
<1>3. rest' \in Seq(PDUs)
    <2>1. rest \in Seq(PDUs) /\ <<"plain">> \in Seq(PDUs)
        BY DEF IInv, TypeOK, PDUs, Updates
    <2>2. \A p \in {<<x>> : x \in PDUs} \cup {<<x, y>> : x, y \in PDUs} : p \in Seq(PDUs)
        <3>1. \A x, y \in PDUs : <<x>> \in Seq(PDUs) /\ <<x, y>> \in Seq(PDUs)
            OBVIOUS
        <3>2. \A p \in {<<x>> : x \in PDUs} : p \in Seq(PDUs)
            BY <3>1
        <3>3. ASSUME NEW p \in {<<x, y>> : x, y \in PDUs} PROVE p \in Seq(PDUs)
            <4>1. PICK x \in PDUs, y \in PDUs : p = <<x, y>>
                BY <3>3
            <4> QED
                BY <3>1, <4>1
        <3> QED
            BY <3>2, <3>3
    <2> QED
        BY <2>1, <2>2 DEF DataPacket, LicencePacket, DisconnectUltimatum, Refused
<1>10. ~Understood => \A k \in DOMAIN rest' : rest'[k] = "plain"
    <2>1. ~Understood => \A k \in DOMAIN rest : rest[k] = "plain"
        BY DEF IInv, Noise
    <2>2. ~Understood => rest' = rest \/ rest' = <<"plain">>
        BY DEF DataPacket, LicencePacket, DisconnectUltimatum, Refused
    <2>3. \A k \in DOMAIN <<"plain">> : <<"plain">>[k] = "plain"
        OBVIOUS
    <2> QED
        BY <2>1, <2>2, <2>3
<1>4. nested' \in 0 .. 4
    BY DroppedType DEF IInv, TypeOK, DataPacket, LicencePacket, DisconnectUltimatum, Refused
<1>5. {licensed', shareid', main', redirect', received'} \subseteq BOOLEAN
    <2>1. /\ licensed \in BOOLEAN /\ shareid \in BOOLEAN /\ main \in BOOLEAN /\ redirect \in BOOLEAN
        BY DEF IInv, TypeOK
    <2>2. licensed' \in BOOLEAN
        <3>1. CASE LicencePacket
            BY <2>1, <3>1 DEF LicencePacket, Settles
        <3>2. CASE ~LicencePacket
            <4>1. licensed' = licensed
                BY <3>2 DEF DataPacket, DisconnectUltimatum, Refused
            <4> QED
                BY <2>1, <4>1
        <3> QED
            BY <3>1, <3>2
    <2>3. shareid' \in BOOLEAN /\ redirect' \in BOOLEAN
        BY <2>1 DEF DataPacket, LicencePacket, DisconnectUltimatum, Refused
    <2>4. main' \in BOOLEAN
        <3>1. \/ main' = main \/ main' = TRUE \/ main' = (main \/ shareid' \/ redirect')
            BY DEF DataPacket, LicencePacket, DisconnectUltimatum, Refused, LoopReturns, LoopGoesOn
        <3> QED
            BY <2>1, <2>3, <3>1
    <2> QED
        BY <1>2, <2>2, <2>3, <2>4
<1>6. /\ pc' \in {"data", "over"}
      /\ verdict' = verdict \/ (verdict' \in {"vulnerable", "unknown"} /\ pc' = "over")
    BY DEF DataPacket, LicencePacket, DisconnectUltimatum, Refused, LoopReturns, LoopGoesOn, Go, Say
<1>7. verdict # "patched"
    BY <1>1 DEF IInv
<1>8. Session
    BY <1>1, <1>2, <1>3, <1>4, <1>5, <1>6, <1>10 DEF Session, Verdicts
<1>9. ChecksKept
    BY <1>1, <1>2, <1>6, <1>7, NoDrawKeeps
<1> QED
    BY <1>8, <1>9, SessionStep

LEMMA FastPathStep == ASSUME IInv, FastPath PROVE IInv'
<1>1. PICK s \in 0 .. 1, update \in Updates :
        LET drawn == IF Understood THEN update ELSE "plain"
        IN /\ Draw(drawn, Elapsed(waited, s))
           /\ nested' = Dropped
           /\ UNCHANGED <<shareid, redirect>>
           /\ IF Ends(drawn) THEN EndOf(drawn)
              ELSE IF nested' = 0 THEN LoopReturns ELSE LoopGoesOn
    BY DEF FastPath
<1> DEFINE drawn == IF Understood THEN update ELSE "plain"
           now == Elapsed(waited, s)
<1>2. drawn \in PDUs /\ (drawn \in Orders => Understood)
    BY DEF PDUs, Updates, Orders
<1>3. /\ now \in 0 .. Unset /\ (now = Unset <=> waited = Unset)
      /\ now # Unset => now <= Timeout + 1
    BY ElapsedType DEF IInv, TypeOK
<1>4. Draw(drawn, now)
    BY <1>1
<1>5. /\ checks' \in 0 .. SendMax + 1 /\ waited' \in 0 .. Unset
      /\ checks' > 0 => Understood
      /\ waited' # Unset => checks' > SendMax
      /\ TimeIsUp(drawn) => checks' > SendMax /\ waited' = Timeout + 1
    <2> HIDE DEF drawn, now
    <2> QED
        BY <1>2, <1>3, <1>4, DrawKeeps
<1>6. \/ TimeIsUp(drawn) /\ verdict' = "patched" /\ pc' = "over" /\ main' = main
      \/ /\ verdict' = verdict \/ (verdict' \in {"unknown", "not_windows"} /\ pc' = "over")
         /\ pc' \in {"data", "over"}
         /\ main' = main \/ main' = (main \/ shareid' \/ redirect')
    BY <1>1 DEF Ends, EndOf, Say, LoopReturns, LoopGoesOn, Go
<1>7. pc = "data" /\ UNCHANGED <<proxy, connection, session, rest>>
      /\ received' = TRUE /\ idle' = 0 /\ left' = left - 1 /\ left > 0
    BY DEF FastPath
<1>8. verdict # "patched"
    BY <1>7 DEF IInv
<1>9. shareid' = shareid /\ redirect' = redirect /\ nested' \in 0 .. 4
    BY <1>1, DroppedType
<1>10. {licensed', shareid', main', redirect', received'} \subseteq BOOLEAN
    <2>1. licensed \in BOOLEAN /\ shareid \in BOOLEAN /\ main \in BOOLEAN /\ redirect \in BOOLEAN
        BY DEF IInv, TypeOK
    <2>2. main' \in BOOLEAN
        BY <1>6, <1>9, <2>1
    <2> QED
        BY <1>7, <1>9, <2>1, <2>2
<1>11. Session
    <2>1. left' \in 0 .. Messages /\ idle' \in 0 .. 2 * Timeout + 1 /\ rest' \in Seq(PDUs)
        BY <1>7, RdpClientAssumption DEF IInv, TypeOK
    <2>2. ~Understood => \A k \in DOMAIN rest' : rest'[k] = "plain"
        BY <1>7 DEF IInv, Noise
    <2> QED
        BY <1>6, <1>7, <1>9, <1>10, <2>1, <2>2 DEF Session, Verdicts
<1>12. ChecksKept
    BY <1>5, <1>6, <1>8 DEF ChecksKept
<1> QED
    BY <1>11, <1>12, SessionStep

LEMMA NextPduStep == ASSUME IInv, NextPdu PROVE IInv'
<1> DEFINE pdu == IF nested > 0 THEN "plain" ELSE Head(rest)
<1>1. /\ pc = "data" /\ rest # <<>> /\ rest' = Tail(rest)
      /\ nested' = IF pdu = "demand_active" THEN 1 ELSE Dropped
      /\ shareid' = (shareid \/ pdu = "demand_active")
      /\ redirect' = Redirected(pdu)
      /\ Draw(pdu, waited)
      /\ IF Ends(pdu) THEN EndOf(pdu)
         ELSE IF pdu \in Redirections \/ (rest' = <<>> /\ nested' = 0) THEN LoopReturns ELSE LoopGoesOn
      /\ UNCHANGED <<proxy, connection, session, idle, received, left>>
    BY DEF NextPdu
<1>2. rest \in Seq(PDUs) /\ rest' \in Seq(PDUs) /\ pdu \in PDUs
    <2>1. rest \in Seq(PDUs)
        BY DEF IInv, TypeOK
    <2>2. Head(rest) \in PDUs /\ Tail(rest) \in Seq(PDUs)
        BY <1>1, <2>1
    <2> QED
        BY <1>1, <2>1, <2>2 DEF PDUs, Updates
<1>3. waited \in 0 .. Unset /\ (waited # Unset => waited <= Timeout + 1)
    BY RdpClientAssumption DEF IInv, TypeOK, Unset
<1>4. /\ pdu \in Orders => Understood
      /\ ~Understood => \A k \in DOMAIN rest' : rest'[k] = "plain"
    <2>1. ~Understood => \A k \in DOMAIN rest : rest[k] = "plain"
        BY DEF IInv, Noise
    <2>2. Head(rest) = rest[1] /\ 1 \in DOMAIN rest
        BY <1>1, <1>2
    <2>3. \A k \in DOMAIN rest' : k + 1 \in DOMAIN rest /\ rest'[k] = rest[k + 1]
        BY <1>1, <1>2
    <2> QED
        BY <2>1, <2>2, <2>3 DEF Orders
<1>5. /\ checks' \in 0 .. SendMax + 1 /\ waited' \in 0 .. Unset
      /\ checks' > 0 => Understood
      /\ waited' # Unset => checks' > SendMax
      /\ TimeIsUp(pdu) => checks' > SendMax /\ waited' = Timeout + 1
    <2>1. Draw(pdu, waited)
        BY <1>1
    <2> HIDE DEF pdu
    <2> QED
        BY <1>2, <1>3, <1>4, <2>1, DrawKeeps
<1>6. \/ TimeIsUp(pdu) /\ verdict' = "patched" /\ pc' = "over" /\ main' = main
      \/ /\ verdict' = verdict \/ (verdict' \in {"unknown", "not_windows"} /\ pc' = "over")
         /\ pc' \in {"data", "over"}
         /\ main' = main \/ main' = (main \/ shareid' \/ redirect')
    BY <1>1 DEF Ends, EndOf, Say, LoopReturns, LoopGoesOn, Go
<1>7. verdict # "patched"
    BY <1>1 DEF IInv
<1>8. nested' \in 0 .. 4
    BY <1>1, DroppedType
<1>9. {licensed', shareid', main', redirect', received'} \subseteq BOOLEAN
    <2>1. /\ licensed \in BOOLEAN /\ shareid \in BOOLEAN /\ main \in BOOLEAN /\ redirect \in BOOLEAN
          /\ received \in BOOLEAN
        BY DEF IInv, TypeOK
    <2>2. shareid' \in BOOLEAN /\ redirect' \in BOOLEAN
        BY <1>1, <2>1 DEF Redirected
    <2>3. main' \in BOOLEAN
        BY <1>6, <2>1, <2>2
    <2> QED
        BY <1>1, <2>1, <2>2, <2>3
<1>10. Session
    <2>1. left' \in 0 .. Messages /\ idle' \in 0 .. 2 * Timeout + 1
        BY <1>1 DEF IInv, TypeOK
    <2>2. received => received'
        BY <1>1
    <2> QED
        BY <1>1, <1>2, <1>4, <1>6, <1>8, <1>9, <2>1, <2>2 DEF Session, Verdicts
<1>11. ChecksKept
    BY <1>5, <1>6, <1>7 DEF ChecksKept
<1> QED
    BY <1>10, <1>11, SessionStep

LEMMA NextInv == ASSUME IInv, [Next]_vars PROVE IInv'
<1>1. CASE Step
    BY <1>1, ConnectStep, SocksStep, TlsConnectStep, TickStep, NextPduStep DEF Step
<1>2. CASE \E fin \in BOOLEAN : Closed(fin)
    BY <1>2, ClosedStep
<1>3. CASE BadHeader \/ Foreign \/ ConnectionConfirm
    BY <1>3, NegotiateStep
<1>4. CASE ConnectResponse \/ AttachUserConfirm \/ ChannelJoinConfirm \/ SetupFails
    BY <1>4, SetupStep
<1>5. CASE FastPath
    BY <1>5, FastPathStep
<1>6. CASE DataPacket \/ LicencePacket \/ DisconnectUltimatum \/ Refused
    BY <1>6, PacketStep
<1>8. CASE SocksMethod \/ SocksReply \/ SocksBound \/ SendFails
    BY <1>8, SocksStep
<1>7. CASE Over \/ UNCHANGED vars
    BY <1>7 DEF Over, vars, IInv, TypeOK, Noise
<1> QED
    BY <1>1, <1>2, <1>3, <1>4, <1>5, <1>6, <1>7, <1>8 DEF Next

THEOREM Invariance == Spec => []IInv
<1> QED
    BY InitInv, NextInv, PTL DEF Spec

\* rdpscan's RESULT("SAFE", "Target appears patched") (mst120.c, tcp.c): a
\* target is called patched only after all the checks were sent on channels
\* that were joined, in packets the server can read, and MST120_TIMEOUT
\* seconds without its end.
THEOREM PatchedAfterChecks == Spec => []PatchedMeansTried
BY Invariance, PTL DEF IInv

\* mst120_check: no check is sent before the channels are joined on this
\* very connection, however often the client has connected before.
THEOREM ChecksAfterJoins == Spec => []ChecksOnJoinedChannel
<1>1. IInv => ChecksOnJoinedChannel
    BY DEF IInv, ChecksOnJoinedChannel
<1> QED
    BY <1>1, Invariance, PTL

----------------------------------------------------------------------------
(* The pool.                                                               *)

Enough ==
    \A a \in Asked, p \in Nproc, f \in Nofile : tracker_init(a, p, f) \in Nat \ {0}

Working == {c \in DOMAIN child : child[c] = "working"}
Hosts == {File[k].host : k \in 1 .. Len(File)} \cup {Addresses[k] : k \in 1 .. Len(Addresses)}
Forking == IF parent = "fork" THEN 1 ELSE 0

\* Every row of the table is a child or the one about to be forked.
Rows == count = Cardinality(Processes) + Forking

\* In the file's loop a free row has been waited for before a line is read.
FreeRow == count <= max /\ (parent = "next" /\ phase = "file" => count < max)

\* Whom fork() is for.
Turn ==
    parent = "fork" => \/ phase = "file" /\ line \in 1 .. Len(File)
                       \/ phase = "addresses" /\ addr \in 1 .. Len(Addresses)

Drained == parent \in {"last", "done"} => count = 0

\* The lines in the pipe and those still to come: what is left by a read, one
\* for every child there was then, and one for every child begun since - as
\* long as a read takes a line of every child.
InPipe ==
    max <= ReadMax =>
        pipe + Cardinality(Working) <= IF parent = "reap" THEN max ELSE max + count - Forking

PoolInv ==
    /\ PoolTypeOK /\ host \in Seq(Hosts) /\ max >= 1
    /\ Rows /\ FreeRow /\ Turn /\ Drained /\ InPipe /\ NothingLost

LEMMA FiniteChildren ==
    ASSUME PoolInv
    PROVE  /\ child \in Seq({"working", "written", "exited", "reaped"})
           /\ DOMAIN child = 1 .. Len(child) /\ Len(child) \in Nat
           /\ IsFiniteSet(Processes) /\ IsFiniteSet(Working) /\ IsFiniteSet(Zombies)
           /\ Cardinality(Processes) \in Nat /\ Cardinality(Working) \in Nat
           /\ Cardinality(Zombies) \in Nat
           /\ Cardinality(Working) <= Cardinality(Processes)
<1>1. child \in Seq({"working", "written", "exited", "reaped"})
    BY DEF PoolInv, PoolTypeOK
<1>2. DOMAIN child = 1 .. Len(child) /\ Len(child) \in Nat
    BY <1>1
<1>3. IsFiniteSet(DOMAIN child)
    BY <1>2, FS_Interval
<1>4. /\ Processes \in SUBSET DOMAIN child /\ Zombies \in SUBSET DOMAIN child
      /\ Working \in SUBSET Processes
    BY DEF Processes, Zombies, Working
<1>5. IsFiniteSet(Processes) /\ IsFiniteSet(Zombies)
    BY <1>3, <1>4, FS_Subset
<1>6. IsFiniteSet(Working) /\ Cardinality(Working) <= Cardinality(Processes)
    BY <1>4, <1>5, FS_Subset
<1> QED
    BY <1>1, <1>2, <1>5, <1>6, FS_CardinalityType

LEMMA Numbers ==
    ASSUME PoolInv
    PROVE  /\ count \in Nat /\ max \in Nat /\ pipe \in Nat /\ PipeSize \in Nat /\ ReadMax \in Nat
           /\ line \in Nat /\ addr \in Nat /\ Len(File) \in Nat /\ Len(Addresses) \in Nat
           /\ max >= 1 /\ Forking \in 0 .. 1 /\ count <= max
BY WorkersAssumption DEF PoolInv, PoolTypeOK, Forking, FreeRow

LEMMA PoolInitInv == Enough /\ PoolInit => PoolInv
<1> SUFFICES ASSUME Enough, PoolInit PROVE PoolInv
    OBVIOUS
<1>1. PICK a \in Asked, p \in Nproc, f \in Nofile :
        /\ max = tracker_init(a, p, f)
        /\ limit = Raised(p, Lowered(a, p.max, p.max - Slack))
    BY DEF PoolInit
<1>2. max \in Nat /\ max >= 1
    BY <1>1 DEF Enough
<1>3. limit \in Nat
    BY <1>1, WorkersAssumption DEF Raised
<1>4. Processes = {} /\ Working = {}
    BY DEF PoolInit, Processes, Working
<1>5. Cardinality(Processes) = 0 /\ Cardinality(Working) = 0
    BY <1>4, FS_EmptySet
<1>6. host \in Seq(Hosts) /\ child \in Seq({"working", "written", "exited", "reaped"})
      /\ Len(host) = Len(child)
    BY DEF PoolInit
<1>7. PoolTypeOK
    BY <1>2, <1>3, <1>6, WorkersAssumption DEF PoolInit, PoolTypeOK
<1> QED
    BY <1>2, <1>5, <1>6, <1>7, WorkersAssumption
    DEF PoolInit, PoolInv, Rows, FreeRow, Turn, Drained, InPipe, NothingLost, Forking

\* The children are as they were: what the sets of them are.
LEMMA SameChildren ==
    ASSUME child' = child
    PROVE  Processes' = Processes /\ Working' = Working
BY DEF Processes, Working

LEMMA LoopStep ==
    ASSUME PoolInv, NextLine \/ EndOfFile \/ NextAddress \/ EndOfAddresses \/ Drain
    PROVE  PoolInv'
<1>1. parent = "next" /\ UNCHANGED <<max, limit, child, host, pipe, others>>
    BY DEF NextLine, EndOfFile, NextAddress, EndOfAddresses, Drain
<1>2. Processes' = Processes /\ Working' = Working
    BY <1>1, SameChildren
<1>3. /\ Cardinality(Processes) \in Nat /\ Cardinality(Working) \in Nat
      /\ Cardinality(Working) <= Cardinality(Processes)
    BY FiniteChildren
<1>4. \/ parent' = "fork" /\ count' = count + 1 /\ count < max
      \/ parent' \in {"next", "collect"} /\ count' = count
      \/ parent' = "last" /\ count' = count /\ count = 0
    BY Numbers DEF NextLine, EndOfFile, NextAddress, EndOfAddresses, Drain, Full, PoolInv, FreeRow
<1>5. parent' = "next" /\ phase' = "file" => count' < max
    BY <1>1, Numbers DEF NextLine, EndOfFile, NextAddress, EndOfAddresses, Drain, PoolInv, FreeRow
<1>6. /\ line' \in 0 .. Len(File) /\ addr' \in 0 .. Len(Addresses)
      /\ phase' \in {"file", "addresses", "drain"}
    BY SMTT(40), Numbers DEF NextLine, EndOfFile, NextAddress, EndOfAddresses, Drain, PoolInv, PoolTypeOK
<1>7. Turn'
    BY <1>1, Numbers DEF NextLine, EndOfFile, NextAddress, EndOfAddresses, Drain, Turn
<1>8. PoolTypeOK'
    BY <1>1, <1>4, <1>6, Numbers DEF PoolInv, PoolTypeOK
<1>9. Rows' /\ FreeRow' /\ Drained' /\ InPipe'
    BY SMTT(40), <1>1, <1>2, <1>3, <1>4, <1>5, Numbers
    DEF PoolInv, Rows, FreeRow, Drained, InPipe, Forking
<1>10. NothingLost'
    BY <1>4 DEF NothingLost
<1> QED
    BY <1>1, <1>7, <1>8, <1>9, <1>10 DEF PoolInv

LEMMA ForkStep == ASSUME PoolInv, Fork PROVE PoolInv'
<1> DEFINE n == Len(child)
           h == IF phase = "file" THEN File[line].host ELSE Addresses[addr]
<1>1. /\ parent = "fork" /\ child' = Append(child, "working") /\ host' = Append(host, h)
      /\ parent' = (IF phase = "file" THEN "collect" ELSE "next")
      /\ UNCHANGED <<phase, line, addr, count, max, limit, pipe, others>>
    BY DEF Fork
<1>2. h \in Hosts
    BY <1>1 DEF PoolInv, Turn, Hosts
<1>3. /\ child' \in Seq({"working", "written", "exited", "reaped"})
      /\ Len(child') = n + 1 /\ DOMAIN child' = 1 .. n + 1
      /\ child'[n + 1] = "working" /\ \A c \in 1 .. n : child'[c] = child[c]
    BY <1>1, FiniteChildren
<1>4. host' \in Seq(Hosts) /\ Len(host') = Len(host) + 1
    BY <1>1, <1>2 DEF PoolInv
<1>5. Processes' = Processes \cup {n + 1} /\ n + 1 \notin Processes
    BY <1>3, FiniteChildren DEF Processes
<1>6. Working' = Working \cup {n + 1} /\ n + 1 \notin Working
    BY <1>3, FiniteChildren DEF Working
<1>7. /\ Cardinality(Processes') = Cardinality(Processes) + 1
      /\ Cardinality(Working') = Cardinality(Working) + 1
    BY <1>5, <1>6, FiniteChildren, FS_AddElement
<1>8. PoolTypeOK'
    BY <1>1, <1>3, <1>4 DEF PoolInv, PoolTypeOK
<1>9. phase # "file" => phase' # "file"
    BY <1>1
<1>12. FreeRow' /\ Drained'
    BY <1>1, <1>9 DEF PoolInv, FreeRow, Drained
<1>13. parent' # "fork" /\ parent' # "reap" /\ Forking = 1 /\ Forking' = 0
    BY <1>1 DEF Forking
<1>10. Rows' /\ InPipe'
    <2>1. count = Cardinality(Processes) + 1 /\ count' = count /\ max' = max /\ pipe' = pipe
        BY <1>1, <1>13 DEF PoolInv, Rows
    <2>2. max <= ReadMax => pipe + Cardinality(Working) <= max + count - 1
        BY <1>1, <1>13 DEF PoolInv, InPipe
    <2>3. count' = Cardinality(Processes') + Forking'
        BY <1>7, <1>13, <2>1, FiniteChildren, Numbers
    <2>4. max <= ReadMax => pipe' + Cardinality(Working') <= max' + count' - Forking'
        <3>1. max <= ReadMax => pipe + (Cardinality(Working) + 1) <= max + count
            BY SMTT(40), <2>2, FiniteChildren, Numbers
        <3>2. max' + count' - Forking' = max + count
            BY <1>13, <2>1, Numbers
        <3> QED
            BY <1>7, <2>1, <3>1, <3>2
    <2> QED
        BY <1>13, <2>1, <2>3, <2>4 DEF Rows, InPipe
<1>11. Turn' /\ NothingLost'
    BY <1>1 DEF Turn, NothingLost
<1> QED
    BY <1>1, <1>4, <1>8, <1>10, <1>11, <1>12 DEF PoolInv

LEMMA CollectStep == ASSUME PoolInv, Collect PROVE PoolInv'
<1>1. /\ parent \in {"collect", "last"} /\ pipe' = pipe - Chunk
      /\ parent' = (IF parent = "last" THEN "done" ELSE "reap")
      /\ UNCHANGED <<phase, line, addr, count, max, limit, child, host, others>>
    BY DEF Collect, AfterRead
<1>2. Processes' = Processes /\ Working' = Working
    BY <1>1, SameChildren
<1>3. Chunk = IF ReadMax <= pipe THEN ReadMax ELSE pipe
    <2> DEFINE m == IF ReadMax <= pipe THEN ReadMax ELSE pipe
    <2>1. m \in {ReadMax, pipe} /\ \A y \in {ReadMax, pipe} : m <= y
        BY Numbers
    <2>2. \A x \in {ReadMax, pipe} : (\A y \in {ReadMax, pipe} : x <= y) => x = m
        BY Numbers
    <2> QED
        BY <2>1, <2>2 DEF Chunk, Min
<1>4. pipe' \in 0 .. PipeSize
    BY <1>1, <1>3, Numbers DEF PoolInv, PoolTypeOK
<1>5. Forking = 0 /\ Forking' = 0
    BY <1>1 DEF Forking
<1>6. /\ max <= ReadMax => pipe + Cardinality(Working) <= max + count
      /\ Cardinality(Working) <= count
    BY <1>1, <1>5, FiniteChildren, Numbers DEF PoolInv, InPipe, Rows
\* One read leaves no more than the lines that the children then running may
\* still write, or as many as there may be children.
<1>7. max <= ReadMax => pipe' + Cardinality(Working) <= max
    BY SMTT(40), <1>1, <1>3, <1>6, FiniteChildren, Numbers
<1>8. CASE parent = "collect"
    BY <1>1, <1>2, <1>4, <1>5, <1>7, <1>8
    DEF PoolInv, PoolTypeOK, Rows, FreeRow, Turn, Drained, InPipe, NothingLost
<1>9. CASE parent = "last"
    <2>1. count = 0 /\ (max <= ReadMax => pipe + Cardinality(Working) <= max)
        BY <1>6, <1>9, Numbers DEF PoolInv, Drained
    <2>2. max <= ReadMax => pipe' = 0
        BY <1>1, <1>3, <2>1, FiniteChildren, Numbers
    <2>3. parent' = "done" /\ parent' # "reap"
        BY <1>1, <1>9
    <2>4. InPipe'
        BY <1>1, <1>2, <1>5, <1>6, <2>1, <2>2, <2>3, FiniteChildren, Numbers DEF InPipe
    <2> QED
        BY <1>1, <1>2, <1>4, <1>5, <2>1, <2>2, <2>3, <2>4
        DEF PoolInv, PoolTypeOK, Rows, FreeRow, Turn, Drained, NothingLost
<1> QED
    BY <1>1, <1>8, <1>9

LEMMA ReapStep == ASSUME PoolInv, Reap PROVE PoolInv'
<1>1. /\ parent = "reap" /\ count' = count - Cardinality(Zombies)
      /\ child' = [c \in DOMAIN child |-> IF c \in Zombies THEN "reaped" ELSE child[c]]
      /\ parent' = (IF phase = "file" /\ Full(count') THEN "collect" ELSE "next")
      /\ UNCHANGED <<phase, line, addr, max, limit, host, pipe, others>>
    BY DEF Reap
<1>2. /\ child' \in Seq({"working", "written", "exited", "reaped"})
      /\ Len(child') = Len(child) /\ DOMAIN child' = DOMAIN child
    BY <1>1, FiniteChildren
<1>3. Processes' = Processes \ Zombies /\ Zombies \subseteq Processes /\ Working' = Working
    BY <1>1, <1>2 DEF Processes, Zombies, Working
<1>4. Processes \cap Zombies = Zombies
    BY <1>3
<1>5. Cardinality(Processes') = Cardinality(Processes) - Cardinality(Zombies)
    BY <1>3, <1>4, FiniteChildren, FS_Difference
<1>6. Cardinality(Zombies) <= Cardinality(Processes)
    BY <1>3, FiniteChildren, FS_Subset
<1>7. Forking = 0 /\ Forking' = 0
    BY <1>1 DEF Forking
<1>8. count' \in Nat /\ count' <= count /\ count' = Cardinality(Processes')
    BY <1>1, <1>5, <1>6, <1>7, FiniteChildren, Numbers DEF PoolInv, Rows
<1>9. PoolTypeOK'
    BY <1>1, <1>2, <1>8, Numbers DEF PoolInv, PoolTypeOK
<1>10. FreeRow'
    BY <1>1, <1>8, Numbers DEF FreeRow, Full
<1>11. Rows' /\ Turn' /\ Drained' /\ NothingLost'
    BY <1>1, <1>7, <1>8 DEF Rows, Turn, Drained, NothingLost
<1>12. InPipe'
    <2>1. (max <= ReadMax => pipe + Cardinality(Working) <= max) /\ parent' # "reap"
        BY <1>1 DEF PoolInv, InPipe
    <2> QED
        BY SMTT(40), <1>1, <1>3, <1>7, <1>8, <2>1, FiniteChildren, Numbers DEF InPipe
<1> QED
    BY <1>1, <1>9, <1>10, <1>11, <1>12 DEF PoolInv

\* A child writes its line, which makes one more in the pipe and one less to
\* come, or exits.
LEMMA ChildStep ==
    ASSUME PoolInv, NEW c \in DOMAIN child, Write(c) \/ Exit(c)
    PROVE  PoolInv'
<1> DEFINE st == IF Write(c) THEN "written" ELSE "exited"
<1>1. /\ child' = [child EXCEPT ![c] = st] /\ child[c] \in {"working", "written"}
      /\ UNCHANGED <<parent, phase, line, addr, count, max, limit, host, others>>
      /\ \/ child[c] = "working" /\ pipe < PipeSize /\ pipe' = pipe + 1
         \/ pipe' = pipe
    BY DEF Write, Exit
<1>2. /\ child' \in Seq({"working", "written", "exited", "reaped"})
      /\ Len(child') = Len(child) /\ DOMAIN child' = DOMAIN child
    BY <1>1, FiniteChildren
<1>3. Processes' = Processes
    BY <1>1, <1>2 DEF Processes
<1>4. Working' = Working \ {c} /\ (c \in Working <=> child[c] = "working")
    BY <1>1, <1>2 DEF Working
<1>5. Cardinality(Working') = IF child[c] = "working" THEN Cardinality(Working) - 1 ELSE Cardinality(Working)
    BY <1>4, FiniteChildren, FS_RemoveElement
<1>6. pipe' \in 0 .. PipeSize /\ pipe' + Cardinality(Working') <= pipe + Cardinality(Working)
    <2>1. pipe \in 0 .. PipeSize
        BY DEF PoolInv, PoolTypeOK
    <2>2. CASE child[c] = "working" /\ pipe < PipeSize /\ pipe' = pipe + 1
        BY <1>5, <2>1, <2>2, FiniteChildren, Numbers
    <2>3. CASE pipe' = pipe
        <3>1. Cardinality(Working') <= Cardinality(Working)
            BY <1>5, FiniteChildren
        <3> QED
            BY SMTT(40), <2>1, <2>3, <3>1, <1>4, FiniteChildren, FS_RemoveElement, FS_CardinalityType
    <2> QED
        BY <1>1, <2>2, <2>3
<1>7. PoolTypeOK'
    BY <1>1, <1>2, <1>6 DEF PoolInv, PoolTypeOK
<1>8. Rows' /\ FreeRow' /\ Turn' /\ Drained'
    BY <1>1, <1>3 DEF PoolInv, Rows, FreeRow, Turn, Drained, Forking
<1>9. InPipe'
    <2>1. IsFiniteSet(Working')
        BY <1>4, FiniteChildren, FS_RemoveElement
    <2>2. Cardinality(Working') \in Nat
        BY <2>1, FS_CardinalityType
    <2>3. Forking' = Forking /\ parent' = parent /\ max' = max /\ count' = count
        BY <1>1 DEF Forking
    <2>4. CASE parent = "reap"
        <3>1. max <= ReadMax => pipe + Cardinality(Working) <= max
            BY <2>4 DEF PoolInv, InPipe
        <3>2. max <= ReadMax => pipe' + Cardinality(Working') <= max'
            BY SMTT(40), <1>6, <2>2, <2>3, <3>1, FiniteChildren, Numbers
        <3> QED
            BY <2>3, <2>4, <3>2 DEF InPipe
    <2>5. CASE parent # "reap"
        <3>1. max <= ReadMax => pipe + Cardinality(Working) <= max + count - Forking
            BY <2>5 DEF PoolInv, InPipe
        <3>2. max <= ReadMax => pipe' + Cardinality(Working') <= max' + count' - Forking'
            BY SMTT(40), <1>6, <2>2, <2>3, <3>1, FiniteChildren, Numbers
        <3> QED
            BY <2>3, <2>5, <3>2 DEF InPipe
    <2> QED
        BY <2>4, <2>5
<1>10. NothingLost'
    <2>1. parent # "done"
        <3>1. c \in Processes
            BY <1>1 DEF Processes
        <3>2. Cardinality(Processes) # 0
            BY <3>1, FiniteChildren, FS_EmptySet
        <3> QED
            BY <3>2, FiniteChildren, Numbers DEF PoolInv, Rows, Drained
    <2> QED
        BY <1>1, <2>1 DEF NothingLost
<1> QED
    BY <1>1, <1>7, <1>8, <1>9, <1>10 DEF PoolInv

LEMMA IdleStep == ASSUME PoolInv, OtherStarts \/ OtherExits \/ UNCHANGED poolVars PROVE PoolInv'
<1>1. /\ UNCHANGED <<parent, phase, line, addr, count, max, limit, child, host, pipe>>
      /\ others' \in 0 .. Others
    BY WorkersAssumption DEF OtherStarts, OtherExits, poolVars, PoolInv, PoolTypeOK
<1>2. Processes' = Processes /\ Working' = Working
    BY <1>1, SameChildren
<1> QED
    BY <1>1, <1>2
    DEF PoolInv, PoolTypeOK, Rows, FreeRow, Turn, Drained, InPipe, NothingLost, Forking

LEMMA PoolNextInv == ASSUME PoolInv, [PoolNext]_poolVars PROVE PoolInv'
<1>1. CASE NextLine \/ EndOfFile \/ NextAddress \/ EndOfAddresses \/ Drain
    BY <1>1, LoopStep
<1>2. CASE Fork \/ Collect \/ Reap
    BY <1>2, ForkStep, CollectStep, ReapStep
<1>3. CASE \E c \in DOMAIN child : Write(c) \/ Exit(c)
    BY <1>3, ChildStep
<1>4. CASE OtherStarts \/ OtherExits \/ ForkAgain \/ Done \/ UNCHANGED poolVars
    BY <1>4, IdleStep DEF ForkAgain, Done
<1> QED
    BY <1>1, <1>2, <1>3, <1>4 DEF PoolNext, Parent

\* spawn_workers: the table of children is never overrun, no more than
\* max_children run, and when the parent returns all that was written is in
\* its output as long as one read() takes a line of each of the children -
\* whatever is asked for and whatever the limits and the sizes are, if
\* tracker_init leaves room for a child.
THEOREM PoolIsBounded ==
    ASSUME Enough
    PROVE  PoolSpec => []PoolBounded
<1>1. PoolInv => PoolBounded
    BY DEF PoolInv, PoolBounded, Rows, FreeRow, Forking
<1>2. PoolInit => PoolInv
    BY PoolInitInv
<1> QED
    BY <1>1, <1>2, PoolNextInv, PTL DEF PoolSpec
=============================================================================
