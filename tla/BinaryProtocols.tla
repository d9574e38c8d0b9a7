-------------------------- MODULE BinaryProtocols --------------------------
(***************************************************************************)
(* The parsers of vnc, telnet and rdp.                                     *)
(***************************************************************************)
EXTENDS ParserState

----------------------------------------------------------------------------
(* vnc: a version line, security types, the result, the server's name.     *)

VncDone == 2147483647               \* RFB_DONE

VncSub == [of |-> "vnc", version |-> 0, sectype |-> 0, len |-> 0]

\* The states that gather the four bytes of a number.
VncFirst == {50, 60, 300, 220}
VncMiddle == {51, 52, 61, 62, 301, 302, 221, 222}

\* Four bytes at most; what is not less than 2^31 is cut down to 2^31 - 1.
Shifted(n, c) == IF n < 8388608 THEN n * 256 + c ELSE 2147483647

VncVersion(p, c) ==
    IF c # LF THEN Fail(p)
    ELSE IF p.st.sub.version % 10 < 7 THEN Transmit(Go(p, 50), "RFB 003.003")
    ELSE Transmit(Go(p, 100),
                  IF p.st.sub.version % 10 = 7 THEN "RFB 003.007" ELSE "RFB 003.008")

\* Version 3.3: the server has chosen.
VncChosen(p, type) ==
    CASE type = 0 -> Go(p, 60)
      [] type = 1 -> Transmit(Go(p, 200), "client init")
      [] OTHER -> Close(Go(p, VncDone))

\* Version 3.7 and later: the last type of the server's list has come.
VncListed(p) ==
    LET v == p.st.sub.version
    IN  CASE v < 7 -> Transmit(Go(p, 200), "client init")
          [] v = 7 -> Transmit(Go(p, 200), "none, client init")
          [] v > 7 -> Transmit(Go(p, 300), "none")

\* RFB3_7_SECURITYTYPES+1: one type of the list.
VncCount(p, c) ==
    LET q == [p EXCEPT !.st.sub.len = IF @ = 0 THEN 0 ELSE @ - 1]
    IN  IF q.st.sub.len = 0 THEN VncListed(q) ELSE q

VncStep(p, c) ==
    LET s == p.st.state
        n == Shifted(p.st.sub.sectype, c)
        with(k) == [p EXCEPT !.st.sub.sectype = k]
    IN  CASE s \in 0 .. 10 \/ s \in 200 .. 219 -> Go(p, s + 1)
          [] s = 11 -> VncVersion(p, c)
          [] s \in VncFirst -> Go(with(c), s + 1)
          [] s \in VncMiddle -> Go(with(n), s + 1)
          [] s = 53 -> VncChosen(with(n), n)
          [] s = 303 -> IF n = 0 THEN Transmit(Go(with(n), 200), "client init")
                        ELSE Go(with(n), 60)
          [] s = 63 -> Go(with(c), 64)      \* the low byte of the length alone
          [] s = 64 -> IF p.st.sub.sectype = 0 THEN Close(Go(p, VncDone))
                       ELSE with(p.st.sub.sectype - 1)
          [] s = 100 -> Go([p EXCEPT !.st.sub.len = c], IF c = 0 THEN 60 ELSE 101)
          [] s = 101 -> VncCount(p, c)
          [] s = 223 -> IF n = 0 THEN Close(Go(with(n), VncDone)) ELSE Go(with(n), 224)
          [] s = 224 -> IF p.st.sub.sectype = 1 THEN Close(Go(with(0), VncDone))
                        ELSE with(p.st.sub.sectype - 1)
          [] s = VncDone -> Close(p)
          [] OTHER -> p

----------------------------------------------------------------------------
(* telnet: every DO and DONT is answered WONT, every WILL and WONT DONT,   *)
(* once for each option and segment: nego is local to the call.            *)

IAC == 255
TelnetStates == <<"data", "iac", "do", "dont", "will", "wont", "sb", "sb data", "invalid">>
TelnetCommand == (240 :> "data" @@ 250 :> "sb" @@ 251 :> "will" @@
                  252 :> "wont" @@ 253 :> "do" @@ 254 :> "dont")

TelnetAnswer(verb) == IF verb \in {"do", "dont"} THEN "wont" ELSE "dont"

\* w is [state, nego].
TelnetByte(w, c) ==
    CASE w.state = "data" -> [w EXCEPT !.state = IF c = IAC THEN "iac" ELSE "data"]
      [] w.state = "iac" ->
            [w EXCEPT !.state = CASE c \in DOMAIN TelnetCommand -> TelnetCommand[c]
                                  [] c \in 241 .. 249 -> "data"
                                  [] OTHER -> "invalid"]
      [] w.state = "sb" -> [w EXCEPT !.state = "sb data"]
      [] w.state = "sb data" -> [w EXCEPT !.state = IF c = IAC THEN "iac" ELSE "sb data"]
      [] w.state \in {"do", "dont", "will", "wont"} ->
            [state |-> "data", nego |-> (c :> TelnetAnswer(w.state)) @@ w.nego]
      [] w.state = "invalid" -> w

TelnetParse(p, px) ==
    LET w == FoldLeft(TelnetByte, [state |-> TelnetStates[p.st.state + 1], nego |-> <<>>], px)
        q == Go(p, CHOOSE s \in 0 .. 8 : TelnetStates[s + 1] = w.state)
    IN  IF w.nego = <<>> THEN q
        ELSE Transmit(q, {<<option, w.nego[option]>> : option \in DOMAIN w.nego})

----------------------------------------------------------------------------
(* rdp: a connection confirm inside COTP inside TPKT.  Each layer gets the *)
(* bytes that are left of its packet or of the segment, says how many it   *)
(* has read, and the layer above takes them off its length.  In their last *)
(* states the lower layers say one more than they were given.              *)

RdpSub == [of |-> "rdp", tpkt |-> 0,
           cotp |-> [state |-> "LENGTH", type |-> 0, len |-> 0],
           cc |-> [state |-> "TYPE", type |-> 0, len |-> 0]]

CcStates == <<"TYPE", "FLAGS", "LENGTH", "RESERVED",
              "RESULT0", "RESULT1", "RESULT2", "RESULT3", "EXTRA">>
Aborted == -2                       \* an assertion has failed

CcNext(s) == CcStates[1 + CHOOSE i \in DOMAIN CcStates : CcStates[i] = s]

CcByte(r, c) ==
    LET next == [r EXCEPT !.state = CcNext(@)]
    IN  CASE r.state = "TYPE" -> [next EXCEPT !.type = c]
          [] r.state = "FLAGS" -> next
          [] r.state = "LENGTH" -> IF c < 4 THEN [r EXCEPT !.len = c, !.state = "UNKNOWN"]
                                   ELSE [next EXCEPT !.len = c - 4]
          [] r.state = "RESERVED" ->
                [r EXCEPT !.state = IF r.type \in {2, 3} THEN "RESULT0" ELSE "EXTRA"]
          [] r.state \in {"RESULT0", "RESULT1", "RESULT2", "RESULT3"} ->
                IF r.len = 0 THEN [r EXCEPT !.state = "EXTRA"]
                ELSE [next EXCEPT !.len = @ - 1]

\* cc_parse: r and the number of bytes it says it has read.
RECURSIVE CcParse(_, _)
CcParse(cc, px) ==
    IF px = <<>> THEN [r |-> cc, n |-> 0]
    ELSE IF cc.state \in {"EXTRA", "UNKNOWN"} THEN [r |-> cc, n |-> Len(px) + 1]
    ELSE LET rest == CcParse(CcByte(cc, Head(px)), Tail(px))
         IN  [rest EXCEPT !.n = @ + 1]

CotpStates == <<"LENGTH", "PDU_TYPE", "DSTREF0", "DSTREF1", "SRCREF0", "SRCREF1",
                "FLAGS", "CONTENT">>
CotpNext(s) == CotpStates[1 + CHOOSE i \in DOMAIN CotpStates : CotpStates[i] = s]

CotpByte(r, c) ==
    LET next == [r EXCEPT !.cotp.state = CotpNext(@)]
    IN  CASE r.cotp.state = "LENGTH" ->
                IF c < 6 THEN [r EXCEPT !.cotp.len = c, !.cotp.state = "UNKNOWN"]
                ELSE [next EXCEPT !.cotp.len = c - 6]
          [] r.cotp.state = "PDU_TYPE" -> [next EXCEPT !.cotp.type = c]
          [] r.cotp.state = "FLAGS" -> [next EXCEPT !.cc.state = "TYPE"]
          [] OTHER -> next

\* cotp_parse.  If cc_parse is given nothing to read, assert(bytes_parsed != 0)
\* fails.
RECURSIVE CotpParse(_, _)
CotpParse(r, px) ==
    LET size == IF r.cotp.len >= Len(px) THEN Len(px) ELSE r.cotp.len
        cc == CcParse(r.cc, SubSeq(px, 1, size))
        len == Wrap8(r.cotp.len + 256 - Wrap8(cc.n))
        q == [r EXCEPT !.cc = cc.r, !.cotp.len = len,
                       !.cotp.state = IF cc.n = 0 THEN "ASSERT"
                                      ELSE IF len # 0 THEN "CONTENT" ELSE "UNKNOWN"]
        after(n, rest) == [rest EXCEPT !.n = @ + n]
    IN  CASE px = <<>> -> [r |-> r, n |-> 0]
          [] px # <<>> /\ r.cotp.state = "UNKNOWN" -> [r |-> r, n |-> Len(px) + 1]
          [] px # <<>> /\ r.cotp.state = "CONTENT" /\ r.cotp.type # 208 ->
                [r |-> r, n |-> Len(px) + 1]
          [] px # <<>> /\ r.cotp.state = "CONTENT" /\ r.cotp.type = 208 ->
                IF cc.n = 0 \/ cc.n > Len(px) THEN [r |-> q, n |-> cc.n]
                ELSE after(cc.n, CotpParse(q, SubSeq(px, cc.n + 1, Len(px))))
          [] OTHER -> after(1, CotpParse(CotpByte(r, Head(px)), Tail(px)))

\* rdp_parse.  TPKT_LENGTH0 does not look at its byte.
RECURSIVE RdpParse(_, _)
RdpParse(p, px) ==
    LET s == p.st.state
        r == p.st.sub
        on(q) == RdpParse(q, Tail(px))
        len == r.tpkt * 256 + Head(px)
        size == IF r.tpkt >= Len(px) THEN Len(px) ELSE r.tpkt
        cotp == CotpParse(r, SubSeq(px, 1, size))
        left == Wrap16(r.tpkt + 65536 - Wrap16(cotp.n))
    IN  CASE px = <<>> -> p
          [] px # <<>> /\ s = 0 ->
                IF Head(px) # 3 THEN RdpParse(Go(p, 5), px)
                ELSE on([Go(p, 1) EXCEPT !.st.sub.tpkt = 0, !.st.sub.cotp.state = "LENGTH"])
          [] px # <<>> /\ s \in {1, 2} -> on(Go(p, s + 1))
          [] px # <<>> /\ s = 3 ->
                CASE len < 4 -> on([Go(p, 5) EXCEPT !.st.sub.tpkt = len])
                  [] len = 4 -> on([Go(p, 0) EXCEPT !.st.sub.tpkt = len])
                  [] OTHER -> on([Go(p, 4) EXCEPT !.st.sub.tpkt = len - 4])
          [] px # <<>> /\ s = 4 /\ cotp.r.cotp.state = "ASSERT" -> Go(p, Aborted)
          [] px # <<>> /\ s = 4 /\ cotp.r.cotp.state # "ASSERT" ->
                RdpParse([Go(p, IF left # 0 THEN 4 ELSE 0)
                            EXCEPT !.st.sub = [cotp.r EXCEPT !.tpkt = left]],
                         SubSeq(px, cotp.n + 1, Len(px)))
          [] OTHER -> p
=============================================================================
