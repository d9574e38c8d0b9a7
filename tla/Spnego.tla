------------------------------- MODULE Spnego -------------------------------
(***************************************************************************)
(* The decoder of security tokens inside SMB messages (spnego_decode of    *)
(* proto-x509.c) and of the NTLM message inside them (proto-ntlmssp.c).    *)
(* It uses the stack of X509.  It does not save its state: every fragment  *)
(* of a token begins as a token, with the stack of the one before.  And it *)
(* hands the NTLM message down once for each of its bytes, each time from  *)
(* the next byte on.                                                       *)
(***************************************************************************)
EXTENDS X509

Tags == {"negState", "supportedMech", "mechListMIC", "mechTypes", "reqFlags"}

\* What a tag c in a state contains, and what follows it at the same level.
Child(state, c) ==
    CASE state = "token" ->
            CASE c = 160 -> "init" [] c = 161 -> "resp" [] c = 96 -> "mechType" [] OTHER -> "skip"
      [] state = "init" -> IF c = 48 THEN "init choice" ELSE "skip"
      [] state = "resp" -> IF c = 48 THEN "resp choice" ELSE "skip"
      [] state = "init choice" ->
            CASE c \in {160, 161, 163} -> "tag" [] c = 162 -> "mechToken" [] OTHER -> "skip"
      [] state = "resp choice" ->
            CASE c \in {160, 161, 163} -> "tag" [] c = 162 -> "responseToken" [] OTHER -> "skip"
      [] state = "responseToken" -> "response"
      [] OTHER -> "skip"

Brother(state) == CASE state \in {"init choice", "resp choice"} -> state
                    [] state = "mechType" -> "token"
                    [] OTHER -> "skip"

TagStates == {"token", "init", "resp", "init choice", "resp choice", "mechType",
              "tag", "responseToken", "mechToken"}

NoNtlm == [length |-> 0, offset |-> 0, buf |-> FALSE]

\* spnego_decode_init.
SpnegoInit(n) ==
    [x |-> ASN1_push([state |-> "token", stack |-> <<>>, failed |-> FALSE,
                      lol |-> 0, num |-> 0, brother |-> "token", child |-> "token"],
                     "skip", n),
     ntlm |-> NoNtlm]

\* ntlmssp_decode of n bytes: a message that is not complete is kept in a
\* buffer, which is freed when it is.
NtlmDecode(ntlm, n) ==
    LET more == IF n < ntlm.length - ntlm.offset THEN n ELSE ntlm.length - ntlm.offset
    IN  CASE ntlm.offset = 0 /\ ntlm.length > more ->
                [ntlm EXCEPT !.buf = TRUE, !.offset = more]
          [] ntlm.offset # 0 ->
                [ntlm EXCEPT !.offset = @ + more,
                             !.buf = @ /\ ntlm.offset + more < ntlm.length]
          [] OTHER -> ntlm

\* The length n of a field is complete.
SpnegoDescend(x, n) ==
    [ASN1_push(x, x.brother, n) EXCEPT !.state = x.child, !.num = 0, !.lol = 0]

\* responseToken_content: left bytes of the fragment, this one included.
SpnegoToken(w, left) ==
    LET rem == w.x.stack[1].rem
        ntlm == IF w.x.state = "response"
                THEN [NoNtlm EXCEPT !.length = rem + 1] ELSE w.ntlm
        n == IF left < rem + 1 THEN left ELSE rem + 1
    IN  [x |-> [w.x EXCEPT !.state = "response2", !.stack[1].rem = @ - (n - 1)],
         ntlm |-> NtlmDecode(ntlm, n)]

\* One round of the loop of spnego_decode, with left bytes to come.
SpnegoField(w, x, c, left) ==
    CASE x.state \in TagStates ->
            [w EXCEPT !.x = [x EXCEPT !.brother = Brother(x.state),
                                      !.child = Child(x.state, c), !.state = "len"]]
      [] x.state = "len" ->
            [w EXCEPT !.x = IF c >= 128
                            THEN [x EXCEPT !.lol = c - 128, !.num = 0, !.state = "lenlen"]
                            ELSE SpnegoDescend(x, c)]
      [] x.state = "lenlen" ->
            [w EXCEPT !.x = IF x.lol = 1 THEN SpnegoDescend(x, Wrap16(x.num * 256 + c))
                            ELSE [x EXCEPT !.lol = Wrap8(@ + 255), !.num = Wrap16(@ * 256 + c)]]
      [] x.state \in {"response", "response2"} -> SpnegoToken([w EXCEPT !.x = x], left)
      [] OTHER -> [w EXCEPT !.x = x]

SpnegoInside(w, x, c, left) ==
    IF x.stack = <<>> THEN w
    ELSE SpnegoField(w, [x EXCEPT !.stack[1].rem = @ - 1], c, left)

SpnegoByte(w, c, left) == SpnegoInside(w, PopAll(w.x), c, left)

\* spnego_decode.
SpnegoDecode(w, px) ==
    LET q == FoldLeft(LAMBDA v, i : SpnegoByte(v, px[i], Len(px) - i + 1), w,
                      [i \in DOMAIN px |-> i])
    IN  [q EXCEPT !.x.state = IF q.x.failed THEN "skip" ELSE "token"]
=============================================================================
