------------------------------ MODULE SmbStream ------------------------------
(***************************************************************************)
(* The smb parser (proto-smb.c): NetBIOS records, in them messages of      *)
(* SMBv1 or SMBv2, in these headers, parameters, data and security tokens. *)
(*                                                                         *)
(* The parts of a message are handed down to parsers that read to the end  *)
(* of their part or of the segment.  In the second case the loop around    *)
(* them still counts a byte that is not there (for a token in SMBv1, two), *)
(* and takes it off the length of the record.                              *)
(***************************************************************************)
EXTENDS Spnego

\* nbt_state, as far as it is named here.
WORD_COUNT == 32
PARAMETERS == 33
DATA == 36
DATA_AFTER == 37
PARSE_HEADER == 43
PARSE_STRUCT == 46
UNTIL_BLOB == 47
PARSE_BLOB == 48
REMAINDER == 49
SMB_ERROR == 50

\* struct SMBSTUFF, with the two kinds of hdr.  flags2 is its high byte.
Smb1Header == [of |-> "smb1", command |-> 0, flags2 |-> 0, plen |-> 0, poff |-> 0,
               count |-> 0, off |-> 0, part |-> "begin", field |-> 1, on |-> FALSE, low |-> -1,
               key |-> FALSE, challenge |-> 0, blobLen |-> 0, blobOff |-> 0]
Smb2Header == [of |-> "smb2", header |-> 0, struct |-> 0, state |-> 0, off |-> 0,
               opcode |-> 0, seqno |-> <<0, 0, 0, 0>>, blobOff |-> 0, blobLen |-> 0]
SmbSub == [of |-> "smb", type |-> 0, len |-> 0, state |-> 0, hdr |-> Smb1Header,
           spnego |-> SpnegoInit(0)]

Bit(byte, n) == (byte \div n) % 2 = 1
Unicode(h) == Bit(h.flags2, 128)
Extended(h) == Bit(h.flags2, 8)

----------------------------------------------------------------------------
(* The strings at the end of SMBv1 messages, ASCII or Unicode, each with a *)
(* zero at its end.  on: a character of it has been written.               *)

Strings(h) == IF h.command = 114 THEN 2 ELSE 3

\* The second string of a negotiation is taken to have begun if the first was
\* not empty.
EndString(h) ==
    [h EXCEPT !.field = @ + 1, !.low = -1,
              !.on = @ /\ ~Unicode(h) /\ h.command = 114 /\ h.field = 1]

StringByte(h, c) ==
    CASE h.field > Strings(h) -> h
      [] h.field <= Strings(h) /\ ~Unicode(h) -> IF c = 0 THEN EndString(h) ELSE [h EXCEPT !.on = TRUE]
      [] OTHER -> IF h.low = -1 THEN [h EXCEPT !.low = c]
                  ELSE IF h.low = 0 /\ c = 0 THEN EndString(h)
                  ELSE [h EXCEPT !.low = -1, !.on = TRUE]

\* smb1_parse_negotiate1: the challenge, then a domain and a name.
Negotiate1(h, c) ==
    IF h.part = "begin" /\ h.challenge > 0 THEN [h EXCEPT !.challenge = @ - 1]
    ELSE StringByte([h EXCEPT !.part = "strings"], c)

\* smb1_parse_setup1: a byte of padding, then system, version and domain.
Setup1(h, c) ==
    IF h.part = "begin" THEN [h EXCEPT !.part = "strings"] ELSE StringByte(h, c)

\* Which of its two parsers the data of a message gets.  That of a negotiation
\* changes when the challenge has been counted down to 0.
HasToken(h) == h.command = 115 /\ (Extended(h) \/ h.blobLen > 0)
IsNegotiate2(h) == h.command = 114 /\ Extended(h) /\ h.challenge = 0

----------------------------------------------------------------------------
(* One byte inside a message.  w is the call p, the number of bytes to be  *)
(* skipped, whether a parser of a part has just stopped short of its end   *)
(* (short), which parser a negotiation's data has in this segment, and the *)
(* bytes of a token in this segment.                                       *)

Smb(w) == w.p.st.sub
To(w, state) == [w EXCEPT !.p.st.sub.state = state]
SetHdr(w, h) == [w EXCEPT !.p.st.sub.hdr = h]

\* smb_params_parse: where a parameter is kept that the rest depends on.
Param(h, c) ==
    CASE h.command = 114 /\ h.poff \in 15 .. 18 -> [h EXCEPT !.key = @ \/ c # 0]
      [] h.command = 114 /\ h.poff = 33 -> [h EXCEPT !.challenge = c]
      [] h.command = 115 /\ h.poff = 6 -> [h EXCEPT !.blobLen = c]
      [] h.command = 115 /\ h.poff = 7 -> [h EXCEPT !.blobLen = @ + 256 * c]
      [] OTHER -> h

\* The parameters are complete.
ParamsEnd(w) ==
    LET h == Smb(w).hdr
        setup == IF Extended(h) THEN "smb1 setup extended"
                 ELSE IF h.key THEN "smb1 setup with key" ELSE "smb1 setup"
    IN  To(IF h.command = 114 THEN [w EXCEPT !.p = Transmit(@, setup)] ELSE w, PARAMETERS + 1)

ParamsByte(w, c) ==
    LET h == Smb(w).hdr
        v == [SetHdr(w, [Param(h, c) EXCEPT !.poff = @ + 1]) EXCEPT !.short = TRUE]
    IN  IF h.poff + 1 < h.plen THEN v ELSE [ParamsEnd(v) EXCEPT !.short = FALSE]

\* The data has come to its end.
DataEnd(w) ==
    LET v == [To(w, DATA_AFTER) EXCEPT !.short = FALSE]
    IN  IF Smb(w).hdr.command = 115 THEN [v EXCEPT !.p = Close(@)] ELSE v

\* The token in SMBv1 data: init when it begins, decode what has come of it.
TokenMore(w, h, c) ==
    [w EXCEPT !.p.st.sub.hdr.blobOff = @ + 1, !.token = Append(@, c), !.short = TRUE,
              !.p.st.sub.spnego = IF h.blobOff = 0 THEN SpnegoInit(h.blobLen) ELSE @]
Decode(w) == [w EXCEPT !.p.st.sub.spnego = IF w.token = <<>> THEN @ ELSE SpnegoDecode(@, w.token),
                       !.token = <<>>]
TokenByte(w, c) ==
    LET h == Smb(w).hdr
        last == h.blobOff + 1 = h.blobLen
        cut == ~last /\ h.off + 1 = h.count
    IN  IF last \/ cut
        THEN [Decode(TokenMore(w, h, c)) EXCEPT !.p.st.sub.hdr.part = IF last THEN "strings" ELSE @,
                                                !.skip = IF cut THEN 1 ELSE @]
        ELSE TokenMore(w, h, c)

\* A byte of the data, of which there is more.
DataPart(w, h, c) ==
    IF h.command = 114 THEN SetHdr(w, IF w.second = "yes" THEN h ELSE Negotiate1(h, c))
    ELSE IF HasToken(h) /\ h.part = "begin" /\ h.blobLen > 0 THEN TokenByte(w, c)
    ELSE SetHdr([w EXCEPT !.p.st.sub.spnego =
                        IF HasToken(h) /\ h.part = "begin" THEN SpnegoInit(0) ELSE @],
                IF HasToken(h) THEN StringByte([h EXCEPT !.part = "strings"], c) ELSE Setup1(h, c))

Choose(w, h) ==
    [w EXCEPT !.short = TRUE,
              !.second = IF @ = "unknown" THEN IF IsNegotiate2(h) THEN "yes" ELSE "no" ELSE @]
DataCounted(w) ==
    LET v == [w EXCEPT !.p.st.sub.hdr.off = @ + 1]
    IN  IF Smb(v).hdr.off >= Smb(v).hdr.count THEN DataEnd(v) ELSE v

DataByte(w, h, c) ==
    CASE h.off >= h.count -> DataEnd(w)
      [] h.off < h.count /\ h.command \notin {114, 115} -> w
      [] OTHER -> DataCounted(DataPart(Choose(w, h), h, c))

----------------------------------------------------------------------------
\* smb2_parse_header, from the sixth byte on.
Header2(h, c) ==
    LET s == h.state
        next == [h EXCEPT !.state = @ + 1]
        k == 1 + ((s - 18) % 4)
    IN  CASE s = 6 -> [next EXCEPT !.opcode = c]
          [] s = 7 -> [next EXCEPT !.opcode = @ + 256 * c]
          [] s = 10 -> IF c % 2 = 0 THEN [h EXCEPT !.state = 54] ELSE next
          [] s \in 18 .. 25 -> [next EXCEPT !.seqno[k] = IF @ \in {0, c} THEN c ELSE IF c = 0 THEN @ ELSE 255]
          [] s >= 54 -> h
          [] OTHER -> next

HeaderByte(w, c) ==
    LET h == [Header2(Smb(w).hdr, c) EXCEPT !.off = @ + 1]
        v == [SetHdr(w, h) EXCEPT !.short = TRUE]
    IN  IF h.off < h.header THEN v ELSE [To(v, PARSE_HEADER + 1) EXCEPT !.short = FALSE]

\* smb2_parse_negotiate, smb2_parse_setup, smb2_parse_response: the place of
\* the token.
Struct2(h, c) ==
    LET first == CASE h.opcode = 0 -> 54 [] h.opcode = 1 -> 2 [] OTHER -> 0
        next == [h EXCEPT !.state = @ + 1]
    IN  CASE h.opcode > 1 \/ h.state > first + 3 -> h
          [] h.opcode <= 1 /\ h.state = first -> [next EXCEPT !.blobOff = c]
          [] h.opcode <= 1 /\ h.state = first + 1 -> [next EXCEPT !.blobOff = @ + 256 * c]
          [] h.opcode <= 1 /\ h.state = first + 2 -> [next EXCEPT !.blobLen = c]
          [] h.opcode <= 1 /\ h.state = first + 3 -> [next EXCEPT !.blobLen = @ + 256 * c]
          [] OTHER -> next

\* The structure is complete: answer, then look for the token.
StructEnd(w) ==
    LET h == Smb(w).hdr
        rest == h.blobLen = 0 \/ h.blobOff < h.header + h.struct
        v == CASE h.opcode = 0 /\ h.seqno = <<0, 0, 0, 0>> ->
                    [w EXCEPT !.p = Transmit(@, "smb2 negotiate")]
               [] h.opcode = 0 /\ h.seqno = <<1, 0, 0, 0>> ->
                    [w EXCEPT !.p = Transmit(@, "smb2 setup")]
               [] OTHER -> w
    IN  IF rest THEN [To(v, REMAINDER) EXCEPT !.short = FALSE]
        ELSE [To(v, UNTIL_BLOB) EXCEPT !.short = FALSE,
                                       !.p.st.sub.hdr.blobOff = @ - h.header - h.struct]

StructByte(w, c) ==
    LET h == [Struct2(Smb(w).hdr, c) EXCEPT !.off = @ + 1]
        v == [SetHdr(w, h) EXCEPT !.short = TRUE]
    IN  IF h.off < h.struct THEN v ELSE StructEnd(v)

BlobByte(w, c) ==
    LET h == Smb(w).hdr
        v == [w EXCEPT !.p.st.sub.hdr.blobLen = @ - 1, !.token = Append(@, c), !.short = TRUE]
    IN  IF h.blobLen > 1 THEN v
        ELSE [Decode(To(v, REMAINDER)) EXCEPT !.short = FALSE,
                                              !.p = IF h.opcode = 1 THEN Close(@) ELSE @]

----------------------------------------------------------------------------
SMBText == Text(<<"S", "M", "B">>)

\* The fixed part of a header of SMBv1.
Smb1Byte(w, c) ==
    LET s == Smb(w).state
        next == To(w, s + 1)
    IN  CASE s = 4 -> SetHdr(next, [Smb1Header EXCEPT !.command = c])
          [] s = 11 -> [next EXCEPT !.p.st.sub.hdr.flags2 = c]
          [] s = WORD_COUNT -> [next EXCEPT !.p.st.sub.hdr.plen = 2 * c]
          [] s = 34 -> [next EXCEPT !.p.st.sub.hdr.count = c]
          [] s = 35 -> [next EXCEPT !.p.st.sub.hdr.count = @ + 256 * c]
          [] OTHER -> next

Smb2Byte(w, c) ==
    LET s == Smb(w).state
        h == Smb(w).hdr
        next == To(w, s + 1)
        header == h.header + 256 * c
        struct == h.struct + 256 * c
    IN  CASE s = 41 -> SetHdr(next, [Smb2Header EXCEPT !.header = c])
          [] s = 42 -> IF header < 12 THEN [To(w, SMB_ERROR) EXCEPT !.p.st.sub.hdr.header = header]
                       ELSE SetHdr(next, [h EXCEPT !.header = header, !.off = 6])
          [] s = 44 -> [next EXCEPT !.p.st.sub.hdr.struct = c]
          [] s = 45 -> LET even == [h EXCEPT !.struct = struct - (struct % 2), !.state = 0, !.off = 2]
                       IN  SetHdr(IF struct < 2 THEN To(w, SMB_ERROR) ELSE next, even)

\* One round of the loop of smb_parse_smb.
SmbByte(w0, c) ==
    LET w == [w0 EXCEPT !.short = FALSE]
        s == Smb(w).state
        h == Smb(w).hdr
    IN  CASE w0.skip > 0 -> [w EXCEPT !.skip = 0]
          [] w0.skip = 0 /\ s = 0 ->
                To(w, CASE c = 255 -> 1 [] c = 254 -> 38 [] OTHER -> SMB_ERROR)
          [] w0.skip = 0 /\ s \in 1 .. 3 -> To(w, IF c = SMBText[s] THEN s + 1 ELSE SMB_ERROR)
          [] w0.skip = 0 /\ s \in 38 .. 40 -> To(w, IF c = SMBText[s - 37] THEN s + 1 ELSE SMB_ERROR)
          [] w0.skip = 0 /\ s \in (4 .. WORD_COUNT) \cup {34, 35} -> Smb1Byte(w, c)
          [] w0.skip = 0 /\ s = PARAMETERS ->
                IF h.plen = 0 THEN Smb1Byte(ParamsEnd(w), c) ELSE ParamsByte(w, c)
          [] w0.skip = 0 /\ s = DATA -> DataByte(w, h, c)
          [] w0.skip = 0 /\ s \in {41, 42, 44, 45} -> Smb2Byte(w, c)
          [] w0.skip = 0 /\ s = PARSE_HEADER -> HeaderByte(w, c)
          [] w0.skip = 0 /\ s = PARSE_STRUCT ->
                IF h.struct > 2 THEN StructByte(w, c) ELSE StructEnd(w)
          [] w0.skip = 0 /\ s = UNTIL_BLOB /\ h.blobOff > 0 -> [w EXCEPT !.p.st.sub.hdr.blobOff = @ - 1]
          [] w0.skip = 0 /\ (s = PARSE_BLOB \/ (s = UNTIL_BLOB /\ h.blobOff <= 0)) ->
                BlobByte(IF s = PARSE_BLOB THEN w
                         ELSE [To(w, PARSE_BLOB) EXCEPT !.p.st.sub.spnego = SpnegoInit(h.blobLen)], c)
          [] OTHER -> w

\* Where the segment, or the record, ends inside a part: the bytes that are
\* counted too many, and what has come of a token is decoded.
Ended(w) ==
    LET h == Smb(w).hdr
        cut == w.short /\ Smb(w).state = DATA /\ w.token # <<>>
    IN  [p |-> IF cut THEN DataCounted(Decode(w)).p ELSE Decode(w).p,
         over |-> CASE ~w.short -> w.skip
                    [] cut -> IF h.off + 1 >= h.count THEN 1 ELSE 2
                    [] OTHER -> 1]

\* smb_parse_smb, of a piece that ends with the segment or the record.  Below
\* 0, the length has wrapped and no segment reaches it.
Counted(end, n) == [p |-> [end.p EXCEPT !.st.sub.len = @ - (n + end.over)], n |-> n + end.over]
SmbMessage(p, px) ==
    Counted(Ended(FoldLeft(SmbByte, [p |-> p, skip |-> 0, short |-> FALSE,
                                     second |-> "unknown", token |-> <<>>], px)), Len(px))

----------------------------------------------------------------------------
\* The header of a record is complete.
NbtBegin(p) ==
    CASE p.st.sub.type = 0 -> [Go(p, 5) EXCEPT !.st.sub.state = 0]
      [] p.st.sub.type \in {129, 132} -> Go(p, 7)
      [] p.st.sub.type = 130 -> Transmit(Go(p, 6), "smb1 hello")
      [] p.st.sub.type = 133 -> Go(p, 6)
      [] OTHER -> Go(p, 4)

\* smb_parse_record, but for the messages.
NbtByte(p, c) ==
    LET s == p.st.state
        longer == [p EXCEPT !.st.sub.len = @ * 256 + c]
    IN  CASE s = 0 \/ (s = 6 /\ p.st.sub.len = 0) ->
                [Go(p, 1) EXCEPT !.st.sub.type = c, !.st.sub.spnego.ntlm.buf = FALSE]
          [] s = 1 -> [Go(p, 2) EXCEPT !.st.sub.len = c % 2]
          [] s = 2 -> Go(longer, 3)
          [] s = 3 -> NbtBegin(longer)
          [] s = 4 -> Go(p, 6)
          [] s = 6 /\ p.st.sub.len # 0 -> [p EXCEPT !.st.sub.len = @ - 1]
          [] OTHER -> p

\* What of the segment belongs to the record.
Within(px, len) == IF len \in 0 .. Len(px) - 1 THEN SubSeq(px, 1, len) ELSE px
Behind(px, n) == SubSeq(px, n + 1, Len(px))

RECURSIVE SmbParse(_, _)
SmbResume(m, px) ==
    IF m.p.st.sub.len = 0 THEN SmbParse(Go(m.p, 0), Behind(px, m.n))
    ELSE SmbParse(m.p, Behind(px, m.n + 1))
SmbParse(p, px) ==
    CASE px = <<>> -> p
      [] px # <<>> /\ p.st.state # 5 -> SmbParse(NbtByte(p, Head(px)), Tail(px))
      [] OTHER -> SmbResume(SmbMessage(p, Within(px, p.st.sub.len)), px)
=============================================================================
