-------------------------- MODULE PatternProtocols --------------------------
(***************************************************************************)
(* The parsers that search for patterns as they go: http and memcached.    *)
(* Offsets into a segment count from 0, and a search may move them.        *)
(***************************************************************************)
EXTENDS Smack

At0(px, i) == px[i + 1]
IsSpace(c) == c \in 9 .. 13 \/ c = 32
ToUpper(c) == IF c \in 97 .. 122 THEN c - 32 ELSE c

----------------------------------------------------------------------------
(* http.  The state of a search is kept in 16 bits between segments.       *)

HttpFields == Compile(<<
    Pat(Text(<<"S", "E", "R", "V", "E", "R", ":">>), "server", TRUE),
    Pat(Text(<<"V", "I", "A", ":">>), "via", TRUE),
    Pat(Text(<<"L", "O", "C", "A", "T", "I", "O", "N", ":">>), "location", TRUE),
    Pat(Text(<<":">>), "unknown", FALSE),
    Pat(<<LF>>, "newline", FALSE)>>)
HtmlFields == Compile(<<Pat(Text(<<"<", "T", "I", "T", "L", "E">>), "title", FALSE)>>)

HttpSub == [of |-> "http", s2 |-> 0, id |-> NotFound]
HttpHello == Text(<<"H", "T", "T", "P", "/">>)

HttpDone(w) == [w EXCEPT !.s = 16, !.close = TRUE]
HttpSkip(w, s) == [w EXCEPT !.s = s, !.i = @ + 1]

\* A search has ended with r.
HttpFound(w, r) == [w EXCEPT !.i = r.offset, !.s2 = r.state, !.id = r.id]

\* Of a known name and the ":" that ends it, the name is taken.
HttpNamed(w) ==
    LET next == NextMatch(HttpFields, w.s2)
    IN  CASE w.id = "newline" -> [w EXCEPT !.s2 = 0, !.s = 9]
          [] w.id = NotFound -> w
          [] w.id = "unknown" -> [w EXCEPT !.s = 11, !.s2 = next.state,
                                           !.id = IF next.id = NotFound THEN @ ELSE next.id]
          [] OTHER -> [w EXCEPT !.s = 11]

\* FIELD_NAME: the name of a field, or the end of the line.
HttpName(w, px) ==
    IF At0(px, w.i) = CR THEN HttpSkip(w, w.s)
    ELSE HttpNamed(HttpFound(w, SearchNext(HttpFields, w.s2, px, w.i)))

\* CONTENT, and CONTENT_TAG as far as the '>'.
HttpContent(w, px) ==
    LET v == HttpFound(w, SearchNext(HtmlFields, w.s2, px, w.i))
    IN  [v EXCEPT !.s = IF v.id # NotFound THEN 14 ELSE 13]

\* One round of the loop of http_parse, w = [s, s2, id, i, close].
HttpByte(w, px) ==
    LET c == At0(px, w.i)
        stay == HttpSkip(w, w.s)
    IN  CASE w.s \in 0 .. 4 ->
                IF ToUpper(c) = HttpHello[w.s + 1] THEN HttpSkip(w, w.s + 1) ELSE HttpDone(w)
          [] w.s = 5 -> IF c = Ch["."] THEN HttpSkip(w, 6)
                        ELSE IF IsDigit(c) THEN stay ELSE HttpDone(w)
          [] w.s = 6 -> IF IsSpace(c) THEN HttpSkip(w, 7)
                        ELSE IF IsDigit(c) THEN stay ELSE HttpDone(w)
          [] w.s = 7 -> IF c = LF THEN HttpSkip(w, 9) ELSE stay
          [] w.s = 9 -> CASE c = CR -> stay
                          [] c = LF -> [HttpSkip(w, 13) EXCEPT !.s2 = 0]
                          [] OTHER -> HttpName([w EXCEPT !.s = 10, !.s2 = 0], px)
          [] w.s = 10 -> HttpName(w, px)
          [] w.s = 11 -> CASE c = LF -> HttpSkip(w, 9)
                           [] c # LF /\ IsSpace(c) -> stay
                           [] OTHER -> HttpSkip(w, 12)
          [] w.s = 12 -> IF c = LF THEN HttpSkip(w, 9) ELSE stay
          [] w.s = 13 -> HttpContent(w, px)
          [] w.s = 14 -> IF c = Ch[">"] THEN HttpSkip(w, 15) ELSE stay
          [] w.s = 15 -> IF c = Ch["<"] THEN HttpSkip(w, 13) ELSE stay
          [] OTHER -> [w EXCEPT !.i = Len(px)]

RECURSIVE HttpLoop(_, _)
HttpLoop(w, px) == IF w.i >= Len(px) THEN w ELSE HttpLoop(HttpByte(w, px), px)

\* What banner_http leaves in the connection's state.
HttpKeep(p, w) ==
    IF w.s = 16
    THEN [p EXCEPT !.closing = w.close, !.st.state = 16, !.st.sub = HttpSub]
    ELSE [p EXCEPT !.st.state = w.s,
                   !.st.sub = [@ EXCEPT !.s2 = Wrap16(w.s2), !.id = w.id]]

\* Fault: the search begins anew with every segment.
HttpParse_Forgets(p, px) ==
    HttpKeep(p, HttpLoop([s |-> p.st.state, s2 |-> 0, id |-> p.st.sub.id,
                          i |-> 0, close |-> p.closing], px))

HttpParse(p, px) ==
    HttpKeep(p, HttpLoop([s |-> p.st.state, s2 |-> p.st.sub.s2, id |-> p.st.sub.id,
                          i |-> 0, close |-> p.closing], px))

----------------------------------------------------------------------------
(* memcached.  A keyword counts with the white space that follows it.  The *)
(* search for one begins anew at each segment, because state 0 resets it.  *)

Spaces == <<32, 9, CR, LF>>
Keyword(word, id) == [k \in 1 .. 4 |-> Pat(Append(word, Spaces[k]), id, TRUE)]

\* The responses that are told apart and one that is not.
McResponses == Compile(
    Keyword(Text(<<"S", "T", "A", "T">>), "stat") \o Keyword(Text(<<"E", "N", "D">>), "end")
        \o Keyword(Text(<<"O", "K">>), "other") \o Keyword(<<>>, "empty"))
McStats == Compile(
    Keyword(Text(<<"P", "I", "D">>), "other") \o Keyword(Text(<<"T", "I", "M", "E">>), "shown"))

McSub == [of |-> "memcached", match |-> 0]

McCommand(w, px, r) ==
    LET last == At0(px, r.offset - 1)
        s == CASE r.id = NotFound -> w.s
               [] r.id = "stat" -> IF last = LF THEN 2 ELSE 100
               [] r.id = "end" -> 3
               [] OTHER -> 2
    IN  [w EXCEPT !.i = r.offset, !.match = r.state, !.s = s]

McStat(w, px, r) ==
    LET last == At0(px, r.offset - 1)
        s == CASE r.id = NotFound -> w.s
               [] r.id # NotFound /\ last = LF -> 0
               [] r.id = "shown" /\ last # LF -> 200
               [] OTHER -> 2
    IN  [w EXCEPT !.i = r.offset, !.match = r.state, !.s = s]

\* State 2 looks for the end of the line; at the end of the segment it looks
\* at the byte behind it, which may be anything: isLF says what it is.
McByte(w, px, isLF) ==
    LET c == At0(px, w.i)
        skip(s) == [w EXCEPT !.s = s, !.i = @ + 1]
    IN  CASE w.s = 0 -> McCommand(w, px, SearchNext(McResponses, 0, px, w.i))
          [] w.s = 2 -> IF c = LF THEN skip(0)
                        ELSE IF w.i + 1 = Len(px) /\ isLF THEN skip(0) ELSE skip(2)
          [] w.s \in {100, 200} ->
                CASE c = LF -> skip(0)
                  [] c # LF /\ IsSpace(c) -> skip(w.s)
                  [] OTHER -> [w EXCEPT !.s = @ + 1, !.match = 0]
          [] w.s = 101 -> McStat(w, px, SearchNext(McStats, w.match, px, w.i))
          [] w.s = 201 -> skip(IF c = LF THEN 0 ELSE 201)
          [] OTHER -> [w EXCEPT !.i = Len(px)]

RECURSIVE McLoop(_, _, _)
McLoop(w, px, isLF) == IF w.i >= Len(px) THEN w ELSE McLoop(McByte(w, px, isLF), px, isLF)

MemcachedParse(p, px, isLF) ==
    LET w == McLoop([s |-> p.st.state, match |-> p.st.sub.match, i |-> 0], px, isLF)
    IN  [p EXCEPT !.st.state = w.s, !.st.sub.match = w.match]
=============================================================================
