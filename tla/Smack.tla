------------------------------- MODULE Smack -------------------------------
(***************************************************************************)
(* The multi-pattern search of smack1.c: an Aho-Corasick automaton is      *)
(* compiled from patterns, and a search goes on from segment to segment    *)
(* with one number for its state, the row in the low 24 bits and the       *)
(* matches still to be reported above them.                                *)
(*                                                                         *)
(* A pattern is [bytes, id, begin, wild]: begin anchors it to the start of *)
(* the input, a '*' in a wild one stands for any byte, and a byte 0x80 in  *)
(* an object id changes nothing.  Anchors at the end are used by no        *)
(* caller.  Rows are kept by number, but not the shifts and symbol tables  *)
(* that make them small.                                                   *)
(***************************************************************************)
EXTENDS ParserState, FiniteSets

Start == 256                        \* CHAR_ANCHOR_START
Other == 300                        \* a byte that no pattern has
NotFound == "none"
Star == Ch["*"]
High == 16777216                    \* 1 << 24

Pat(bytes, id, begin) ==
    [bytes |-> bytes, id |-> id, begin |-> begin, wild |-> FALSE, oid |-> FALSE]
Wild(bytes, id) == [Pat(bytes, id, TRUE) EXCEPT !.wild = TRUE]
ObjectId(bytes, id) == [Pat(bytes, id, TRUE) EXCEPT !.oid = TRUE]

Lower(bytes) == [i \in DOMAIN bytes |-> ToLower(bytes[i])]

\* char_to_symbol.
Symbols(pats) == UNION {{pats[i].bytes[j] : j \in DOMAIN pats[i].bytes} : i \in DOMAIN pats}
                 \cup {128 : i \in {k \in DOMAIN pats : pats[k].oid}}
Symbol(m, c) == LET s == IF m.nocase THEN ToLower(c) ELSE c
                IN  IF s \in m.symbols THEN s ELSE Other

----------------------------------------------------------------------------
(* Compilation.  A trie t has the transitions entered so far, the number of *)
(* rows and the ids that each row reports.                                 *)

\* The same function, which TLC evaluates here, once.
Table(f) == f @@ <<>>

CopyMatches(old, new) == old \o SelectSeq(new, LAMBDA id : ~\E i \in DOMAIN old : old[i] = id)

\* smack_add_prefixes, from row from on.
RECURSIVE AddPrefixes(_, _, _, _)
AddPrefixes(t, from, bytes, id) ==
    LET edge == <<from, Head(bytes)>>
        row == Len(t.ids)
    IN  IF bytes = <<>> THEN [t EXCEPT !.ids[from + 1] = CopyMatches(@, <<id>>)]
        ELSE IF edge \in DOMAIN t.goto THEN AddPrefixes(t, t.goto[edge], Tail(bytes), id)
        ELSE AddPrefixes([goto |-> t.goto @@ (edge :> row), ids |-> Append(t.ids, <<>>)],
                         row, Tail(bytes), id)

Anchored(pats) == \E i \in DOMAIN pats : pats[i].begin

\* smack_stage0_compile_prefixes.
RECURSIVE CompilePrefixes(_, _)
CompilePrefixes(t, pats) ==
    IF pats = <<>> THEN t
    ELSE CompilePrefixes(
            AddPrefixes(t, IF Head(pats).begin THEN t.goto[<<0, Start>>] ELSE 0,
                        Head(pats).bytes, Head(pats).id),
            Tail(pats))

EmptyTrie(pats) ==
    IF Anchored(pats) THEN [goto |-> (<<0, Start>> :> 1), ids |-> << <<>>, <<>> >>]
    ELSE [goto |-> <<>>, ids |-> << <<>> >>]

Fails(t, r, c) == <<r, c>> \notin DOMAIN t.goto /\ r # 0
Goto(t, r, c) == IF <<r, c>> \in DOMAIN t.goto THEN t.goto[<<r, c>>] ELSE 0

\* Where row r goes with c when it has no transition of its own.
RECURSIVE Follow(_, _, _, _)
Follow(t, fail, r, c) ==
    IF Fails(t, r, c) THEN Follow(t, fail, fail[r], c) ELSE Goto(t, r, c)

\* smack_stage1_generate_fails, for all the rows of one depth at a time: where
\* to go on when nothing follows, and what that row reports is reported too.
RECURSIVE GenerateFails(_, _, _)
GenerateFails(t, fail, rows) ==
    LET edges == {e \in DOMAIN t.goto : e[1] \in rows}
        next == {t.goto[e] : e \in edges}
        edge == [s \in next |-> CHOOSE e \in edges : t.goto[e] = s]
        links == [s \in next |-> LET e == edge[s]
                                 IN  IF e[1] = 0 THEN 0 ELSE Follow(t, fail, fail[e[1]], e[2])]
        ids == [i \in DOMAIN t.ids |->
                  IF i - 1 \in next THEN CopyMatches(t.ids[i], t.ids[links[i - 1] + 1])
                  ELSE t.ids[i]]
    IN  IF next = {} THEN [t |-> t, fail |-> fail]
        ELSE GenerateFails([t EXCEPT !.ids = ids], Table(fail @@ links), next)

(* m.row[<<r, c>>] is the row that follows row r with symbol c; ids[r] are *)
(* the patterns that row r reports.                                        *)

\* The automaton with its rows in that order: order[k] becomes row k (swap_rows,
\* over and over).
Arrange(m, order) ==
    LET new == Table([r \in DOMAIN order |-> CHOOSE k \in DOMAIN order : order[k] = r])
    IN  [m EXCEPT !.row = Table([rc \in DOMAIN m.row |-> new[m.row[<<order[rc[1]], rc[2]>>]]]),
                  !.ids = Table([r \in DOMAIN m.ids |-> m.ids[order[r]]])]

\* The first two rows change places if there are anchored patterns.
RootFirst(m) ==
    IF m.anchored THEN Arrange(m, Table([r \in DOMAIN m.ids |-> IF r < 2 THEN 1 - r ELSE r]))
    ELSE m

\* smack_stage3_sort: the rows that report something go to the end, from limit
\* on.
SortRows(m) ==
    LET rows == [k \in 1 .. Cardinality(DOMAIN m.ids) |-> k - 1]
        quiet == SelectSeq(rows, LAMBDA r : m.ids[r] = <<>>)
        order == quiet \o SelectSeq(rows, LAMBDA r : m.ids[r] # <<>>)
    IN  [Arrange(m, Table([r \in DOMAIN m.ids |-> order[r + 1]])) EXCEPT !.limit = Len(quiet)]

RECURSIVE Run(_, _, _)
Run(m, r, bytes) ==
    IF bytes = <<>> THEN r
    ELSE Run(m, m.row[<<r, Symbol(m, Head(bytes))>>], Tail(bytes))

\* smack_fixup_wildcards: at a '*', what would go back to the base row goes
\* on instead.  Transitions to any other row stay.
FixupWildcard(m, before) ==
    LET base == IF m.anchored THEN 1 ELSE 0
        r == Run(m, 0, before)
    IN  [m EXCEPT !.row = Table([rc \in DOMAIN @ |->
            IF rc[1] = r /\ @[rc] = base THEN @[<<r, Star>>] ELSE @[rc]])]

\* The first bytes of patterns that a '*' follows, in order.
BeforeStars(pat) ==
    SelectSeq([j \in DOMAIN pat.bytes |-> SubSeq(pat.bytes, 1, j - 1)],
              LAMBDA s : pat.wild /\ pat.bytes[Len(s) + 1] = Star)

RECURSIVE FixupPattern(_, _)
FixupPattern(m, befores) ==
    IF befores = <<>> THEN m
    ELSE FixupPattern(FixupWildcard(m, Head(befores)), Tail(befores))

RECURSIVE FixupWildcards(_, _)
FixupWildcards(m, pats) ==
    IF pats = <<>> THEN m
    ELSE FixupWildcards(FixupPattern(m, BeforeStars(Head(pats))), Tail(pats))

\* The SNMP hack: inside an object id, 0x80 changes nothing.
StayOn80(m, pats) ==
    LET inside == UNION {{Run(m, 0, SubSeq(pats[i].bytes, 1, n)) : n \in 0 .. Len(pats[i].bytes) - 1} :
                            i \in {k \in DOMAIN pats : pats[k].oid}}
    IN  [m EXCEPT !.row = Table([rc \in DOMAIN @ |->
            IF rc[1] \in inside /\ rc[2] = 128 THEN rc[1] ELSE @[rc]])]

\* smack_stage2_link_fails: every row has a transition for every symbol.
LinkFails(nocase, pats, g) ==
    LET rows == 0 .. Len(g.t.ids) - 1
    IN  [row |-> Table([rc \in rows \X (Symbols(pats) \cup {Other}) |->
                           Follow(g.t, g.fail, rc[1], rc[2])]),
         ids |-> Table([r \in rows |-> g.t.ids[r + 1]]),
         symbols |-> Symbols(pats), nocase |-> nocase,
         anchored |-> Anchored(pats), limit |-> 0]

\* smack_compile, of patterns in lower case if nocase.
CompileFor(nocase, pats) ==
    LET links == GenerateFails(CompilePrefixes(EmptyTrie(pats), pats), <<>>, {0})
        rooted == RootFirst(LinkFails(nocase, pats, links))
    IN  FixupWildcards(SortRows(StayOn80(rooted, pats)), pats)

Compile(pats) ==
    CompileFor(TRUE, [i \in DOMAIN pats |-> [pats[i] EXCEPT !.bytes = Lower(@)]])
CompileCase(pats) == CompileFor(FALSE, pats)

----------------------------------------------------------------------------
(* Searching.  Offsets count from 0.                                       *)

\* inner_match: the first row that reports something, or the end.
RECURSIVE InnerMatch(_, _, _, _)
InnerMatch(m, r, px, i) ==
    IF i >= Len(px) THEN [row |-> r, i |-> i]
    ELSE LET next == m.row[<<r, Symbol(m, px[i + 1])>>]
         IN  IF next >= m.limit THEN [row |-> next, i |-> i]
             ELSE InnerMatch(m, next, px, i + 1)

\* smack_next_match.
NextMatch(m, state) ==
    LET left == state \div High
    IN  IF left = 0 THEN [state |-> state, id |-> NotFound]
        ELSE [state |-> state - High, id |-> m.ids[state % High][left]]

\* smack_search_next.
SearchNext(m, state, px, i) ==
    IF state >= High
    THEN NextMatch(m, state) @@ [offset |-> i]
    ELSE LET e == InnerMatch(m, state, px, i)
             n == Len(m.ids[e.row])
         IN  NextMatch(m, e.row + n * High) @@
                [offset |-> e.i + (IF n > 0 THEN 1 ELSE 0)]

\* smack_search, whose callback hears of every match, first added first.
Search(m, state, px) ==
    FoldLeft(LAMBDA acc, c :
                LET r == m.row[<<acc.row, Symbol(m, c)>>]
                IN  [row |-> r, ids |-> acc.ids \o m.ids[r]],
             [row |-> state % High, ids |-> <<>>], px)

----------------------------------------------------------------------------
(* What a search should find, read off the patterns.                       *)

Fits(pat, text, end) ==
    LET n == Len(pat.bytes)
    IN  /\ IF pat.begin THEN end = n ELSE end >= n
        /\ \A j \in 1 .. n :
            \/ pat.wild /\ pat.bytes[j] = Star
            \/ ToLower(pat.bytes[j]) = ToLower(text[end - n + j])

MatchesAt(pats, text, end) == {pats[i].id : i \in {k \in DOMAIN pats : Fits(pats[k], text, end)}}
=============================================================================
