----------------------------- MODULE RangeList -----------------------------
(***************************************************************************)
(* Lists of ranges (struct RangeList of ranges.c): how the targets and the *)
(* ports of a scan are collected, sorted, reduced by the excludes, counted *)
(* and picked from.  A list is [list, sorted]; memory is left out.         *)
(***************************************************************************)
EXTENDS RangeOps, SequencesExt

Empty == [list |-> <<>>, sorted |-> FALSE]

IsContained(t, addr) ==
    \E i \in DOMAIN t.list :
        t.list[i].begin <= addr /\ addr <= t.list[i].end

AddRange(t, r) ==
    IF t.list = <<>> THEN [list |-> <<r>>, sorted |-> TRUE]
    ELSE IF IsOverlap(Last(t.list), r)
         THEN [list |-> Front(t.list) \o <<Combine(Last(t.list), r)>>,
               sorted |-> FALSE]
         ELSE [list |-> Append(t.list, r), sorted |-> FALSE]

\* What a list stands for; nothing in the code computes it.
AllMembers(t) == UNION {Members(t.list[k]) : k \in DOMAIN t.list}

\* Increasing and with a gap between neighbours.
Canonical(t) ==
    /\ \A k \in DOMAIN t.list : IsValid(t.list[k])
    /\ \A k \in 1 .. Len(t.list) - 1 : t.list[k].end + 1 < t.list[k + 1].begin

AddAll(t, ranges) ==
    LET added[k \in 0 .. Len(ranges)] ==
            IF k = 0 THEN t ELSE AddRange(added[k - 1], ranges[k])
    IN  added[Len(ranges)]

\* qsort with range_compare: r goes behind all that do not begin after it.
Insert(s, r) ==
    LET k == CHOOSE n \in 0 .. Len(s) :
                /\ \A j \in 1 .. n : s[j].begin <= r.begin
                /\ \A j \in (n + 1) .. Len(s) : s[j].begin > r.begin
    IN  SubSeq(s, 1, k) \o <<r>> \o SubSeq(s, k + 1, Len(s))
Ordered(list) ==
    LET s[k \in 0 .. Len(list)] == IF k = 0 THEN <<>> ELSE Insert(s[k - 1], list[k])
    IN  s[Len(list)]

\* Fault: the list is put in order but not merged.
Sort_NoMerge(t) == [list |-> Ordered(t.list), sorted |-> TRUE]

Sort(t) ==
    IF t.sorted \/ t.list = <<>> THEN [t EXCEPT !.sorted = TRUE]
    ELSE [list |-> AddAll(Empty, Ordered(t.list)).list, sorted |-> TRUE]

Merge(t, other) == Sort(AddAll(t, other.list))

----------------------------------------------------------------------------
(* rangelist_exclude: one pass over both sorted lists.  x is the exclude   *)
(* looked at; it moves forward only.                                       *)

\* The inner loop once, for the rest of a target: it stops at an exclude that
\* begins behind it.
ApplyOne(excl, s) ==
    IF s.x > Len(excl) \/ excl[s.x].begin > s.range.end THEN s
    ELSE LET a == ApplyExclude(excl[s.x], s.range)
             left == IF IsValid(a.split) THEN a.split ELSE a.target
         IN  [x |-> IF excl[s.x].begin > left.end THEN s.x ELSE s.x + 1,
              range |-> left,
              new |-> IF IsValid(a.split) THEN AddRange(s.new, a.target) ELSE s.new]

\* It goes round once for an exclude at most.
ApplyAll(excl, s) ==
    LET done[k \in 0 .. Len(excl)] == IF k = 0 THEN s ELSE ApplyOne(excl, done[k - 1])
    IN  done[Len(excl)]

\* while (x < excludes->count && excludes->list[x].end < range.begin) x++
ExcludeFrom(x, excl, r) ==
    CHOOSE y \in x .. (Len(excl) + 1) :
        /\ y > Len(excl) \/ excl[y].end >= r.begin
        /\ \A z \in x .. (y - 1) : excl[z].end < r.begin

\* What the excludes leave of the target r; s holds what they left so far.
Remnants(excl, s, r) ==
    LET end == ApplyAll(excl, [x |-> ExcludeFrom(s.x, excl, r), range |-> r, new |-> s.new])
    IN  [x |-> end.x,
         new |-> IF IsValid(end.range) THEN AddRange(end.new, end.range) ELSE end.new]

Exclude(t, e) ==
    LET targets == Sort(t).list
        left[k \in 0 .. Len(targets)] ==
            IF k = 0 THEN [x |-> 1, new |-> Empty]
            ELSE Remnants(e.list, left[k - 1], targets[k])
    IN  Sort([list |-> left[Len(targets)].new.list, sorted |-> TRUE])

----------------------------------------------------------------------------
(* Counting and picking.                                                   *)

SizeOf(r) == r.end - r.begin + 1

\* The addresses in the first k ranges.
Total(list) ==
    LET n[k \in 0 .. Len(list)] == IF k = 0 THEN 0 ELSE n[k - 1] + SizeOf(list[k])
    IN  n

Count(t) == Total(t.list)[Len(t.list)]

PickLinear(list, index) ==
    LET k == CHOOSE k \in DOMAIN list :
                /\ index < Total(list)[k]
                /\ \A j \in 1 .. (k - 1) : index >= Total(list)[j]
    IN  list[k].begin + (index - Total(list)[k - 1])

\* rangelist_optimize: the index of the first address of each range.  The
\* total is an unsigned of the width of an address.
Picker(t) == [i \in DOMAIN t.list |-> Total(t.list)[i - 1] % (MaxAddr + 1)]

\* The binary search of rangelist_pick, over the entries min .. max-1: once
\* round the loop, which stays where it breaks off, and as often as there are
\* entries.
Mid(w) == w.min + (w.max - w.min) \div 2
Halved(picker, index, w) ==
    IF index < picker[Mid(w) + 1] THEN [w EXCEPT !.max = Mid(w)]
    ELSE IF Mid(w) + 1 = Len(picker) \/ index < picker[Mid(w) + 2] THEN w
    ELSE [w EXCEPT !.min = Mid(w) + 1]
Search(picker, index) ==
    LET w[k \in 0 .. Len(picker)] ==
            IF k = 0 THEN [min |-> 0, max |-> Len(picker)]
            ELSE Halved(picker, index, w[k - 1])
    IN  Mid(w[Len(picker)]) + 1

Pick(t, index) ==
    LET picker == Picker(t)
        at == Search(picker, index)
    IN  t.list[at].begin + (index - picker[at])

----------------------------------------------------------------------------
(* rangelist_remove_range and rangelist_exclude2, the older way, which the *)
(* selftest compares with the one above.                                   *)

\* The loop once, at the i-th range.
RemoveAtOne(x, s) ==
    LET r == s.t.list[s.i]
        cut(b, e) == [s.t EXCEPT !.list[s.i] = Span(b, e)]
    IN  IF s.i > Len(s.t.list) THEN s
        ELSE CASE ~IsOverlap(r, x) -> [s EXCEPT !.i = @ + 1]
               [] x.begin <= r.begin /\ x.end >= r.end ->
                    [s EXCEPT !.t.list = RemoveAt(@, s.i)]
               [] x.begin > r.begin /\ x.end < r.end ->
                    [t |-> AddRange(cut(r.begin, x.begin - 1), Span(x.end + 1, r.end)),
                     i |-> s.i + 1]
               [] OTHER ->
                    [t |-> cut(IF x.end >= r.begin /\ x.end < r.end THEN x.end + 1 ELSE r.begin,
                               IF x.begin > r.begin /\ x.begin <= r.end THEN x.begin - 1 ELSE r.end),
                     i |-> s.i + 1]

\* A range is split once at most.
RemoveRange(t, x) ==
    LET s[k \in 0 .. (2 * Len(t.list))] ==
            IF k = 0 THEN [t |-> t, i |-> 1] ELSE RemoveAtOne(x, s[k - 1])
    IN  s[2 * Len(t.list)].t
Exclude2(t, e) == Sort(FoldLeft(RemoveRange, t, e.list))
=============================================================================
