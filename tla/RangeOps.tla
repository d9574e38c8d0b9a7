------------------------------ MODULE RangeOps ------------------------------
(***************************************************************************)
(* One range of IPv4 addresses or ports (struct Range of ranges.c), both   *)
(* ends included.  Addresses are unsigned integers up to MaxAddr, which is *)
(* 0xFFFFFFFF in the program.                                              *)
(***************************************************************************)
EXTENDS Integers

CONSTANT MaxAddr

ASSUME RangeAssumption == MaxAddr \in Nat /\ MaxAddr >= 2

Addrs == 0 .. MaxAddr
Spans == [begin : Addrs, end : Addrs]

Span(b, e) == [begin |-> b, end |-> e]
INVALID_RANGE == Span(2, 1)
IsValid(r) == r.begin <= r.end

\* What a range stands for; nothing in the code computes it.
Members(r) == r.begin .. r.end

\* range_is_overlap: neighbours count as overlapping.
Joins(l, r) ==
    \/ l.begin < r.begin /\ (l.end = MaxAddr \/ l.end + 1 >= r.begin)
    \/ l.begin >= r.begin /\ l.end <= r.end

IsOverlap(l, r) == Joins(l, r) \/ Joins(r, l)

Combine(l, r) ==
    Span(IF l.begin > r.begin THEN r.begin ELSE l.begin,
         IF l.end < r.end THEN r.end ELSE l.end)

\* range_apply_exclude: what is left of the target, and the part above the
\* exclude when the target is split.
ApplyExclude(x, t) ==
    LET only(r) == [target |-> r, split |-> INVALID_RANGE]
    IN  CASE t.begin > x.end \/ t.end < x.begin -> only(t)
          [] t.begin >= x.begin /\ t.end <= x.end -> only(INVALID_RANGE)
          [] t.begin >= x.begin /\ t.end > x.end /\ t.begin <= x.end ->
                only(Span(x.end + 1, t.end))
          [] t.begin < x.begin /\ t.end <= x.end /\ t.end >= x.begin ->
                only(Span(t.begin, x.begin - 1))
          [] t.begin < x.begin /\ t.end > x.end ->
                [target |-> Span(t.begin, x.begin - 1),
                 split |-> Span(x.end + 1, t.end)]

=============================================================================
