--------------------------- MODULE Timeouts_proofs ---------------------------
(***************************************************************************)
(* The timeout ring implements a set of timers, for every number of slots  *)
(* and entries and every delay.  That entries are linked once and in the   *)
(* slot of their timestamp needs no more than the calls; that none is      *)
(* passed by needs delays longer than what the clocks may disagree by.     *)
(***************************************************************************)
EXTENDS Timeouts, TLAPS

In(list, e) == \E k \in DOMAIN list : list[k] = e
Injective(list) == \A k, j \in DOMAIN list : list[k] = list[j] => k = j

OnceEach == \A s \in Lists : Injective(slots[s])
SlotKept == \A s \in Lists, e \in Entries :
                In(slots[s], e) => SlotOf(timestamp[e]) = s

\* What holds of the lists whatever the delays.
IndInv == TypeOK /\ OnceEach /\ SlotKept

\* And what holds when every delay exceeds Jitter: a packet cannot be so much
\* older than the last one that an entry it arms is behind the ring.
Ahead ==
    /\ currentIndex <= now + 1 + Jitter
    /\ \A s \in Lists, e \in Entries :
          In(slots[s], e) => timestamp[e] >= currentIndex

----------------------------------------------------------------------------
(* Lists *)

LEMMA ConcatFacts ==
    ASSUME NEW S, NEW a \in Seq(S), NEW b \in Seq(S)
    PROVE  /\ a \o b \in Seq(S)
           /\ Len(a \o b) = Len(a) + Len(b)
           /\ \A i \in 1 .. (Len(a) + Len(b)) :
                 (a \o b)[i] = IF i <= Len(a) THEN a[i] ELSE b[i - Len(a)]
OBVIOUS

LEMMA WithoutFacts ==
    ASSUME NEW S, NEW list \in Seq(S), NEW e, Injective(list)
    PROVE  /\ Without(list, e) \in Seq(S)
           /\ Injective(Without(list, e))
           /\ \A x : In(Without(list, e), x) <=> In(list, x) /\ x # e
<1>1. CASE ~In(list, e)
    BY <1>1 DEF Without, In
<1>2. CASE In(list, e)
    <2> DEFINE k == CHOOSE j \in DOMAIN list : list[j] = e
               w == SubSeq(list, 1, k - 1) \o SubSeq(list, k + 1, Len(list))
    <2>1. k \in DOMAIN list /\ list[k] = e
        BY <1>2 DEF In
    <2>2. Without(list, e) = w
        BY <1>2 DEF Without, In, RemoveAt
    <2>3. k \in 1 .. Len(list) /\ Len(list) \in Nat
        BY <2>1
    <2> HIDE DEF k
    <2>4. PICK a : a = SubSeq(list, 1, k - 1)
        OBVIOUS
    <2>5. PICK b : b = SubSeq(list, k + 1, Len(list))
        OBVIOUS
    <2>6. a \in Seq(S) /\ Len(a) = k - 1 /\ \A i \in 1 .. (k - 1) : a[i] = list[i]
        BY <2>3, <2>4
    <2>7. /\ b \in Seq(S) /\ Len(b) = Len(list) - k
          /\ \A i \in 1 .. (Len(list) - k) : b[i] = list[k + i]
        BY <2>3, <2>5
    <2>8. /\ w \in Seq(S) /\ Len(w) = Len(list) - 1
          /\ \A i \in 1 .. (Len(list) - 1) :
                w[i] = IF i < k THEN list[i] ELSE list[i + 1]
        <3>1. w = a \o b
            BY <2>4, <2>5
        <3> HIDE DEF w
        <3>2. /\ w \in Seq(S) /\ Len(w) = Len(a) + Len(b)
              /\ \A i \in 1 .. (Len(a) + Len(b)) :
                    w[i] = IF i <= Len(a) THEN a[i] ELSE b[i - Len(a)]
            BY <2>6, <2>7, <3>1, ConcatFacts
        <3>3. Len(w) = Len(list) - 1
            BY <2>3, <2>6, <2>7, <3>2
        <3>4. ASSUME NEW i \in 1 .. (Len(list) - 1)
              PROVE  w[i] = IF i < k THEN list[i] ELSE list[i + 1]
            <4>1. i < k => i \in 1 .. (k - 1) /\ i <= Len(a)
                BY <2>3, <2>6
            <4>2. i >= k => i - Len(a) \in 1 .. (Len(list) - k) /\ ~(i <= Len(a))
                              /\ k + (i - Len(a)) = i + 1
                BY <2>3, <2>6
            <4>3. w[i] = IF i <= Len(a) THEN a[i] ELSE b[i - Len(a)]
                BY <3>2, <3>3
            <4>4. (i < k => w[i] = list[i]) /\ (i >= k => w[i] = list[i + 1])
                BY <2>6, <2>7, <4>1, <4>2, <4>3
            <4>5. i < k \/ i >= k
                BY <2>3
            <4> QED
                BY <2>3, <4>4, <4>5
        <3> QED
            BY <3>2, <3>3, <3>4
    <2> HIDE DEF w
    <2>9. DOMAIN w = 1 .. (Len(list) - 1) /\ DOMAIN list = 1 .. Len(list)
        BY <2>8
    <2>10. Injective(w)
        BY SMTT(40), <2>3, <2>8, <2>9 DEF Injective
    <2>11. ASSUME NEW x PROVE In(w, x) <=> In(list, x) /\ x # e
        <3>1. ASSUME In(w, x) PROVE In(list, x) /\ x # e
            <4>1. PICK i \in 1 .. (Len(list) - 1) : w[i] = x
                BY <2>9, <3>1 DEF In
            <4>2. PICK j \in 1 .. Len(list) : j # k /\ list[j] = x
                BY <2>3, <2>8, <4>1
            <4> QED
                BY <2>1, <2>9, <4>2 DEF In, Injective
        <3>2. ASSUME In(list, x), x # e PROVE In(w, x)
            <4>1. PICK j \in 1 .. Len(list) : list[j] = x
                BY <2>9, <3>2 DEF In
            <4>2. j # k
                BY <2>1, <3>2, <4>1
            <4>3. CASE j < k
                <5>1. j \in 1 .. (Len(list) - 1) /\ w[j] = x
                    BY <2>3, <2>8, <4>1, <4>3
                <5> QED
                    BY <2>9, <5>1 DEF In
            <4>4. CASE j > k
                <5>1. j - 1 \in 1 .. (Len(list) - 1) /\ w[j - 1] = x
                    BY <2>3, <2>8, <4>1, <4>4
                <5> QED
                    BY <2>9, <5>1 DEF In
            <4> QED
                BY <2>3, <4>2, <4>3, <4>4
        <3> QED
            BY <3>1, <3>2
    <2> QED
        BY <2>2, <2>8, <2>10, <2>11
<1> QED
    BY <1>1, <1>2

LEMMA HeadFacts ==
    ASSUME NEW S, NEW list \in Seq(S), NEW e \in S, Injective(list), ~In(list, e)
    PROVE  /\ <<e>> \o list \in Seq(S)
           /\ Injective(<<e>> \o list)
           /\ \A x : In(<<e>> \o list, x) <=> x = e \/ In(list, x)
<1> DEFINE h == <<e>> \o list
<1>1. /\ h \in Seq(S) /\ Len(h) = Len(list) + 1 /\ Len(list) \in Nat
      /\ h[1] = e /\ \A i \in 1 .. Len(list) : h[i + 1] = list[i]
    OBVIOUS
<1> HIDE DEF h
<1>2. DOMAIN h = 1 .. (Len(list) + 1) /\ DOMAIN list = 1 .. Len(list)
    BY <1>1
<1>3. ASSUME NEW i \in DOMAIN h
      PROVE  i = 1 \/ \E j \in DOMAIN list : i = j + 1 /\ h[i] = list[j]
    <2>1. i # 1 => i - 1 \in 1 .. Len(list) /\ h[(i - 1) + 1] = list[i - 1] /\ (i - 1) + 1 = i
        BY <1>1, <1>2
    <2> QED
        BY <1>2, <2>1
<1>4. Injective(h)
    <2> SUFFICES ASSUME NEW i \in DOMAIN h, NEW j \in DOMAIN h, h[i] = h[j]
                 PROVE  i = j
        BY DEF Injective
    <2>1. CASE i = 1
        BY <1>1, <1>3, <2>1 DEF In
    <2>2. CASE i # 1
        BY <1>1, <1>3, <2>2 DEF Injective, In
    <2> QED
        BY <2>1, <2>2
<1>5. ASSUME NEW x PROVE In(h, x) <=> x = e \/ In(list, x)
    <2>1. ASSUME In(h, x) PROVE x = e \/ In(list, x)
        <3>1. PICK i \in DOMAIN h : h[i] = x
            BY <2>1 DEF In
        <3> QED
            BY <1>1, <1>3, <3>1 DEF In
    <2>2. In(h, e)
        BY <1>1, <1>2 DEF In
    <2>3. ASSUME In(list, x) PROVE In(h, x)
        <3>1. PICK i \in 1 .. Len(list) : list[i] = x
            BY <1>2, <2>3 DEF In
        <3>2. i + 1 \in 1 .. (Len(list) + 1) /\ h[i + 1] = x
            BY <1>1, <3>1
        <3> QED
            BY <1>2, <3>2 DEF In
    <2> QED
        BY <2>1, <2>2, <2>3
<1>6. /\ h \in Seq(S) /\ Injective(h)
      /\ \A x : In(h, x) <=> x = e \/ In(list, x)
    BY <1>1, <1>4, <1>5
<1> QED
    BY <1>6 DEF h

LEMMA SlotType ==
    ASSUME NEW t \in Nat
    PROVE  SlotOf(t) \in Lists
BY TimeoutsAssumption DEF SlotOf, Lists

----------------------------------------------------------------------------
(* The lists are sound *)

LEMMA ListsInit == Init => IndInv
<1> SUFFICES ASSUME Init PROVE IndInv
    OBVIOUS
<1>1. now \in Nat
    BY TimeoutsAssumption DEF Init
<1>2. << >> \in Seq(Entries)
    OBVIOUS
<1>3. TypeOK
    BY <1>1, <1>2 DEF Init, TypeOK
<1> QED
    BY <1>3 DEF IndInv, OnceEach, SlotKept, Injective, In, Init

\* What an unlinking of e in every list leaves.
LEMMA Unlinked ==
    ASSUME IndInv, NEW e \in Entries, NEW s \in Lists
    PROVE  /\ Without(slots[s], e) \in Seq(Entries)
           /\ Injective(Without(slots[s], e))
           /\ \A x : In(Without(slots[s], e), x) <=> In(slots[s], x) /\ x # e
<1>1. slots[s] \in Seq(Entries) /\ Injective(slots[s])
    BY DEF IndInv, TypeOK, OnceEach
<1> QED
    BY <1>1, WithoutFacts

\* What timeouts_add does to the lists.
LEMMA AddLists ==
    ASSUME IndInv, NEW e \in Entries, NEW t \in Nat, Add(e, t)
    PROVE  /\ slots' \in [Lists -> Seq(Entries)]
           /\ \A s \in Lists : Injective(slots'[s])
           /\ \A s \in Lists, x \in Entries :
                 In(slots'[s], x) <=> IF x = e THEN s = SlotOf(t) ELSE In(slots[s], x)
<1>1. slots' = [s \in Lists |->
                  IF s = SlotOf(t) THEN <<e>> \o Without(slots[s], e)
                  ELSE Without(slots[s], e)]
    BY DEF Add
<1>2. ASSUME NEW s \in Lists
      PROVE  /\ slots'[s] \in Seq(Entries)
             /\ Injective(slots'[s])
             /\ \A x \in Entries :
                   In(slots'[s], x) <=> IF x = e THEN s = SlotOf(t) ELSE In(slots[s], x)
    <2>1. PICK w : w = Without(slots[s], e)
        OBVIOUS
    <2>2. /\ w \in Seq(Entries) /\ Injective(w)
          /\ \A x : In(w, x) <=> In(slots[s], x) /\ x # e
        BY <2>1, Unlinked
    <2>3. CASE s = SlotOf(t)
        <3>1. slots'[s] = <<e>> \o w
            BY <1>1, <2>1, <2>3
        <3>2. ~In(w, e)
            BY <2>2
        <3>3. /\ <<e>> \o w \in Seq(Entries) /\ Injective(<<e>> \o w)
              /\ \A x : In(<<e>> \o w, x) <=> x = e \/ In(w, x)
            BY <2>2, <3>2, HeadFacts
        <3> QED
            BY <2>2, <2>3, <3>1, <3>3
    <2>4. CASE s # SlotOf(t)
        <3>1. slots'[s] = w
            BY <1>1, <2>1, <2>4
        <3> QED
            BY <2>2, <2>4, <3>1
    <2> QED
        BY <2>3, <2>4
<1> QED
    BY <1>1, <1>2

\* What timeout_unlink does to them.
LEMMA UnlinkLists ==
    ASSUME IndInv, NEW e \in Entries,
           slots' = [s \in Lists |-> Without(slots[s], e)]
    PROVE  /\ slots' \in [Lists -> Seq(Entries)]
           /\ \A s \in Lists : Injective(slots'[s])
           /\ \A s \in Lists, x \in Entries :
                 In(slots'[s], x) <=> In(slots[s], x) /\ x # e
BY Unlinked

\* The head of slot c's ripe entries.
LEMMA FoundLists ==
    ASSUME IndInv, RemoveFound
    PROVE  \E c \in Nat, e \in Entries :
              /\ c \in currentIndex .. now
              /\ \A b \in currentIndex .. (c - 1) : Ripe(b) = {}
              /\ In(slots[SlotOf(c)], e) /\ timestamp[e] <= now
              /\ answer' = e
              /\ timestamp' = [timestamp EXCEPT ![e] = 0]
              /\ currentIndex' = c
              /\ slots' \in [Lists -> Seq(Entries)]
              /\ \A s \in Lists : Injective(slots'[s])
              /\ \A s \in Lists, x \in Entries :
                    In(slots'[s], x) <=> In(slots[s], x) /\ x # e
<1>1. PICK c \in currentIndex .. now :
          /\ \A b \in currentIndex .. (c - 1) : Ripe(b) = {}
          /\ \E k \in Ripe(c) :
                LET e == slots[SlotOf(c)][k]
                IN  /\ answer' = e
                    /\ slots' = [slots EXCEPT ![SlotOf(c)] = Without(@, e)]
                    /\ timestamp' = [timestamp EXCEPT ![e] = 0]
          /\ currentIndex' = c
    BY DEF RemoveFound
<1>2. c \in Nat /\ SlotOf(c) \in Lists
    BY SlotType DEF IndInv, TypeOK
<1>3. PICK k \in DOMAIN slots[SlotOf(c)] :
          /\ timestamp[slots[SlotOf(c)][k]] <= now
          /\ answer' = slots[SlotOf(c)][k]
          /\ slots' = [slots EXCEPT ![SlotOf(c)] = Without(@, slots[SlotOf(c)][k])]
          /\ timestamp' = [timestamp EXCEPT ![slots[SlotOf(c)][k]] = 0]
    BY <1>1 DEF Ripe
<1>4. PICK e : e = slots[SlotOf(c)][k]
    OBVIOUS
<1>5. slots \in [Lists -> Seq(Entries)]
    BY DEF IndInv, TypeOK
<1>6. e \in Entries /\ In(slots[SlotOf(c)], e)
    BY <1>2, <1>3, <1>4, <1>5 DEF In
<1>7. slots' = [slots EXCEPT ![SlotOf(c)] = Without(@, e)]
    BY <1>3, <1>4
<1>8. ASSUME NEW s \in Lists
      PROVE  /\ slots'[s] \in Seq(Entries) /\ Injective(slots'[s])
             /\ \A x \in Entries : In(slots'[s], x) <=> In(slots[s], x) /\ x # e
    <2>1. CASE s = SlotOf(c)
        <3>1. slots'[s] = Without(slots[s], e)
            BY <1>5, <1>7, <2>1
        <3> QED
            BY ZenonT(40), <1>6, <3>1, Unlinked
    <2>2. CASE s # SlotOf(c)
        <3>1. slots'[s] = slots[s]
            BY <1>5, <1>7, <2>2
        <3>2. ~In(slots[s], e)
            BY <1>2, <1>6, <2>2 DEF IndInv, SlotKept
        <3> QED
            BY <1>5, <3>1, <3>2 DEF IndInv, OnceEach
    <2> QED
        BY <2>1, <2>2
<1>9. slots' \in [Lists -> Seq(Entries)]
    BY <1>5, <1>7, <1>8
<1> QED
    BY <1>1, <1>2, <1>3, <1>4, <1>6, <1>8, <1>9

LEMMA ListsStep == IndInv /\ [Next]_vars => IndInv'
<1> SUFFICES ASSUME IndInv, [Next]_vars PROVE IndInv'
    OBVIOUS
<1> USE DEF IndInv
<1>1. ASSUME NEW t \in 0 .. MaxTime, Arrive(t) PROVE IndInv'
    BY <1>1, TimeoutsAssumption DEF Arrive, TypeOK, OnceEach, SlotKept
<1>2. ASSUME NEW e \in Entries, NEW d \in Delays, Add(e, now + d) PROVE IndInv'
    <2>1. now + d \in Nat
        BY TimeoutsAssumption DEF TypeOK
    <2>2. /\ slots' \in [Lists -> Seq(Entries)]
          /\ \A s \in Lists : Injective(slots'[s])
          /\ \A s \in Lists, x \in Entries :
                In(slots'[s], x) <=> IF x = e THEN s = SlotOf(now + d) ELSE In(slots[s], x)
        BY <1>2, <2>1, AddLists
    <2>3. timestamp' = [timestamp EXCEPT ![e] = now + d]
        BY <1>2 DEF Add
    <2>4. TypeOK'
        BY <1>2, <2>1, <2>2, <2>3 DEF TypeOK, Add
    <2>5. SlotKept'
        BY <2>2, <2>3 DEF SlotKept, TypeOK
    <2> QED
        BY <2>2, <2>4, <2>5 DEF OnceEach
<1>3. ASSUME NEW e \in Entries, Unlink(e) PROVE IndInv'
    <2>1. /\ slots' \in [Lists -> Seq(Entries)]
          /\ \A s \in Lists : Injective(slots'[s])
          /\ \A s \in Lists, x \in Entries :
                In(slots'[s], x) <=> In(slots[s], x) /\ x # e
        BY <1>3, UnlinkLists DEF Unlink
    <2>2. timestamp' = [timestamp EXCEPT ![e] = 0]
        BY <1>3 DEF Unlink
    <2>3. TypeOK'
        BY <1>3, <2>1, <2>2 DEF TypeOK, Unlink
    <2>4. SlotKept'
        BY <2>1, <2>2 DEF SlotKept, TypeOK
    <2> QED
        BY <2>1, <2>3, <2>4 DEF OnceEach
<1>4. CASE RemoveFound
    <2>1. PICK c \in Nat, e \in Entries :
              /\ answer' = e
              /\ timestamp' = [timestamp EXCEPT ![e] = 0]
              /\ currentIndex' = c
              /\ slots' \in [Lists -> Seq(Entries)]
              /\ \A s \in Lists : Injective(slots'[s])
              /\ \A s \in Lists, x \in Entries :
                    In(slots'[s], x) <=> In(slots[s], x) /\ x # e
        BY <1>4, FoundLists
    <2>2. TypeOK'
        BY <1>4, <2>1 DEF TypeOK, RemoveFound
    <2>3. SlotKept'
        BY <2>1 DEF SlotKept, TypeOK
    <2> QED
        BY <2>1, <2>2, <2>3 DEF OnceEach
<1>5. CASE RemoveNothing
    <2>1. currentIndex' \in Nat
        BY <1>5 DEF TypeOK, RemoveNothing
    <2>2. answer' \in Entries \cup {Off} /\ draining' \in BOOLEAN
        BY <1>5 DEF RemoveNothing
    <2>3. UNCHANGED <<slots, timestamp, now>>
        BY <1>5 DEF RemoveNothing
    <2>4. TypeOK'
        BY <2>1, <2>2, <2>3 DEF TypeOK
    <2> QED
        BY <2>3, <2>4 DEF OnceEach, SlotKept
<1>6. CASE UNCHANGED vars
    BY <1>6 DEF vars, TypeOK, OnceEach, SlotKept
<1> QED
    BY <1>1, <1>2, <1>3, <1>4, <1>5, <1>6 DEF Next

\* Whatever is armed, moved, unlinked and collected (event-timeout.c), an
\* entry is in one list at most and there once, and it is the list of the slot
\* that its timestamp falls in.
THEOREM ListsSound == Spec => [](TypeOK /\ LinkedOnce /\ InItsSlot)
<1>1. IndInv => TypeOK /\ LinkedOnce /\ InItsSlot
    <2> SUFFICES ASSUME IndInv PROVE LinkedOnce /\ InItsSlot
        BY DEF IndInv
    <2>1. ASSUME NEW s \in Lists, NEW k \in DOMAIN slots[s]
          PROVE  /\ slots[s][k] \in Entries /\ In(slots[s], slots[s][k])
                 /\ SlotOf(timestamp[slots[s][k]]) = s
        BY DEF IndInv, TypeOK, SlotKept, In
    <2>2. InItsSlot
        BY <2>1 DEF InItsSlot
    <2>3. LinkedOnce
        BY <2>1 DEF LinkedOnce, IndInv, OnceEach, Injective
    <2> QED
        BY <2>2, <2>3
<1> QED
    BY <1>1, ListsInit, ListsStep, PTL DEF Spec

----------------------------------------------------------------------------
(* None is passed by *)

\* An entry that is in the ring and due is ripe in the slot of its timestamp.
LEMMA RipeInItsSlot ==
    ASSUME IndInv, NEW s \in Lists, NEW e \in Entries, In(slots[s], e),
           timestamp[e] <= now
    PROVE  Ripe(timestamp[e]) # {}
BY DEF IndInv, SlotKept, In, Ripe

LEMMA AheadInit == Init => Ahead
BY TimeoutsAssumption DEF Init, Ahead, In

LEMMA AheadStep ==
    ASSUME \A d \in Delays : d > Jitter
    PROVE  IndInv /\ Ahead /\ [Next]_vars => Ahead'
<1> SUFFICES ASSUME IndInv, Ahead, [Next]_vars PROVE Ahead'
    OBVIOUS
<1> USE TimeoutsAssumption DEF Ahead
<1>0. now \in Nat /\ currentIndex \in Nat /\ timestamp \in [Entries -> Nat]
    BY DEF IndInv, TypeOK
<1>1. ASSUME NEW t \in 0 .. MaxTime, Arrive(t) PROVE Ahead'
    BY <1>0, <1>1 DEF Arrive
<1>2. ASSUME NEW e \in Entries, NEW d \in Delays, Add(e, now + d) PROVE Ahead'
    <2>1. now + d \in Nat /\ now + d >= currentIndex
        BY <1>0
    <2>2. \A s \in Lists, x \in Entries :
              In(slots'[s], x) <=> IF x = e THEN s = SlotOf(now + d) ELSE In(slots[s], x)
        BY <1>2, <2>1, AddLists
    <2>3. timestamp' = [timestamp EXCEPT ![e] = now + d] /\ UNCHANGED <<now, currentIndex>>
        BY <1>2 DEF Add
    <2> QED
        BY <1>0, <2>1, <2>2, <2>3
<1>3. ASSUME NEW e \in Entries, Unlink(e) PROVE Ahead'
    <2>1. \A s \in Lists, x \in Entries :
              In(slots'[s], x) <=> In(slots[s], x) /\ x # e
        BY <1>3, UnlinkLists DEF Unlink
    <2>2. timestamp' = [timestamp EXCEPT ![e] = 0] /\ UNCHANGED <<now, currentIndex>>
        BY <1>3 DEF Unlink
    <2> QED
        BY <1>0, <2>1, <2>2
<1>4. CASE RemoveFound
    <2>1. PICK c \in Nat, e \in Entries :
              /\ c \in currentIndex .. now
              /\ \A b \in currentIndex .. (c - 1) : Ripe(b) = {}
              /\ timestamp' = [timestamp EXCEPT ![e] = 0]
              /\ currentIndex' = c
              /\ \A s \in Lists, x \in Entries :
                    In(slots'[s], x) <=> In(slots[s], x) /\ x # e
        BY <1>4, FoundLists
    <2>2. ASSUME NEW s \in Lists, NEW x \in Entries, In(slots[s], x)
          PROVE  timestamp[x] >= c
        <3>1. ~(timestamp[x] < c)
            <4> SUFFICES ASSUME timestamp[x] < c PROVE FALSE
                OBVIOUS
            <4>1. timestamp[x] \in currentIndex .. (c - 1) /\ timestamp[x] <= now
                BY <1>0, <2>1, <2>2
            <4> QED
                BY <2>1, <2>2, <4>1, RipeInItsSlot
        <3> QED
            BY <1>0, <3>1
    <2>3. now' = now
        BY <1>4 DEF RemoveFound
    <2> QED
        BY <1>0, <2>1, <2>2, <2>3
<1>5. CASE RemoveNothing
    <2>1. ASSUME NEW s \in Lists, NEW x \in Entries, In(slots[s], x)
          PROVE  timestamp[x] > now
        <3> SUFFICES ASSUME timestamp[x] <= now PROVE FALSE
            BY <1>0
        <3>1. timestamp[x] \in currentIndex .. now
            BY <1>0, <2>1
        <3> QED
            BY <1>5, <2>1, <3>1, RipeInItsSlot DEF RemoveNothing
    <2> QED
        BY <1>0, <1>5, <2>1 DEF RemoveNothing
<1>6. CASE UNCHANGED vars
    BY <1>6 DEF vars
<1> QED
    BY <1>1, <1>2, <1>3, <1>4, <1>5, <1>6 DEF Next

\* The whole invariant of the run: what is linked lies at current_index or
\* ahead of it.  Every delay must exceed Jitter: one armed for the second the
\* ring has just finished would wait for the ring to come round.
THEOREM RingInvariant ==
    ASSUME \A d \in Delays : d > Jitter
    PROVE  Spec => []Inv
<1>1. IndInv /\ Ahead => NothingBehind
    BY DEF IndInv, TypeOK, Ahead, NothingBehind, In
<1>2. Spec => [](IndInv /\ Ahead)
    BY ListsInit, ListsStep, AheadInit, AheadStep, PTL DEF Spec
<1> QED
    BY <1>1, <1>2, ListsSound, PTL DEF Inv

\* When timeouts_remove returns NULL to tcpcon_timeouts (proto-tcp.c:121-141),
\* no entry left in the ring was due.
LEMMA NothingLeft ==
    ASSUME IndInv, Ahead, RemoveNothing, NEW e \in Entries, Linked(e)
    PROVE  timestamp[e] > now
<1>1. now \in Nat /\ currentIndex \in Nat /\ timestamp \in [Entries -> Nat]
    BY DEF IndInv, TypeOK
<1>2. PICK s \in Lists : In(slots[s], e)
    BY DEF Linked, In
<1> SUFFICES ASSUME timestamp[e] <= now PROVE FALSE
    BY <1>1
<1>3. timestamp[e] \in currentIndex .. now
    BY <1>1, <1>2 DEF Ahead
<1> QED
    BY <1>2, <1>3, RipeInItsSlot DEF RemoveNothing

THEOREM NothingDueIsLeft ==
    ASSUME \A d \in Delays : d > Jitter
    PROVE  Spec => AllDueRemoved
<1>1. Spec => [](IndInv /\ Ahead)
    BY ListsInit, ListsStep, AheadInit, AheadStep, PTL DEF Spec
<1>2. IndInv /\ Ahead /\ [Next]_vars
        => [draining /\ ~draining'
              => \A e \in Entries : Linked(e) => timestamp[e] > now]_vars
    <2> SUFFICES ASSUME IndInv, Ahead, [Next]_vars, draining, ~draining',
                        NEW e \in Entries, Linked(e)
                 PROVE  timestamp[e] > now
        OBVIOUS
    <2>1. RemoveNothing
        BY DEF Next, vars, Arrive, Add, Unlink, RemoveFound
    <2> QED
        BY <2>1, NothingLeft
<1> QED
    BY <1>1, <1>2, PTL DEF Spec, AllDueRemoved

----------------------------------------------------------------------------
(* The ring implements the set of timers *)

LEMMA TimersInit == Init => Timers!TimerInit
<1> SUFFICES ASSUME Init PROVE Timers!TimerInit
    OBVIOUS
<1>1. \A e \in Entries : ~Linked(e)
    BY DEF Init, Linked
<1> QED
    BY <1>1 DEF Init, Timers!TimerInit, Deadline

LEMMA TimersStep ==
    IndInv /\ Ahead /\ [Next]_vars => [TimerStep]_<<Deadline, answer>>
<1> SUFFICES ASSUME IndInv, Ahead, [Next]_vars
             PROVE  TimerStep \/ UNCHANGED <<Deadline, answer>>
    OBVIOUS
<1>0. timestamp \in [Entries -> Nat] /\ now \in Nat
    BY DEF IndInv, TypeOK
<1>1. ASSUME NEW t \in 0 .. MaxTime, Arrive(t) PROVE UNCHANGED <<Deadline, answer>>
    BY <1>1 DEF Arrive, Deadline, Linked
<1>2. ASSUME NEW e \in Entries, NEW d \in Delays, Add(e, now + d)
      PROVE  Timers!Arm(e, now + d)
    <2>1. now + d \in Nat
        BY <1>0, TimeoutsAssumption
    <2>2. \A s \in Lists, x \in Entries :
              In(slots'[s], x) <=> IF x = e THEN s = SlotOf(now + d) ELSE In(slots[s], x)
        BY <1>2, <2>1, AddLists
    <2>3. \A x \in Entries : (Linked(x))' <=> (x = e \/ Linked(x))
        BY <2>1, <2>2, SlotType DEF Linked, In
    <2>4. timestamp' = [timestamp EXCEPT ![e] = now + d] /\ UNCHANGED answer
        BY <1>2 DEF Add
    <2>5. Deadline' = [x \in Entries |-> IF (Linked(x))' THEN timestamp'[x] ELSE Off]
        BY DEF Deadline
    <2>6. Deadline' = [Deadline EXCEPT ![e] = now + d]
        BY <1>0, <2>3, <2>4, <2>5 DEF Deadline
    <2> QED
        BY <2>4, <2>6 DEF Timers!Arm
<1>3. ASSUME NEW e \in Entries, Unlink(e) PROVE Timers!Disarm(e)
    <2>1. \A s \in Lists, x \in Entries :
              In(slots'[s], x) <=> In(slots[s], x) /\ x # e
        BY <1>3, UnlinkLists DEF Unlink
    <2>2. \A x \in Entries : (Linked(x))' <=> (x # e /\ Linked(x))
        BY <2>1 DEF Linked, In
    <2>3. timestamp' = [timestamp EXCEPT ![e] = 0] /\ UNCHANGED answer
        BY <1>3 DEF Unlink
    <2>4. Deadline' = [x \in Entries |-> IF (Linked(x))' THEN timestamp'[x] ELSE Off]
        BY DEF Deadline
    <2>5. Deadline' = [Deadline EXCEPT ![e] = Off]
        BY <1>0, <2>2, <2>3, <2>4 DEF Deadline
    <2> QED
        BY <2>3, <2>5 DEF Timers!Disarm
<1>4. ASSUME RemoveFound PROVE \E e \in Entries : Timers!Fire(e, now)
    <2>1. PICK e \in Entries :
              /\ \E c \in Nat : In(slots[SlotOf(c)], e)
              /\ timestamp[e] <= now
              /\ answer' = e
              /\ timestamp' = [timestamp EXCEPT ![e] = 0]
              /\ \A s \in Lists, x \in Entries :
                    In(slots'[s], x) <=> In(slots[s], x) /\ x # e
        BY <1>4, FoundLists
    <2>2. Linked(e)
        BY <2>1, SlotType DEF Linked, In
    <2>3. \A x \in Entries : (Linked(x))' <=> (x # e /\ Linked(x))
        BY <2>1 DEF Linked, In
    <2>4. Deadline' = [x \in Entries |-> IF (Linked(x))' THEN timestamp'[x] ELSE Off]
        BY DEF Deadline
    <2>5. Deadline' = [Deadline EXCEPT ![e] = Off]
        BY <1>0, <2>1, <2>3, <2>4 DEF Deadline
    <2>6. Timers!Due(e, now)
        BY <1>0, <2>1, <2>2, TimeoutsAssumption DEF Timers!Due, Deadline
    <2> QED
        BY <2>1, <2>5, <2>6 DEF Timers!Fire
<1>5. ASSUME RemoveNothing PROVE Timers!NothingDue(now)
    <2>1. \A e \in Entries : Linked(e) => timestamp[e] > now
        BY <1>5, NothingLeft
    <2>2. \A e \in Entries : ~Timers!Due(e, now)
        BY <1>0, <2>1 DEF Timers!Due, Deadline
    <2>3. UNCHANGED Deadline
        BY <1>5 DEF RemoveNothing, Deadline, Linked
    <2> QED
        BY <1>5, <2>2, <2>3 DEF RemoveNothing, Timers!NothingDue
<1>6. CASE UNCHANGED vars
    BY <1>6 DEF vars, Deadline, Linked
<1> QED
    BY <1>1, <1>2, <1>3, <1>4, <1>5, <1>6 DEF Next, TimerStep

\* The ring, its lists, indices and wrapping, is seen from the TCP stack a
\* set of deadlines: a call gives back an entry that is due, and NULL only
\* when there is none.
THEOREM RingIsTimerSet ==
    ASSUME \A d \in Delays : d > Jitter
    PROVE  Spec => ImplementsTimers
<1>1. Spec => [](IndInv /\ Ahead)
    BY ListsInit, ListsStep, AheadInit, AheadStep, PTL DEF Spec
<1> QED
    BY <1>1, TimersInit, TimersStep, PTL DEF Spec, ImplementsTimers
=============================================================================
