-------------------------- MODULE RteRingMP_proofs --------------------------
(***************************************************************************)
(* Proofs about the multi-producer multi-consumer ring, for every number   *)
(* of threads, ring size, index width, set of objects and burst: no two    *)
(* threads own one slot, and a call is refused only for want of room or of *)
(* objects.                                                                *)
(*                                                                         *)
(* The indices wrap, so an order among them means nothing by itself.  What *)
(* is ordered are positions: how far an index has come since the start.    *)
(***************************************************************************)
EXTENDS RteRingMP, SequenceTheorems, TLAPS

Pos(x) == Minus(x, StartIdx)

\* Two bursts that follow one another, in one order or the other.
Apart(k, l) == Pos(k.head) + k.n <= Pos(l.head) \/ Pos(l.head) + l.n <= Pos(k.head)

\* Going round from cons.tail one meets cons.head, prod.tail and prod.head in
\* this order, and has then gone at most Mask steps.
InOrder ==
    /\ Pos(consTail) <= Pos(consHead)
    /\ Pos(consHead) <= Pos(prodTail)
    /\ Pos(prodTail) <= Pos(prodHead)
    /\ Pos(prodHead) <= Pos(consTail) + Mask
    /\ Pos(prodHead) = reserved

\* A producer holds a head of the present or of the past.  Only if it is of the
\* present does the n it computed count, and then the room is there, although
\* cons.tail has moved on; a burst won lies between the tail and the head.
ProducerPlaced(l) ==
    /\ l.pc \in {"idle", "room", "cas", "write"}
    /\ l.pc # "idle" =>
          /\ Pos(l.head) <= Pos(prodHead)
          /\ l.max >= 1 /\ l.obj \in Seq(Objects) /\ Len(l.obj) = l.max
    /\ l.pc # "write" => l.i = 0
    /\ l.pc \in {"cas", "write"} => l.n \in 1 .. l.max
    /\ l.pc = "cas" /\ l.head = prodHead
          => Pos(prodHead) + l.n <= Pos(consTail) + Mask
    /\ l.pc = "write" =>
          /\ l.i <= l.n
          /\ Pos(prodTail) <= Pos(l.head)
          /\ Pos(l.head) + l.n <= Pos(prodHead)

ConsumerPlaced(l) ==
    /\ l.pc \in {"idle", "entries", "cas", "copy"}
    /\ l.pc # "idle" => Pos(l.head) <= Pos(consHead) /\ l.max >= 1
    /\ l.pc # "copy" => l.i = 0 /\ l.obj = << >>
    /\ l.pc = "cas" =>
          /\ l.n >= 1
          /\ l.head = consHead => Pos(consHead) + l.n <= Pos(prodTail)
    /\ l.pc = "copy" =>
          /\ l.n >= 1 /\ l.i <= l.n /\ Len(l.obj) = l.i
          /\ Pos(consTail) <= Pos(l.head)
          /\ Pos(l.head) + l.n <= Pos(consHead)

Placed ==
    /\ \A p \in Producers : ProducerPlaced(prod[p])
    /\ \A c \in Consumers : ConsumerPlaced(cons[c])

BurstsApart ==
    /\ \A p, q \in Producers :
          p # q /\ prod[p].pc = "write" /\ prod[q].pc = "write" => Apart(prod[p], prod[q])
    /\ \A c, d \in Consumers :
          c # d /\ cons[c].pc = "copy" /\ cons[d].pc = "copy" => Apart(cons[c], cons[d])

\* A producer has copied its caller's objects as far as it says.
Written ==
    \A p \in Producers : prod[p].pc = "write" =>
        \A j \in 0 .. (prod[p].i - 1) :
            ring[Slot(Plus(prod[p].head, j))] = prod[p].obj[j + 1]

IInv == TypeOK /\ InOrder /\ Placed /\ BurstsApart

----------------------------------------------------------------------------
(* The constants in the form the arithmetic of the steps needs. *)
LEMMA Constants ==
    /\ Size \in Nat /\ Size >= 2 /\ IdxMod \in Nat /\ IdxMod >= 2 * Size
    /\ Idx = 0 .. (IdxMod - 1) /\ Mask = Size - 1
    /\ StartIdx \in Idx
    /\ MaxReserved \in Nat /\ MaxReserved < IdxMod - Size
    /\ \A n \in Bursts : n \in Nat /\ n >= 1
<1>1. PICK k \in 2 .. IdxMod : IdxMod = k * Size
    BY RingAssumption DEF RingAssumption
<1>2. Size \in Nat /\ Size >= 2 /\ IdxMod \in Nat /\ k \in Nat /\ k >= 2
    BY RingAssumption DEF RingAssumption
<1>3. k * Size >= 2 * Size
    BY <1>2
<1>4. QED
    BY <1>1, <1>2, <1>3, RteRingMPAssumption DEF RteRingMPAssumption, Idx, Mask

LEMMA Numbers ==
    Size \in Nat /\ Mask \in Nat /\ Mask = Size - 1 /\ IdxMod \in Nat
BY Constants

(* A position is the index of a ring that starts at 0: unlike indices, two
   positions that are not a whole index space apart can be compared. *)
LEMMA PosType == \A x \in Idx : Pos(x) \in 0 .. (IdxMod - 1)
BY Constants DEF Pos, Minus

LEMMA PosInjective == \A x, y \in Idx : Pos(x) = Pos(y) => x = y
BY Constants DEF Pos, Minus

LEMMA PosPlus ==
    \A x \in Idx, n \in Nat :
        Pos(x) + n < IdxMod => Plus(x, n) \in Idx /\ Pos(Plus(x, n)) = Pos(x) + n
BY Constants DEF Pos, Minus, Plus

LEMMA MinusPos ==
    \A x, y \in Idx : Pos(y) <= Pos(x) => Minus(x, y) = Pos(x) - Pos(y)
BY Constants DEF Pos, Minus

(* The slot of an index is a slot of the ring. *)
LEMMA SlotInRing == \A x \in Nat : Slot(x) \in Slots
BY Constants DEF Slot, Slots

(* Indices less than Size steps apart have different slots, also where they
   wrap: Size divides the index space. *)
LEMMA SlotsDiffer ==
    ASSUME NEW x \in Idx, NEW y \in Idx, Pos(x) < Pos(y), Pos(y) < Pos(x) + Size
    PROVE  Slot(x) # Slot(y)
<1>1. PICK k \in 2 .. IdxMod : IdxMod = k * Size
    BY RingAssumption DEF RingAssumption
<1> DEFINE a == x \div Size
           b == y \div Size
           d == Pos(y) - Pos(x)
<1>2. Size \in Nat \ {0} /\ IdxMod \in Nat /\ k \in Nat /\ x \in Nat /\ y \in Nat
    BY Constants
<1>3. /\ x = Size * a + Slot(x) /\ a \in Nat /\ Slot(x) \in Nat
      /\ y = Size * b + Slot(y) /\ b \in Nat /\ Slot(y) \in Nat
    BY <1>2 DEF Slot
<1>4. d \in 1 .. (Size - 1)
    <2>1. Pos(x) \in Nat /\ Pos(y) \in Nat
        BY PosType, Constants
    <2>2. QED
        BY <2>1, Constants
<1>5. y - x \in {d, d - IdxMod}
    BY Constants DEF Pos, Minus
<1> HIDE DEF a, b, d
<1>6. SUFFICES ASSUME Slot(x) = Slot(y)
               PROVE  FALSE
    OBVIOUS
<1>7. y - x = Size * (b - a)
    BY <1>2, <1>3, <1>6
<1>8. \A m \in Int : d # Size * m
    <2>1. TAKE m \in Int
    <2>2. m >= 1 => Size * m >= Size
        BY <1>2
    <2>3. m <= 0 => Size * m <= 0
        BY <1>2
    <2>4. QED
        BY <1>2, <1>4, <2>2, <2>3
<1>9. CASE y - x = d
    BY <1>3, <1>7, <1>8, <1>9
<1>10. CASE y - x = d - IdxMod
    <2>1. d = Size * (b - a) + k * Size
        BY <1>1, <1>2, <1>3, <1>4, <1>7, <1>10
    <2>2. d = Size * (b - a + k)
        BY <1>2, <1>3, <2>1
    <2>3. b - a + k \in Int
        BY <1>2, <1>3
    <2>4. QED
        BY <1>8, <2>2, <2>3
<1>11. QED
    BY <1>5, <1>9, <1>10

----------------------------------------------------------------------------
(* The positions of the four indices, as the steps use them. *)
LEMMA Positions ==
    ASSUME IInv
    PROVE  /\ {prodHead, prodTail, consHead, consTail} \subseteq Idx
           /\ Pos(consTail) \in Nat /\ Pos(consHead) \in Nat
           /\ Pos(prodTail) \in Nat /\ Pos(prodHead) \in Nat
           /\ Pos(consTail) <= Pos(consHead) /\ Pos(consHead) <= Pos(prodTail)
           /\ Pos(prodTail) <= Pos(prodHead)
           /\ Pos(prodHead) <= Pos(consTail) + Mask
           /\ Pos(prodHead) + Size < IdxMod
           /\ Pos(prodHead) = reserved
<1>1. {prodHead, prodTail, consHead, consTail} \subseteq Idx /\ reserved \in 0 .. MaxReserved
    BY DEF IInv, TypeOK
<1>2. \A x \in {prodHead, prodTail, consHead, consTail} : Pos(x) \in Nat
    BY <1>1, PosType, Constants
<1>3. QED
    BY <1>1, <1>2, Constants DEF IInv, InOrder

LEMMA PickPositions ==
    ASSUME IInv
    PROVE  \E ct, ch, pt, ph \in Nat :
              /\ ct = Pos(consTail) /\ ch = Pos(consHead) /\ pt = Pos(prodTail)
              /\ ph = Pos(prodHead) /\ ct <= ch /\ ch <= pt /\ pt <= ph
              /\ ph <= ct + Mask /\ ph < IdxMod
<1>1. Pos(prodHead) < IdxMod
    BY Positions, Numbers
<1>2. QED
    BY <1>1, Positions

LEMMA LocalsType ==
    ASSUME NEW l \in Locals
    PROVE  /\ l.head \in Idx /\ l.max \in Nat /\ l.n \in Nat /\ l.i \in 0 .. Mask
           /\ Pos(l.head) \in Nat
           /\ l.beh = "fixed" \/ l.beh = "variable"
BY PosType, Constants DEF Locals, Behaviours

LEMMA IdleLocal ==
    /\ Idle \in Locals
    /\ Idle.pc = "idle" /\ Idle.i = 0 /\ Idle.obj = << >>
    /\ ProducerPlaced(Idle) /\ ConsumerPlaced(Idle)
BY Constants DEF Idle, Locals, Behaviours, ProducerPlaced, ConsumerPlaced

(* What a producer takes for room is the room, if no other producer has moved
   the head since: a head of the past cannot have come round to the same value. *)
LEMMA RoomIsThere ==
    ASSUME IInv, NEW p \in Producers, prod[p].pc = "room"
    PROVE  /\ FreeEntries(p) = Pos(consTail) + Mask - Pos(prod[p].head)
           /\ FreeEntries(p) >= Pos(consTail) + Mask - Pos(prodHead)
           /\ FreeEntries(p) \in Nat
<1> DEFINE h == prod[p].head
<1>1. h \in Idx /\ Pos(h) \in Nat /\ Pos(h) <= Pos(prodHead)
    BY LocalsType DEF IInv, TypeOK, Placed, ProducerPlaced
<1>2. /\ Plus(consTail, Mask) \in Idx
      /\ Pos(Plus(consTail, Mask)) = Pos(consTail) + Mask
    <2>1. consTail \in Idx /\ Mask \in Nat /\ Pos(consTail) + Mask < IdxMod
        BY Positions, Constants
    <2>2. QED
        BY <2>1, PosPlus
<1>3. FreeEntries(p) = Pos(consTail) + Mask - Pos(h)
    <2>1. Pos(h) <= Pos(Plus(consTail, Mask))
        BY <1>1, <1>2, Positions, Constants
    <2>2. Minus(Plus(consTail, Mask), h) = Pos(Plus(consTail, Mask)) - Pos(h)
        BY <1>1, <1>2, <2>1, MinusPos
    <2>3. Mask \in Nat /\ Pos(consTail) \in Nat
        BY Positions, Constants
    <2> HIDE DEF h
    <2>4. QED
        BY <1>1, <1>2, <2>2, <2>3 DEF FreeEntries, h
<1>4. QED
    BY SMTT(40), <1>1, <1>3, Positions, Constants

(* The same for a consumer, whose head is never ahead of prod.tail. *)
LEMMA EntriesAreThere ==
    ASSUME IInv, NEW c \in Consumers, cons[c].pc = "entries"
    PROVE  /\ Entries(c) = Pos(prodTail) - Pos(cons[c].head)
           /\ Entries(c) >= Pos(prodTail) - Pos(consHead)
           /\ Entries(c) \in Nat
<1> DEFINE h == cons[c].head
<1>1. h \in Idx /\ Pos(h) \in Nat /\ Pos(h) <= Pos(consHead)
    BY LocalsType DEF IInv, TypeOK, Placed, ConsumerPlaced
<1>2. Entries(c) = Pos(prodTail) - Pos(h)
    BY <1>1, MinusPos, Positions DEF Entries
<1>3. QED
    BY <1>1, <1>2, Positions

(* A step of a producer that moves no index: it is enough to look at its own
   locals, and a burst once won is not changed. *)
LEMMA ProducerStep ==
    ASSUME IInv, NEW p \in Producers, NEW l \in Locals,
           ring' \in [Slots -> Objects \cup {Garbage}],
           prod' = [prod EXCEPT ![p] = l],
           UNCHANGED <<prodHead, prodTail, consHead, consTail, cons, reserved>>,
           ProducerPlaced(l),
           l.pc = "write" =>
              prod[p].pc = "write" /\ l.head = prod[p].head /\ l.n = prod[p].n
    PROVE  IInv'
<1>1. prod \in [Producers -> Locals]
    BY DEF IInv, TypeOK
<1>2. prod'[p] = l /\ \A q \in Producers \ {p} : prod'[q] = prod[q]
    BY <1>1
<1>3. prod' \in [Producers -> Locals]
    BY <1>1
<1>4. TypeOK' /\ InOrder'
    BY <1>3 DEF IInv, TypeOK, InOrder, Pos
<1>5. Placed'
    BY <1>2 DEF IInv, Placed, ProducerPlaced, ConsumerPlaced, Pos
<1>6. BurstsApart'
    BY <1>2 DEF IInv, BurstsApart, Apart, Pos
<1>7. QED
    BY <1>4, <1>5, <1>6 DEF IInv

LEMMA ConsumerStep ==
    ASSUME IInv, NEW c \in Consumers, NEW l \in Locals,
           cons' = [cons EXCEPT ![c] = l],
           UNCHANGED <<ring, prodHead, prodTail, consHead, consTail, prod, reserved>>,
           ConsumerPlaced(l),
           l.pc = "copy" =>
              cons[c].pc = "copy" /\ l.head = cons[c].head /\ l.n = cons[c].n
    PROVE  IInv'
<1>1. cons \in [Consumers -> Locals]
    BY DEF IInv, TypeOK
<1>2. cons'[c] = l /\ \A d \in Consumers \ {c} : cons'[d] = cons[d]
    BY <1>1
<1>3. cons' \in [Consumers -> Locals]
    BY <1>1
<1>4. TypeOK' /\ InOrder'
    BY <1>3 DEF IInv, TypeOK, InOrder, Pos
<1>5. Placed'
    BY <1>2 DEF IInv, Placed, ProducerPlaced, ConsumerPlaced, Pos
<1>6. BurstsApart'
    BY <1>2 DEF IInv, BurstsApart, Apart, Pos
<1>7. QED
    BY <1>4, <1>5, <1>6 DEF IInv

----------------------------------------------------------------------------
(* The steps of a producer. *)
LEMMA EnqStartInd ==
    ASSUME IInv, NEW p \in Producers, NEW n \in Bursts, NEW beh \in Behaviours,
           NEW table \in [1 .. n -> Objects], EnqStart(p, table, beh)
    PROVE  IInv'
<1> DEFINE l == [Idle EXCEPT !.pc = "room", !.head = prodHead,
                             !.max = Len(table), !.beh = beh, !.obj = table]
<1>1. n \in Nat /\ table \in Seq(Objects) /\ Len(table) = n
    BY Constants
<1>2. /\ l.pc = "room" /\ l.head = prodHead /\ l.max = n /\ l.obj = table
      /\ l.i = 0 /\ l \in Locals
    <2>1. table \in Seq(Objects \cup {Garbage}) /\ prodHead \in Idx
        BY <1>1, Positions
    <2>2. QED
        BY <1>1, <2>1, IdleLocal DEF Locals
<1>3. ProducerPlaced(l)
    <2> HIDE DEF l
    <2>1. QED
        BY <1>1, <1>2, Positions, Constants DEF ProducerPlaced
<1>4. ring' \in [Slots -> Objects \cup {Garbage}]
    BY DEF IInv, TypeOK, EnqStart
<1>5. /\ prod' = [prod EXCEPT ![p] = l]
      /\ UNCHANGED <<prodHead, prodTail, consHead, consTail, cons, reserved>>
    BY DEF EnqStart
<1>6. l.pc # "write"
    BY <1>2
<1> HIDE DEF l
<1>7. QED
    BY <1>2, <1>3, <1>4, <1>5, <1>6, ProducerStep

LEMMA EnqRefuseInd ==
    ASSUME IInv, NEW p \in Producers, EnqRefuse(p)
    PROVE  IInv'
<1>1. /\ prod' = [prod EXCEPT ![p] = Idle] /\ ring' = ring
      /\ UNCHANGED <<prodHead, prodTail, consHead, consTail, cons, reserved>>
    BY DEF EnqRefuse
<1>2. Idle.pc # "write"
    BY DEF Idle
<1>3. ring' \in [Slots -> Objects \cup {Garbage}]
    BY <1>1 DEF IInv, TypeOK
<1>4. QED
    BY <1>1, <1>2, <1>3, IdleLocal, ProducerStep

LEMMA EnqRoomInd ==
    ASSUME IInv, NEW p \in Producers, EnqRoom(p)
    PROVE  IInv'
<1> DEFINE m == IF prod[p].max > FreeEntries(p) THEN FreeEntries(p) ELSE prod[p].max
           l == [prod[p] EXCEPT !.pc = "cas", !.n = m]
<1>1. /\ prod[p].pc = "room" /\ prod[p] \in Locals
      /\ prod' = [prod EXCEPT ![p] = l] /\ ring' = ring
      /\ UNCHANGED <<prodHead, prodTail, consHead, consTail, cons, reserved>>
    BY DEF EnqRoom, IInv, TypeOK
<1>2. ProducerPlaced(prod[p])
    BY DEF IInv, Placed
<1>3. m \in 1 .. prod[p].max /\ m <= FreeEntries(p)
    <2>1. prod[p].max \in Nat /\ FreeEntries(p) \in Nat
        BY <1>1, LocalsType, RoomIsThere
    <2>2. prod[p].max >= 1
        BY <1>1, <1>2 DEF ProducerPlaced
    <2>3. QED
        BY <2>1, <2>2 DEF EnqRoom
<1>4. /\ l.pc = "cas" /\ l.n = m /\ l.head = prod[p].head /\ l.max = prod[p].max
      /\ l.obj = prod[p].obj /\ l \in Locals
    <2>1. m \in Nat
        BY <1>1, <1>3, LocalsType
    <2> HIDE DEF m
    <2>2. QED
        BY <1>1, <2>1 DEF Locals
<1>5. l.head = prodHead => Pos(prodHead) + m <= Pos(consTail) + Mask
    <2>1. FreeEntries(p) = Pos(consTail) + Mask - Pos(prod[p].head)
        BY <1>1, RoomIsThere
    <2>2. m \in Nat /\ m <= FreeEntries(p)
        BY <1>1, <1>3, LocalsType
    <2> HIDE DEF m, l
    <2>3. ASSUME l.head = prodHead
          PROVE  Pos(prodHead) + m <= Pos(consTail) + Mask
        <3>1. FreeEntries(p) = Pos(consTail) + Mask - Pos(prodHead)
            BY <1>4, <2>1, <2>3
        <3>2. Pos(consTail) \in Nat /\ Pos(prodHead) \in Nat /\ Mask \in Nat
            BY Positions, Constants
        <3>3. QED
            BY <2>2, <3>1, <3>2
    <2>4. QED
        BY <2>3
<1>6. ProducerPlaced(l)
    BY <1>1, <1>2, <1>3, <1>4, <1>5 DEF ProducerPlaced
<1>7. ring' \in [Slots -> Objects \cup {Garbage}]
    BY <1>1 DEF IInv, TypeOK
<1> HIDE DEF l
<1>8. QED
    BY <1>1, <1>4, <1>6, <1>7, ProducerStep

(* The head moves by a burst that the room has been seen for.  No head of the
   past equals the new one. *)
LEMMA EnqCasInd ==
    ASSUME IInv, NEW p \in Producers, EnqCas(p)
    PROVE  IInv'
<1> DEFINE l == [prod[p] EXCEPT !.pc = "write"]
<1>1. /\ prod[p].pc = "cas" /\ prod[p] \in Locals /\ prod[p].head = prodHead
      /\ prod' = [prod EXCEPT ![p] = l] /\ prod \in [Producers -> Locals]
      /\ reserved + prod[p].n <= MaxReserved
      /\ prodHead' = Plus(prodHead, prod[p].n) /\ reserved' = reserved + prod[p].n
      /\ UNCHANGED <<ring, prodTail, consHead, consTail, cons>>
    BY DEF EnqCas, IInv, TypeOK
<1>2. ProducerPlaced(prod[p])
    BY DEF IInv, Placed
<1>3. PICK n \in Nat : n = prod[p].n /\ n >= 1 /\ n <= prod[p].max
    BY <1>1, <1>2, LocalsType DEF ProducerPlaced
<1>4. Pos(prodHead) + n <= Pos(consTail) + Mask
    BY <1>1, <1>2, <1>3 DEF ProducerPlaced
<1>5. /\ l.pc = "write" /\ l.head = prodHead /\ l.n = n /\ l.max = prod[p].max
      /\ l.obj = prod[p].obj /\ l.i = prod[p].i /\ l \in Locals
    BY <1>1, <1>3 DEF Locals
<1> HIDE DEF l
<1>6. prodHead' \in Idx /\ Pos(prodHead)' = Pos(prodHead) + n
    <2>1. prodHead \in Idx /\ Pos(prodHead) + n < IdxMod
        BY SMTT(40), <1>1, <1>3, <1>4, Positions, Constants
    <2>2. Plus(prodHead, n) \in Idx /\ Pos(Plus(prodHead, n)) = Pos(prodHead) + n
        BY <2>1, PosPlus
    <2>3. QED
        BY <1>1, <1>3, <2>2 DEF Pos
<1>7. /\ Pos(prodTail)' = Pos(prodTail) /\ Pos(consHead)' = Pos(consHead)
      /\ Pos(consTail)' = Pos(consTail)
    BY <1>1 DEF Pos
<1>8. prod'[p] = l /\ \A q \in Producers \ {p} : prod'[q] = prod[q]
    BY <1>1
<1>9. TypeOK'
    <2>1. prod' \in [Producers -> Locals] /\ reserved' \in 0 .. MaxReserved
        BY <1>1, <1>3, <1>5, Constants DEF IInv, TypeOK
    <2>2. QED
        BY <1>1, <1>6, <2>1 DEF IInv, TypeOK
<1>10. InOrder'
    <2>1. Mask' = Mask
        BY DEF Mask
    <2>2. QED
        BY <1>1, <1>3, <1>4, <1>6, <1>7, <2>1, Positions DEF InOrder
<1>11. Placed'
    <2>1. ASSUME NEW q \in Producers \ {p}
          PROVE  ProducerPlaced(prod[q])'
        <3>1. prod'[q] = prod[q] /\ ProducerPlaced(prod[q]) /\ prod[q] \in Locals
            BY <1>8 DEF IInv, Placed, TypeOK
        <3>2. PICK k \in Locals : k = prod[q]
            BY <3>1
        <3>3. Pos(k.head) \in Nat /\ Pos(k.head)' = Pos(k.head)
            BY LocalsType DEF Pos
        <3>4. k.pc # "idle" => Pos(k.head) <= Pos(prodHead) /\ k.head # prodHead'
            BY SMTT(40), <1>3, <1>6, <3>1, <3>2, <3>3, Positions DEF ProducerPlaced, Pos
        <3>5. QED
            BY <1>3, <1>6, <1>7, <3>1, <3>2, <3>3, <3>4, Positions DEF ProducerPlaced
    <2>2. ProducerPlaced(prod[p])'
        <3>1. l.i <= l.n
            BY <1>1, <1>2, <1>3, <1>5 DEF ProducerPlaced
        <3>2. QED
            BY <1>1, <1>2, <1>3, <1>5, <1>6, <1>7, <1>8, <3>1, Positions
               DEF ProducerPlaced
    <2>3. \A c \in Consumers : ConsumerPlaced(cons[c])'
        BY <1>1, <1>7 DEF IInv, Placed, ConsumerPlaced, Pos
    <2>4. QED
        BY <2>1, <2>2, <2>3 DEF Placed
<1>12. BurstsApart'
    <2>1. ASSUME NEW q \in Producers, q # p, prod[q].pc = "write"
          PROVE  Pos(prod[q].head) + prod[q].n <= Pos(prodHead)
        BY <2>1 DEF IInv, Placed, ProducerPlaced
    <2>2. QED
        BY <1>1, <1>5, <1>8, <2>1 DEF IInv, BurstsApart, Apart, Pos
<1>13. QED
    BY <1>9, <1>10, <1>11, <1>12 DEF IInv

LEMMA EnqRetryInd ==
    ASSUME IInv, NEW p \in Producers, EnqRetry(p)
    PROVE  IInv'
<1> DEFINE l == [prod[p] EXCEPT !.pc = "room", !.head = prodHead, !.n = 0]
<1>1. /\ prod[p].pc = "cas" /\ prod[p] \in Locals
      /\ prod' = [prod EXCEPT ![p] = l] /\ ring' = ring
      /\ UNCHANGED <<prodHead, prodTail, consHead, consTail, cons, reserved>>
    BY DEF EnqRetry, IInv, TypeOK
<1>2. ProducerPlaced(prod[p])
    BY DEF IInv, Placed
<1>3. /\ l.pc = "room" /\ l.head = prodHead /\ l.max = prod[p].max
      /\ l.obj = prod[p].obj /\ l.i = prod[p].i /\ l \in Locals
    BY <1>1, Positions DEF Locals
<1> HIDE DEF l
<1>4. ProducerPlaced(l)
    BY <1>1, <1>2, <1>3, Positions DEF ProducerPlaced
<1>5. ring' \in [Slots -> Objects \cup {Garbage}]
    BY <1>1 DEF IInv, TypeOK
<1>6. QED
    BY <1>1, <1>3, <1>4, <1>5, ProducerStep

LEMMA EnqWriteInd ==
    ASSUME IInv, NEW p \in Producers, EnqWrite(p)
    PROVE  IInv'
<1> DEFINE l == [prod[p] EXCEPT !.i = @ + 1]
<1>1. /\ prod[p].pc = "write" /\ prod[p].i < prod[p].n /\ prod[p] \in Locals
      /\ prod' = [prod EXCEPT ![p] = l]
      /\ UNCHANGED <<prodHead, prodTail, consHead, consTail, cons, reserved>>
    BY DEF EnqWrite, IInv, TypeOK
<1>2. ProducerPlaced(prod[p])
    BY DEF IInv, Placed
<1>3. PICK k \in Locals : k = prod[p]
    BY <1>1
<1>4. /\ k.i \in 0 .. Mask /\ k.n \in Nat /\ k.n <= k.max /\ Pos(k.head) \in Nat
      /\ k.head \in Idx /\ k.i < k.n /\ k.obj \in Seq(Objects) /\ Len(k.obj) = k.max
    BY <1>1, <1>2, <1>3, LocalsType DEF ProducerPlaced
<1>5. k.i + 1 \in 0 .. Mask /\ k.i + 1 <= k.n
    <2>1. Pos(prodTail) <= Pos(k.head) /\ Pos(k.head) + k.n <= Pos(prodHead)
        BY <1>1, <1>2, <1>3 DEF ProducerPlaced
    <2>2. k.n <= Mask
        BY SMTT(40), <1>4, <2>1, Positions, Constants
    <2>3. QED
        BY <1>4, <2>2, Constants
<1>6. /\ l.pc = "write" /\ l.i = k.i + 1 /\ l.head = k.head /\ l.n = k.n
      /\ l.max = k.max /\ l.obj = k.obj /\ l \in Locals
    BY <1>1, <1>3, <1>5 DEF Locals
<1> HIDE DEF l
<1>7. ProducerPlaced(l)
    BY <1>1, <1>2, <1>3, <1>5, <1>6 DEF ProducerPlaced
<1>8. ring' \in [Slots -> Objects \cup {Garbage}]
    <2>1. k.obj[k.i + 1] \in Objects
        BY <1>4, <1>5, ElementOfSeq
    <2>2. ring' = [ring EXCEPT ![Slot(Plus(k.head, k.i))] = k.obj[k.i + 1]]
        BY <1>3 DEF EnqWrite
    <2>3. QED
        BY <2>1, <2>2 DEF IInv, TypeOK
<1>9. QED
    BY <1>1, <1>3, <1>6, <1>7, <1>8, ProducerStep

(* The tail moves over the burst of the producer whose turn it is; all others
   lie behind it. *)
LEMMA EnqPublishInd ==
    ASSUME IInv, NEW p \in Producers, EnqPublish(p)
    PROVE  IInv'
<1>1. /\ prod[p].pc = "write" /\ prod[p] \in Locals /\ prod[p].head = prodTail
      /\ prod' = [prod EXCEPT ![p] = Idle] /\ prod \in [Producers -> Locals]
      /\ prodTail' = Plus(prod[p].head, prod[p].n)
      /\ UNCHANGED <<ring, prodHead, consHead, consTail, cons, reserved>>
    BY DEF EnqPublish, IInv, TypeOK
<1>2. ProducerPlaced(prod[p])
    BY DEF IInv, Placed
<1>3. PICK n \in Nat : n = prod[p].n /\ n >= 1 /\ Pos(prodTail) + n <= Pos(prodHead)
    BY <1>1, <1>2, LocalsType DEF ProducerPlaced
<1>4. prodTail' \in Idx /\ Pos(prodTail)' = Pos(prodTail) + n
    <2>1. prodTail \in Idx /\ Pos(prodTail) + n < IdxMod
        <3>1. Pos(prodHead) < IdxMod /\ prodTail \in Idx /\ Pos(prodTail) \in Nat
            BY Positions, Constants
        <3>2. Pos(prodHead) \in Nat /\ IdxMod \in Nat
            BY Positions, Constants
        <3>3. QED
            BY <1>3, <3>1, <3>2
    <2>2. Plus(prodTail, n) \in Idx /\ Pos(Plus(prodTail, n)) = Pos(prodTail) + n
        BY <2>1, PosPlus
    <2>3. QED
        BY <1>1, <1>3, <2>2 DEF Pos
<1>5. /\ Pos(prodHead)' = Pos(prodHead) /\ Pos(consHead)' = Pos(consHead)
      /\ Pos(consTail)' = Pos(consTail)
    BY <1>1 DEF Pos
<1>6. prod'[p] = Idle /\ \A q \in Producers \ {p} : prod'[q] = prod[q]
    BY <1>1
<1>7. TypeOK'
    <2>1. prod' \in [Producers -> Locals]
        BY <1>1, IdleLocal
    <2>2. QED
        BY <1>1, <1>4, <2>1 DEF IInv, TypeOK
<1>8. InOrder'
    <2>1. Mask' = Mask
        BY DEF Mask
    <2>2. QED
        BY <1>1, <1>3, <1>4, <1>5, <2>1, Positions DEF InOrder
<1>9. Placed'
    <2>1. ASSUME NEW q \in Producers \ {p}
          PROVE  ProducerPlaced(prod[q])'
        <3>1. PICK k \in Locals : k = prod[q] /\ k = prod'[q] /\ ProducerPlaced(k)
            BY <1>6 DEF IInv, Placed, TypeOK
        <3>2. Pos(k.head) \in Nat /\ Pos(k.head)' = Pos(k.head) /\ k.n \in Nat
            BY LocalsType DEF Pos
        <3>3. k.pc = "write" => Pos(prodTail) + n <= Pos(k.head)
            <4>1. k.pc = "write" => Apart(prod[p], k)
                BY <1>1, <3>1 DEF IInv, BurstsApart
            <4>2. QED
                BY <1>1, <1>3, <3>1, <3>2, <4>1, Positions DEF Apart, ProducerPlaced
        <3>4. QED
            BY <1>1, <1>4, <1>5, <3>1, <3>2, <3>3, Positions DEF ProducerPlaced
    <2>2. ProducerPlaced(prod[p])'
        BY <1>6 DEF ProducerPlaced, Idle
    <2>3. ASSUME NEW c \in Consumers
          PROVE  ConsumerPlaced(cons[c])'
        <3>1. PICK k \in Locals : k = cons[c] /\ k = cons'[c] /\ ConsumerPlaced(k)
            BY <1>1 DEF IInv, Placed, TypeOK
        <3>2. Pos(k.head) \in Nat /\ Pos(k.head)' = Pos(k.head) /\ k.n \in Nat
            BY LocalsType DEF Pos
        <3>3. QED
            BY <1>1, <1>3, <1>4, <1>5, <3>1, <3>2, Positions DEF ConsumerPlaced
    <2>4. QED
        BY <2>1, <2>2, <2>3 DEF Placed
<1>10. BurstsApart'
    <2>1. prod'[p].pc # "write"
        BY <1>6 DEF Idle
    <2>2. QED
        BY <1>1, <1>6, <2>1 DEF IInv, BurstsApart, Apart, Pos
<1>11. QED
    BY <1>7, <1>8, <1>9, <1>10 DEF IInv

----------------------------------------------------------------------------
(* The steps of a consumer. *)
LEMMA DeqStartInd ==
    ASSUME IInv, NEW c \in Consumers, NEW max \in Bursts, NEW beh \in Behaviours,
           DeqStart(c, max, beh)
    PROVE  IInv'
<1> DEFINE l == [Idle EXCEPT !.pc = "entries", !.head = consHead,
                             !.max = max, !.beh = beh]
<1>1. l.pc = "entries" /\ l.head = consHead /\ l.max = max /\ l.i = 0 /\ l.obj = << >>
    BY IdleLocal DEF Locals
<1>2. l \in Locals
    BY Constants, Positions, IdleLocal DEF Locals
<1>3. /\ cons' = [cons EXCEPT ![c] = l]
      /\ UNCHANGED <<ring, prodHead, prodTail, consHead, consTail, prod, reserved>>
    BY DEF DeqStart
<1> HIDE DEF l
<1>4. ConsumerPlaced(l)
    BY <1>1, <1>2, Positions, Constants DEF ConsumerPlaced
<1>5. QED
    BY <1>1, <1>2, <1>3, <1>4, ConsumerStep

LEMMA DeqRefuseInd ==
    ASSUME IInv, NEW c \in Consumers, DeqRefuse(c)
    PROVE  IInv'
<1>1. /\ cons' = [cons EXCEPT ![c] = Idle]
      /\ UNCHANGED <<ring, prodHead, prodTail, consHead, consTail, prod, reserved>>
    BY DEF DeqRefuse
<1>2. Idle.pc # "copy"
    BY IdleLocal
<1>3. QED
    BY <1>1, <1>2, IdleLocal, ConsumerStep

LEMMA DeqEntriesInd ==
    ASSUME IInv, NEW c \in Consumers, DeqEntries(c)
    PROVE  IInv'
<1> DEFINE m == IF cons[c].max > Entries(c) THEN Entries(c) ELSE cons[c].max
           l == [cons[c] EXCEPT !.pc = "cas", !.n = m]
<1>1. /\ cons[c].pc = "entries" /\ cons[c] \in Locals
      /\ cons' = [cons EXCEPT ![c] = l]
      /\ UNCHANGED <<ring, prodHead, prodTail, consHead, consTail, prod, reserved>>
    BY DEF DeqEntries, IInv, TypeOK
<1>2. ConsumerPlaced(cons[c])
    BY DEF IInv, Placed
<1>3. m \in Nat /\ m >= 1 /\ m <= Entries(c)
    <2>1. cons[c].max \in Nat /\ Entries(c) \in Nat
        BY <1>1, LocalsType, EntriesAreThere
    <2>2. cons[c].max >= 1
        BY <1>1, <1>2 DEF ConsumerPlaced
    <2>3. QED
        BY <2>1, <2>2 DEF DeqEntries
<1>4. /\ l.pc = "cas" /\ l.n = m /\ l.head = cons[c].head /\ l.max = cons[c].max
      /\ l.obj = cons[c].obj /\ l.i = cons[c].i /\ l \in Locals
    <2> HIDE DEF m
    <2>1. QED
        BY <1>1, <1>3 DEF Locals
<1>5. ASSUME l.head = consHead
      PROVE  Pos(consHead) + m <= Pos(prodTail)
    <2>1. Entries(c) = Pos(prodTail) - Pos(cons[c].head)
        BY <1>1, EntriesAreThere
    <2>2. cons[c].head = consHead
        BY <1>4, <1>5
    <2>3. Pos(prodTail) \in Nat /\ Pos(consHead) \in Nat
        BY Positions
    <2> HIDE DEF m, l
    <2>4. QED
        BY <1>3, <2>1, <2>2, <2>3
<1> HIDE DEF m, l
<1>6. ConsumerPlaced(l)
    BY <1>1, <1>2, <1>3, <1>4, <1>5 DEF ConsumerPlaced
<1>7. QED
    BY <1>1, <1>4, <1>6, ConsumerStep

LEMMA DeqRetryInd ==
    ASSUME IInv, NEW c \in Consumers, DeqRetry(c)
    PROVE  IInv'
<1> DEFINE l == [cons[c] EXCEPT !.pc = "entries", !.head = consHead, !.n = 0]
<1>1. /\ cons[c].pc = "cas" /\ cons[c] \in Locals
      /\ cons' = [cons EXCEPT ![c] = l]
      /\ UNCHANGED <<ring, prodHead, prodTail, consHead, consTail, prod, reserved>>
    BY DEF DeqRetry, IInv, TypeOK
<1>2. ConsumerPlaced(cons[c])
    BY DEF IInv, Placed
<1>3. /\ l.pc = "entries" /\ l.head = consHead /\ l.max = cons[c].max
      /\ l.obj = cons[c].obj /\ l.i = cons[c].i /\ l \in Locals
    BY <1>1, Positions DEF Locals
<1> HIDE DEF l
<1>4. ConsumerPlaced(l)
    BY <1>1, <1>2, <1>3, Positions DEF ConsumerPlaced
<1>5. QED
    BY <1>1, <1>3, <1>4, ConsumerStep

LEMMA DeqCasInd ==
    ASSUME IInv, NEW c \in Consumers, DeqCas(c)
    PROVE  IInv'
<1> DEFINE l == [cons[c] EXCEPT !.pc = "copy"]
<1>1. /\ cons[c].pc = "cas" /\ cons[c] \in Locals /\ cons[c].head = consHead
      /\ cons' = [cons EXCEPT ![c] = l] /\ cons \in [Consumers -> Locals]
      /\ consHead' = Plus(consHead, cons[c].n)
      /\ UNCHANGED <<ring, prodHead, prodTail, consTail, prod, reserved>>
    BY DEF DeqCas, IInv, TypeOK
<1>2. ConsumerPlaced(cons[c])
    BY DEF IInv, Placed
<1>3. PICK n \in Nat : n = cons[c].n /\ n >= 1 /\ Pos(consHead) + n <= Pos(prodTail)
    BY <1>1, <1>2, LocalsType DEF ConsumerPlaced
<1>4. /\ l.pc = "copy" /\ l.head = consHead /\ l.n = n /\ l.max = cons[c].max
      /\ l.obj = << >> /\ l.i = 0 /\ l \in Locals
    BY <1>1, <1>2, <1>3 DEF Locals, ConsumerPlaced
<1> HIDE DEF l
<1>5. consHead' \in Idx /\ Pos(consHead)' = Pos(consHead) + n
    <2>1. consHead \in Idx /\ Pos(consHead) + n < IdxMod
        <3>1. /\ Pos(prodTail) < IdxMod /\ consHead \in Idx /\ IdxMod \in Nat
              /\ Pos(consHead) \in Nat /\ Pos(prodTail) \in Nat
            BY Positions, Constants
        <3>2. QED
            BY <1>3, <3>1
    <2>2. Plus(consHead, n) \in Idx /\ Pos(Plus(consHead, n)) = Pos(consHead) + n
        BY <2>1, PosPlus
    <2>3. QED
        BY <1>1, <1>3, <2>2 DEF Pos
<1>6. /\ Pos(prodHead)' = Pos(prodHead) /\ Pos(prodTail)' = Pos(prodTail)
      /\ Pos(consTail)' = Pos(consTail)
    BY <1>1 DEF Pos
<1>7. cons'[c] = l /\ \A d \in Consumers \ {c} : cons'[d] = cons[d]
    BY <1>1
<1>8. TypeOK'
    <2>1. cons' \in [Consumers -> Locals]
        BY <1>1, <1>4
    <2>2. QED
        BY <1>1, <1>5, <2>1 DEF IInv, TypeOK
<1>9. InOrder'
    <2>1. Mask' = Mask
        BY DEF Mask
    <2>2. QED
        BY <1>1, <1>3, <1>5, <1>6, <2>1, Positions DEF InOrder
<1>10. Placed'
    <2>1. ASSUME NEW d \in Consumers \ {c}
          PROVE  ConsumerPlaced(cons[d])'
        <3>1. PICK k \in Locals : k = cons[d] /\ k = cons'[d] /\ ConsumerPlaced(k)
            BY <1>7 DEF IInv, Placed, TypeOK
        <3>2. Pos(k.head) \in Nat /\ Pos(k.head)' = Pos(k.head) /\ k.n \in Nat
            BY LocalsType DEF Pos
        <3>3. k.pc # "idle" => Pos(k.head) <= Pos(consHead) /\ k.head # consHead'
            BY <1>3, <1>5, <3>1, <3>2, Positions DEF ConsumerPlaced, Pos
        <3>4. QED
            BY SMTT(40), <1>3, <1>5, <1>6, <3>1, <3>2, <3>3, Positions DEF ConsumerPlaced
    <2>2. ConsumerPlaced(cons[c])'
        <3>1. Len(l.obj) = l.i
            BY <1>4
        <3>2. QED
            BY <1>1, <1>2, <1>3, <1>4, <1>5, <1>6, <1>7, <3>1, Positions
               DEF ConsumerPlaced
    <2>3. \A p \in Producers : ProducerPlaced(prod[p])'
        BY <1>1, <1>6 DEF IInv, Placed, ProducerPlaced, Pos
    <2>4. QED
        BY <2>1, <2>2, <2>3 DEF Placed
<1>11. BurstsApart'
    <2>1. ASSUME NEW d \in Consumers, d # c, cons[d].pc = "copy"
          PROVE  Pos(cons[d].head) + cons[d].n <= Pos(consHead)
        BY <2>1 DEF IInv, Placed, ConsumerPlaced
    <2>2. QED
        BY <1>1, <1>4, <1>7, <2>1 DEF IInv, BurstsApart, Apart, Pos
<1>12. QED
    BY <1>8, <1>9, <1>10, <1>11 DEF IInv

LEMMA DeqCopyInd ==
    ASSUME IInv, NEW c \in Consumers, DeqCopy(c)
    PROVE  IInv'
<1> DEFINE x == ring[Slot(Plus(cons[c].head, cons[c].i))]
           l == [cons[c] EXCEPT !.i = @ + 1, !.obj = Append(@, x)]
<1>1. /\ cons[c].pc = "copy" /\ cons[c].i < cons[c].n /\ cons[c] \in Locals
      /\ cons' = [cons EXCEPT ![c] = l]
      /\ UNCHANGED <<ring, prodHead, prodTail, consHead, consTail, prod, reserved>>
    BY DEF DeqCopy, IInv, TypeOK
<1>2. ConsumerPlaced(cons[c])
    BY DEF IInv, Placed
<1>3. PICK k \in Locals : k = cons[c]
    BY <1>1
<1>4. /\ k.i \in 0 .. Mask /\ k.n \in Nat /\ Pos(k.head) \in Nat /\ k.head \in Idx
      /\ k.i < k.n /\ k.obj \in Seq(Objects \cup {Garbage}) /\ Len(k.obj) = k.i
    BY <1>1, <1>2, <1>3, LocalsType DEF ConsumerPlaced, Locals
<1>5. k.i + 1 \in 0 .. Mask /\ k.i + 1 <= k.n
    <2>1. Pos(consTail) <= Pos(k.head) /\ Pos(k.head) + k.n <= Pos(consHead)
        BY <1>1, <1>2, <1>3 DEF ConsumerPlaced
    <2>2. k.n <= Mask
        BY SMTT(40), <1>4, <2>1, Positions, Constants
    <2>3. QED
        BY <1>4, <2>2, Constants
<1>6. x \in Objects \cup {Garbage}
    <2>1. Plus(k.head, k.i) \in Nat
        BY SMTT(40), <1>4, Constants DEF Plus
    <2>2. QED
        BY <1>3, <2>1, SlotInRing DEF IInv, TypeOK
<1> HIDE DEF x
<1>7. Append(k.obj, x) \in Seq(Objects \cup {Garbage}) /\ Len(Append(k.obj, x)) = k.i + 1
    BY <1>4, <1>6
<1>8. /\ l.pc = "copy" /\ l.i = k.i + 1 /\ l.head = k.head /\ l.n = k.n
      /\ l.max = k.max /\ l.obj = Append(k.obj, x) /\ l \in Locals
    BY <1>1, <1>3, <1>5, <1>7 DEF Locals
<1> HIDE DEF l
<1>9. ConsumerPlaced(l)
    BY <1>1, <1>2, <1>3, <1>5, <1>7, <1>8 DEF ConsumerPlaced
<1>10. QED
    BY <1>1, <1>3, <1>8, <1>9, ConsumerStep

LEMMA DeqReleaseInd ==
    ASSUME IInv, NEW c \in Consumers, DeqRelease(c)
    PROVE  IInv'
<1>1. /\ cons[c].pc = "copy" /\ cons[c] \in Locals /\ cons[c].head = consTail
      /\ cons' = [cons EXCEPT ![c] = Idle] /\ cons \in [Consumers -> Locals]
      /\ consTail' = Plus(cons[c].head, cons[c].n)
      /\ UNCHANGED <<ring, prodHead, prodTail, consHead, prod, reserved>>
    BY DEF DeqRelease, IInv, TypeOK
<1>2. ConsumerPlaced(cons[c])
    BY DEF IInv, Placed
<1>3. PICK n \in Nat : n = cons[c].n /\ n >= 1 /\ Pos(consTail) + n <= Pos(consHead)
    BY <1>1, <1>2, LocalsType DEF ConsumerPlaced
<1>4. consTail' \in Idx /\ Pos(consTail)' = Pos(consTail) + n
    <2>1. consTail \in Idx /\ Pos(consTail) + n < IdxMod
        <3>1. /\ Pos(consHead) < IdxMod /\ consTail \in Idx /\ IdxMod \in Nat
              /\ Pos(consHead) \in Nat /\ Pos(consTail) \in Nat
            BY Positions, Constants
        <3>2. QED
            BY <1>3, <3>1
    <2>2. Plus(consTail, n) \in Idx /\ Pos(Plus(consTail, n)) = Pos(consTail) + n
        BY <2>1, PosPlus
    <2>3. QED
        BY <1>1, <1>3, <2>2 DEF Pos
<1>5. /\ Pos(prodHead)' = Pos(prodHead) /\ Pos(prodTail)' = Pos(prodTail)
      /\ Pos(consHead)' = Pos(consHead)
    BY <1>1 DEF Pos
<1>6. cons'[c] = Idle /\ \A d \in Consumers \ {c} : cons'[d] = cons[d]
    BY <1>1
<1>7. TypeOK'
    <2>1. cons' \in [Consumers -> Locals]
        BY <1>1, IdleLocal
    <2>2. QED
        BY <1>1, <1>4, <2>1 DEF IInv, TypeOK
<1>8. InOrder'
    <2>1. Mask' = Mask
        BY DEF Mask
    <2>2. QED
        BY SMTT(40), <1>1, <1>3, <1>4, <1>5, <2>1, Positions, Constants DEF InOrder
<1>9. Placed'
    <2>1. ASSUME NEW d \in Consumers \ {c}
          PROVE  ConsumerPlaced(cons[d])'
        <3>1. PICK k \in Locals : k = cons[d] /\ k = cons'[d] /\ ConsumerPlaced(k)
            BY <1>6 DEF IInv, Placed, TypeOK
        <3>2. Pos(k.head) \in Nat /\ Pos(k.head)' = Pos(k.head) /\ k.n \in Nat
            BY LocalsType DEF Pos
        <3>3. k.pc = "copy" => Pos(consTail) + n <= Pos(k.head)
            <4>1. k.pc = "copy" => Apart(cons[c], k)
                BY <1>1, <3>1 DEF IInv, BurstsApart
            <4>2. QED
                BY <1>1, <1>3, <3>1, <3>2, <4>1, Positions DEF Apart, ConsumerPlaced
        <3>4. QED
            BY <1>1, <1>4, <1>5, <3>1, <3>2, <3>3, Positions DEF ConsumerPlaced
    <2>2. ConsumerPlaced(cons[c])'
        BY <1>6 DEF ConsumerPlaced, Idle
    <2>3. ASSUME NEW p \in Producers
          PROVE  ProducerPlaced(prod[p])'
        <3>1. PICK k \in Locals : k = prod[p] /\ k = prod'[p] /\ ProducerPlaced(k)
            BY <1>1 DEF IInv, Placed, TypeOK
        <3>2. /\ Pos(k.head) \in Nat /\ Pos(k.head)' = Pos(k.head) /\ k.n \in Nat
              /\ Mask' = Mask /\ Mask \in Nat
            BY LocalsType, Constants DEF Pos, Mask
        <3>3. QED
            BY SMTT(40), <1>1, <1>3, <1>4, <1>5, <3>1, <3>2, Positions DEF ProducerPlaced
    <2>4. QED
        BY <2>1, <2>2, <2>3 DEF Placed
<1>10. BurstsApart'
    <2>1. cons'[c].pc # "copy"
        BY <1>6 DEF Idle
    <2>2. QED
        BY <1>1, <1>6, <2>1 DEF IInv, BurstsApart, Apart, Pos
<1>11. QED
    BY <1>7, <1>8, <1>9, <1>10 DEF IInv

----------------------------------------------------------------------------
LEMMA InitInd == Init => IInv
<1> SUFFICES ASSUME Init PROVE IInv
    OBVIOUS
<1>1. Pos(StartIdx) = 0
    BY Constants DEF Pos, Minus
<1>2. TypeOK
    BY Constants, IdleLocal DEF Init, TypeOK
<1>3. InOrder
    BY <1>1, Constants DEF Init, InOrder
<1>4. Placed /\ BurstsApart
    BY IdleLocal DEF Init, Placed, BurstsApart
<1>5. QED
    BY <1>2, <1>3, <1>4 DEF IInv

LEMMA NextInd == IInv /\ [Next]_vars => IInv'
<1> SUFFICES ASSUME IInv, [Next]_vars PROVE IInv'
    OBVIOUS
<1>1. ASSUME NEW p \in Producers, NEW n \in Bursts, NEW beh \in Behaviours,
             NEW table \in [1 .. n -> Objects], EnqStart(p, table, beh)
      PROVE  IInv'
    BY <1>1, EnqStartInd
<1>2. ASSUME NEW p \in Producers, Enqueue(p)
      PROVE  IInv'
    BY <1>2, EnqRefuseInd, EnqRoomInd, EnqCasInd, EnqRetryInd, EnqWriteInd, EnqPublishInd
       DEF Enqueue
<1>3. ASSUME NEW c \in Consumers, NEW n \in Bursts, NEW beh \in Behaviours,
             DeqStart(c, n, beh)
      PROVE  IInv'
    BY <1>3, DeqStartInd
<1>4. ASSUME NEW c \in Consumers, Dequeue(c)
      PROVE  IInv'
    BY <1>4, DeqRefuseInd, DeqEntriesInd, DeqCasInd, DeqRetryInd, DeqCopyInd, DeqReleaseInd
       DEF Dequeue
<1>5. CASE UNCHANGED vars
    BY <1>5 DEF vars, IInv, TypeOK, InOrder, Placed, BurstsApart, Apart,
                ProducerPlaced, ConsumerPlaced, Pos
<1>6. QED
    BY <1>1, <1>2, <1>3, <1>4, <1>5 DEF Next

\* Whatever threads there are and however they interleave in the loads, the
\* compare-and-sets and the waits of __rte_ring_mp_do_enqueue and
\* __rte_ring_mc_do_dequeue, positions stay in order and bursts apart.
THEOREM MPInvariant == Spec => []IInv
BY InitInd, NextInd, PTL DEF Spec

(* Two bursts that follow one another inside one round of the ring have no
   slot in common. *)
LEMMA NoCommonSlot ==
    ASSUME NEW k \in Locals, NEW l \in Locals,
           Pos(k.head) + k.n <= Pos(l.head),
           Pos(l.head) + l.n <= Pos(k.head) + Mask,
           Pos(l.head) + l.n < IdxMod
    PROVE  \A i \in 0 .. (k.n - 1), j \in 0 .. (l.n - 1) :
              Slot(Plus(k.head, i)) # Slot(Plus(l.head, j))
<1>1. PICK a, m, b, n \in Nat :
         /\ a = Pos(k.head) /\ m = k.n /\ b = Pos(l.head) /\ n = l.n
         /\ a + m <= b /\ b + n <= a + Mask /\ b + n < IdxMod
    BY LocalsType
<1>2. SUFFICES ASSUME NEW i \in 0 .. (m - 1), NEW j \in 0 .. (n - 1)
               PROVE  Slot(Plus(k.head, i)) # Slot(Plus(l.head, j))
    BY <1>1
<1>3. /\ i \in Nat /\ a + i < b /\ j \in Nat /\ b + j < a + Size
      /\ a + i < IdxMod /\ b + j < IdxMod
    BY <1>1, Numbers
<1>4. /\ Plus(k.head, i) \in Idx /\ Pos(Plus(k.head, i)) = a + i
      /\ Plus(l.head, j) \in Idx /\ Pos(Plus(l.head, j)) = b + j
    BY <1>1, <1>3, LocalsType, PosPlus
<1>5. /\ Pos(Plus(k.head, i)) < Pos(Plus(l.head, j))
      /\ Pos(Plus(l.head, j)) < Pos(Plus(k.head, i)) + Size
    BY <1>1, <1>3, <1>4, Numbers
<1>6. QED
    BY <1>4, <1>5, SlotsDiffer

LEMMA OwnApart ==
    ASSUME NEW k \in Locals, NEW l \in Locals,
           Pos(k.head) + k.n <= Pos(l.head),
           Pos(l.head) + l.n <= Pos(k.head) + Mask,
           Pos(l.head) + l.n < IdxMod
    PROVE  Own(k) \cap Own(l) = {} /\ Own(l) \cap Own(k) = {}
BY NoCommonSlot DEF Own

(* All bursts won lie in one round of the ring. *)
LEMMA OneRound ==
    ASSUME IInv
    PROVE  /\ \A p \in Producers : prod[p].pc = "write" =>
                 /\ prod[p] \in Locals /\ prod[p].n \in Nat /\ Pos(prod[p].head) \in Nat
                 /\ Pos(prodTail) <= Pos(prod[p].head)
                 /\ Pos(prod[p].head) + prod[p].n <= Pos(prodHead)
           /\ \A c \in Consumers : cons[c].pc = "copy" =>
                 /\ cons[c] \in Locals /\ cons[c].n \in Nat /\ Pos(cons[c].head) \in Nat
                 /\ Pos(consTail) <= Pos(cons[c].head)
                 /\ Pos(cons[c].head) + cons[c].n <= Pos(consHead)
BY LocalsType DEF IInv, TypeOK, Placed, ProducerPlaced, ConsumerPlaced

LEMMA IndMeansOwnersDisjoint == IInv => OwnersDisjoint
<1> SUFFICES ASSUME IInv PROVE OwnersDisjoint
    OBVIOUS
<1>0. ASSUME NEW k \in Locals, NEW l \in Locals,
             Pos(k.head) + k.n <= Pos(l.head),
             Pos(consTail) <= Pos(k.head), Pos(l.head) + l.n <= Pos(prodHead)
      PROVE  Own(k) \cap Own(l) = {} /\ Own(l) \cap Own(k) = {}
    <2>1. PICK a, b, n, ct, ph \in Nat :
             /\ a = Pos(k.head) /\ b = Pos(l.head) /\ n = l.n
             /\ ct = Pos(consTail) /\ ph = Pos(prodHead)
             /\ ct <= a /\ b + n <= ph /\ ph <= ct + Mask /\ ph < IdxMod
        <3>1. Pos(k.head) \in Nat /\ Pos(l.head) \in Nat /\ l.n \in Nat
            BY LocalsType
        <3>2. /\ Pos(consTail) \in Nat /\ Pos(prodHead) \in Nat
              /\ Pos(prodHead) <= Pos(consTail) + Mask /\ Pos(prodHead) < IdxMod
            BY Positions, Numbers
        <3>3. QED
            BY <1>0, <3>1, <3>2
    <2>2. b + n <= a + Mask /\ b + n < IdxMod
        BY <2>1, Constants
    <2>3. QED
        BY <1>0, <2>1, <2>2, OwnApart
<1>1. ASSUME NEW p \in Producers, NEW q \in Producers, p # q,
             prod[p].pc = "write", prod[q].pc = "write"
      PROVE  Own(prod[p]) \cap Own(prod[q]) = {}
    <2>1. Apart(prod[p], prod[q])
        BY <1>1 DEF IInv, BurstsApart
    <2>2. /\ prod[p] \in Locals /\ prod[q] \in Locals
          /\ Pos(consTail) <= Pos(prod[p].head) /\ Pos(consTail) <= Pos(prod[q].head)
        BY <1>1, OneRound, Positions
    <2>3. QED
        BY <1>0, <1>1, <2>1, <2>2, OneRound DEF Apart
<1>2. ASSUME NEW c \in Consumers, NEW d \in Consumers, c # d,
             cons[c].pc = "copy", cons[d].pc = "copy"
      PROVE  Own(cons[c]) \cap Own(cons[d]) = {}
    <2>1. Apart(cons[c], cons[d])
        BY <1>2 DEF IInv, BurstsApart
    <2>2. /\ cons[c] \in Locals /\ cons[d] \in Locals
          /\ Pos(cons[c].head) + cons[c].n <= Pos(prodHead)
          /\ Pos(cons[d].head) + cons[d].n <= Pos(prodHead)
        BY <1>2, OneRound, Positions
    <2>3. QED
        BY <1>0, <1>2, <2>1, <2>2, OneRound DEF Apart
<1>3. ASSUME NEW p \in Producers, NEW c \in Consumers,
             prod[p].pc = "write", cons[c].pc = "copy"
      PROVE  Own(prod[p]) \cap Own(cons[c]) = {}
    <2>1. /\ prod[p] \in Locals /\ cons[c] \in Locals
          /\ Pos(cons[c].head) + cons[c].n <= Pos(prod[p].head)
        BY <1>3, OneRound, Positions
    <2>2. QED
        BY <1>0, <1>3, <2>1, OneRound
<1>4. /\ \A p \in Producers : Own(prod[p]) # {} => prod[p].pc = "write"
      /\ \A c \in Consumers : Own(cons[c]) # {} => cons[c].pc = "copy"
    BY DEF Own, IInv, Placed, ProducerPlaced, ConsumerPlaced
<1>5. QED
    BY <1>1, <1>2, <1>3, <1>4 DEF OwnersDisjoint

\* No two threads are between their compare-and-set and the store of their
\* tail with a slot in common, although each has computed its room from a
\* cons.tail and a prod_head loaded at different times.
THEOREM MPSlotExclusion == Spec => []OwnersDisjoint
BY MPInvariant, IndMeansOwnersDisjoint, PTL

(* The only step from computing the room, or the objects, to the return. *)
LEMMA Refusals ==
    ASSUME IInv, [Next]_vars
    PROVE  /\ \A p \in Producers :
                 prod[p].pc = "room" /\ prod'[p].pc = "idle" => EnqRefuse(p)
           /\ \A c \in Consumers :
                 cons[c].pc = "entries" /\ cons'[c].pc = "idle" => DeqRefuse(c)
<1>1. prod \in [Producers -> Locals] /\ cons \in [Consumers -> Locals]
    BY DEF IInv, TypeOK
<1>2. ASSUME NEW p \in Producers, prod[p].pc = "room", prod'[p].pc = "idle"
      PROVE  EnqRefuse(p)
    <2>1. prod'[p] # prod[p]
        BY SMTT(40), <1>2
    <2>2. PICK q \in Producers :
             \/ \E n \in Bursts, beh \in Behaviours :
                   \E table \in [1 .. n -> Objects] : EnqStart(q, table, beh)
             \/ Enqueue(q)
        BY <2>1 DEF Next, vars, Dequeue, DeqStart, DeqRefuse, DeqEntries, DeqCas, DeqRetry,
                    DeqCopy, DeqRelease
    <2>3. p = q
        BY <1>1, <2>1, <2>2 DEF Enqueue, EnqStart, EnqRefuse, EnqRoom, EnqCas, EnqRetry,
                                EnqWrite, EnqPublish
    <2>4. ~EnqRoom(p)
        BY <1>1, <1>2 DEF EnqRoom, Locals
    <2>5. QED
        BY <1>2, <2>2, <2>3, <2>4 DEF Enqueue, EnqStart, EnqCas, EnqRetry, EnqWrite, EnqPublish
<1>3. ASSUME NEW c \in Consumers, cons[c].pc = "entries", cons'[c].pc = "idle"
      PROVE  DeqRefuse(c)
    <2>1. cons'[c] # cons[c]
        BY SMTT(40), <1>3
    <2>2. PICK d \in Consumers :
             \/ \E n \in Bursts, beh \in Behaviours : DeqStart(d, n, beh)
             \/ Dequeue(d)
        BY <2>1 DEF Next, vars, Enqueue, EnqStart, EnqRefuse, EnqRoom, EnqCas, EnqRetry,
                    EnqWrite, EnqPublish
    <2>3. c = d
        BY <1>1, <2>1, <2>2 DEF Dequeue, DeqStart, DeqRefuse, DeqEntries, DeqCas, DeqRetry,
                                DeqCopy, DeqRelease
    <2>4. ~DeqEntries(c)
        BY <1>1, <1>3 DEF DeqEntries, Locals
    <2>5. QED
        BY <1>3, <2>2, <2>3, <2>4 DEF Dequeue, DeqStart, DeqCas, DeqRetry, DeqCopy, DeqRelease
<1>4. QED
    BY <1>2, <1>3

\* "Not enough room" and "not enough objects" are true at the moment of the
\* return, also of a thread whose head is of the past.
THEOREM MPRefusals == Spec => RefusalsJustified
<1>1. ASSUME IInv, [Next]_vars, NEW p \in Producers,
             prod[p].pc = "room", prod'[p].pc = "idle"
      PROVE  Minus(prodHead, consTail) + Needed(prod[p]) > Mask
    <2>1. EnqRefuse(p)
        BY <1>1, Refusals
    <2>2. PICK f, ct, ph, w \in Nat :
             /\ f = FreeEntries(p) /\ ct = Pos(consTail) /\ ph = Pos(prodHead)
             /\ w = Needed(prod[p]) /\ ct <= ph /\ f >= ct + Mask - ph /\ w > f
        <3>0. prod[p] \in Locals
            BY <1>1 DEF IInv, TypeOK
        <3>1. Needed(prod[p]) \in Nat /\ Needed(prod[p]) > FreeEntries(p)
            BY <1>1, <2>1, <3>0, RoomIsThere, LocalsType DEF Needed, EnqRefuse
        <3>2. QED
            BY <1>1, <3>1, RoomIsThere, Positions
    <2>3. Minus(prodHead, consTail) = ph - ct
        BY <1>1, <2>2, MinusPos, Positions
    <2>4. QED
        BY <2>2, <2>3, Constants
<1>2. ASSUME IInv, [Next]_vars, NEW c \in Consumers,
             cons[c].pc = "entries", cons'[c].pc = "idle"
      PROVE  Minus(prodTail, consHead) < Needed(cons[c])
    <2>1. DeqRefuse(c)
        BY <1>2, Refusals
    <2>2. PICK f, ch, pt, w \in Nat :
             /\ f = Entries(c) /\ ch = Pos(consHead) /\ pt = Pos(prodTail)
             /\ w = Needed(cons[c]) /\ ch <= pt /\ f >= pt - ch /\ w > f
        <3>0. cons[c] \in Locals
            BY <1>2 DEF IInv, TypeOK
        <3>1. Needed(cons[c]) \in Nat /\ Needed(cons[c]) > Entries(c)
            BY <1>2, <2>1, <3>0, EntriesAreThere, LocalsType DEF Needed, DeqRefuse
        <3>2. QED
            BY <1>2, <3>1, EntriesAreThere, Positions
    <2>3. Minus(prodTail, consHead) = pt - ch
        BY <1>2, <2>2, MinusPos, Positions
    <2>4. QED
        BY <2>2, <2>3
<1>3. IInv /\ [Next]_vars =>
        [/\ \A p \in Producers :
              prod[p].pc = "room" /\ prod'[p].pc = "idle"
                 => Minus(prodHead, consTail) + Needed(prod[p]) > Mask
         /\ \A c \in Consumers :
              cons[c].pc = "entries" /\ cons'[c].pc = "idle"
                 => Minus(prodTail, consHead) < Needed(cons[c])]_vars
    BY <1>1, <1>2
<1>4. QED
    BY <1>3, MPInvariant, PTL DEF Spec, RefusalsJustified

----------------------------------------------------------------------------
(* The refinement.  What is in the queue and what consumers hold is told by
   positions. *)
Cells == Objects \cup {Garbage}
At(k) == ring[Slot(Plus(StartIdx, k))]

LEMMA PlusAt ==
    ASSUME NEW x \in Idx, NEW j \in Nat, Pos(x) + j < IdxMod
    PROVE  Plus(x, j) = Plus(StartIdx, Pos(x) + j)
BY Constants DEF Pos, Plus, Minus

LEMMA CellType ==
    ASSUME IInv, NEW k \in Nat, k < IdxMod
    PROVE  Slot(Plus(StartIdx, k)) \in Slots /\ At(k) \in Cells
<1>1. Plus(StartIdx, k) \in Nat
    BY Constants DEF Plus
<1>2. QED
    BY <1>1, SlotInRing DEF At, Cells, IInv, TypeOK

QueueIs ==
    /\ AbsQueue \in Seq(Cells)
    /\ Len(AbsQueue) = Pos(prodTail) - Pos(consHead)
    /\ \A j \in 1 .. Len(AbsQueue) : AbsQueue[j] = At(Pos(consHead) + (j - 1))

HeldIs(c) ==
    /\ cons[c].pc # "copy" => AbsHeld(c) = << >>
    /\ cons[c].pc = "copy" =>
          /\ AbsHeld(c) \in Seq(Cells) /\ Len(AbsHeld(c)) = cons[c].n
          /\ \A j \in 1 .. cons[c].n : AbsHeld(c)[j] =
                IF j <= cons[c].i THEN cons[c].obj[j]
                ELSE At(Pos(cons[c].head) + (j - 1))

LEMMA AbsQueueIs == IInv => QueueIs
<1> SUFFICES ASSUME IInv PROVE QueueIs
    OBVIOUS
<1>1. PICK ch, pt \in Nat :
         ch = Pos(consHead) /\ pt = Pos(prodTail) /\ ch <= pt /\ pt < IdxMod
    BY Positions, Numbers
<1>2. Published = pt - ch /\ Published \in Nat
    <2>1. Published = pt - ch
        BY <1>1, MinusPos, Positions DEF Published
    <2>2. QED
        BY <1>1, <2>1
<1>3. ASSUME NEW j \in 1 .. Published
      PROVE  /\ ring[Slot(Plus(consHead, j - 1))] = At(ch + (j - 1))
             /\ At(ch + (j - 1)) \in Cells
    <2>1. j - 1 \in Nat /\ ch + (j - 1) \in Nat /\ ch + (j - 1) < IdxMod
        BY <1>1, <1>2, Numbers
    <2>2. consHead \in Idx
        BY Positions
    <2>3. Plus(consHead, j - 1) = Plus(StartIdx, ch + (j - 1))
        BY <1>1, <2>1, <2>2, PlusAt
    <2>4. QED
        BY <2>1, <2>3, CellType DEF At
<1>4. AbsQueue = [j \in 1 .. Published |-> At(ch + (j - 1))]
    BY <1>3 DEF AbsQueue
<1> HIDE DEF Published
<1>5. QED
    BY SMTT(40), <1>1, <1>2, <1>3, <1>4 DEF QueueIs

AllHeldIs == \A c \in Consumers : HeldIs(c)

LEMMA AbsHeldIs == IInv => AllHeldIs
<1> SUFFICES ASSUME IInv, NEW c \in Consumers PROVE HeldIs(c)
    BY DEF AllHeldIs
<1>1. CASE cons[c].pc # "copy"
    BY <1>1 DEF HeldIs, AbsHeld
<1>2. CASE cons[c].pc = "copy"
    <2>1. PICK n, i, h \in Nat :
             /\ n = cons[c].n /\ i = cons[c].i /\ h = Pos(cons[c].head)
             /\ i <= n /\ h + n < IdxMod /\ cons[c].head \in Idx
             /\ cons[c].obj \in Seq(Cells) /\ Len(cons[c].obj) = i
        <3>1. cons[c] \in Locals /\ ConsumerPlaced(cons[c])
            BY DEF IInv, TypeOK, Placed
        <3>2. PICK n, i, h, ch \in Nat :
                 /\ n = cons[c].n /\ i = cons[c].i /\ h = Pos(cons[c].head)
                 /\ ch = Pos(consHead) /\ ch < IdxMod
            BY <3>1, LocalsType, Positions, Numbers
        <3>3. h + n <= ch /\ i <= n /\ Len(cons[c].obj) = i
            BY <1>2, <3>1, <3>2 DEF ConsumerPlaced
        <3>4. cons[c].obj \in Seq(Cells) /\ cons[c].head \in Idx
            BY <3>1 DEF Locals, Cells
        <3>5. QED
            BY <3>2, <3>3, <3>4, Numbers
    <2>2. ASSUME NEW j \in 1 .. n
          PROVE  /\ ring[Slot(Plus(cons[c].head, j - 1))] = At(h + (j - 1))
                 /\ At(h + (j - 1)) \in Cells
        <3>1. j - 1 \in Nat /\ h + (j - 1) \in Nat /\ h + (j - 1) < IdxMod
            BY <2>1, Numbers
        <3>2. Plus(cons[c].head, j - 1) = Plus(StartIdx, h + (j - 1))
            BY <2>1, <3>1, PlusAt
        <3>3. QED
            BY <3>1, <3>2, CellType DEF At
    <2>3. \A j \in 1 .. n : j <= i => cons[c].obj[j] \in Cells
        BY <2>1, ElementOfSeq
    <2>4. AbsHeld(c) = [j \in 1 .. n |-> IF j <= i THEN cons[c].obj[j]
                                         ELSE At(h + (j - 1))]
        BY <1>2, <2>1, <2>2 DEF AbsHeld
    <2>5. \A j \in 1 .. n : (IF j <= i THEN cons[c].obj[j] ELSE At(h + (j - 1))) \in Cells
        BY <2>2, <2>3
    <2>6. AbsHeld(c) \in Seq(Cells) /\ Len(AbsHeld(c)) = n
        BY <2>4, <2>5
    <2>7. \A j \in 1 .. n : AbsHeld(c)[j] = IF j <= i THEN cons[c].obj[j]
                                            ELSE At(h + (j - 1))
        BY <2>4
    <2>8. QED
        BY <1>2, <2>1, <2>6, <2>7 DEF HeldIs
<1>3. QED
    BY <1>1, <1>2

ClaimedIs == Minus(consHead, consTail) = Pos(consHead) - Pos(consTail)

LEMMA Claimed == IInv => ClaimedIs
BY MinusPos, Positions DEF ClaimedIs

----------------------------------------------------------------------------
LEMMA InitRefines == Init => Fifo!FifoInit
<1> SUFFICES ASSUME Init PROVE Fifo!FifoInit
    OBVIOUS
<1>1. IInv
    BY InitInd
<1>2. AbsQueue = << >>
    <2>1. Pos(prodTail) - Pos(consHead) = 0
        BY <1>1, Positions DEF Init
    <2>2. QED
        BY <1>1, <2>1, AbsQueueIs, EmptySeq DEF QueueIs
<1>3. ASSUME NEW c \in Consumers
      PROVE  AbsHeld(c) = << >>
    BY IdleLocal DEF Init, AbsHeld
<1>4. Minus(consHead, consTail) = 0
    BY <1>1, Claimed, Positions DEF Init, ClaimedIs
<1>5. QED
    BY <1>2, <1>3, <1>4 DEF Fifo!FifoInit

(* Only the slots, the published tail and the consumers' bursts are visible. *)
LEMMA Invisible ==
    ASSUME UNCHANGED <<ring, prodTail, consHead, consTail, cons>>
    PROVE  UNCHANGED Fifo!fifoVars
BY DEF Fifo!fifoVars, AbsQueue, AbsHeld, Published, Minus

(* Nor are the locals of a consumer that is not copying. *)
LEMMA NotCopying ==
    ASSUME NEW c \in Consumers, cons[c].pc # "copy", cons'[c].pc # "copy",
           \A d \in Consumers : d # c => cons'[d] = cons[d], ring' = ring
    PROVE  \A d \in Consumers : AbsHeld(d)' = AbsHeld(d)
<1> TAKE d \in Consumers
<1>1. CASE d = c
    BY <1>1 DEF AbsHeld
<1>2. CASE d # c
    BY <1>2 DEF AbsHeld
<1>3. QED
    BY <1>1, <1>2

(* Writing a slot of a burst won is invisible: no slot from cons.tail up to
   prod.tail is touched. *)
LEMMA EnqWriteRefines ==
    ASSUME IInv, NEW p \in Producers, EnqWrite(p)
    PROVE  UNCHANGED Fifo!fifoVars
<1>1. /\ prod[p].pc = "write" /\ prod[p].i < prod[p].n /\ prod[p] \in Locals
      /\ ring' = [ring EXCEPT ![Slot(Plus(prod[p].head, prod[p].i))] =
                                  prod[p].obj[prod[p].i + 1]]
      /\ UNCHANGED <<prodTail, consHead, consTail, cons>>
    BY DEF EnqWrite, IInv, TypeOK
<1>2. PICK h, i, n, ct, ch, pt, ph \in Nat :
         /\ h = Pos(prod[p].head) /\ i = prod[p].i /\ n = prod[p].n
         /\ ct = Pos(consTail) /\ ch = Pos(consHead) /\ pt = Pos(prodTail)
         /\ ph = Pos(prodHead) /\ ct <= ch /\ ch <= pt /\ ph <= ct + Mask
         /\ pt <= h /\ h + n <= ph /\ ph < IdxMod
    <2>1. PICK ct, ch, pt, ph \in Nat :
             /\ ct = Pos(consTail) /\ ch = Pos(consHead) /\ pt = Pos(prodTail)
             /\ ph = Pos(prodHead) /\ ct <= ch /\ ch <= pt /\ pt <= ph
             /\ ph <= ct + Mask /\ ph < IdxMod
        BY PickPositions
    <2>2. PICK h, i, n \in Nat :
             h = Pos(prod[p].head) /\ i = prod[p].i /\ n = prod[p].n
        BY <1>1, LocalsType
    <2>3. pt <= h /\ h + n <= ph
        BY <1>1, <2>1, <2>2, OneRound
    <2>4. QED
        BY <2>1, <2>2, <2>3
<1> DEFINE a == h + i
<1>3. a \in Nat /\ pt <= a /\ a < ct + Size /\ a < IdxMod
    BY <1>1, <1>2, Numbers
<1>4. Plus(prod[p].head, prod[p].i) = Plus(StartIdx, a)
    BY <1>1, <1>2, <1>3, LocalsType, PlusAt
<1> HIDE DEF a
<1>5. ASSUME NEW b \in Nat, ct <= b, b < pt
      PROVE  At(b)' = At(b)
    <2>1. b < IdxMod /\ b < a /\ a < b + Size
        BY <1>2, <1>3, <1>5, Numbers
    <2>2. /\ Plus(StartIdx, a) \in Idx /\ Pos(Plus(StartIdx, a)) = a
          /\ Plus(StartIdx, b) \in Idx /\ Pos(Plus(StartIdx, b)) = b
        BY <1>3, <2>1, Constants DEF Pos, Plus, Minus
    <2>3. Slot(Plus(StartIdx, b)) # Slot(Plus(StartIdx, a))
        BY <2>1, <2>2, SlotsDiffer
    <2>4. QED
        BY <1>1, <1>4, <2>1, <2>3, CellType DEF At, IInv, TypeOK
<1>6. AbsQueue' = AbsQueue
    <2>1. Published = pt - ch
        BY <1>2, MinusPos, Positions DEF Published
    <2>2. Published' = Published
        BY <1>1 DEF Published, Minus
    <2>3. ASSUME NEW j \in 1 .. (pt - ch)
          PROVE  ring'[Slot(Plus(consHead, j - 1))] = ring[Slot(Plus(consHead, j - 1))]
        <3>1. j - 1 \in Nat /\ ch + (j - 1) \in Nat /\ ct <= ch + (j - 1)
              /\ ch + (j - 1) < pt /\ ch + (j - 1) < IdxMod
            BY <1>2, <2>3, Numbers
        <3>2. Plus(consHead, j - 1) = Plus(StartIdx, ch + (j - 1))
            BY <1>2, <3>1, PlusAt, Positions
        <3>3. QED
            BY <1>5, <3>1, <3>2 DEF At
    <2>4. QED
        BY <1>1, <2>1, <2>2, <2>3 DEF AbsQueue
<1>7. ASSUME NEW c \in Consumers
      PROVE  AbsHeld(c)' = AbsHeld(c)
    <2>1. CASE cons[c].pc # "copy"
        BY <1>1, <2>1 DEF AbsHeld
    <2>2. CASE cons[c].pc = "copy"
        <3>1. PICK g, m \in Nat :
                 /\ g = Pos(cons[c].head) /\ m = cons[c].n /\ cons[c].head \in Idx
                 /\ ct <= g /\ g + m <= ch
            BY <1>2, <2>2, OneRound, LocalsType
        <3>2. ASSUME NEW j \in 1 .. m
              PROVE  ring'[Slot(Plus(cons[c].head, j - 1))]
                        = ring[Slot(Plus(cons[c].head, j - 1))]
            <4>1. j - 1 \in Nat /\ g + (j - 1) \in Nat /\ ct <= g + (j - 1)
                  /\ g + (j - 1) < pt /\ g + (j - 1) < IdxMod
                BY <1>2, <3>1, Numbers
            <4>2. Plus(cons[c].head, j - 1) = Plus(StartIdx, g + (j - 1))
                BY <3>1, <4>1, PlusAt
            <4>3. QED
                BY <1>5, <4>1, <4>2 DEF At
        <3>3. QED
            BY <1>1, <2>2, <3>1, <3>2 DEF AbsHeld
    <2>3. QED
        BY <2>1, <2>2
<1>8. QED
    BY <1>1, <1>6, <1>7 DEF Fifo!fifoVars, Minus

(* Publishing appends the burst. *)
LEMMA EnqPublishRefines ==
    ASSUME IInv, Written, NEW p \in Producers, EnqPublish(p)
    PROVE  Fifo!FifoNext
<1> DEFINE burst == [j \in 1 .. prod[p].n |-> prod[p].obj[j]]
<1>1. /\ prod[p].pc = "write" /\ prod[p].i = prod[p].n /\ prod[p].head = prodTail
      /\ prod[p] \in Locals /\ prodTail' = Plus(prodTail, prod[p].n)
      /\ UNCHANGED <<ring, prodHead, consHead, consTail, cons>>
    BY DEF EnqPublish, IInv, TypeOK
<1>2. ProducerPlaced(prod[p]) /\ IInv'
    BY EnqPublishInd DEF IInv, Placed
<1>3. PICK n, ct, ch, pt, ph \in Nat :
         /\ n = prod[p].n /\ ct = Pos(consTail) /\ ch = Pos(consHead)
         /\ pt = Pos(prodTail) /\ ph = Pos(prodHead) /\ ct <= ch /\ ch <= pt
         /\ ph <= ct + Mask /\ pt + n <= ph /\ ph < IdxMod /\ n >= 1
    <2>1. prod[p].n \in Nat /\ prod[p].n >= 1 /\ Pos(prodTail) + prod[p].n <= Pos(prodHead)
        BY <1>1, <1>2, LocalsType DEF ProducerPlaced
    <2>2. PICK ct, ch, pt, ph \in Nat :
             /\ ct = Pos(consTail) /\ ch = Pos(consHead) /\ pt = Pos(prodTail)
             /\ ph = Pos(prodHead) /\ ct <= ch /\ ch <= pt /\ pt <= ph
             /\ ph <= ct + Mask /\ ph < IdxMod
        BY PickPositions
    <2>3. QED
        BY <2>1, <2>2
<1>4. /\ burst \in [1 .. n -> Objects] /\ burst \in Seq(Cells) /\ Len(burst) = n
      /\ \A j \in 1 .. n : burst[j] = At(pt + (j - 1))
    <2>1. prod[p].obj \in Seq(Objects) /\ n <= Len(prod[p].obj)
        BY <1>1, <1>2, <1>3, LocalsType DEF ProducerPlaced
    <2>2. \A j \in 1 .. n : prod[p].obj[j] \in Objects
        BY <1>3, <2>1, ElementOfSeq
    <2>3. burst \in [1 .. n -> Objects] /\ burst \in [1 .. n -> Cells]
        BY <1>3, <2>2 DEF Cells
    <2>4. burst \in Seq(Cells) /\ Len(burst) = n
        BY <1>3, <2>3
    <2>5. ASSUME NEW j \in 1 .. n
          PROVE  burst[j] = At(pt + (j - 1))
        <3>1. j - 1 \in 0 .. (n - 1) /\ j - 1 \in Nat /\ (j - 1) + 1 = j
              /\ pt + (j - 1) < IdxMod
            BY <1>3, Numbers
        <3>2. ring[Slot(Plus(prodTail, j - 1))] = prod[p].obj[j]
            BY <1>1, <1>3, <3>1 DEF Written
        <3>3. Plus(prodTail, j - 1) = Plus(StartIdx, pt + (j - 1))
            BY <1>3, <3>1, PlusAt, Positions
        <3>4. QED
            BY <1>3, <3>2, <3>3 DEF At
    <2>6. QED
        BY <2>3, <2>4, <2>5
<1> HIDE DEF burst
<1>5. /\ AbsQueue \in Seq(Cells) /\ Len(AbsQueue) = pt - ch
      /\ \A j \in 1 .. (pt - ch) : AbsQueue[j] = At(ch + (j - 1))
    BY <1>3, AbsQueueIs DEF QueueIs
<1>6. /\ AbsQueue' \in Seq(Cells) /\ Len(AbsQueue') = (pt - ch) + n
      /\ \A j \in 1 .. ((pt - ch) + n) : AbsQueue'[j] = At(ch + (j - 1))
    <2>1. QueueIs'
        BY <1>2, AbsQueueIs, PTL
    <2>2. Pos(prodTail)' = pt + n /\ Pos(consHead)' = ch
        <3>1. Pos(Plus(prodTail, n)) = pt + n
            <4>1. prodTail \in Idx /\ pt + n < IdxMod
                BY <1>3, Positions, Numbers
            <4>2. QED
                BY <1>3, <4>1, PosPlus
        <3>2. QED
            BY <1>1, <1>3, <3>1 DEF Pos
    <2>3. \A k : At(k)' = At(k)
        BY <1>1 DEF At
    <2>4. QED
        BY <1>3, <2>1, <2>2, <2>3 DEF QueueIs
<1>7. AbsQueue' = AbsQueue \o burst
    <2>1. PICK m \in Nat : m = pt - ch
        BY <1>3
    <2>2. /\ AbsQueue \o burst \in Seq(Cells) /\ Len(AbsQueue \o burst) = m + n
          /\ \A j \in 1 .. (m + n) : (AbsQueue \o burst)[j] =
                IF j <= m THEN AbsQueue[j] ELSE burst[j - m]
        <3>1. AbsQueue \in Seq(Cells) /\ burst \in Seq(Cells)
            BY <1>4, <1>5
        <3>2. /\ AbsQueue \o burst \in Seq(Cells)
              /\ Len(AbsQueue \o burst) = Len(AbsQueue) + Len(burst)
              /\ \A j \in 1 .. Len(AbsQueue) + Len(burst) : (AbsQueue \o burst)[j] =
                    IF j <= Len(AbsQueue) THEN AbsQueue[j]
                    ELSE burst[j - Len(AbsQueue)]
            BY <3>1, ConcatProperties, Zenon
        <3>3. Len(AbsQueue) = m /\ Len(burst) = n
            BY <1>4, <1>5, <2>1
        <3>4. QED
            BY <3>2, <3>3
    <2>3. ASSUME NEW j \in 1 .. (m + n)
          PROVE  AbsQueue'[j] = (AbsQueue \o burst)[j]
        <3>1. CASE j <= m
            BY <1>5, <1>6, <2>1, <2>2, <3>1
        <3>2. CASE ~(j <= m)
            <4>1. j - m \in 1 .. n /\ pt + ((j - m) - 1) = ch + (j - 1)
                BY <1>3, <2>1, <3>2
            <4>2. QED
                BY <1>4, <1>6, <2>1, <2>2, <3>2, <4>1
        <3>3. QED
            BY <3>1, <3>2
    <2>4. QED
        BY <1>6, <2>1, <2>2, <2>3, SeqEqual
<1>8. Fifo!Put(burst)
    <2>1. burst # << >>
        BY <1>3, <1>4
    <2>2. Len(AbsQueue) + Minus(consHead, consTail) + Len(burst) <= Mask
        <3>1. Minus(consHead, consTail) = ch - ct
            BY <1>3, Claimed DEF ClaimedIs
        <3>2. QED
            <4>1. Len(AbsQueue) = pt - ch /\ Len(burst) = n /\ Mask \in Nat
                BY <1>4, <1>5, Numbers
            <4>2. (pt - ch) + (ch - ct) + n <= Mask
                BY <1>3, Numbers
            <4>3. QED
                BY <3>1, <4>1, <4>2
    <2>3. UNCHANGED <<[c \in Consumers |-> AbsHeld(c)], Minus(consHead, consTail)>>
        BY <1>1 DEF AbsHeld, Minus
    <2>4. QED
        BY <1>7, <2>1, <2>2, <2>3 DEF Fifo!Put
<1>9. n \in 1 .. Mask
    BY <1>3, Numbers
<1>10. QED
    BY <1>4, <1>8, <1>9 DEF Fifo!FifoNext

(* Winning the head takes the oldest objects. *)
LEMMA DeqCasRefines ==
    ASSUME IInv, NEW c \in Consumers, DeqCas(c)
    PROVE  Fifo!FifoNext
<1>1. /\ cons[c].pc = "cas" /\ cons[c] \in Locals /\ cons[c].head = consHead
      /\ cons' = [cons EXCEPT ![c].pc = "copy"] /\ cons \in [Consumers -> Locals]
      /\ consHead' = Plus(consHead, cons[c].n)
      /\ UNCHANGED <<ring, prodTail, consTail>>
    BY DEF DeqCas, IInv, TypeOK
<1>2. ConsumerPlaced(cons[c]) /\ IInv'
    BY DeqCasInd DEF IInv, Placed
<1>3. PICK n, ct, ch, pt \in Nat :
         /\ n = cons[c].n /\ ct = Pos(consTail) /\ ch = Pos(consHead)
         /\ pt = Pos(prodTail) /\ ct <= ch /\ ch + n <= pt /\ pt < IdxMod
         /\ pt <= ct + Mask /\ n >= 1
    <2>1. PICK ct, ch, pt, ph \in Nat :
             /\ ct = Pos(consTail) /\ ch = Pos(consHead) /\ pt = Pos(prodTail)
             /\ ph = Pos(prodHead) /\ ct <= ch /\ ch <= pt /\ pt <= ph
             /\ ph <= ct + Mask /\ ph < IdxMod
        BY PickPositions
    <2>2. cons[c].n \in Nat /\ cons[c].n >= 1 /\ ch + cons[c].n <= pt
        BY <1>1, <1>2, <2>1, LocalsType DEF ConsumerPlaced
    <2>3. QED
        BY <2>1, <2>2, Numbers
<1>4. PICK m \in Nat : m = pt - ch /\ n <= m
    BY <1>3
<1>5. /\ AbsQueue \in Seq(Cells) /\ Len(AbsQueue) = m
      /\ \A j \in 1 .. m : AbsQueue[j] = At(ch + (j - 1))
    BY <1>3, <1>4, AbsQueueIs DEF QueueIs
<1>6. Pos(prodTail)' = pt /\ Pos(consHead)' = ch + n /\ Pos(consTail)' = ct
    <2>1. consHead \in Idx /\ ch + n < IdxMod
        BY <1>3, Positions, Numbers
    <2>2. Pos(Plus(consHead, n)) = ch + n
        BY <1>3, <2>1, PosPlus
    <2>3. QED
        BY <1>1, <1>3, <2>2 DEF Pos
<1>7. \A k : At(k)' = At(k)
    BY <1>1 DEF At
<1>8. /\ AbsQueue' \in Seq(Cells) /\ Len(AbsQueue') = m - n
      /\ \A j \in 1 .. (m - n) : AbsQueue'[j] = At((ch + n) + (j - 1))
    <2>1. QueueIs'
        BY <1>2, AbsQueueIs, PTL
    <2>2. Len(AbsQueue') = m - n
        BY <1>3, <1>4, <1>6, <2>1 DEF QueueIs
    <2>3. QED
        BY <1>6, <1>7, <2>1, <2>2 DEF QueueIs
<1>9. /\ AbsHeld(c)' \in Seq(Cells) /\ Len(AbsHeld(c)') = n
      /\ \A j \in 1 .. n : AbsHeld(c)'[j] = At(ch + (j - 1))
    <2>1. HeldIs(c)'
        <3>1. AllHeldIs'
            BY <1>2, AbsHeldIs, PTL
        <3>2. QED
            BY <3>1 DEF AllHeldIs
    <2>2. /\ cons'[c].pc = "copy" /\ cons'[c].n = n /\ cons'[c].head = consHead
          /\ cons'[c].i = 0
        BY <1>1, <1>2, <1>3 DEF ConsumerPlaced
    <2>3. Pos(cons[c].head)' = ch
        BY <1>3, <2>2 DEF Pos
    <2>4. \A j \in 1 .. n : ~(j <= 0)
        BY <1>3
    <2>5. QED
        BY <1>7, <2>1, <2>2, <2>3, <2>4 DEF HeldIs
<1>10. AbsHeld(c)' = SubSeq(AbsQueue, 1, n)
    <2>1. \A j \in 1 .. n : AbsQueue[j] \in Cells
        BY <1>4, <1>5, ElementOfSeq
    <2>2. /\ SubSeq(AbsQueue, 1, n) \in Seq(Cells) /\ Len(SubSeq(AbsQueue, 1, n)) = n
          /\ \A j \in 1 .. n : SubSeq(AbsQueue, 1, n)[j] = AbsQueue[j]
        BY <1>3, <2>1, SubSeqProperties
    <2>3. \A j \in 1 .. n : AbsHeld(c)'[j] = SubSeq(AbsQueue, 1, n)[j]
        BY <1>4, <1>5, <1>9, <2>2
    <2>4. QED
        BY <1>9, <2>2, <2>3, SeqEqual
<1>11. AbsQueue' = SubSeq(AbsQueue, n + 1, m)
    <2>1. \A j \in (n + 1) .. m : AbsQueue[j] \in Cells
        BY <1>3, <1>5, ElementOfSeq
    <2>2. /\ SubSeq(AbsQueue, n + 1, m) \in Seq(Cells)
          /\ Len(SubSeq(AbsQueue, n + 1, m)) = m - n
          /\ \A j \in 1 .. (m - n) : SubSeq(AbsQueue, n + 1, m)[j] = AbsQueue[n + j]
        BY <1>3, <1>4, <2>1, SubSeqProperties
    <2>3. ASSUME NEW j \in 1 .. (m - n)
          PROVE  AbsQueue'[j] = SubSeq(AbsQueue, n + 1, m)[j]
        <3>1. n + j \in 1 .. m /\ ch + ((n + j) - 1) = (ch + n) + (j - 1)
            BY <1>3, <1>4
        <3>2. QED
            BY <1>5, <1>8, <2>2, <3>1
    <2>4. QED
        BY <1>8, <2>2, <2>3, SeqEqual
<1>12. Fifo!Take(c, n)
    <2>1. AbsHeld(c) = << >>
        BY <1>1 DEF AbsHeld
    <2>2. ASSUME NEW d \in Consumers, d # c
          PROVE  AbsHeld(d)' = AbsHeld(d)
        BY <1>1, <2>2 DEF AbsHeld
    <2>3. [d \in Consumers |-> AbsHeld(d)]' =
             [[d \in Consumers |-> AbsHeld(d)] EXCEPT ![c] = SubSeq(AbsQueue, 1, n)]
        BY <1>10, <2>2
    <2>4. Minus(consHead, consTail)' = Minus(consHead, consTail) + n
        <3>1. Minus(consHead, consTail) = ch - ct
            BY <1>3, Claimed DEF ClaimedIs
        <3>2. ClaimedIs'
            BY <1>2, Claimed, PTL
        <3>3. QED
            BY <1>3, <1>6, <3>1, <3>2 DEF ClaimedIs
    <2>5. n \in 1 .. m
        BY <1>3, <1>4
    <2>6. QED
        BY <1>5, <1>11, <2>1, <2>3, <2>4, <2>5 DEF Fifo!Take
<1>13. n \in 1 .. Mask
    BY <1>3, Numbers
<1>14. QED
    BY <1>12, <1>13 DEF Fifo!FifoNext

(* Copying an object out of its slot is invisible. *)
LEMMA DeqCopyRefines ==
    ASSUME IInv, NEW c \in Consumers, DeqCopy(c)
    PROVE  UNCHANGED Fifo!fifoVars
<1> DEFINE x == ring[Slot(Plus(cons[c].head, cons[c].i))]
<1>1. /\ cons[c].pc = "copy" /\ cons[c].i < cons[c].n /\ cons[c] \in Locals
      /\ cons' = [cons EXCEPT ![c].i = @ + 1, ![c].obj = Append(@, x)]
      /\ cons \in [Consumers -> Locals]
      /\ UNCHANGED <<ring, prodTail, consHead, consTail>>
    BY DEF DeqCopy, IInv, TypeOK
<1>2. ConsumerPlaced(cons[c]) /\ IInv'
    BY DeqCopyInd DEF IInv, Placed
<1>3. PICK n, i, h \in Nat :
         /\ n = cons[c].n /\ i = cons[c].i /\ h = Pos(cons[c].head)
         /\ i < n /\ h + n < IdxMod /\ cons[c].head \in Idx
         /\ cons[c].obj \in Seq(Cells) /\ Len(cons[c].obj) = i
    <2>1. PICK n, i, h, ch \in Nat :
             /\ n = cons[c].n /\ i = cons[c].i /\ h = Pos(cons[c].head)
             /\ ch = Pos(consHead) /\ ch < IdxMod
        BY <1>1, LocalsType, Positions, Numbers
    <2>2. h + n <= ch /\ i < n /\ Len(cons[c].obj) = i
        BY <1>1, <1>2, <2>1 DEF ConsumerPlaced
    <2>3. cons[c].obj \in Seq(Cells) /\ cons[c].head \in Idx
        BY <1>1 DEF Locals, Cells
    <2>4. QED
        BY <2>1, <2>2, <2>3, Numbers
<1>4. x = At(h + i) /\ x \in Cells
    <2>1. h + i \in Nat /\ h + i < IdxMod
        BY <1>3, Numbers
    <2>2. QED
        BY <1>3, <2>1, PlusAt, CellType DEF At
<1> HIDE DEF x
<1>5. /\ cons'[c].pc = "copy" /\ cons'[c].i = i + 1 /\ cons'[c].n = n
      /\ cons'[c].head = cons[c].head /\ cons'[c].obj = Append(cons[c].obj, x)
    BY <1>1, <1>3 DEF Locals
<1>6. /\ AbsHeld(c) \in Seq(Cells) /\ Len(AbsHeld(c)) = n
      /\ \A j \in 1 .. n : AbsHeld(c)[j] =
            IF j <= i THEN cons[c].obj[j] ELSE At(h + (j - 1))
    BY <1>1, <1>3, AbsHeldIs DEF AllHeldIs, HeldIs
<1>7. /\ AbsHeld(c)' \in Seq(Cells) /\ Len(AbsHeld(c)') = n
      /\ \A j \in 1 .. n : AbsHeld(c)'[j] =
            IF j <= i + 1 THEN Append(cons[c].obj, x)[j] ELSE At(h + (j - 1))
    <2>1. AllHeldIs'
        BY <1>2, AbsHeldIs, PTL
    <2>2. Pos(cons[c].head)' = h /\ \A k : At(k)' = At(k)
        BY <1>1, <1>3, <1>5 DEF Pos, At
    <2>3. QED
        BY <1>5, <2>1, <2>2 DEF AllHeldIs, HeldIs
<1>8. AbsHeld(c)' = AbsHeld(c)
    <2>1. ASSUME NEW j \in 1 .. n
          PROVE  AbsHeld(c)'[j] = AbsHeld(c)[j]
        <3>1. CASE j <= i
            <4>1. j \in 1 .. Len(cons[c].obj)
                BY <1>3, <3>1
            <4>2. Append(cons[c].obj, x)[j] = cons[c].obj[j]
                BY <1>3, <1>4, <4>1
            <4>3. QED
                BY <1>3, <1>6, <1>7, <3>1, <4>2
        <3>2. CASE j = i + 1
            <4>1. Append(cons[c].obj, x)[j] = x /\ h + (j - 1) = h + i /\ ~(j <= i)
                BY SMTT(40), <1>3, <1>4, <3>2
            <4>2. QED
                BY <1>3, <1>4, <1>6, <1>7, <3>2, <4>1
        <3>3. CASE j > i + 1
            <4>1. ~(j <= i) /\ ~(j <= i + 1)
                BY <1>3, <3>3
            <4>2. QED
                BY <1>6, <1>7, <4>1
        <3>4. QED
            BY <1>3, <3>1, <3>2, <3>3
    <2>2. QED
        BY <1>6, <1>7, <2>1, SeqEqual
<1>9. ASSUME NEW d \in Consumers, d # c
      PROVE  AbsHeld(d)' = AbsHeld(d)
    BY <1>1, <1>9 DEF AbsHeld
<1>10. [d \in Consumers |-> AbsHeld(d)]' = [d \in Consumers |-> AbsHeld(d)]
    BY <1>8, <1>9
<1>11. QED
    BY <1>1, <1>10 DEF Fifo!fifoVars, AbsQueue, Published, Minus

(* Storing cons.tail frees the room the burst occupied. *)
LEMMA DeqReleaseRefines ==
    ASSUME IInv, NEW c \in Consumers, DeqRelease(c)
    PROVE  Fifo!FifoNext
<1>1. /\ cons[c].pc = "copy" /\ cons[c].head = consTail /\ cons[c] \in Locals
      /\ cons' = [cons EXCEPT ![c] = Idle] /\ cons \in [Consumers -> Locals]
      /\ consTail' = Plus(consTail, cons[c].n)
      /\ UNCHANGED <<ring, prodTail, consHead>>
    BY DEF DeqRelease, IInv, TypeOK
<1>2. ConsumerPlaced(cons[c]) /\ IInv'
    BY DeqReleaseInd DEF IInv, Placed
<1>3. PICK n, ct, ch \in Nat :
         /\ n = cons[c].n /\ ct = Pos(consTail) /\ ch = Pos(consHead)
         /\ ct + n <= ch /\ ch < IdxMod /\ n >= 1
    <2>1. PICK ct, ch, pt, ph \in Nat :
             /\ ct = Pos(consTail) /\ ch = Pos(consHead) /\ pt = Pos(prodTail)
             /\ ph = Pos(prodHead) /\ ct <= ch /\ ch <= pt /\ pt <= ph
             /\ ph <= ct + Mask /\ ph < IdxMod
        BY PickPositions
    <2>2. cons[c].n \in Nat /\ cons[c].n >= 1 /\ ct + cons[c].n <= ch
        BY <1>1, <1>2, <2>1, LocalsType DEF ConsumerPlaced
    <2>3. QED
        BY <2>1, <2>2, Numbers
<1>4. AbsHeld(c) \in Seq(Cells) /\ Len(AbsHeld(c)) = n
    BY <1>1, <1>3, AbsHeldIs DEF AllHeldIs, HeldIs
<1>5. AbsHeld(c)' = << >>
    BY <1>1, IdleLocal DEF AbsHeld
<1>6. ASSUME NEW d \in Consumers, d # c
      PROVE  AbsHeld(d)' = AbsHeld(d)
    BY <1>1, <1>6 DEF AbsHeld
<1>7. [d \in Consumers |-> AbsHeld(d)]' =
         [[d \in Consumers |-> AbsHeld(d)] EXCEPT ![c] = << >>]
    BY <1>5, <1>6
<1>8. Minus(consHead, consTail)' = Minus(consHead, consTail) - n
    <2>1. Minus(consHead, consTail) = ch - ct
        BY <1>3, Claimed DEF ClaimedIs
    <2>2. ClaimedIs'
        BY <1>2, Claimed, PTL
    <2>3. Pos(consTail)' = ct + n /\ Pos(consHead)' = ch
        <3>1. consTail \in Idx /\ ct + n < IdxMod
            BY <1>3, Positions, Numbers
        <3>2. Pos(Plus(consTail, n)) = ct + n
            BY <1>3, <3>1, PosPlus
        <3>3. QED
            BY <1>1, <1>3, <3>2 DEF Pos
    <2>4. QED
        BY <1>3, <2>1, <2>2, <2>3 DEF ClaimedIs
<1>9. AbsQueue' = AbsQueue
    BY <1>1 DEF AbsQueue, Published, Minus
<1>10. AbsHeld(c) # << >>
    BY <1>3, <1>4
<1>11. Fifo!Release(c)
    BY <1>4, <1>7, <1>8, <1>9, <1>10 DEF Fifo!Release
<1>12. QED
    BY <1>11 DEF Fifo!FifoNext

(* The objects a producer has written stay: nobody else writes its slots. *)
LEMMA WriteWritten ==
    ASSUME IInv, Written, NEW p \in Producers, EnqWrite(p)
    PROVE  Written'
<1>1. /\ prod[p].pc = "write" /\ prod[p].i < prod[p].n /\ prod \in [Producers -> Locals]
      /\ ring' = [ring EXCEPT ![Slot(Plus(prod[p].head, prod[p].i))] =
                                  prod[p].obj[prod[p].i + 1]]
      /\ prod' = [prod EXCEPT ![p].i = @ + 1] /\ ring \in [Slots -> Cells]
    BY DEF EnqWrite, IInv, TypeOK, Cells
<1>2. PICK i, n, h \in Nat :
         /\ i = prod[p].i /\ n = prod[p].n /\ h = Pos(prod[p].head) /\ i < n
         /\ h + n < IdxMod
    <2>1. PICK i, n, h, ph \in Nat :
             /\ i = prod[p].i /\ n = prod[p].n /\ h = Pos(prod[p].head)
             /\ ph = Pos(prodHead) /\ ph < IdxMod
        BY <1>1, LocalsType, PickPositions
    <2>2. h + n <= ph
        BY <1>1, <2>1, OneRound
    <2>3. QED
        BY <1>1, <2>1, <2>2, Numbers
<1> DEFINE s == Slot(Plus(prod[p].head, i))
<1>3. /\ prod'[p].pc = "write" /\ prod'[p].i = i + 1 /\ prod'[p].head = prod[p].head
      /\ prod'[p].obj = prod[p].obj
      /\ \A q \in Producers : q # p => prod'[q] = prod[q]
    BY <1>1, <1>2 DEF Locals
<1>4. s \in Slots /\ ring' = [ring EXCEPT ![s] = prod[p].obj[i + 1]]
    <2>1. Plus(prod[p].head, i) \in Nat
        BY <1>1, <1>2, LocalsType, Constants DEF Plus
    <2>2. QED
        BY <1>1, <1>2, <2>1, SlotInRing
<1> HIDE DEF s
<1>5. ASSUME NEW q \in Producers, prod'[q].pc = "write",
             NEW j \in 0 .. (prod'[q].i - 1)
      PROVE  ring'[Slot(Plus(prod'[q].head, j))] = prod'[q].obj[j + 1]
    <2>1. CASE q # p
        <3>1. ring[Slot(Plus(prod[q].head, j))] = prod[q].obj[j + 1]
            BY <1>3, <1>5, <2>1 DEF Written
        <3>2. s \in Own(prod[p]) /\ Slot(Plus(prod[q].head, j)) \in Own(prod[q])
            <4>1. PICK m, k \in Nat : m = prod[q].i /\ k = prod[q].n /\ m <= k
                BY <1>1, <1>3, <1>5, <2>1, LocalsType DEF IInv, Placed, ProducerPlaced
            <4>2. i \in 0 .. (n - 1) /\ j \in 0 .. (k - 1)
                BY <1>2, <1>3, <1>5, <2>1, <4>1
            <4>3. QED
                BY <1>1, <1>2, <1>3, <1>5, <2>1, <4>1, <4>2 DEF Own, s
        <3>3. QED
            BY <1>1, <1>3, <1>4, <2>1, <3>1, <3>2, IndMeansOwnersDisjoint
               DEF OwnersDisjoint
    <2>2. CASE q = p /\ j = i
        BY <1>1, <1>2, <1>3, <1>4, <2>2 DEF s
    <2>3. CASE q = p /\ j # i
        <3>1. j \in 0 .. (i - 1) /\ j \in Nat /\ j < i
            BY <1>2, <1>3, <1>5, <2>3
        <3>2. ring[Slot(Plus(prod[p].head, j))] = prod[p].obj[j + 1]
            BY <1>1, <1>2, <3>1 DEF Written
        <3>3. Slot(Plus(prod[p].head, j)) # s
            <4>1. prod[p].head \in Idx /\ i <= Mask
                BY <1>1, <1>2, LocalsType, Numbers
            <4>2. h + j < IdxMod /\ h + i < IdxMod
                BY <1>2, <3>1, Numbers
            <4>3. /\ Plus(prod[p].head, j) \in Idx /\ Pos(Plus(prod[p].head, j)) = h + j
                  /\ Plus(prod[p].head, i) \in Idx /\ Pos(Plus(prod[p].head, i)) = h + i
                BY <1>2, <3>1, <4>1, <4>2, PosPlus
            <4>4. h + j < h + i /\ h + i < (h + j) + Size
                BY <1>2, <3>1, <4>1, Numbers
            <4>5. QED
                BY <4>3, <4>4, SlotsDiffer DEF s
        <3>4. QED
            BY <1>1, <1>3, <1>4, <2>3, <3>2, <3>3
    <2>4. QED
        BY <2>1, <2>2, <2>3
<1>6. QED
    BY <1>5 DEF Written

LEMMA NextWritten == IInv /\ Written /\ [Next]_vars => Written'
<1> SUFFICES ASSUME IInv, Written, [Next]_vars PROVE Written'
    OBVIOUS
<1>1. ASSUME NEW p \in Producers, EnqWrite(p)
      PROVE  Written'
    BY <1>1, WriteWritten
<1>2. ASSUME ~ \E p \in Producers : EnqWrite(p)
      PROVE  ring' = ring /\ \A q \in Producers :
                prod'[q].pc = "write" =>
                   \/ prod'[q].i = 0
                   \/ /\ prod[q].pc = "write" /\ prod'[q].i = prod[q].i
                      /\ prod'[q].head = prod[q].head /\ prod'[q].obj = prod[q].obj
    <2>1. prod \in [Producers -> Locals]
        BY DEF IInv, TypeOK
    <2>2. ASSUME prod' = prod, ring' = ring
          PROVE  ring' = ring /\ \A q \in Producers :
                    prod'[q].pc = "write" =>
                       /\ prod[q].pc = "write" /\ prod'[q].i = prod[q].i
                       /\ prod'[q].head = prod[q].head /\ prod'[q].obj = prod[q].obj
        BY <2>2
    <2>3. ASSUME NEW p \in Producers,
                 EnqRefuse(p) \/ EnqRoom(p) \/ EnqRetry(p) \/ EnqPublish(p)
          PROVE  /\ ring' = ring /\ prod'[p].pc # "write"
                 /\ \A q \in Producers : q # p => prod'[q] = prod[q]
        <3>1. CASE EnqRefuse(p)
            BY <2>1, <3>1, IdleLocal DEF EnqRefuse
        <3>2. CASE EnqRoom(p)
            BY <2>1, <3>2 DEF EnqRoom, Locals
        <3>3. CASE EnqRetry(p)
            BY <2>1, <3>3 DEF EnqRetry, Locals
        <3>4. CASE EnqPublish(p)
            BY <2>1, <3>4, IdleLocal DEF EnqPublish
        <3>5. QED
            BY <2>3, <3>1, <3>2, <3>3, <3>4
    <2>4. ASSUME NEW p \in Producers, EnqCas(p)
          PROVE  /\ ring' = ring /\ prod'[p].i = 0
                 /\ \A q \in Producers : q # p => prod'[q] = prod[q]
        BY <2>1, <2>4 DEF EnqCas, Locals, IInv, Placed, ProducerPlaced
    <2>5. ASSUME NEW p \in Producers, NEW n \in Bursts, NEW beh \in Behaviours,
                 NEW table \in [1 .. n -> Objects], EnqStart(p, table, beh)
          PROVE  /\ ring' = ring /\ prod'[p].pc # "write"
                 /\ \A q \in Producers : q # p => prod'[q] = prod[q]
        BY <2>1, <2>5, IdleLocal DEF EnqStart, Locals
    <2>6. ASSUME NEW c \in Consumers, Dequeue(c)
          PROVE  prod' = prod /\ ring' = ring
        BY <2>6 DEF Dequeue, DeqRefuse, DeqEntries, DeqCas, DeqRetry, DeqCopy, DeqRelease
    <2>7. ASSUME NEW c \in Consumers, NEW n \in Bursts, NEW beh \in Behaviours,
                 DeqStart(c, n, beh)
          PROVE  prod' = prod /\ ring' = ring
        BY <2>7 DEF DeqStart
    <2>8. CASE UNCHANGED vars
        BY <2>8 DEF vars
    <2>9. CASE Next
        <3>1. ASSUME NEW p \in Producers, Enqueue(p)
              PROVE  \/ EnqRefuse(p) \/ EnqRoom(p) \/ EnqRetry(p) \/ EnqPublish(p)
                     \/ EnqCas(p)
            BY <1>2, <3>1 DEF Enqueue
        <3>2. QED
            BY <2>2, <2>3, <2>4, <2>5, <2>6, <2>7, <2>9, <3>1 DEF Next
    <2>10. QED
        BY <2>8, <2>9
<1>3. CASE ~ \E p \in Producers : EnqWrite(p)
    <2>1. \A q \in Producers : prod'[q].pc = "write" /\ prod'[q].i = 0 =>
             0 .. (prod'[q].i - 1) = {}
        OBVIOUS
    <2>2. QED
        BY <1>2, <1>3, <2>1 DEF Written
<1>4. QED
    BY <1>1, <1>3

LEMMA NextRefines == IInv /\ Written /\ [Next]_vars => [Fifo!FifoNext]_(Fifo!fifoVars)
<1> SUFFICES ASSUME IInv, Written, [Next]_vars
             PROVE  Fifo!FifoNext \/ UNCHANGED Fifo!fifoVars
    OBVIOUS
<1>1. prod \in [Producers -> Locals] /\ cons \in [Consumers -> Locals]
    BY DEF IInv, TypeOK
<1>2. ASSUME NEW p \in Producers, Enqueue(p)
      PROVE  Fifo!FifoNext \/ UNCHANGED Fifo!fifoVars
    <2>1. CASE EnqWrite(p) \/ EnqPublish(p)
        BY <2>1, EnqWriteRefines, EnqPublishRefines
    <2>2. CASE EnqRefuse(p) \/ EnqRoom(p) \/ EnqCas(p) \/ EnqRetry(p)
        BY <2>2, Invisible DEF EnqRefuse, EnqRoom, EnqCas, EnqRetry
    <2>3. QED
        BY <1>2, <2>1, <2>2 DEF Enqueue
<1>3. ASSUME NEW p \in Producers, NEW n \in Bursts, NEW beh \in Behaviours,
             NEW table \in [1 .. n -> Objects], EnqStart(p, table, beh)
      PROVE  UNCHANGED Fifo!fifoVars
    BY <1>3, Invisible DEF EnqStart
<1>4. ASSUME NEW c \in Consumers, Dequeue(c)
      PROVE  Fifo!FifoNext \/ UNCHANGED Fifo!fifoVars
    <2>1. CASE DeqCas(c) \/ DeqCopy(c) \/ DeqRelease(c)
        BY <2>1, DeqCasRefines, DeqCopyRefines, DeqReleaseRefines
    <2>2. CASE DeqRefuse(c) \/ DeqEntries(c) \/ DeqRetry(c)
        <3>0. /\ cons[c].pc # "copy" /\ cons'[c].pc # "copy"
              /\ \A d \in Consumers : d # c => cons'[d] = cons[d]
              /\ ring' = ring
            <4>1. CASE DeqRefuse(c)
                BY <1>1, <4>1, IdleLocal DEF DeqRefuse
            <4>2. CASE DeqEntries(c)
                BY <1>1, <4>2 DEF DeqEntries, Locals
            <4>3. CASE DeqRetry(c)
                BY <1>1, <4>3 DEF DeqRetry, Locals
            <4>4. QED
                BY <2>2, <4>1, <4>2, <4>3
        <3>1. \A d \in Consumers : AbsHeld(d)' = AbsHeld(d)
            BY <3>0, NotCopying
        <3>2. UNCHANGED <<ring, prodTail, consHead, consTail>>
            BY <2>2 DEF DeqRefuse, DeqEntries, DeqRetry
        <3>3. QED
            BY <3>1, <3>2 DEF Fifo!fifoVars, AbsQueue, Published, Minus
    <2>3. QED
        BY <1>4, <2>1, <2>2 DEF Dequeue
<1>5. ASSUME NEW c \in Consumers, NEW n \in Bursts, NEW beh \in Behaviours,
             DeqStart(c, n, beh)
      PROVE  UNCHANGED Fifo!fifoVars
    <2>0. /\ cons[c].pc # "copy" /\ cons'[c].pc # "copy"
          /\ \A d \in Consumers : d # c => cons'[d] = cons[d]
          /\ ring' = ring
        BY <1>1, <1>5, IdleLocal DEF DeqStart, Locals
    <2>1. \A d \in Consumers : AbsHeld(d)' = AbsHeld(d)
        BY <2>0, NotCopying
    <2>2. UNCHANGED <<ring, prodTail, consHead, consTail>>
        BY <1>5 DEF DeqStart
    <2>3. QED
        BY <2>1, <2>2 DEF Fifo!fifoVars, AbsQueue, Published, Minus
<1>6. CASE UNCHANGED vars
    BY <1>6, Invisible DEF vars
<1>7. QED
    BY <1>2, <1>3, <1>4, <1>5, <1>6 DEF Next

\* With any number of producers and consumers the ring is still one bounded
\* FIFO queue: what a caller enqueued comes out once, whole and in order.
THEOREM MPImplementsFifo == Spec => ImplementsFifo
<1>1. Init => Written
    BY IdleLocal DEF Init, Written
<1>2. QED
    BY <1>1, MPInvariant, NextWritten, InitRefines, NextRefines, PTL
       DEF Spec, ImplementsFifo, Fifo!FifoSpec

=============================================================================
