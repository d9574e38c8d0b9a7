--------------------------- MODULE RteRing_proofs ---------------------------
(***************************************************************************)
(* Proofs about the single-producer single-consumer ring, for every ring   *)
(* size, index width, set of objects and burst.                            *)
(***************************************************************************)
EXTENDS RteRing, SequenceTheorems, TLAPS

----------------------------------------------------------------------------
(* Facts about the wrapping indices of the ring, for every ring size and   *)
(* every index width that is a multiple of it.                             *)
(* Unsigned addition and subtraction stay in the index range. *)
LEMMA IndexClosed ==
    /\ \A x \in Idx, n \in 0 .. Size : Plus(x, n) \in Idx
    /\ \A x, y \in Idx : Minus(x, y) \in Idx
BY RingAssumption DEF RingAssumption, Idx, Plus, Minus

(* The slot of an index is a slot of the ring. *)
LEMMA SlotInRing == \A x \in Nat : Slot(x) \in Slots
BY RingAssumption DEF RingAssumption, Slot, Slots, Mask

(* The only multiple of Size smaller than Size is 0. *)
LEMMA SmallMultiple ==
    ASSUME NEW m \in Int, NEW d \in Int, d = Size * m, -Size < d, d < Size
    PROVE  d = 0
<1>1. Size \in Nat \ {0}
  BY RingAssumption DEF RingAssumption
<1>2. m >= 1 => Size * m >= Size
  BY <1>1
<1>3. m <= -1 => Size * m <= -Size
  BY <1>1
<1>4. QED
  BY <1>1, <1>2, <1>3

(* Every number is a multiple of Size plus its slot. *)
LEMMA Division ==
    ASSUME NEW a \in Nat
    PROVE  \E q \in Nat : a = Size * q + Slot(a)
<1>1. Size \in Nat \ {0}
  BY RingAssumption DEF RingAssumption
<1>2. a = Size * (a \div Size) + (a % Size)
  BY <1>1
<1>3. (a \div Size) \in Nat
  BY <1>1
<1>4. QED
  BY <1>2, <1>3 DEF Slot

(* Two indices of one window of Size indices that share a slot are equal,
   also when the window wraps: this is what the mask relies on. *)
LEMMA SlotsDiffer ==
    ASSUME NEW x \in Idx, NEW j \in 0 .. Mask, NEW k \in 0 .. Mask,
           Slot(Plus(x, j)) = Slot(Plus(x, k))
    PROVE  j = k
<1>1. PICK r \in 2 .. IdxMod : IdxMod = r * Size
  BY RingAssumption DEF RingAssumption
<1> DEFINE a == Plus(x, j)
           b == Plus(x, k)
<1>0. Size \in Nat \ {0} /\ IdxMod \in Nat /\ r \in Nat
  BY RingAssumption DEF RingAssumption
<1>2. a \in Nat /\ b \in Nat
  BY <1>0, RingAssumption DEF RingAssumption, Plus, Idx, Mask
<1>3. PICK p \in Nat : a = Size * p + Slot(a)
  BY <1>2, Division
<1>4. PICK q \in Nat : b = Size * q + Slot(b)
  BY <1>2, Division
<1>5. Slot(a) \in Int
  BY <1>0, <1>2 DEF Slot
<1>6. a - b = Size * (p - q)
  BY <1>0, <1>2, <1>3, <1>4, <1>5
<1>7. \E m \in Int : j - k = Size * m
  <2>1. a - b \in {j - k, j - k - IdxMod, j - k + IdxMod}
    BY <1>0 DEF Plus, Idx, Mask
  <2>2. CASE a - b = j - k
    BY <1>6, <2>2
  <2>3. CASE a - b = j - k - IdxMod
    <3>1. j - k = Size * (p - q) + r * Size
      BY <1>0, <1>1, <1>6, <2>3 DEF Mask
    <3>2. j - k = Size * (p - q + r)
      BY <1>0, <3>1
    <3>3. p - q + r \in Int
      BY <1>0
    <3>4. QED
      BY <3>2, <3>3
  <2>4. CASE a - b = j - k + IdxMod
    <3>1. j - k = Size * (p - q) - r * Size
      BY <1>0, <1>1, <1>6, <2>4 DEF Mask
    <3>2. j - k = Size * (p - q - r)
      BY <1>0, <3>1
    <3>3. p - q - r \in Int
      BY <1>0
    <3>4. QED
      BY <3>2, <3>3
  <2>5. QED
    BY <2>1, <2>2, <2>3, <2>4
<1>8. j - k = 0
  <2>1. PICK m \in Int : j - k = Size * m
    BY <1>7
  <2>2. -Size < j - k /\ j - k < Size /\ j - k \in Int
    BY <1>0 DEF Mask
  <2>3. QED
    BY <2>1, <2>2, SmallMultiple
<1>9. QED
  BY <1>0, <1>8 DEF Mask

----------------------------------------------------------------------------
(* The constants in the form the arithmetic of the steps needs. *)
LEMMA Constants ==
    /\ Size \in Nat /\ Size >= 2 /\ IdxMod \in Nat /\ IdxMod >= 2 * Size
    /\ \A n \in Bursts : n \in Nat /\ n >= 1
<1>1. PICK k \in 2 .. IdxMod : IdxMod = k * Size
  BY RingAssumption DEF RingAssumption
<1>2. Size \in Nat /\ Size >= 2 /\ IdxMod \in Nat /\ k \in Nat /\ k >= 2
  BY RingAssumption DEF RingAssumption
<1>3. k * Size >= 2 * Size
  BY <1>2
<1>4. QED
  BY <1>1, <1>2, <1>3, RteRingAssumption DEF RteRingAssumption

(* The initial state satisfies the inductive invariant. *)
LEMMA InitInd == Init => IndInv
BY Constants, RteRingAssumption
   DEF RteRingAssumption, Init, IndInv, TypeOK, IndicesInOrder, RoomKept, Used, Minus,
       NoEnqueue, NoDequeue, Behaviours, Idx, Mask

(* A refused enqueue changes nothing but its result. *)
LEMMA EnqRefusedInd ==
    ASSUME IndInv, NEW n \in Bursts, NEW beh \in Behaviours, EnqRefused(n, beh)
    PROVE  IndInv'
BY Constants
   DEF IndInv, EnqRefused, TypeOK, IndicesInOrder, RoomKept, Used, Mask

(* free_entries is what the comment at rte-ring.h:332 says it is. *)
LEMMA FreeInRange ==
    ASSUME IndInv, prod.pc = "idle"
    PROVE  /\ FreeEntries \in 0 .. Mask
           /\ FreeEntries = Mask - Used
BY Constants
   DEF IndInv, TypeOK, IndicesInOrder, Used, FreeEntries, Minus, Plus, Mask, Idx

(* Reserving slots keeps the indices in order. *)
LEMMA EnqReserveInd ==
    ASSUME IndInv, NEW n \in Bursts, NEW beh \in Behaviours,
           NEW table \in [1 .. n -> Objects], EnqReserve(table, n, beh)
    PROVE  IndInv'
<1> DEFINE m == IF n > FreeEntries THEN FreeEntries ELSE n
<1>1. n \in Nat /\ n >= 1 /\ table \in Seq(Objects) /\ Len(table) = n
  BY Constants
<1>2. FreeEntries \in 0 .. Mask /\ FreeEntries = Mask - Used
  BY FreeInRange DEF EnqReserve
<1>3. m \in 1 .. Mask /\ m <= n /\ m <= FreeEntries
  BY <1>1, <1>2, Constants DEF EnqReserve, Mask
<1>4. /\ prod' = [pc |-> "write", head |-> prodHead, n |-> m, i |-> 0,
                  free |-> FreeEntries, beh |-> beh, obj |-> table]
      /\ prodHead' = Plus(prodHead, m)
      /\ UNCHANGED <<ring, prodTail, consHead, consTail, watermark, cons,
                     enqRet, deqRet>>
      /\ prodHead = prodTail
  BY DEF EnqReserve, IndInv
<1> HIDE DEF m
<1>5. TypeOK'
  <2>1. prodHead' \in Idx
    BY <1>3, <1>4, Constants DEF IndInv, TypeOK, Mask, Plus, Idx
  <2>2. prod' \in [pc : {"idle", "write"}, head : Idx, n : 0 .. Mask,
                  i : 0 .. Mask, free : 0 .. Mask, beh : Behaviours,
                  obj : Seq(Objects)]
    <3>1. m \in 0 .. Mask /\ 0 \in 0 .. Mask /\ prodHead \in Idx
      BY <1>3, Constants DEF IndInv, TypeOK, Mask
    <3>2. QED
      BY <1>1, <1>2, <1>4, <3>1
  <2>3. QED
    BY <1>4, <2>1, <2>2 DEF IndInv, TypeOK
<1>6. IndicesInOrder'
  BY <1>2, <1>3, <1>4, Constants
     DEF IndInv, TypeOK, IndicesInOrder, Used, Mask, Plus, Minus, Idx
<1>7. RoomKept'
  <2>1. /\ prodHead \in Idx /\ consTail \in Idx /\ m <= Mask - Used
        /\ prod'.free = Mask - Used /\ prod'.n = m
    BY <1>2, <1>3, <1>4 DEF IndInv, TypeOK
  <2>2. Used' = Used + m
    BY <1>3, <1>4, <2>1, Constants DEF Used, Plus, Minus, Mask, Idx
  <2>3. Used \in Int /\ m \in Int /\ Mask \in Int
    BY <1>3, <2>1, Constants DEF Used, Minus, Mask, Idx
  <2>4. QED
    BY <2>1, <2>2, <2>3, Constants DEF RoomKept, Mask
<1>8. QED
  BY <1>1, <1>2, <1>3, <1>4, <1>5, <1>6, <1>7, Constants DEF IndInv, Mask

(* Writing one slot moves no index. *)
LEMMA EnqWriteInd ==
    ASSUME IndInv, EnqWrite
    PROVE  IndInv'
<1>1. /\ prod.pc = "write"
      /\ prod.i < prod.n
      /\ ring' = [ring EXCEPT ![Slot(Plus(prod.head, prod.i))] =
                                  prod.obj[prod.i + 1]]
      /\ prod' = [prod EXCEPT !.i = @ + 1]
      /\ UNCHANGED <<prodHead, prodTail, consHead, consTail, watermark, cons,
                     enqRet, deqRet>>
  BY DEF EnqWrite
<1>2. /\ prod.i \in 0 .. Mask /\ prod.n \in 0 .. Mask /\ prodTail \in Idx
      /\ prod.obj \in Seq(Objects) /\ prod.n \in 1 .. Len(prod.obj)
      /\ prod.head = prodTail
      /\ ring \in [Slots -> Objects \cup {Garbage}]
  BY <1>1 DEF IndInv, TypeOK
<1>3. prod.obj[prod.i + 1] \in Objects
  BY <1>1, <1>2
<1>4. TypeOK'
  <2>1. ring' \in [Slots -> Objects \cup {Garbage}]
    BY <1>1, <1>2, <1>3
  <2>2. prod' \in [pc : {"idle", "write"}, head : Idx, n : 0 .. Mask,
                  i : 0 .. Mask, free : 0 .. Mask, beh : Behaviours,
                  obj : Seq(Objects)]
    <3>1. prod.i + 1 \in 0 .. Mask
      BY <1>1, <1>2, Constants DEF Mask
    <3>2. QED
      BY <1>1, <3>1 DEF IndInv, TypeOK
  <2>3. QED
    BY <1>1, <2>1, <2>2 DEF IndInv, TypeOK
<1>5. IndicesInOrder'
  BY <1>1 DEF IndInv, IndicesInOrder, Used, Minus
<1>6. ASSUME NEW j \in 0 .. prod.i
      PROVE  ring'[Slot(Plus(prodTail, j))] = prod.obj[j + 1]
  <2>1. Slot(Plus(prodTail, j)) \in Slots
    BY <1>2, SlotInRing, Constants DEF Plus, Idx, Mask
  <2>2. CASE j = prod.i
    BY <1>1, <1>2, <2>1, <2>2
  <2>3. CASE j # prod.i
    <3>1. j \in 0 .. (prod.i - 1) /\ j \in 0 .. Mask
      BY <1>2, <2>3, Constants DEF Mask
    <3>2. Slot(Plus(prodTail, j)) # Slot(Plus(prodTail, prod.i))
      BY <1>2, <2>3, <3>1, SlotsDiffer
    <3>3. ring[Slot(Plus(prodTail, j))] = prod.obj[j + 1]
      BY <1>1, <3>1 DEF IndInv
    <3>4. QED
      BY <1>1, <1>2, <2>1, <3>2, <3>3
  <2>4. QED
    BY <2>2, <2>3
<1>7. RoomKept'
  BY <1>1 DEF IndInv, RoomKept, Used
<1>8. QED
  BY <1>1, <1>2, <1>4, <1>5, <1>6, <1>7 DEF IndInv, TypeOK

(* Publishing moves the tail up to the head. *)
LEMMA EnqPublishInd ==
    ASSUME IndInv, EnqPublish
    PROVE  IndInv'
<1>1. /\ prod.pc = "write" /\ prod.i = prod.n
      /\ prodTail' = prodHead
      /\ prod' = NoEnqueue
      /\ enqRet' \in {"ok", "EDQUOT", "count"}
      /\ UNCHANGED <<ring, prodHead, consHead, consTail, watermark, cons,
                     deqRet>>
  BY DEF EnqPublish, IndInv
<1>2. TypeOK'
  <2>1. prod' \in [pc : {"idle", "write"}, head : Idx, n : 0 .. Mask,
                  i : 0 .. Mask, free : 0 .. Mask, beh : Behaviours,
                  obj : Seq(Objects)]
    BY <1>1, Constants DEF NoEnqueue, Idx, Mask, Behaviours
  <2>2. enqRet' \in {"none", "ok", "ENOBUFS", "EDQUOT", "count"}
    BY <1>1
  <2>3. QED
    BY <1>1, <2>1, <2>2 DEF IndInv, TypeOK
<1>3. IndicesInOrder'
  <2>1. /\ prodHead \in Idx /\ prodTail \in Idx
        /\ consHead \in Idx /\ consTail \in Idx
        /\ IndicesInOrder
    BY DEF IndInv, TypeOK
  <2>2. QED
    BY <1>1, <2>1, Constants DEF IndicesInOrder, Used, Minus, Mask, Idx
<1>4. QED
  BY <1>1, <1>2, <1>3 DEF IndInv, RoomKept, NoEnqueue

(* A refused dequeue changes nothing but its result. *)
LEMMA DeqRefusedInd ==
    ASSUME IndInv, NEW n \in Bursts, NEW beh \in Behaviours, DeqRefused(n, beh)
    PROVE  IndInv'
BY Constants
   DEF IndInv, DeqRefused, TypeOK, IndicesInOrder, RoomKept, Used, Mask

(* entries is what the comment at rte-ring.h:517 says it is. *)
LEMMA EntriesInRange ==
    ASSUME IndInv
    PROVE  Entries \in 0 .. Mask
BY Constants
   DEF IndInv, TypeOK, IndicesInOrder, Used, Entries, Minus, Mask, Idx

(* Claiming published slots keeps the indices in order. *)
LEMMA DeqReserveInd ==
    ASSUME IndInv, NEW max \in Bursts, NEW beh \in Behaviours,
           DeqReserve(max, beh)
    PROVE  IndInv'
<1> DEFINE m == IF max > Entries THEN Entries ELSE max
<1>1. max \in Nat /\ max >= 1
  BY Constants
<1>2. Entries \in 0 .. Mask
  BY EntriesInRange
<1>3. m \in 1 .. Mask /\ m <= Entries
  BY <1>1, <1>2, Constants DEF DeqReserve, Mask
<1>4. /\ cons' = [pc |-> "copy", head |-> consHead, n |-> m, i |-> 0,
                  beh |-> beh, obj |-> << >>]
      /\ consHead' = Plus(consHead, m)
      /\ UNCHANGED <<ring, prodHead, prodTail, consTail, watermark, prod,
                     enqRet, deqRet>>
      /\ consHead = consTail
  BY DEF DeqReserve, IndInv
<1> HIDE DEF m
<1>5. TypeOK'
  <2>1. consHead' \in Idx
    BY <1>3, <1>4, Constants DEF IndInv, TypeOK, Mask, Plus, Idx
  <2>2. cons' \in [pc : {"idle", "copy"}, head : Idx, n : 0 .. Mask,
                  i : 0 .. Mask, beh : Behaviours,
                  obj : Seq(Objects \cup {Garbage})]
    <3>1. m \in 0 .. Mask /\ 0 \in 0 .. Mask /\ consHead \in Idx
      BY <1>3, Constants DEF IndInv, TypeOK, Mask
    <3>2. QED
      BY <1>4, <3>1
  <2>3. QED
    BY <1>4, <2>1, <2>2 DEF IndInv, TypeOK
<1>6. IndicesInOrder'
  BY <1>2, <1>3, <1>4, Constants
     DEF IndInv, TypeOK, IndicesInOrder, Used, Entries, Mask, Plus, Minus, Idx
<1>7. RoomKept'
  BY <1>4 DEF IndInv, RoomKept, Used
<1>8. QED
  BY <1>1, <1>2, <1>3, <1>4, <1>5, <1>6, <1>7, Constants DEF IndInv, Mask

(* Copying one slot moves no index. *)
LEMMA DeqCopyInd ==
    ASSUME IndInv, DeqCopy
    PROVE  IndInv'
<1>1. /\ cons.pc = "copy"
      /\ cons.i < cons.n
      /\ cons' = [cons EXCEPT !.i = @ + 1,
                   !.obj = Append(@, ring[Slot(Plus(cons.head, cons.i))])]
      /\ UNCHANGED <<ring, prodHead, prodTail, consHead, consTail, watermark,
                     prod, enqRet, deqRet>>
  BY DEF DeqCopy
<1>2. /\ cons.i \in 0 .. Mask /\ cons.n \in 0 .. Mask /\ consTail \in Idx
      /\ cons.obj \in Seq(Objects \cup {Garbage}) /\ Len(cons.obj) = cons.i
      /\ cons.head = consTail
      /\ ring \in [Slots -> Objects \cup {Garbage}]
  BY <1>1 DEF IndInv, TypeOK
<1>3. ring[Slot(Plus(cons.head, cons.i))] \in Objects \cup {Garbage}
  BY <1>2, SlotInRing, Constants DEF Plus, Idx, Mask
<1>4. /\ cons'.obj \in Seq(Objects \cup {Garbage})
      /\ Len(cons'.obj) = cons.i + 1
  BY <1>1, <1>2, <1>3 DEF IndInv, TypeOK
<1>5. TypeOK'
  <2>1. cons' \in [pc : {"idle", "copy"}, head : Idx, n : 0 .. Mask,
                  i : 0 .. Mask, beh : Behaviours,
                  obj : Seq(Objects \cup {Garbage})]
    <3>1. cons.i + 1 \in 0 .. Mask
      BY <1>1, <1>2, Constants DEF Mask
    <3>2. QED
      BY <1>1, <1>2, <1>4, <3>1 DEF IndInv, TypeOK
  <2>2. QED
    BY <1>1, <2>1 DEF IndInv, TypeOK
<1>6. IndicesInOrder'
  BY <1>1 DEF IndInv, IndicesInOrder, Used, Minus
<1>7. RoomKept'
  BY <1>1 DEF IndInv, RoomKept, Used
<1>8. QED
  BY <1>1, <1>2, <1>4, <1>5, <1>6, <1>7 DEF IndInv, TypeOK

(* Releasing moves the consumer's tail up to its head. *)
LEMMA DeqReleaseInd ==
    ASSUME IndInv, DeqRelease
    PROVE  IndInv'
<1>1. /\ cons.pc = "copy" /\ cons.i = cons.n
      /\ consTail' = consHead
      /\ cons' = NoDequeue
      /\ deqRet' = IF cons.beh = "fixed" THEN "ok" ELSE "count"
      /\ UNCHANGED <<ring, prodHead, prodTail, consHead, watermark, prod,
                     enqRet>>
  BY DEF DeqRelease, IndInv
<1>2. TypeOK'
  <2>1. cons' \in [pc : {"idle", "copy"}, head : Idx, n : 0 .. Mask,
                  i : 0 .. Mask, beh : Behaviours,
                  obj : Seq(Objects \cup {Garbage})]
    BY <1>1, Constants DEF NoDequeue, Idx, Mask, Behaviours
  <2>2. deqRet' \in {"none", "ok", "ENOENT", "count"}
    BY <1>1
  <2>3. QED
    BY <1>1, <2>1, <2>2 DEF IndInv, TypeOK
<1>3. IndicesInOrder'
  BY SMTT(40), <1>1, Constants
     DEF IndInv, TypeOK, IndicesInOrder, Used, Plus, Minus, Mask, Idx
<1>4. RoomKept'
  <2>1. /\ prodHead \in Idx /\ prodTail \in Idx
        /\ consHead \in Idx /\ consTail \in Idx
        /\ prod.free \in 0 .. Mask /\ prod.n \in 0 .. Mask
        /\ IndicesInOrder /\ RoomKept
    BY DEF IndInv, TypeOK
  <2>2. Used' <= Used /\ Used \in Int /\ Used' \in Int
    BY <1>1, <2>1, Constants DEF IndicesInOrder, Used, Minus, Mask, Idx
  <2>3. QED
    BY <1>1, <2>1, <2>2, Constants DEF RoomKept, Mask
<1>5. QED
  BY <1>1, <1>2, <1>3, <1>4 DEF IndInv, NoDequeue

(* Every step preserves the inductive invariant. *)
LEMMA NextInd == IndInv /\ [Next]_vars => IndInv'
<1> SUFFICES ASSUME IndInv, [Next]_vars PROVE IndInv'
  OBVIOUS
<1>1. ASSUME NEW n \in Bursts, NEW beh \in Behaviours, EnqRefused(n, beh)
      PROVE  IndInv'
  BY <1>1, EnqRefusedInd
<1>2. ASSUME NEW n \in Bursts, NEW beh \in Behaviours,
             NEW table \in [1 .. n -> Objects], EnqReserve(table, n, beh)
      PROVE  IndInv'
  BY <1>2, EnqReserveInd
<1>3. ASSUME NEW n \in Bursts, NEW beh \in Behaviours, DeqRefused(n, beh)
      PROVE  IndInv'
  BY <1>3, DeqRefusedInd
<1>4. ASSUME NEW n \in Bursts, NEW beh \in Behaviours, DeqReserve(n, beh)
      PROVE  IndInv'
  BY <1>4, DeqReserveInd
<1>5. CASE EnqWrite
  BY <1>5, EnqWriteInd
<1>6. CASE EnqPublish
  BY <1>6, EnqPublishInd
<1>7. CASE DeqCopy
  BY <1>7, DeqCopyInd
<1>8. CASE DeqRelease
  BY <1>8, DeqReleaseInd
<1>9. ASSUME NEW count \in WaterMarks, SetWaterMark(count)
      PROVE  IndInv'
  BY <1>9, Constants, RteRingAssumption
     DEF RteRingAssumption, SetWaterMark, IndInv, TypeOK, IndicesInOrder,
         RoomKept, Used
<1>10. CASE UNCHANGED vars
  BY <1>10 DEF vars, IndInv, TypeOK, IndicesInOrder, RoomKept, Used
<1>11. QED
  BY <1>1, <1>2, <1>3, <1>4, <1>5, <1>6, <1>7, <1>8, <1>9, <1>10 DEF Next

(* The inductive invariant, and with it the type invariant and the order of
   the four indices, holds in every reachable state of every ring. *)
THEOREM RingInvariant == Spec => [](IndInv /\ TypeOK /\ IndicesInOrder)
<1>1. IndInv => TypeOK /\ IndicesInOrder
  BY DEF IndInv
<1>2. QED
  BY <1>1, InitInd, NextInd, PTL DEF Spec

----------------------------------------------------------------------------
(* Where the claimed, the published and the reserved slots lie, counted from
   cons.tail: one window of at most Mask indices holds all of them. *)
LEMMA Window ==
    ASSUME IndInv
    PROVE  LET taken == Minus(consHead, consTail)
           IN  /\ taken \in 0 .. Mask /\ Entries \in 0 .. Mask
               /\ taken + Entries <= Mask
               /\ \A j \in 0 .. (Mask - taken) :
                     Plus(consHead, j) = Plus(consTail, taken + j)
               /\ \A j \in 0 .. (Mask - Entries) :
                     Plus(prodTail, j) = Plus(consHead, Entries + j)
               /\ cons.pc = "copy" => cons.n = taken
               /\ prod.pc = "write" => taken + Entries + prod.n <= Mask
<1>1. /\ prodHead \in Idx /\ prodTail \in Idx
      /\ consHead \in Idx /\ consTail \in Idx
      /\ IndicesInOrder
  BY DEF IndInv, TypeOK
<1>2. cons.pc = "copy" => cons.n \in 0 .. Mask /\ consHead = Plus(consTail, cons.n)
  BY DEF IndInv, TypeOK
<1>3. prod.pc = "write" => prod.n \in 0 .. Mask /\ prodHead = Plus(prodTail, prod.n)
  BY DEF IndInv, TypeOK
<1>4. Minus(consHead, consTail) \in 0 .. Mask /\ Entries \in 0 .. Mask
  BY <1>1, Constants DEF IndicesInOrder, Used, Entries, Minus, Mask, Idx
<1>5. Minus(consHead, consTail) + Entries <= Mask
  BY <1>1, Constants DEF IndicesInOrder, Used, Entries, Minus, Mask, Idx
<1>6. \A j \in 0 .. (Mask - Minus(consHead, consTail)) :
         Plus(consHead, j) = Plus(consTail, Minus(consHead, consTail) + j)
  BY <1>1, <1>4, Constants DEF Minus, Plus, Mask, Idx
<1>7. \A j \in 0 .. (Mask - Entries) : Plus(prodTail, j) = Plus(consHead, Entries + j)
  BY <1>1, <1>4, Constants DEF Entries, Minus, Plus, Mask, Idx
<1>8. cons.pc = "copy" => cons.n = Minus(consHead, consTail)
  BY <1>1, <1>2, Constants DEF Minus, Plus, Mask, Idx
<1>9. prod.pc = "write" => Minus(consHead, consTail) + Entries + prod.n <= Mask
  <2>1. prod.pc = "write" => prod.n = Minus(prodHead, prodTail)
    BY <1>1, <1>3, Constants DEF Minus, Plus, Mask, Idx
  <2>2. QED
    BY <1>1, <2>1 DEF IndicesInOrder, Entries
<1>10. QED
  BY <1>4, <1>5, <1>6, <1>7, <1>8, <1>9

(* The producer's slots are neither published nor being read. *)
LEMMA Exclusive == IndInv => SlotsExclusive
<1> SUFFICES ASSUME IndInv, prod.pc = "write"
             PROVE  /\ Writing \cap Published = {}
                    /\ cons.pc = "copy" => Writing \cap Reading = {}
  BY DEF SlotsExclusive
<1> DEFINE taken == Minus(consHead, consTail)
<1>1. /\ prod.head = prodTail /\ prod.n \in 0 .. Mask
      /\ consTail \in Idx /\ consHead \in Idx
      /\ Mask \in Nat
      /\ cons.pc = "copy" => cons.head = consTail /\ cons.n \in 0 .. Mask
  BY Constants DEF IndInv, TypeOK, Mask
<1>2. /\ taken \in 0 .. Mask /\ Entries \in 0 .. Mask
      /\ taken + Entries + prod.n <= Mask
      /\ \A j \in 0 .. (Mask - taken) : Plus(consHead, j) = Plus(consTail, taken + j)
      /\ \A j \in 0 .. (Mask - Entries) : Plus(prodTail, j) = Plus(consHead, Entries + j)
      /\ cons.pc = "copy" => cons.n = taken
  BY Window
<1> HIDE DEF taken
<1>3. ASSUME NEW j \in 0 .. (prod.n - 1), NEW k \in 0 .. (Entries - 1)
      PROVE  Slot(Plus(prodTail, j)) # Slot(Plus(consHead, k))
  <2>1. Plus(prodTail, j) = Plus(consHead, Entries + j)
    BY <1>1, <1>2
  <2>2. Entries + j \in 0 .. Mask /\ k \in 0 .. Mask /\ Entries + j # k
    BY <1>1, <1>2
  <2>3. QED
    BY <1>1, <2>1, <2>2, SlotsDiffer
<1>4. ASSUME cons.pc = "copy", NEW j \in 0 .. (prod.n - 1), NEW k \in 0 .. (cons.n - 1)
      PROVE  Slot(Plus(prodTail, j)) # Slot(Plus(consTail, k))
  <2>1. Plus(prodTail, j) = Plus(consHead, Entries + j)
    BY <1>1, <1>2
  <2>2. Entries + j \in 0 .. (Mask - taken)
    BY <1>1, <1>2
  <2>3. Plus(consHead, Entries + j) = Plus(consTail, taken + (Entries + j))
    BY <1>2, <2>2
  <2>4. taken + (Entries + j) \in 0 .. Mask /\ k \in 0 .. Mask
        /\ taken + (Entries + j) # k
    BY <1>1, <1>2, <1>4
  <2>5. QED
    BY <1>1, <2>1, <2>3, <2>4, SlotsDiffer
<1>5. QED
  BY <1>1, <1>3, <1>4 DEF Writing, Published, Reading

(* The two threads never touch one slot at the same time, whatever the ring
   size and however often the indices have wrapped. *)
THEOREM SlotExclusion == Spec => []SlotsExclusive
BY Exclusive, RingInvariant, PTL

(* Only a step that publishes moves the producer's tail, and then to its head. *)
LEMMA OnlyPublishMovesTail ==
    ASSUME IndInv, [Next]_vars, prodTail' # prodTail
    PROVE  EnqPublish /\ prodTail' = prodHead
<1>1. EnqPublish
  BY DEF Next, vars, EnqRefused, EnqReserve, EnqWrite, DeqRefused, DeqReserve,
         DeqCopy, DeqRelease, SetWaterMark
<1>2. QED
  BY <1>1 DEF EnqPublish, IndInv

(* An error return of an enqueue means that nothing was queued, so the retry
   loops of the packet queues cannot duplicate a buffer. *)
THEOREM ErrorsQueueNothing == Spec => ErrorMeansNotQueued
<1>1. IndInv /\ [Next]_vars
        => (watermark = Size /\ prodTail' # prodTail => enqRet' # "EDQUOT")
  <2> SUFFICES ASSUME IndInv, [Next]_vars, watermark = Size,
                      prodTail' # prodTail
               PROVE  enqRet' # "EDQUOT"
    OBVIOUS
  <2>1. EnqPublish
    BY OnlyPublishMovesTail
  <2>2. prod.n \in 0 .. Mask /\ prod.free \in 0 .. Mask /\ prod.n <= prod.free
    BY <2>1 DEF EnqPublish, IndInv, TypeOK
  <2>3. ~QuotaExceeded
    BY <2>2, Constants DEF QuotaExceeded, Mask
  <2>4. QED
    BY <2>1, <2>3 DEF EnqPublish
<1>2. QED
  BY <1>1, RingInvariant, PTL DEF Spec, ErrorMeansNotQueued

(* Plain success means that the ring is below its watermark, although the
   free_entries it is tested with is older than the writes of the slots. *)
THEOREM SuccessMeansBelowMark == Spec => SuccessBelowMark
<1>1. IndInv /\ [Next]_vars
        => (prodTail' # prodTail /\ enqRet' # "EDQUOT"
              => Minus(prodTail', consHead') < watermark)
  <2> SUFFICES ASSUME IndInv, [Next]_vars, prodTail' # prodTail,
                      enqRet' # "EDQUOT"
               PROVE  Minus(prodTail', consHead') < watermark
    OBVIOUS
  <2>1. EnqPublish /\ prodTail' = prodHead
    BY OnlyPublishMovesTail
  <2>2. consHead' = consHead /\ ~QuotaExceeded
    BY <2>1 DEF EnqPublish
  <2>3. /\ prod.n \in 0 .. Mask /\ prod.free \in 0 .. Mask
        /\ watermark \in 1 .. Size
        /\ prodHead \in Idx /\ prodTail \in Idx
        /\ consHead \in Idx /\ consTail \in Idx
        /\ IndicesInOrder /\ Used + prod.free <= Mask + prod.n
    BY <2>1 DEF EnqPublish, IndInv, TypeOK, RoomKept
  <2>4. Used + prod.free <= Mask + prod.n /\ Used \in Int
        /\ Size - prod.free + prod.n <= watermark
    BY <2>2, <2>3, Constants DEF QuotaExceeded, Used, Minus, Mask, Idx
  <2>5. Used < watermark
    BY <2>3, <2>4, Constants DEF Mask
  <2>6. Minus(prodHead, consHead) <= Used /\ Minus(prodHead, consHead) \in Int
    BY <2>3, Constants DEF IndicesInOrder, Used, Minus, Mask, Idx
  <2>7. QED
    BY <2>1, <2>2, <2>3, <2>4, <2>5, <2>6
<1>2. QED
  BY <1>1, RingInvariant, PTL DEF Spec, SuccessBelowMark

----------------------------------------------------------------------------
(* Refinement of the bounded queue.                                        *)

Cells == Objects \cup {Garbage}

AbsQueueIs ==
    /\ AbsQueue \in Seq(Cells) /\ Len(AbsQueue) = Entries
    /\ \A j \in 1 .. Entries : AbsQueue[j] = ring[Slot(Plus(consHead, j - 1))]

AbsHeldIs ==
    cons.pc = "copy" =>
        /\ AbsHeld \in Seq(Cells) /\ Len(AbsHeld) = cons.n
        /\ \A j \in 1 .. cons.n : AbsHeld[j] =
              IF j <= cons.i THEN cons.obj[j]
              ELSE ring[Slot(Plus(cons.head, j - 1))]

(* The abstract values are sequences of what the slots hold. *)
LEMMA AbsSeqs == IndInv => AbsQueueIs /\ AbsHeldIs
<1> SUFFICES ASSUME IndInv PROVE AbsQueueIs /\ AbsHeldIs
  OBVIOUS
<1>1. /\ ring \in [Slots -> Cells] /\ consHead \in Idx /\ Entries \in 0 .. Mask
  BY EntriesInRange DEF IndInv, TypeOK, Cells
<1>2. \A x \in Idx, j \in 0 .. Mask : ring[Slot(Plus(x, j))] \in Cells
  <2>1. \A x \in Idx, j \in 0 .. Mask : Plus(x, j) \in Nat
    BY Constants DEF Plus, Idx, Mask
  <2>2. QED
    BY <1>1, <2>1, SlotInRing
<1>3. AbsQueue \in [1 .. Entries -> Cells]
  <2>1. \A j \in 1 .. Entries : j - 1 \in 0 .. Mask
    BY <1>1, Constants DEF Mask
  <2>2. \A j \in 1 .. Entries : ring[Slot(Plus(consHead, j - 1))] \in Cells
    BY <1>1, <1>2, <2>1
  <2>3. QED
    BY <2>2 DEF AbsQueue
<1>4. cons.pc = "copy" => AbsHeld \in [1 .. cons.n -> Cells]
  <2> SUFFICES ASSUME cons.pc = "copy" PROVE AbsHeld \in [1 .. cons.n -> Cells]
    OBVIOUS
  <2>1. /\ cons.n \in 0 .. Mask /\ cons.i \in 0 .. Mask /\ cons.head \in Idx
        /\ cons.obj \in Seq(Cells) /\ Len(cons.obj) = cons.i
    BY DEF IndInv, TypeOK, Cells
  <2>2. \A j \in 1 .. cons.n : j - 1 \in 0 .. Mask
    BY <2>1, Constants DEF Mask
  <2>3. \A j \in 1 .. cons.n :
           (IF j <= cons.i THEN cons.obj[j] ELSE ring[Slot(Plus(cons.head, j - 1))])
              \in Cells
    BY <1>2, <2>1, <2>2
  <2>4. QED
    BY <2>3 DEF AbsHeld
<1>5. Entries \in Nat /\ cons.n \in Nat
  BY <1>1, Constants DEF IndInv, TypeOK, Mask
<1>6. AbsQueue \in Seq(Cells) /\ Len(AbsQueue) = Entries
  BY <1>3, <1>5
<1>7. cons.pc = "copy" => AbsHeld \in Seq(Cells) /\ Len(AbsHeld) = cons.n
  BY <1>4, <1>5
<1>8. QED
  BY <1>6, <1>7 DEF AbsQueueIs, AbsHeldIs, AbsQueue, AbsHeld

(* An empty ring is an empty queue. *)
LEMMA InitRefines == Init => Fifo!FifoInit
<1> SUFFICES ASSUME Init PROVE Fifo!FifoInit
  OBVIOUS
<1>1. Entries = 0 /\ Minus(consHead, consTail) = 0
  BY Constants, RteRingAssumption
     DEF RteRingAssumption, Init, Entries, Minus, Idx
<1>2. AbsQueue = << >>
  <2>1. IndInv
    BY InitInd
  <2>2. QED
    BY <1>1, <2>1, AbsSeqs, EmptySeq DEF AbsQueueIs
<1>3. AbsHeld = << >>
  BY DEF Init, NoDequeue, AbsHeld
<1>4. QED
  BY <1>1, <1>2, <1>3 DEF Fifo!FifoInit

(* Only the slots, the consumer and the published tail are visible. *)
LEMMA Invisible ==
    ASSUME UNCHANGED <<ring, prodTail, consHead, consTail, cons>>
    PROVE  UNCHANGED Fifo!fifoVars
BY DEF Fifo!fifoVars, AbsQueue, AbsHeld, Entries, Minus

(* Writing a reserved slot is invisible. *)
LEMMA EnqWriteRefines ==
    ASSUME IndInv, EnqWrite
    PROVE  UNCHANGED Fifo!fifoVars
<1>1. /\ prod.pc = "write" /\ prod.i < prod.n
      /\ ring' = [ring EXCEPT ![Slot(Plus(prod.head, prod.i))] =
                                  prod.obj[prod.i + 1]]
      /\ UNCHANGED <<prodTail, consHead, consTail, cons>>
  BY DEF EnqWrite
<1>2. /\ prod.i \in 0 .. (prod.n - 1)
      /\ cons.i \in 0 .. Mask /\ cons.n \in 0 .. Mask
      /\ ring \in [Slots -> Cells] /\ Entries \in 0 .. Mask
  <2>1. /\ prod.i \in 0 .. Mask /\ prod.n \in 0 .. Mask
        /\ cons.i \in 0 .. Mask /\ cons.n \in 0 .. Mask
        /\ ring \in [Slots -> Cells]
    BY DEF IndInv, TypeOK, Cells
  <2>2. QED
    BY <1>1, <2>1, EntriesInRange
<1>3. Slot(Plus(prod.head, prod.i)) \in Writing
  BY <1>2 DEF Writing
<1>4. ASSUME NEW j \in 1 .. Entries
      PROVE  ring'[Slot(Plus(consHead, j - 1))] = ring[Slot(Plus(consHead, j - 1))]
  <2>1. Slot(Plus(consHead, j - 1)) \in Published
    BY <1>2 DEF Published
  <2>2. Slot(Plus(prod.head, prod.i)) # Slot(Plus(consHead, j - 1))
    BY <1>1, <1>3, <2>1, Exclusive DEF SlotsExclusive
  <2>3. QED
    BY <1>1, <1>2, <2>2
<1>5. ASSUME cons.pc = "copy", NEW j \in 1 .. cons.n
      PROVE  ring'[Slot(Plus(cons.head, j - 1))] = ring[Slot(Plus(cons.head, j - 1))]
  <2>1. Slot(Plus(cons.head, j - 1)) \in Reading
    BY <1>2 DEF Reading
  <2>2. Slot(Plus(prod.head, prod.i)) # Slot(Plus(cons.head, j - 1))
    BY <1>1, <1>3, <1>5, <2>1, Exclusive DEF SlotsExclusive
  <2>3. QED
    BY <1>1, <1>2, <2>2
<1>6. AbsQueue' = AbsQueue
  BY <1>1, <1>4 DEF AbsQueue, Entries, Minus
<1>7. AbsHeld' = AbsHeld
  <2>1. CASE cons.pc = "idle"
    BY <1>1, <2>1 DEF AbsHeld
  <2>2. CASE cons.pc = "copy"
    BY <1>1, <1>5, <2>2 DEF AbsHeld
  <2>3. QED
    BY <2>1, <2>2 DEF IndInv, TypeOK
<1>8. QED
  BY <1>1, <1>6, <1>7 DEF Fifo!fifoVars, Minus

(* Publishing appends the burst. *)
LEMMA EnqPublishRefines ==
    ASSUME IndInv, EnqPublish
    PROVE  Fifo!FifoNext
<1> DEFINE burst == [j \in 1 .. prod.n |-> prod.obj[j]]
           taken == Minus(consHead, consTail)
<1>1. /\ prod.pc = "write" /\ prod.i = prod.n /\ prodTail' = prodHead
      /\ UNCHANGED <<ring, consHead, consTail, cons>>
  BY DEF EnqPublish, IndInv
<1>2. /\ prod.n \in 1 .. Mask /\ prod.n <= Len(prod.obj)
      /\ prod.obj \in Seq(Objects) /\ Mask \in Nat
      /\ \A j \in 0 .. (prod.n - 1) : ring[Slot(Plus(prodTail, j))] = prod.obj[j + 1]
  BY <1>1, Constants DEF IndInv, TypeOK, Mask
<1>3. /\ taken \in 0 .. Mask /\ Entries \in 0 .. Mask
      /\ taken + Entries + prod.n <= Mask
      /\ \A j \in 0 .. (Mask - Entries) : Plus(prodTail, j) = Plus(consHead, Entries + j)
  BY <1>1, Window
<1>4. Entries' = Entries + prod.n
  <2>1. prodTail \in Idx /\ consHead \in Idx /\ prodHead = Plus(prodTail, prod.n)
    BY <1>1 DEF IndInv, TypeOK
  <2>2. QED
    BY <1>1, <1>2, <1>3, <2>1, Constants DEF Entries, Minus, Plus, Mask, Idx
<1>5. IndInv'
  BY EnqPublishInd
<1>6. /\ burst \in [1 .. prod.n -> Objects]
      /\ burst \in Seq(Cells) /\ Len(burst) = prod.n
      /\ \A j \in 1 .. prod.n : burst[j] = prod.obj[j]
  <2>1. \A j \in 1 .. prod.n : prod.obj[j] \in Objects
    BY <1>2
  <2>2. burst \in [1 .. prod.n -> Objects] /\ burst \in [1 .. prod.n -> Cells]
    BY <2>1 DEF Cells
  <2>3. prod.n \in Nat
    BY <1>2
  <2>4. QED
    BY <2>2, <2>3
<1>7. /\ AbsQueue \in Seq(Cells) /\ Len(AbsQueue) = Entries
      /\ \A j \in 1 .. Entries : AbsQueue[j] = ring[Slot(Plus(consHead, j - 1))]
  BY AbsSeqs DEF AbsQueueIs
<1>8. /\ AbsQueue' \in Seq(Cells) /\ Len(AbsQueue') = Entries + prod.n
      /\ \A j \in 1 .. (Entries + prod.n) :
            AbsQueue'[j] = ring[Slot(Plus(consHead, j - 1))]
  <2>1. AbsQueueIs'
    BY <1>5, AbsSeqs, PTL
  <2>2. QED
    BY <1>1, <1>4, <2>1 DEF AbsQueueIs
<1> HIDE DEF burst, taken
<1> /\ Entries \in Nat /\ prod.n \in Nat /\ prod.n >= 1 /\ Mask \in Nat
    /\ Entries + prod.n <= Mask
  BY <1>2, <1>3
<1>9. AbsQueue' = AbsQueue \o burst
  <2>1. /\ AbsQueue \o burst \in Seq(Cells)
        /\ Len(AbsQueue \o burst) = Entries + prod.n
        /\ \A j \in 1 .. (Entries + prod.n) : (AbsQueue \o burst)[j] =
              IF j <= Entries THEN AbsQueue[j] ELSE burst[j - Entries]
    <3>1. /\ AbsQueue \o burst \in Seq(Cells)
          /\ Len(AbsQueue \o burst) = Len(AbsQueue) + Len(burst)
          /\ \A j \in 1 .. Len(AbsQueue) + Len(burst) : (AbsQueue \o burst)[j] =
                IF j <= Len(AbsQueue) THEN AbsQueue[j]
                ELSE burst[j - Len(AbsQueue)]
      <4>1. AbsQueue \in Seq(Cells) /\ burst \in Seq(Cells)
        BY <1>6, <1>7
      <4>2. QED
        BY <4>1, ConcatProperties, Zenon
    <3>2. QED
      BY <1>6, <1>7, <3>1
  <2>2. ASSUME NEW j \in 1 .. (Entries + prod.n)
        PROVE  AbsQueue'[j] = (AbsQueue \o burst)[j]
    <3>1. CASE j <= Entries
      <4>1. j \in 1 .. Entries
        BY <1>2, <1>3, <3>1
      <4>2. QED
        BY <1>7, <1>8, <2>1, <3>1, <4>1
    <3>2. CASE ~(j <= Entries)
      <4> DEFINE k == j - Entries - 1
      <4>1. k \in 0 .. (prod.n - 1) /\ k \in 0 .. (Mask - Entries)
            /\ Entries + k = j - 1 /\ k + 1 = j - Entries
            /\ j - Entries \in 1 .. prod.n
        BY <3>2
      <4> HIDE DEF k
      <4>2. Plus(prodTail, k) = Plus(consHead, j - 1)
        BY <1>3, <4>1
      <4>3. ring[Slot(Plus(prodTail, k))] = prod.obj[j - Entries]
        BY <1>2, <4>1
      <4>4. QED
        BY <1>6, <1>8, <2>1, <3>2, <4>1, <4>2, <4>3
    <3>3. QED
      BY <3>1, <3>2
  <2>3. QED
    <3>1. Len(AbsQueue') = Len(AbsQueue \o burst)
      BY <1>8, <2>1
    <3>2. \A j \in 1 .. Len(AbsQueue') : AbsQueue'[j] = (AbsQueue \o burst)[j]
      BY <1>8, <2>2
    <3>3. AbsQueue' \in Seq(Cells) /\ AbsQueue \o burst \in Seq(Cells)
      BY <1>8, <2>1
    <3>4. QED
      BY <3>1, <3>2, <3>3, SeqEqual, Zenon
<1>10. UNCHANGED AbsHeld /\ taken' = taken
  BY <1>1 DEF AbsHeld, taken, Minus
<1>11. Fifo!Put(burst)
  <2>1. burst # << >>
    BY <1>2, <1>6
  <2>2. Len(AbsQueue) + taken + Len(burst) <= Mask
    BY <1>2, <1>3, <1>6, <1>7
  <2>3. QED
    BY <1>9, <1>10, <2>1, <2>2 DEF Fifo!Put, taken
<1>12. QED
  BY <1>2, <1>6, <1>11 DEF Fifo!FifoNext

(* Claiming takes the oldest objects. *)
LEMMA DeqReserveRefines ==
    ASSUME IndInv, NEW max \in Bursts, NEW beh \in Behaviours,
           DeqReserve(max, beh)
    PROVE  Fifo!FifoNext
<1> DEFINE m == IF max > Entries THEN Entries ELSE max
<1>1. Entries \in 0 .. Mask /\ max \in Nat /\ max >= 1 /\ Mask \in Nat
  BY EntriesInRange, Constants DEF Mask
<1>2. m \in 1 .. Mask /\ m <= Entries
  BY <1>1 DEF DeqReserve
<1>3. /\ cons.pc = "idle"
      /\ cons' = [pc |-> "copy", head |-> consHead, n |-> m, i |-> 0,
                  beh |-> beh, obj |-> << >>]
      /\ consHead' = Plus(consHead, m)
      /\ UNCHANGED <<ring, prodTail, consTail>>
      /\ consHead = consTail
  BY DEF DeqReserve, IndInv
<1> HIDE DEF m
<1>4. IndInv'
  BY DeqReserveInd
<1>5. Entries' = Entries - m /\ Minus(consHead, consTail)' = m
      /\ Minus(consHead, consTail) = 0
  <2>1. prodTail \in Idx /\ consHead \in Idx
    BY DEF IndInv, TypeOK
  <2>2. QED
    BY <1>1, <1>2, <1>3, <2>1, Constants DEF Entries, Minus, Plus, Mask, Idx
<1>6. /\ AbsQueue \in Seq(Cells) /\ Len(AbsQueue) = Entries
      /\ \A j \in 1 .. Entries : AbsQueue[j] = ring[Slot(Plus(consHead, j - 1))]
  BY AbsSeqs DEF AbsQueueIs
<1>7. /\ AbsQueue' \in Seq(Cells) /\ Len(AbsQueue') = Entries'
      /\ \A j \in 1 .. Entries' : AbsQueue'[j] = ring'[Slot(Plus(consHead', j - 1))]
      /\ AbsHeld' \in Seq(Cells) /\ Len(AbsHeld') = m
      /\ \A j \in 1 .. m : AbsHeld'[j] = ring[Slot(Plus(consHead, j - 1))]
  <2>1. /\ cons'.pc = "copy" /\ cons'.n = m /\ cons'.i = 0 /\ cons'.head = consHead
    BY <1>3
  <2>2. AbsQueueIs' /\ AbsHeldIs'
    BY <1>4, AbsSeqs, PTL
  <2>3. \A j \in 1 .. m : ~(j <= 0)
    BY <1>1, <1>2
  <2>4. QED
    BY <1>3, <2>1, <2>2, <2>3 DEF AbsQueueIs, AbsHeldIs
<1>8. AbsHeld' = SubSeq(AbsQueue, 1, m)
  <2>1. \A j \in 1 .. m : AbsQueue[j] \in Cells
    BY <1>1, <1>2, <1>6
  <2>2. /\ SubSeq(AbsQueue, 1, m) \in Seq(Cells) /\ Len(SubSeq(AbsQueue, 1, m)) = m
        /\ \A j \in 1 .. m : SubSeq(AbsQueue, 1, m)[j] = AbsQueue[j]
    BY <1>1, <1>2, <2>1, SubSeqProperties
  <2>3. ASSUME NEW j \in 1 .. Len(AbsHeld')
        PROVE  AbsHeld'[j] = SubSeq(AbsQueue, 1, m)[j]
    <3>1. j \in 1 .. m /\ j \in 1 .. Entries
      BY <1>1, <1>2, <1>7
    <3>2. QED
      BY <1>6, <1>7, <2>2, <3>1
  <2>4. AbsHeld' \in Seq(Cells) /\ Len(AbsHeld') = Len(SubSeq(AbsQueue, 1, m))
    BY <1>7, <2>2
  <2>5. QED
    BY <2>2, <2>3, <2>4, SeqEqual, Zenon
<1>9. AbsQueue' = SubSeq(AbsQueue, m + 1, Len(AbsQueue))
  <2>1. \A j \in (m + 1) .. Entries : AbsQueue[j] \in Cells
    BY <1>1, <1>2, <1>6
  <2>2. /\ SubSeq(AbsQueue, m + 1, Entries) \in Seq(Cells)
        /\ Len(SubSeq(AbsQueue, m + 1, Entries)) = Entries - m
        /\ \A j \in 1 .. (Entries - m) :
              SubSeq(AbsQueue, m + 1, Entries)[j] = AbsQueue[m + j]
    BY <1>1, <1>2, <2>1, SubSeqProperties
  <2>3. ASSUME NEW j \in 1 .. (Entries - m)
        PROVE  AbsQueue'[j] = SubSeq(AbsQueue, m + 1, Entries)[j]
    <3>1. Plus(consHead', j - 1) = Plus(consHead, (m + j) - 1)
      <4>1. consHead \in Idx
        BY DEF IndInv, TypeOK
      <4>2. QED
        BY <1>1, <1>2, <1>3, <4>1, Constants DEF Plus, Idx, Mask
    <3>2. m + j \in 1 .. Entries
      BY <1>1, <1>2
    <3>3. AbsQueue'[j] = ring[Slot(Plus(consHead, (m + j) - 1))]
      BY <1>3, <1>5, <1>7, <3>1
    <3>4. QED
      BY <1>6, <2>2, <3>2, <3>3
  <2>4. /\ Len(AbsQueue') = Len(SubSeq(AbsQueue, m + 1, Entries))
        /\ \A j \in 1 .. Len(AbsQueue') :
              AbsQueue'[j] = SubSeq(AbsQueue, m + 1, Entries)[j]
    BY <1>5, <1>7, <2>2, <2>3
  <2>5. AbsQueue' = SubSeq(AbsQueue, m + 1, Entries)
    BY <1>7, <2>2, <2>4, SeqEqual, Zenon
  <2>6. QED
    BY <1>6, <2>5
<1>10. AbsHeld = << >>
  BY <1>3 DEF AbsHeld
<1>11. Fifo!Take(TheConsumer, m)
  <2>1. [t \in {TheConsumer} |-> AbsHeld'] =
        [[t \in {TheConsumer} |-> AbsHeld] EXCEPT ![TheConsumer] = AbsHeld']
    OBVIOUS
  <2>2. QED
    BY <1>1, <1>2, <1>5, <1>6, <1>8, <1>9, <1>10, <2>1 DEF Fifo!Take
<1>12. QED
  BY <1>2, <1>11 DEF Fifo!FifoNext

(* Copying an object out of its slot is invisible. *)
LEMMA DeqCopyRefines ==
    ASSUME IndInv, DeqCopy
    PROVE  UNCHANGED Fifo!fifoVars
<1>1. /\ cons.pc = "copy" /\ cons.i < cons.n
      /\ cons' = [cons EXCEPT !.i = @ + 1,
                   !.obj = Append(@, ring[Slot(Plus(cons.head, cons.i))])]
      /\ UNCHANGED <<ring, prodTail, consHead, consTail>>
  BY DEF DeqCopy
<1>2. /\ cons.i \in 0 .. Mask /\ cons.n \in 0 .. Mask
      /\ cons.obj \in Seq(Cells) /\ Len(cons.obj) = cons.i
  BY <1>1 DEF IndInv, TypeOK, Cells
<1>3. cons' .pc = "copy" /\ cons'.i = cons.i + 1 /\ cons'.n = cons.n
      /\ cons'.head = cons.head
      /\ cons'.obj = Append(cons.obj, ring[Slot(Plus(cons.head, cons.i))])
  BY <1>1 DEF IndInv, TypeOK
<1>4. IndInv'
  BY DeqCopyInd
<1>5. AbsHeld' = AbsHeld
  <2>1. /\ AbsHeld \in Seq(Cells) /\ Len(AbsHeld) = cons.n
        /\ \A j \in 1 .. cons.n : AbsHeld[j] =
              IF j <= cons.i THEN cons.obj[j]
              ELSE ring[Slot(Plus(cons.head, j - 1))]
    BY <1>1, AbsSeqs DEF AbsHeldIs
  <2>2. /\ AbsHeld' \in Seq(Cells) /\ Len(AbsHeld') = cons.n
        /\ \A j \in 1 .. cons.n : AbsHeld'[j] =
              IF j <= cons.i + 1 THEN cons'.obj[j]
              ELSE ring[Slot(Plus(cons.head, j - 1))]
    <3>1. AbsHeldIs'
      BY <1>4, AbsSeqs, PTL
    <3>2. QED
      BY <1>1, <1>3, <3>1 DEF AbsHeldIs
  <2>3. ASSUME NEW j \in 1 .. cons.n
        PROVE  AbsHeld'[j] = AbsHeld[j]
    <3>1. CASE j <= cons.i
      BY <1>2, <1>3, <2>1, <2>2, <3>1
    <3>2. CASE j = cons.i + 1
      <4>1. cons'.obj[j] = ring[Slot(Plus(cons.head, cons.i))]
        BY <1>2, <1>3, <3>2
      <4>2. j - 1 = cons.i
        BY <1>2, <3>2
      <4>3. QED
        BY <1>2, <2>1, <2>2, <3>2, <4>1, <4>2
    <3>3. CASE j > cons.i + 1
      BY <1>2, <2>1, <2>2, <3>3
    <3>4. QED
      BY <1>2, <3>1, <3>2, <3>3
  <2>4. QED
    BY <2>1, <2>2, <2>3, SeqEqual
<1>6. QED
  BY <1>1, <1>5 DEF Fifo!fifoVars, AbsQueue, Entries, Minus

(* Moving cons.tail frees the room the burst occupied. *)
LEMMA DeqReleaseRefines ==
    ASSUME IndInv, DeqRelease
    PROVE  Fifo!FifoNext
<1>1. /\ cons.pc = "copy" /\ cons.i = cons.n /\ consTail' = consHead
      /\ cons'.pc = "idle"
      /\ UNCHANGED <<ring, prodTail, consHead>>
  BY DEF DeqRelease, IndInv, NoDequeue
<1>2. /\ AbsHeld \in Seq(Cells) /\ Len(AbsHeld) = cons.n /\ cons.n \in Nat
      /\ cons.n >= 1 /\ cons.n = Minus(consHead, consTail)
      /\ consHead \in Idx
  BY <1>1, AbsSeqs, Window, Constants DEF AbsHeldIs, IndInv, TypeOK, Mask
<1>3. AbsHeld # << >>
  BY <1>2
<1>4. AbsHeld' = << >>
  BY <1>1 DEF AbsHeld
<1>5. Minus(consHead, consTail)' = Minus(consHead, consTail) - Len(AbsHeld)
  BY <1>1, <1>2, Constants DEF Minus, Idx
<1>6. AbsQueue' = AbsQueue
  BY <1>1 DEF AbsQueue, Entries, Minus
<1>7. Fifo!Release(TheConsumer)
  <2>1. [t \in {TheConsumer} |-> AbsHeld'] =
        [[t \in {TheConsumer} |-> AbsHeld] EXCEPT ![TheConsumer] = << >>]
    BY <1>4
  <2>2. QED
    BY <1>3, <1>5, <1>6, <2>1 DEF Fifo!Release
<1>8. QED
  BY <1>7 DEF Fifo!FifoNext

(* Every step of the ring is a step of the bounded queue or invisible. *)
LEMMA NextRefines == IndInv /\ [Next]_vars => [Fifo!FifoNext]_(Fifo!fifoVars)
<1> SUFFICES ASSUME IndInv, [Next]_vars
             PROVE  Fifo!FifoNext \/ UNCHANGED Fifo!fifoVars
  OBVIOUS
<1>1. ASSUME NEW n \in Bursts, NEW beh \in Behaviours,
             EnqRefused(n, beh) \/ DeqRefused(n, beh)
      PROVE  UNCHANGED Fifo!fifoVars
  BY <1>1, Invisible DEF EnqRefused, DeqRefused
<1>2. ASSUME NEW n \in Bursts, NEW beh \in Behaviours,
             NEW table \in [1 .. n -> Objects], EnqReserve(table, n, beh)
      PROVE  UNCHANGED Fifo!fifoVars
  BY <1>2, Invisible DEF EnqReserve
<1>3. ASSUME NEW n \in Bursts, NEW beh \in Behaviours, DeqReserve(n, beh)
      PROVE  Fifo!FifoNext
  BY <1>3, DeqReserveRefines
<1>4. CASE EnqWrite
  BY <1>4, EnqWriteRefines
<1>5. CASE EnqPublish
  BY <1>5, EnqPublishRefines
<1>6. CASE DeqCopy
  BY <1>6, DeqCopyRefines
<1>7. CASE DeqRelease
  BY <1>7, DeqReleaseRefines
<1>8. ASSUME NEW count \in WaterMarks, SetWaterMark(count)
      PROVE  UNCHANGED Fifo!fifoVars
  BY <1>8, Invisible DEF SetWaterMark
<1>9. CASE UNCHANGED vars
  BY <1>9, Invisible DEF vars
<1>10. QED
  BY <1>1, <1>2, <1>3, <1>4, <1>5, <1>6, <1>7, <1>8, <1>9 DEF Next

(* The lockless ring implements the bounded FIFO queue: nothing is lost,
   duplicated, reordered or overwritten, for every size, index width, burst and
   interleaving of one producer and one consumer. *)
THEOREM RingImplementsFifo == Spec => ImplementsFifo
BY InitRefines, NextRefines, RingInvariant, PTL
   DEF Spec, ImplementsFifo, Fifo!FifoSpec
=============================================================================
