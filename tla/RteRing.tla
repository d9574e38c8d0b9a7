------------------------------ MODULE RteRing ------------------------------
(***************************************************************************)
(* The single-producer, single-consumer lockless ring of rte-ring.h, the   *)
(* only flavour masscan's packet queues use.  One thread enqueues, another *)
(* one dequeues; neither takes a lock.  Each operation is cut where the    *)
(* other thread can observe it: the read of the other side's tail, every   *)
(* slot access, and the store of the own tail.                             *)
(***************************************************************************)
EXTENDS RingIndex, Sequences, FiniteSets

CONSTANTS Objects,      \* the pointers that are queued
          Garbage,      \* what malloc left in a slot never written
          Bursts,       \* the values of n callers pass
          WaterMarks,   \* the values passed to rte_ring_set_water_mark
          StartIdx      \* the indices at the start: 0 after rte_ring_create

ASSUME RteRingAssumption ==
    /\ Garbage \notin Objects
    /\ Bursts \subseteq Nat \ {0}
    /\ WaterMarks \subseteq Nat
    /\ StartIdx \in Idx

VARIABLES
    ring,        \* Slots -> Objects, Garbage before the first write
    prodHead, prodTail, consHead, consTail,
    watermark,
    prod,        \* locals of the enqueue in progress
    cons,        \* locals of the dequeue in progress
    enqRet,      \* what the last enqueue returned
    deqRet       \* what the last dequeue returned

vars == <<ring, prodHead, prodTail, consHead, consTail, watermark,
          prod, cons, enqRet, deqRet>>

\* An operation not in progress has no locals.
NoEnqueue == [pc |-> "idle", head |-> 0, n |-> 0, i |-> 0, free |-> 0,
              beh |-> "fixed", obj |-> << >>]
NoDequeue == [pc |-> "idle", head |-> 0, n |-> 0, i |-> 0,
              beh |-> "fixed", obj |-> << >>]

Behaviours == {"fixed", "variable"}

Init ==
    /\ ring = [s \in Slots |-> Garbage]
    /\ prodHead = StartIdx /\ prodTail = StartIdx
    /\ consHead = StartIdx /\ consTail = StartIdx
    /\ watermark = Size
    /\ prod = NoEnqueue
    /\ cons = NoDequeue
    /\ enqRet = "none" /\ deqRet = "none"

----------------------------------------------------------------------------
(* __rte_ring_sp_do_enqueue *)

\* Fault: slots being copied out count as free.
FreeEntries_FromHead == Minus(Plus(consHead, Mask), prodHead)

\* mask + cons_tail - prod_head, in unsigned arithmetic
FreeEntries == Minus(Plus(consTail, Mask), prodHead)

\* Not enough room: nothing is enqueued.
EnqRefused(n, beh) ==
    /\ prod.pc = "idle"
    /\ n > FreeEntries
    /\ beh = "variable" => FreeEntries = 0
    /\ enqRet' = IF beh = "fixed" THEN "ENOBUFS" ELSE "count"
    /\ UNCHANGED <<ring, prodHead, prodTail, consHead, consTail, watermark,
                   prod, cons, deqRet>>

\* The head is moved over the reserved slots, for all of the table's max
\* objects or for as many as fit.
EnqReserve(table, max, beh) ==
    /\ prod.pc = "idle"
    /\ max <= FreeEntries \/ (beh = "variable" /\ FreeEntries > 0)
    /\ LET n == IF max > FreeEntries THEN FreeEntries ELSE max
       IN  /\ prod' = [pc |-> "write", head |-> prodHead, n |-> n, i |-> 0,
                       free |-> FreeEntries, beh |-> beh, obj |-> table]
           /\ prodHead' = Plus(prodHead, n)
    /\ UNCHANGED <<ring, prodTail, consHead, consTail, watermark, cons,
                   enqRet, deqRet>>

\* ring[(prod_head + i) & mask] = obj_table[i]
EnqWrite ==
    /\ prod.pc = "write"
    /\ prod.i < prod.n
    /\ ring' = [ring EXCEPT ![Slot(Plus(prod.head, prod.i))] =
                                prod.obj[prod.i + 1]]
    /\ prod' = [prod EXCEPT !.i = @ + 1]
    /\ UNCHANGED <<prodHead, prodTail, consHead, consTail, watermark, cons,
                   enqRet, deqRet>>

\* The watermark test of the enqueue, on the free_entries it read at its start.
QuotaExceeded == Size - prod.free + prod.n > watermark

\* Fault: the tail is stored before the objects.
EnqPublish_Early ==
    /\ prod.pc = "write"
    /\ prodTail' = Plus(prod.head, prod.n)
    /\ enqRet' = "ok"
    /\ prod' = NoEnqueue
    /\ UNCHANGED <<ring, prodHead, consHead, consTail, watermark, cons, deqRet>>

EnqPublish ==
    /\ prod.pc = "write"
    /\ prod.i = prod.n
    /\ prodTail' = Plus(prod.head, prod.n)
    /\ enqRet' = IF QuotaExceeded THEN "EDQUOT"
                 ELSE IF prod.beh = "fixed" THEN "ok" ELSE "count"
    /\ prod' = NoEnqueue
    /\ UNCHANGED <<ring, prodHead, consHead, consTail, watermark, cons, deqRet>>

----------------------------------------------------------------------------
(* __rte_ring_sc_do_dequeue *)

Entries == Minus(prodTail, consHead)

DeqRefused(n, beh) ==
    /\ cons.pc = "idle"
    /\ n > Entries
    /\ beh = "variable" => Entries = 0
    /\ deqRet' = IF beh = "fixed" THEN "ENOENT" ELSE "count"
    /\ UNCHANGED <<ring, prodHead, prodTail, consHead, consTail, watermark,
                   prod, cons, enqRet>>

DeqReserve(max, beh) ==
    /\ cons.pc = "idle"
    /\ max <= Entries \/ (beh = "variable" /\ Entries > 0)
    /\ LET n == IF max > Entries THEN Entries ELSE max
       IN  /\ cons' = [pc |-> "copy", head |-> consHead, n |-> n, i |-> 0,
                       beh |-> beh, obj |-> << >>]
           /\ consHead' = Plus(consHead, n)
    /\ UNCHANGED <<ring, prodHead, prodTail, consTail, watermark, prod,
                   enqRet, deqRet>>

\* obj_table[i] = ring[(cons_head + i) & mask]
DeqCopy ==
    /\ cons.pc = "copy"
    /\ cons.i < cons.n
    /\ cons' = [cons EXCEPT !.i = @ + 1,
                            !.obj = Append(@, ring[Slot(Plus(cons.head, cons.i))])]
    /\ UNCHANGED <<ring, prodHead, prodTail, consHead, consTail, watermark,
                   prod, enqRet, deqRet>>

DeqRelease ==
    /\ cons.pc = "copy"
    /\ cons.i = cons.n
    /\ consTail' = Plus(cons.head, cons.n)
    /\ deqRet' = IF cons.beh = "fixed" THEN "ok" ELSE "count"
    /\ cons' = NoDequeue
    /\ UNCHANGED <<ring, prodHead, prodTail, consHead, watermark, prod, enqRet>>

----------------------------------------------------------------------------
(* rte_ring_set_water_mark: 0 switches the mark off, Size and more is EINVAL. *)
SetWaterMark(count) ==
    /\ count < Size
    /\ watermark' = IF count = 0 THEN Size ELSE count
    /\ UNCHANGED <<ring, prodHead, prodTail, consHead, consTail, prod, cons,
                   enqRet, deqRet>>

Next ==
    \/ \E n \in Bursts, beh \in Behaviours :
          \/ EnqRefused(n, beh)
          \/ \E table \in [1 .. n -> Objects] : EnqReserve(table, n, beh)
          \/ DeqRefused(n, beh)
          \/ DeqReserve(n, beh)
    \/ EnqWrite
    \/ EnqPublish
    \/ DeqCopy
    \/ DeqRelease
    \/ \E count \in WaterMarks : SetWaterMark(count)

Spec == Init /\ [][Next]_vars
----------------------------------------------------------------------------
(* Properties *)

Used == Minus(prodHead, consTail)

\* The type invariant.
TypeOK ==
    /\ ring \in [Slots -> Objects \cup {Garbage}]
    /\ prodHead \in Idx /\ prodTail \in Idx
    /\ consHead \in Idx /\ consTail \in Idx
    /\ watermark \in 1 .. Size
    /\ prod \in [pc : {"idle", "write"}, head : Idx, n : 0 .. Mask,
                 i : 0 .. Mask, free : 0 .. Mask, beh : Behaviours,
                 obj : Seq(Objects)]
    /\ cons \in [pc : {"idle", "copy"}, head : Idx, n : 0 .. Mask,
                 i : 0 .. Mask, beh : Behaviours,
                 obj : Seq(Objects \cup {Garbage})]
    /\ enqRet \in {"none", "ok", "ENOBUFS", "EDQUOT", "count"}
    /\ deqRet \in {"none", "ok", "ENOENT", "count"}

\* The comments at rte-ring.h:332 and 517 rely on this: however the four
\* indices have wrapped, free_entries and entries stay between 0 and
\* size - 1, because the indices never pass one another.
IndicesInOrder ==
    /\ Used <= Mask
    /\ Minus(consHead, consTail) + Minus(prodTail, consHead)
          + Minus(prodHead, prodTail) = Used

\* The slots the producer has reserved and may still write.
Writing == {Slot(Plus(prod.head, j)) : j \in 0 .. (prod.n - 1)}
\* The slots the consumer has claimed and may still read.
Reading == {Slot(Plus(cons.head, j)) : j \in 0 .. (cons.n - 1)}
\* The slots whose objects are published and not yet claimed.
Published == {Slot(Plus(consHead, j)) : j \in 0 .. (Entries - 1)}

\* No slot is written while the other thread may read it, and no published
\* object is overwritten: the two threads never touch one slot at a time.
SlotsExclusive ==
    prod.pc = "write" =>
        /\ Writing \cap Published = {}
        /\ cons.pc = "copy" => Writing \cap Reading = {}

\* With the watermark off, as packet queues have it, an enqueue that returns an
\* error has queued nothing.  tcpcon_send_packet, tcp_send_RST and flush_packets
\* retry on any error: an EDQUOT would put the same buffer into the ring twice.
ErrorMeansNotQueued ==
    [][watermark = Size /\ prodTail' # prodTail => enqRet' # "EDQUOT"]_vars

\* An enqueue that reports plain success leaves fewer objects in the ring than
\* the watermark, although free_entries was read before the slots were written
\* and the consumer has moved on since.
SuccessBelowMark ==
    [][prodTail' # prodTail /\ enqRet' # "EDQUOT"
          => Minus(prodTail', consHead') < watermark]_vars

\* The room free_entries stood for is still there, or more, when the consumer
\* has moved on since the producer read its tail.
RoomKept == prod.pc = "write" => Used + prod.free <= Mask + prod.n

\* What makes the safety properties inductive: the two indices of a thread
\* differ exactly by the burst in progress, and the slots already written hold
\* the caller's objects.
IndInv ==
    /\ TypeOK
    /\ IndicesInOrder
    /\ RoomKept
    /\ prod.pc = "idle" => prodHead = prodTail
    /\ prod.pc = "write" =>
          /\ prod.head = prodTail
          /\ prodHead = Plus(prodTail, prod.n)
          /\ prod.n \in 1 .. Len(prod.obj)
          /\ prod.i <= prod.n
          /\ prod.n <= prod.free
          /\ \A j \in 0 .. (prod.i - 1) :
                ring[Slot(Plus(prodTail, j))] = prod.obj[j + 1]
    /\ cons.pc = "idle" => consHead = consTail
    /\ cons.pc = "copy" =>
          /\ cons.head = consTail
          /\ consHead = Plus(consTail, cons.n)
          /\ cons.n >= 1
          /\ cons.i <= cons.n
          /\ Len(cons.obj) = cons.i

\* The ring implements the bounded queue.  An object enters the queue when
\* prod.tail passes it and leaves it when cons.head does; what the consumer
\* holds is what it has copied and what it will still copy.
TheConsumer == "consumer"
AbsQueue == [j \in 1 .. Entries |-> ring[Slot(Plus(consHead, j - 1))]]
AbsHeld ==
    IF cons.pc = "idle" THEN << >>
    ELSE [j \in 1 .. cons.n |->
             IF j <= cons.i THEN cons.obj[j]
             ELSE ring[Slot(Plus(cons.head, j - 1))]]

Fifo == INSTANCE BoundedFifo WITH
            Takers   <- {TheConsumer},
            Capacity <- Mask,
            queue    <- AbsQueue,
            held     <- [t \in {TheConsumer} |-> AbsHeld],
            claimed  <- Minus(consHead, consTail)

ImplementsFifo == Fifo!FifoSpec
=============================================================================
