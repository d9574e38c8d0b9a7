----------------------------- MODULE RteRingMP -----------------------------
(***************************************************************************)
(* The multi-producer, multi-consumer operations of rte-ring.h.  Threads   *)
(* race for the head with a compare-and-set and publish their tails in the *)
(* order in which they won.  Between the loads of the two indices and the  *)
(* compare-and-set any other thread may run.                               *)
(***************************************************************************)
EXTENDS RingIndex, Sequences, FiniteSets

CONSTANTS Producers, Consumers,
          Objects, Garbage,
          Bursts,
          StartIdx,
          MaxReserved    \* bound: objects reserved in a behaviour.  Below
                         \* IdxMod - Size no index comes round to the value a
                         \* preempted thread has loaded (2^32 in the program)

ASSUME RteRingMPAssumption ==
    /\ Garbage \notin Objects
    /\ Bursts \subseteq Nat \ {0}
    /\ StartIdx \in Idx
    /\ MaxReserved \in Nat /\ MaxReserved < IdxMod - Size

VARIABLES ring, prodHead, prodTail, consHead, consTail,
          prod,         \* per producer: pc and locals
          cons,         \* per consumer: pc and locals
          reserved      \* objects reserved so far, against MaxReserved

vars == <<ring, prodHead, prodTail, consHead, consTail, prod, cons, reserved>>

Behaviours == {"fixed", "variable"}

Idle == [pc |-> "idle", head |-> 0, max |-> 0, n |-> 0, i |-> 0,
         beh |-> "fixed", obj |-> << >>]

Init ==
    /\ ring = [s \in Slots |-> Garbage]
    /\ prodHead = StartIdx /\ prodTail = StartIdx
    /\ consHead = StartIdx /\ consTail = StartIdx
    /\ prod = [p \in Producers |-> Idle]
    /\ cons = [c \in Consumers |-> Idle]
    /\ reserved = 0

----------------------------------------------------------------------------
(* __rte_ring_mp_do_enqueue *)

\* The caller's table comes in, and prod_head = r->prod.head.
EnqStart(p, table, beh) ==
    /\ prod[p].pc = "idle"
    /\ reserved + Len(table) <= MaxReserved
    /\ prod' = [prod EXCEPT ![p] =
                  [Idle EXCEPT !.pc = "room", !.head = prodHead,
                               !.max = Len(table), !.beh = beh, !.obj = table]]
    /\ UNCHANGED <<ring, prodHead, prodTail, consHead, consTail, cons, reserved>>

\* Fault: one slot too few.
FreeEntries_OneShort(p) == Minus(Plus(consTail, Mask - 1), prod[p].head)

\* free_entries from the loaded prod_head and the present cons.tail
FreeEntries(p) == Minus(Plus(consTail, Mask), prod[p].head)

EnqRefuse(p) ==
    /\ prod[p].pc = "room"
    /\ prod[p].max > FreeEntries(p)
    /\ prod[p].beh = "variable" => FreeEntries(p) = 0
    /\ prod' = [prod EXCEPT ![p] = Idle]
    /\ UNCHANGED <<ring, prodHead, prodTail, consHead, consTail, cons, reserved>>

EnqRoom(p) ==
    /\ prod[p].pc = "room"
    /\ \/ prod[p].max <= FreeEntries(p)
       \/ prod[p].beh = "variable" /\ FreeEntries(p) > 0
    /\ prod' = [prod EXCEPT ![p].pc = "cas",
                            ![p].n = IF prod[p].max > FreeEntries(p)
                                     THEN FreeEntries(p) ELSE prod[p].max]
    /\ UNCHANGED <<ring, prodHead, prodTail, consHead, consTail, cons, reserved>>

\* rte_atomic32_cmpset(&r->prod.head, prod_head, prod_next)
EnqCas(p) ==
    /\ prod[p].pc = "cas"
    /\ prodHead = prod[p].head
    /\ reserved + prod[p].n <= MaxReserved
    /\ prodHead' = Plus(prodHead, prod[p].n)
    /\ reserved' = reserved + prod[p].n
    /\ prod' = [prod EXCEPT ![p].pc = "write"]
    /\ UNCHANGED <<ring, prodTail, consHead, consTail, cons>>

\* The compare-and-set failed: n = max, prod_head is loaded again.
EnqRetry(p) ==
    /\ prod[p].pc = "cas"
    /\ prodHead # prod[p].head
    /\ prod' = [prod EXCEPT ![p].pc = "room", ![p].head = prodHead, ![p].n = 0]
    /\ UNCHANGED <<ring, prodHead, prodTail, consHead, consTail, cons, reserved>>

EnqWrite(p) ==
    /\ prod[p].pc = "write"
    /\ prod[p].i < prod[p].n
    /\ ring' = [ring EXCEPT ![Slot(Plus(prod[p].head, prod[p].i))] =
                                prod[p].obj[prod[p].i + 1]]
    /\ prod' = [prod EXCEPT ![p].i = @ + 1]
    /\ UNCHANGED <<prodHead, prodTail, consHead, consTail, cons, reserved>>

\* Fault: the tail is stored without waiting for earlier producers.
EnqPublish_OutOfTurn(p) ==
    /\ prod[p].pc = "write"
    /\ prod[p].i = prod[p].n
    /\ prodTail' = Plus(prod[p].head, prod[p].n)
    /\ prod' = [prod EXCEPT ![p] = Idle]
    /\ UNCHANGED <<ring, prodHead, consHead, consTail, cons, reserved>>
\* Fault: the producer waits for those after it too.
EnqPublish_WaitsForAll(p) ==
    /\ prodHead = Plus(prod[p].head, prod[p].n)
    /\ prodTail = prod[p].head
    /\ EnqPublish_OutOfTurn(p)

\* while (r->prod.tail != prod_head) rte_pause();  r->prod.tail = prod_next
EnqPublish(p) ==
    /\ prod[p].pc = "write"
    /\ prod[p].i = prod[p].n
    /\ prodTail = prod[p].head
    /\ prodTail' = Plus(prod[p].head, prod[p].n)
    /\ prod' = [prod EXCEPT ![p] = Idle]
    /\ UNCHANGED <<ring, prodHead, consHead, consTail, cons, reserved>>

----------------------------------------------------------------------------
(* __rte_ring_mc_do_dequeue *)

DeqStart(c, max, beh) ==
    /\ cons[c].pc = "idle"
    /\ cons' = [cons EXCEPT ![c] =
                  [Idle EXCEPT !.pc = "entries", !.head = consHead,
                               !.max = max, !.beh = beh]]
    /\ UNCHANGED <<ring, prodHead, prodTail, consHead, consTail, prod, reserved>>

Entries(c) == Minus(prodTail, cons[c].head)

DeqRefuse(c) ==
    /\ cons[c].pc = "entries"
    /\ cons[c].max > Entries(c)
    /\ cons[c].beh = "variable" => Entries(c) = 0
    /\ cons' = [cons EXCEPT ![c] = Idle]
    /\ UNCHANGED <<ring, prodHead, prodTail, consHead, consTail, prod, reserved>>

DeqEntries(c) ==
    /\ cons[c].pc = "entries"
    /\ \/ cons[c].max <= Entries(c)
       \/ cons[c].beh = "variable" /\ Entries(c) > 0
    /\ cons' = [cons EXCEPT ![c].pc = "cas",
                            ![c].n = IF cons[c].max > Entries(c)
                                     THEN Entries(c) ELSE cons[c].max]
    /\ UNCHANGED <<ring, prodHead, prodTail, consHead, consTail, prod, reserved>>

\* Fault: the head is stored without the comparison.
DeqCas_Blind(c) ==
    /\ cons[c].pc = "cas"
    /\ consHead' = Plus(cons[c].head, cons[c].n)
    /\ cons' = [cons EXCEPT ![c].pc = "copy"]
    /\ UNCHANGED <<ring, prodHead, prodTail, consTail, prod, reserved>>

DeqCas(c) ==
    /\ cons[c].pc = "cas"
    /\ consHead = cons[c].head
    /\ consHead' = Plus(consHead, cons[c].n)
    /\ cons' = [cons EXCEPT ![c].pc = "copy"]
    /\ UNCHANGED <<ring, prodHead, prodTail, consTail, prod, reserved>>

DeqRetry(c) ==
    /\ cons[c].pc = "cas"
    /\ consHead # cons[c].head
    /\ cons' = [cons EXCEPT ![c].pc = "entries", ![c].head = consHead,
                            ![c].n = 0]
    /\ UNCHANGED <<ring, prodHead, prodTail, consHead, consTail, prod, reserved>>

DeqCopy(c) ==
    /\ cons[c].pc = "copy"
    /\ cons[c].i < cons[c].n
    /\ cons' = [cons EXCEPT ![c].i = @ + 1,
                  ![c].obj = Append(@, ring[Slot(Plus(cons[c].head, cons[c].i))])]
    /\ UNCHANGED <<ring, prodHead, prodTail, consHead, consTail, prod, reserved>>

\* while (r->cons.tail != cons_head) rte_pause();  r->cons.tail = cons_next
DeqRelease(c) ==
    /\ cons[c].pc = "copy"
    /\ cons[c].i = cons[c].n
    /\ consTail = cons[c].head
    /\ consTail' = Plus(cons[c].head, cons[c].n)
    /\ cons' = [cons EXCEPT ![c] = Idle]
    /\ UNCHANGED <<ring, prodHead, prodTail, consHead, prod, reserved>>

----------------------------------------------------------------------------
\* The steps of a call in progress.
Enqueue(p) ==
    \/ EnqRefuse(p) \/ EnqRoom(p) \/ EnqCas(p) \/ EnqRetry(p)
    \/ EnqWrite(p) \/ EnqPublish(p)

Dequeue(c) ==
    \/ DeqRefuse(c) \/ DeqEntries(c) \/ DeqCas(c) \/ DeqRetry(c)
    \/ DeqCopy(c) \/ DeqRelease(c)

Next ==
    \/ \E p \in Producers :
          \/ \E n \in Bursts, beh \in Behaviours :
                \E table \in [1 .. n -> Objects] : EnqStart(p, table, beh)
          \/ Enqueue(p)
    \/ \E c \in Consumers :
          \/ \E n \in Bursts, beh \in Behaviours : DeqStart(c, n, beh)
          \/ Dequeue(c)

Spec == Init /\ [][Next]_vars

\* Every thread keeps running: the scheduler is fair to each of them.
FairSpec ==
    /\ Spec
    /\ \A p \in Producers : WF_vars(Enqueue(p))
    /\ \A c \in Consumers : WF_vars(Dequeue(c))

----------------------------------------------------------------------------
(* Properties *)

\* n is not bounded by Mask: free_entries and entries computed from a head that
\* others have moved meanwhile can exceed it, until the compare-and-set fails.
Locals == [pc : {"idle", "room", "entries", "cas", "write", "copy"}, head : Idx,
           max : Nat, n : Nat, i : 0 .. Mask, beh : Behaviours,
           obj : Seq(Objects \cup {Garbage})]

TypeOK ==
    /\ ring \in [Slots -> Objects \cup {Garbage}]
    /\ prodHead \in Idx /\ prodTail \in Idx
    /\ consHead \in Idx /\ consTail \in Idx
    /\ prod \in [Producers -> Locals]
    /\ cons \in [Consumers -> Locals]
    /\ reserved \in 0 .. MaxReserved

\* The slots a thread owns: those it won and has not published or released.
Own(l) == IF l.pc \in {"write", "copy"}
          THEN {Slot(Plus(l.head, j)) : j \in 0 .. (l.n - 1)} ELSE {}

\* No two threads, producers or consumers, ever own the same slot: the winner
\* of a compare-and-set has computed n from a cons.tail and a prod_head that it
\* loaded at different times.
OwnersDisjoint ==
    /\ \A p, q \in Producers : p # q => Own(prod[p]) \cap Own(prod[q]) = {}
    /\ \A c, d \in Consumers : c # d => Own(cons[c]) \cap Own(cons[d]) = {}
    /\ \A p \in Producers, c \in Consumers : Own(prod[p]) \cap Own(cons[c]) = {}

\* A call is refused only when at the moment of the refusal there is not the
\* room, or are not the objects, it cannot do without, stale as the head it
\* loaded may be.
Needed(l) == IF l.beh = "fixed" THEN l.max ELSE 1
RefusalsJustified ==
    [][/\ \A p \in Producers :
             prod[p].pc = "room" /\ prod'[p].pc = "idle"
                => Minus(prodHead, consTail) + Needed(prod[p]) > Mask
       /\ \A c \in Consumers :
             cons[c].pc = "entries" /\ cons'[c].pc = "idle"
                => Minus(prodTail, consHead) < Needed(cons[c])]_vars

\* A thread that has moved the head finishes: nobody waits for a tail that
\* never comes, although each waits for all those before it.
CallsFinish ==
    /\ \A p \in Producers : prod[p].pc = "write" ~> prod[p].pc = "idle"
    /\ \A c \in Consumers : cons[c].pc = "copy" ~> cons[c].pc = "idle"

\* With any number of threads the ring is still the bounded queue.
Published == Minus(prodTail, consHead)
AbsQueue == [j \in 1 .. Published |-> ring[Slot(Plus(consHead, j - 1))]]
AbsHeld(c) ==
    IF cons[c].pc # "copy" THEN << >>
    ELSE [j \in 1 .. cons[c].n |->
             IF j <= cons[c].i THEN cons[c].obj[j]
             ELSE ring[Slot(Plus(cons[c].head, j - 1))]]

Fifo == INSTANCE BoundedFifo WITH
            Takers   <- Consumers,
            Capacity <- Mask,
            queue    <- AbsQueue,
            held     <- [c \in Consumers |-> AbsHeld(c)],
            claimed  <- Minus(consHead, consTail)

ImplementsFifo == Fifo!FifoSpec
=============================================================================
