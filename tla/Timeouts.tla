------------------------------ MODULE Timeouts ------------------------------
(***************************************************************************)
(* The timeout ring of masscan's TCP stack (event-timeout.c) under the     *)
(* calls its only user makes: the receive thread takes out what is due     *)
(* whenever a packet arrives or the adapter has been quiet, until it gets  *)
(* NULL (tcpcon_timeouts), and arms entries in between.                    *)
(***************************************************************************)
EXTENDS Integers, SequencesExt

CONSTANTS Entries,     \* one in each TCB
          Off,         \* no deadline
          SlotCount,   \* slots of the ring: 1024*1024
          Delays,      \* how far ahead entries are armed, in ticks
          Jitter,      \* how far the time of a call may lie behind an earlier
                       \* one's: a packet has microseconds, time(0) has none
          MaxTime      \* bound

ASSUME TimeoutsAssumption ==
    /\ Off \notin Nat /\ Off \notin Entries
    /\ SlotCount \in Nat \ {0}
    /\ Delays \subseteq Nat
    /\ Jitter \in Nat /\ MaxTime \in Nat

VARIABLES slots,         \* per slot the linked list, its head first
          timestamp,     \* per entry
          currentIndex,
          now,           \* the time of the packet being handled, in ticks
          draining,      \* tcpcon_timeouts is calling timeouts_remove
          answer         \* of the last timeouts_remove

vars == <<slots, timestamp, currentIndex, now, draining, answer>>

SlotOf(t) == t % SlotCount
Lists == 0 .. (SlotCount - 1)

Linked(e) == \E s \in Lists : \E k \in DOMAIN slots[s] : slots[s][k] = e

\* timeout_unlink: the node of the entry is cut out of the list it is in.
Without(list, e) ==
    IF \E k \in DOMAIN list : list[k] = e
    THEN RemoveAt(list, CHOOSE k \in DOMAIN list : list[k] = e)
    ELSE list

\* timeouts_create
Init ==
    /\ slots = [s \in Lists |-> << >>]
    /\ timestamp = [e \in Entries |-> 0]
    /\ now \in 0 .. (SlotCount - 1)
    /\ currentIndex = now
    /\ draining = FALSE
    /\ answer = Off

\* A packet, or a receive timeout: tcpcon_timeouts starts.
Arrive(t) ==
    /\ ~draining
    /\ t + 1 + Jitter >= currentIndex
    /\ now' = t
    /\ draining' = TRUE
    /\ UNCHANGED <<slots, timestamp, currentIndex, answer>>

\* Fault: the entry is not unlinked first.
Add_StillLinked(e, t) ==
    /\ timestamp' = [timestamp EXCEPT ![e] = t]
    /\ slots' = [slots EXCEPT ![SlotOf(t)] = <<e>> \o @]
    /\ UNCHANGED <<currentIndex, now, draining, answer>>

\* timeouts_add: unlinked from wherever it is, the entry becomes the head of
\* the list of its slot.
Add(e, t) ==
    /\ timestamp' = [timestamp EXCEPT ![e] = t]
    /\ slots' = [s \in Lists |->
                    IF s = SlotOf(t) THEN <<e>> \o Without(slots[s], e)
                    ELSE Without(slots[s], e)]
    /\ UNCHANGED <<currentIndex, now, draining, answer>>

\* timeout_unlink, when a TCB is destroyed
Unlink(e) ==
    /\ Linked(e)
    /\ slots' = [s \in Lists |-> Without(slots[s], e)]
    /\ timestamp' = [timestamp EXCEPT ![e] = 0]
    /\ UNCHANGED <<currentIndex, now, draining, answer>>

\* Fault: only the head of a list is looked at.
Ripe_HeadOnly(c) == {k \in DOMAIN slots[SlotOf(c)] :
                        k = 1 /\ timestamp[slots[SlotOf(c)][k]] <= now}
\* Fault: entries of later rounds of the ring are taken too.
Ripe_AnyRound(c) == DOMAIN slots[SlotOf(c)]

Ripe(c) == {k \in DOMAIN slots[SlotOf(c)] :
               timestamp[slots[SlotOf(c)][k]] <= now}

\* timeouts_remove stops at the first slot, from current_index on, with an
\* entry that is due, and unlinks the first such entry of its list.
RemoveFound ==
    /\ draining
    /\ \E c \in currentIndex .. now :
          /\ \A b \in currentIndex .. (c - 1) : Ripe(b) = {}
          /\ \E k \in Ripe(c) :
                /\ \A j \in Ripe(c) : k <= j
                /\ LET e == slots[SlotOf(c)][k]
                   IN  /\ answer' = e
                       /\ slots' = [slots EXCEPT
                                      ![SlotOf(c)] = Without(@, e)]
                       /\ timestamp' = [timestamp EXCEPT ![e] = 0]
          /\ currentIndex' = c
    /\ UNCHANGED <<now, draining>>

\* Or it runs up to the present and returns NULL, which ends the loop.
RemoveNothing ==
    /\ draining
    /\ \A c \in currentIndex .. now : Ripe(c) = {}
    /\ currentIndex' = IF currentIndex <= now THEN now + 1 ELSE currentIndex
    /\ answer' = Off
    /\ draining' = FALSE
    /\ UNCHANGED <<slots, timestamp, now>>

Next ==
    \/ \E t \in 0 .. MaxTime : Arrive(t)
    \/ \E e \in Entries, d \in Delays : Add(e, now + d)
    \/ \E e \in Entries : Unlink(e)
    \/ RemoveFound
    \/ RemoveNothing

Spec == Init /\ [][Next]_vars

----------------------------------------------------------------------------
(* Properties *)

TypeOK ==
    /\ slots \in [Lists -> Seq(Entries)]
    /\ timestamp \in [Entries -> Nat]
    /\ currentIndex \in Nat
    /\ now \in Nat
    /\ draining \in BOOLEAN
    /\ answer \in Entries \cup {Off}

\* "each TCB can have one-and-only-one timeout" (event-timeout.c:17): an entry
\* is linked at most once, in the slot of its timestamp.
LinkedOnce ==
    \A s, r \in Lists : \A k \in DOMAIN slots[s], j \in DOMAIN slots[r] :
        slots[s][k] = slots[r][j] => s = r /\ k = j
InItsSlot ==
    \A s \in Lists : \A k \in DOMAIN slots[s] : SlotOf(timestamp[slots[s][k]]) = s

\* The ring never passes an entry by: what is linked lies at current_index or
\* ahead of it, whatever wraps, and whichever clock the calls used.
NothingBehind ==
    \A s \in Lists : \A k \in DOMAIN slots[s] :
        timestamp[slots[s][k]] >= currentIndex

Inv == TypeOK /\ LinkedOnce /\ InItsSlot /\ NothingBehind

\* When tcpcon_timeouts returns, nothing that was due is left in the ring
\* ("must be called repeatedly until it returns NULL to remove all the objects
\* that are older than the given timestamp", event-timeout.h:99).
AllDueRemoved ==
    [][draining /\ ~draining'
          => \A e \in Entries : Linked(e) => timestamp[e] > now]_vars

\* The ring implements the set of timers.
Deadline == [e \in Entries |-> IF Linked(e) THEN timestamp[e] ELSE Off]
Timers == INSTANCE TimerSet WITH deadline <- Deadline
TimerStep ==
    \/ \E e \in Entries, d \in Delays : Timers!Arm(e, now + d)
    \/ \E e \in Entries : Timers!Disarm(e) \/ Timers!Fire(e, now)
    \/ Timers!NothingDue(now)
ImplementsTimers ==
    Timers!TimerInit /\ [][TimerStep]_<<Deadline, answer>>
=============================================================================
