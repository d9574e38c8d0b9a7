---------------------------- MODULE BoundedFifo ----------------------------
(***************************************************************************)
(* What the ring promises its users: a FIFO queue of at most Capacity      *)
(* objects.  A producer appends a burst in one step; a consumer claims a   *)
(* burst from the front in one step and frees the room it occupied in a    *)
(* later one, with exactly the objects it claimed in its hands.            *)
(***************************************************************************)
EXTENDS Naturals, Sequences

CONSTANTS Objects,    \* what is queued
          Takers,     \* the consumers
          Capacity    \* objects that fit

VARIABLES queue,      \* objects published and not claimed, oldest first
          held,       \* per consumer, the burst it claimed and not released
          claimed     \* room still occupied by claimed objects

fifoVars == <<queue, held, claimed>>

FifoInit ==
    /\ queue = << >>
    /\ held = [t \in Takers |-> << >>]
    /\ claimed = 0

\* A producer appends the burst s; there is room for all of it.
Put(s) ==
    /\ s # << >>
    /\ Len(queue) + claimed + Len(s) <= Capacity
    /\ queue' = queue \o s
    /\ UNCHANGED <<held, claimed>>

\* Consumer t claims the n oldest objects.
Take(t, n) ==
    /\ held[t] = << >>
    /\ n \in 1 .. Len(queue)
    /\ held' = [held EXCEPT ![t] = SubSeq(queue, 1, n)]
    /\ queue' = SubSeq(queue, n + 1, Len(queue))
    /\ claimed' = claimed + n

\* Consumer t returns to its caller and the room is free again.
Release(t) ==
    /\ held[t] # << >>
    /\ held' = [held EXCEPT ![t] = << >>]
    /\ claimed' = claimed - Len(held[t])
    /\ UNCHANGED queue

FifoNext ==
    \/ \E n \in 1 .. Capacity : \E s \in [1 .. n -> Objects] : Put(s)
    \/ \E t \in Takers :
          \/ \E n \in 1 .. Capacity : Take(t, n)
          \/ Release(t)

FifoSpec == FifoInit /\ [][FifoNext]_fifoVars
=============================================================================
