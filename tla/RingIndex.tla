----------------------------- MODULE RingIndex -----------------------------
(***************************************************************************)
(* The index arithmetic of masscan's lockless ring (rte-ring.h).  Indices  *)
(* are free-running unsigned integers of a fixed width that wrap at        *)
(* IdxMod (2^32 in the program); a slot is an index masked by Size - 1.    *)
(***************************************************************************)
EXTENDS Integers

CONSTANTS Size,     \* slots of the ring, the "count" of rte_ring_create
          IdxMod    \* the indices are kept modulo IdxMod

\* count is a power of 2 no larger than the index space, so Size divides
\* IdxMod; rte_ring_create refuses anything else.
ASSUME RingAssumption ==
    /\ Size \in Nat \ {0, 1}
    /\ IdxMod \in Nat
    /\ \E k \in 2 .. IdxMod : IdxMod = k * Size

Idx  == 0 .. (IdxMod - 1)
Mask == Size - 1
Slots == 0 .. Mask

\* Unsigned addition and subtraction of operands that are already in range.
Plus(x, n)  == IF x + n < IdxMod THEN x + n ELSE x + n - IdxMod
Minus(x, y) == IF y <= x THEN x - y ELSE x + IdxMod - y

Slot(x) == x % Size
=============================================================================
