------------------------------ MODULE TimerSet ------------------------------
(***************************************************************************)
(* What the timeout ring promises the TCP stack: a set of entries with a   *)
(* deadline each.  A call gives back an entry that is due, and says that   *)
(* there is none only when there is none.                                  *)
(***************************************************************************)
EXTENDS Naturals

CONSTANTS Entries, Off    \* Off: the deadline of an entry that is not armed

VARIABLES deadline,       \* per entry
          answer          \* of the last call: an entry, or Off for NULL

TimerInit == deadline = [e \in Entries |-> Off] /\ answer = Off

Due(e, now) == deadline[e] # Off /\ deadline[e] <= now

Arm(e, t) == deadline' = [deadline EXCEPT ![e] = t] /\ UNCHANGED answer
Disarm(e) == deadline' = [deadline EXCEPT ![e] = Off] /\ UNCHANGED answer

Fire(e, now) ==
    /\ Due(e, now)
    /\ deadline' = [deadline EXCEPT ![e] = Off]
    /\ answer' = e

NothingDue(now) ==
    /\ \A e \in Entries : ~Due(e, now)
    /\ answer' = Off
    /\ UNCHANGED deadline
=============================================================================
