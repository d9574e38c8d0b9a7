--------------------------- MODULE MCScanControl ---------------------------
(* The command lines that the scan is checked with; the rates are halves.  *)
EXTENDS ScanControl

Plain == [status |-> TRUE, infinite |-> FALSE, count |-> 0, retries |-> 0,
          rate |-> 2, answers |-> FALSE]
Quiet == [Plain EXCEPT !.status = FALSE]
Retried == [Plain EXCEPT !.retries = 1, !.rate = 3]      \* 1.5 is 1 for all
Fractional == [Plain EXCEPT !.retries = 2, !.rate = 1]   \* 2 * 0.5 is not 2 * 0
Answered == [Plain EXCEPT !.answers = TRUE]
Limited == [Plain EXCEPT !.count = 1]
Infinite == [Plain EXCEPT !.infinite = TRUE]

AllOptions == {Retried, Fractional, Answered, Quiet, Limited, Infinite,
               [Limited EXCEPT !.status = FALSE], [Infinite EXCEPT !.status = FALSE],
               [Infinite EXCEPT !.count = 1]}
=============================================================================
