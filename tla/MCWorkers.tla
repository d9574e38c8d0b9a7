------------------------------ MODULE MCWorkers ------------------------------
(* A file with a comment and a line of masscan's, and three more addresses; *)
(* limits that lower the children from 4 to 2 and to 1, that are raised,    *)
(* and that fork() meets, or never does.  One read takes the lines of 2     *)
(* children, but not of 4, and the pipe does not hold those of all 4.       *)
EXTENDS Workers

MCFile == <<[kind |-> "host", host |-> "a"], [kind |-> "comment", host |-> "none"],
            [kind |-> "discovered", host |-> "b"]>>
MCAddresses == <<"c", "d", "e">>
MCNproc == {[cur |-> 1, max |-> 50], [cur |-> 3, max |-> 3]}
MCNofile == {[cur |-> 4, max |-> 4], [cur |-> 50, max |-> 50]}
MCAsked == {4}
=============================================================================
