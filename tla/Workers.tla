------------------------------- MODULE Workers -------------------------------
(***************************************************************************)
(* rdpscan scans many targets by running itself once for each: the parent  *)
(* (spawn_workers in workers.c, the POSIX half) forks a child for every     *)
(* line of a file and every address of its command line, keeps at most      *)
(* max_children of them, copies what they write to one shared pipe to its   *)
(* own output, and reaps them.  A child (RdpClient) writes one line with    *)
(* its verdict, or nothing, and exits.                                      *)
(***************************************************************************)
EXTENDS Naturals, SequencesExt

CONSTANTS File,       \* the lines of the file, [kind, host]
          Addresses,  \* the addresses of the command line
          Asked,      \* --workers, the values to try
          Nproc,      \* RLIMIT_NPROC, the records [cur, max] to try
          Nofile,     \* RLIMIT_NOFILE, likewise
          Slack,      \* the 10 of tracker_init
          Spare,      \* the 5 of tracker_init
          ReadMax,    \* lines that one read() of 16384 bytes returns
          PipeSize,   \* lines that the pipe holds
          Others      \* bound: other processes that the user has

ASSUME WorkersAssumption ==
    /\ ReadMax \in Nat \ {0} /\ PipeSize \in Nat \ {0} /\ Others \in Nat
    /\ Asked \subseteq Nat \ {0} /\ Slack \in Nat /\ Spare \in Nat
    /\ \A r \in Nproc \cup Nofile : r.cur \in Nat /\ r.max \in Nat
    /\ Len(File) \in Nat /\ Len(Addresses) \in Nat

VARIABLES parent,    \* where the parent is
          phase,     \* which of its three loops it is in
          line,      \* lines read from the file
          addr,      \* addresses taken from the command line
          count,     \* children_count
          max,       \* max_children, after tracker_init
          limit,     \* how many processes the user may have
          child,     \* the children in the order they were forked
          host,      \* the target of each
          pipe,      \* lines in the pipe; those that leave it are printed
          others     \* other processes of the user

poolVars == <<parent, phase, line, addr, count, max, limit, child, host, pipe, others>>

----------------------------------------------------------------------------
(* tracker_init: a limit below the children asked for lowers their number, *)
(* and a soft limit far below them is raised to the hard one.               *)

Lowered(wanted, hard, room) == IF wanted > room /\ hard > Slack THEN room ELSE wanted

Raised(rlimit, wanted) == IF rlimit.cur + Slack < wanted THEN rlimit.max ELSE rlimit.cur

tracker_init(asked, nproc, nofile) ==
    Lowered(Lowered(asked, nproc.max, nproc.max - Slack),
            nofile.max, nofile.max \div 2 - Spare)

(* A line is trimmed; an empty one and one that begins with punctuation are *)
(* passed over, a line of masscan's output is cut down to its address and   *)
(* passed over when it has none.                                            *)
Skipped(l) == l.kind \in {"empty", "comment", "no_address"}

PoolTypeOK ==
    /\ parent \in {"next", "fork", "collect", "reap", "last", "done"}
    /\ phase \in {"file", "addresses", "drain"}
    /\ line \in 0 .. Len(File) /\ addr \in 0 .. Len(Addresses)
    /\ count \in 0 .. max + 1 /\ limit \in Nat /\ max \in Nat
    /\ child \in Seq({"working", "written", "exited", "reaped"})
    /\ Len(host) = Len(child) /\ pipe \in 0 .. PipeSize /\ others \in 0 .. Others

\* The children that still count as processes: a zombie does until it is reaped.
Processes == {c \in DOMAIN child : child[c] # "reaped"}
Zombies == {c \in DOMAIN child : child[c] = "exited"}

PoolInit ==
    /\ parent = "next" /\ phase = "file" /\ line = 0 /\ addr = 0 /\ count = 0
    /\ \E a \in Asked, p \in Nproc, f \in Nofile :
         /\ max = tracker_init(a, p, f)
         /\ limit = Raised(p, Lowered(a, p.max, p.max - Slack))
    /\ child = <<>> /\ host = <<>> /\ pipe = 0
    /\ others \in 0 .. Others

----------------------------------------------------------------------------
(* The parent. *)

\* fgets() and the trimming; a host takes a row of the table before the fork.
NextLine ==
    /\ parent = "next" /\ phase = "file" /\ line < Len(File)
    /\ line' = line + 1
    /\ IF Skipped(File[line + 1]) THEN UNCHANGED <<parent, count>>
       ELSE parent' = "fork" /\ count' = count + 1
    /\ UNCHANGED <<phase, addr, max, limit, child, host, pipe, others>>

EndOfFile ==
    /\ parent = "next" /\ phase = "file" /\ line = Len(File)
    /\ phase' = "addresses"
    /\ UNCHANGED <<parent, line, addr, count, max, limit, child, host, pipe, others>>

\* Fault: a row more is used.
Full_Late(n) == n > max

Full(n) == n = max

\* With the table full the next address has to wait.
NextAddress ==
    /\ parent = "next" /\ phase = "addresses" /\ addr < Len(Addresses)
    /\ IF Full(count) THEN parent' = "collect" /\ UNCHANGED <<addr, count>>
       ELSE parent' = "fork" /\ addr' = addr + 1 /\ count' = count + 1
    /\ UNCHANGED <<phase, line, max, limit, child, host, pipe, others>>

EndOfAddresses ==
    /\ parent = "next" /\ phase = "addresses" /\ addr = Len(Addresses)
    /\ phase' = "drain"
    /\ UNCHANGED <<parent, line, addr, count, max, limit, child, host, pipe, others>>

\* spawn_program: fork() fails with EAGAIN while the user is at the limit, and
\* the parent sleeps and tries again; it neither reads nor reaps meanwhile.
Fork ==
    /\ parent = "fork"
    /\ Cardinality(Processes) + others < limit
    /\ child' = Append(child, "working")
    /\ host' = Append(host, IF phase = "file" THEN File[line].host ELSE Addresses[addr])
    /\ parent' = IF phase = "file" THEN "collect" ELSE "next"
    /\ UNCHANGED <<phase, line, addr, count, max, limit, pipe, others>>

\* parse_results: one read() of what is there, nothing after 100 milliseconds.
Chunk == Min({ReadMax, pipe})

\* Fault: closed_count begins at 0, so a pass that reads nothing reaps nobody.
AfterRead_Silent == IF parent = "last" THEN "done" ELSE IF pipe > 0 THEN "reap" ELSE "collect"

AfterRead == IF parent = "last" THEN "done" ELSE "reap"

Collect ==
    /\ parent \in {"collect", "last"}
    /\ pipe' = pipe - Chunk
    /\ parent' = AfterRead
    /\ UNCHANGED <<phase, line, addr, count, max, limit, child, host, others>>

\* cleanup_children, and the test of the loop that it ends.
Reap ==
    /\ parent = "reap"
    /\ count' = count - Cardinality(Zombies)
    /\ child' = [c \in DOMAIN child |-> IF c \in Zombies THEN "reaped" ELSE child[c]]
    /\ parent' = IF phase = "file" /\ Full(count') THEN "collect" ELSE "next"
    /\ UNCHANGED <<phase, line, addr, max, limit, host, pipe, others>>

\* ... and goes on trying.
ForkAgain ==
    /\ parent = "fork"
    /\ Cardinality(Processes) + others >= limit
    /\ UNCHANGED poolVars

Drain ==
    /\ parent = "next" /\ phase = "drain"
    /\ parent' = IF count > 0 THEN "collect" ELSE "last"
    /\ UNCHANGED <<phase, line, addr, count, max, limit, child, host, pipe, others>>

Parent ==
    \/ NextLine \/ EndOfFile \/ NextAddress \/ EndOfAddresses
    \/ Fork \/ ForkAgain \/ Collect \/ Reap \/ Drain

----------------------------------------------------------------------------
(* The children, and what else the user runs. *)

\* RESULT: one line, in one write, which waits while the pipe is full.
Write(c) ==
    /\ child[c] = "working" /\ pipe < PipeSize
    /\ pipe' = pipe + 1
    /\ child' = [child EXCEPT ![c] = "written"]
    /\ UNCHANGED <<parent, phase, line, addr, count, max, limit, host, others>>

\* exit(): after its line, or without one when nothing answers and -q is on.
Exit(c) ==
    /\ child[c] \in {"working", "written"}
    /\ child' = [child EXCEPT ![c] = "exited"]
    /\ UNCHANGED <<parent, phase, line, addr, count, max, limit, host, pipe, others>>

\* The user's other processes start and end, or do not, as they like.
OtherStarts ==
    /\ others < Others
    /\ others' = others + 1
    /\ UNCHANGED <<parent, phase, line, addr, count, max, limit, child, host, pipe>>

OtherExits ==
    /\ others > 0
    /\ others' = others - 1
    /\ UNCHANGED <<parent, phase, line, addr, count, max, limit, child, host, pipe>>

Done == parent = "done" /\ UNCHANGED poolVars

PoolNext ==
    \/ Parent
    \/ \E c \in DOMAIN child : Write(c) \/ Exit(c)
    \/ OtherStarts \/ OtherExits
    \/ Done

\* The scheduler runs the parent and the children: a child writes its line once
\* the pipe has room, and exits when it has written it.
Fairness ==
    /\ WF_poolVars(Parent)
    /\ \A c \in 1 .. Len(File) + Len(Addresses) :
         /\ WF_poolVars(c \in DOMAIN child /\ Write(c))
         /\ WF_poolVars(c \in DOMAIN child /\ child[c] = "written" /\ Exit(c))

PoolSpec == PoolInit /\ [][PoolNext]_poolVars /\ Fairness

----------------------------------------------------------------------------
(* Properties. *)

\* The rows of the table are the children not yet reaped and the one about to
\* be forked; they never pass the table's max_children + 1 rows, nor do more
\* than max_children run (workers.c:671, 736-749, 757-770).  When the parent
\* returns, every line a child has written is in its output, although the last
\* loop ends on the count of children and not on an empty pipe, and only one
\* read follows it (workers.c:777-787) - unless there are more children than
\* that read of 16384 bytes takes lines, as with the --workers 1000 and 10000
\* of the documentation: then the lines behind it are lost.
NothingLost == parent = "done" /\ max <= ReadMax => pipe = 0
PoolBounded ==
    /\ PoolTypeOK
    /\ count = Cardinality(Processes) + (IF parent = "fork" THEN 1 ELSE 0)
    /\ count <= max
    /\ NothingLost

Finished ==
    /\ parent = "done"
    /\ Len(child) = Len(SelectSeq(File, LAMBDA l : ~Skipped(l))) + Len(Addresses)

\* fork() fails: the user has as many processes as the limit allows, the zombies
\* that the parent does not reap meanwhile among them.
NoRoom == parent = "fork" /\ Cardinality(Processes) + others >= limit

\* The parent comes to its end: no line or address waits for ever for a free
\* row, and no child for ever for room in the pipe.  The one exception is the
\* retry loop of spawn_program (workers.c:449-460), in which fork() is tried
\* again and again while nothing is read and nobody is reaped: when the user is
\* still, or again and again, at the limit there, the parent need not end.
PoolEnds == <>Finished \/ []<>NoRoom
=============================================================================
