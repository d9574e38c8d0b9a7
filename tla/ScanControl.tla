---------------------------- MODULE ScanControl ----------------------------
(***************************************************************************)
(* The life of a scan in masscan's main.c: one transmit and one receive    *)
(* thread per network adapter, main_scan's status and wait loops, the      *)
(* <ctrl-c> handler, and the restart from paused.conf.  The threads share  *)
(* is_tx_done, is_rx_done and, per adapter, my_index, without a lock.      *)
(*                                                                         *)
(* A target is the index blackrock_shuffle is applied to: the shuffle is a *)
(* bijection of 0 .. TargetCount-1, so which address it yields does not    *)
(* matter.                                                                 *)
(***************************************************************************)
EXTENDS Naturals, FiniteSets

CONSTANTS TargetCount,    \* addresses times ports
          NicCount,       \* adapters
          One, Of,        \* --shard One/Of
          Options,        \* what may be chosen: status is FALSE with --nostatus,
                          \* infinite TRUE with --infinite, count is that of
                          \* --resume-count, 0 for none, retries of --retries, rate
                          \* / RateUnit of --rate, which need not be a whole number;
                          \* answers is TRUE when packets come that are answered
          RateUnit,
          MaxRetries,     \* bound: the retries among them
          MaxRate,        \* bound: the rates among them
          Wait,           \* --wait, in seconds
          MaxBatch,       \* bound: probes the throttler grants at once
          MaxPresses,     \* bound: how often <ctrl-c> is pressed in a run
          MaxRuns         \* bound: the first run and its resumptions

ASSUME ScanControlAssumption ==
    /\ {TargetCount, NicCount, One, MaxBatch, RateUnit} \subseteq Nat \ {0}
    /\ {Wait, MaxRetries, MaxRate, MaxPresses, MaxRuns} \subseteq Nat
    /\ Of \in Nat /\ One <= Of
    /\ Options \subseteq [status : BOOLEAN, infinite : BOOLEAN, count : Nat,
                          retries : 0 .. MaxRetries, rate : 0 .. MaxRate, answers : BOOLEAN]

VARIABLES
    tx,           \* per adapter, the transmit thread: pc, i, r, batch_size
    myIndex,      \* per adapter, parms->my_index
    rx,           \* per adapter, the receive thread: "run", "wait" for a packet buffer,
                  \* "dry" when no buffer is left, "done" once done_receiving is set
    main,         \* main_scan: pc, adapter looked at, min_index, seconds waited
    isTxDone,     \* is_tx_done
    isRxDone,     \* is_rx_done, which the handler also counts with
    presses,      \* <ctrl-c> so far in this run
    opt,          \* the options of the command line
    resumeIndex,  \* masscan->resume.index of this run
    paused,       \* the resume-index in paused.conf, or None
    probed,       \* <<i, r>> for every probe sent, over all runs
    runs

flags == <<isTxDone, isRxDone>>
conf == <<opt, resumeIndex>>
vars == <<tx, myIndex, rx, main, flags, presses, conf, paused, probed, runs>>

Nics == 0 .. (NicCount - 1)
Increment == (Of - 1) + NicCount
ThreadRate == opt.rate \div RateUnit  \* transmit_thread's rate is a uint64_t
ThreadRange == TargetCount + opt.retries * ThreadRate
\* main_scan's range: retries * max_rate, which is a double.
FullRange == TargetCount + (opt.retries * opt.rate) \div RateUnit
Start(n) == resumeIndex + (One - 1) + n
End(n) ==
    (IF opt.count # 0 /\ TargetCount > Start(n) + opt.count
     THEN Start(n) + opt.count ELSE TargetCount) + opt.retries * ThreadRate

UINT64_MAX == TargetCount + MaxRetries * MaxRate + Of + NicCount   \* above every index that occurs
None == UINT64_MAX                        \* no file

\* What the threads and main_scan start from.
NewTx(index, retries) == [n \in Nics |-> [pc |-> "loop", i |-> index + (One - 1) + n,
                                 r |-> retries + 1, batch |-> 0]]
NewMain == [pc |-> "status", nic |-> 0, min |-> UINT64_MAX, waited |-> 0]

Init ==
    /\ myIndex = [n \in Nics |-> 0]
    /\ rx = [n \in Nics |-> "run"]
    /\ main = NewMain
    /\ isTxDone = FALSE /\ isRxDone = 0
    /\ presses = 0
    /\ opt \in Options
    /\ tx = NewTx(0, opt.retries)
    /\ resumeIndex = 0
    /\ paused = None
    /\ probed = {}
    /\ runs = 1

Running == main.pc \notin {"exited", "killed"}

----------------------------------------------------------------------------
(* transmit_thread *)

\* The next round of the main loop.  A round with nothing granted is left out.
TxBatch(n) ==
    /\ Running
    /\ tx[n].pc = "loop"
    /\ tx[n].i < End(n)
    /\ \E b \in 1 .. MaxBatch :
          tx' = [tx EXCEPT ![n].pc = "probe", ![n].batch = b]
    /\ UNCHANGED <<myIndex, rx, main, flags, presses, conf, paused,
                   probed, runs>>

TxProbe(n) ==
    /\ Running
    /\ tx[n].pc = "probe"
    /\ tx[n].batch > 0 /\ tx[n].i < End(n)
    /\ probed' = probed \cup {<<tx[n].i, tx[n].r>>}
    /\ tx' = [tx EXCEPT ![n] =
                [pc |-> "probe", batch |-> tx[n].batch - 1,
                 i |-> IF tx[n].r = 1 THEN tx[n].i + Increment ELSE tx[n].i,
                 r |-> IF tx[n].r = 1 THEN opt.retries + 1 ELSE tx[n].r - 1]]
    /\ UNCHANGED <<myIndex, rx, main, flags, presses, conf, paused,
                   runs>>

\* Fault: the index after the one in work is published.
TxSave_Next(n) ==
    /\ Running
    /\ tx[n].pc = "probe"
    /\ tx[n].batch = 0 \/ tx[n].i >= End(n)
    /\ myIndex' = [myIndex EXCEPT ![n] = tx[n].i + 1]
    /\ tx' = [tx EXCEPT ![n].pc = "test", ![n].batch = 0]
    /\ UNCHANGED <<rx, main, flags, presses, conf, paused, probed,
                   runs>>

\* parms->my_index = i
TxSave(n) ==
    /\ Running
    /\ tx[n].pc = "probe"
    /\ tx[n].batch = 0 \/ tx[n].i >= End(n)
    /\ myIndex' = [myIndex EXCEPT ![n] = tx[n].i]
    /\ tx' = [tx EXCEPT ![n].pc = "test", ![n].batch = 0]
    /\ UNCHANGED <<rx, main, flags, presses, conf, paused, probed,
                   runs>>

TxTest(n) ==
    /\ Running
    /\ tx[n].pc = "test"
    /\ tx' = [tx EXCEPT ![n].pc = IF isTxDone THEN "end" ELSE "loop"]
    /\ UNCHANGED <<myIndex, rx, main, flags, presses, conf, paused,
                   probed, runs>>

\* The loop is over: with --infinite it starts again, r staying as it is.
TxEnd(n) ==
    /\ Running
    /\ \/ tx[n].pc = "end"
       \/ tx[n].pc = "loop" /\ tx[n].i >= End(n)
    /\ tx' = [tx EXCEPT ![n] = IF opt.infinite /\ ~isTxDone
                               THEN [@ EXCEPT !.pc = "loop", !.i = Start(n)]
                               ELSE [@ EXCEPT !.pc = "linger"]]
    /\ UNCHANGED <<myIndex, rx, main, flags, presses, conf, paused,
                   probed, runs>>

\* while (!is_rx_done) ...; done_transmitting = 1
TxLeave(n) ==
    /\ Running
    /\ tx[n].pc = "linger"
    /\ isRxDone > 0
    /\ tx' = [tx EXCEPT ![n].pc = "done"]
    /\ UNCHANGED <<myIndex, rx, main, flags, presses, conf, paused,
                   probed, runs>>

TxThread(n) ==
    \/ TxBatch(n) \/ TxProbe(n) \/ TxSave(n) \/ TxTest(n) \/ TxEnd(n)
    \/ TxLeave(n)

(* receive_thread *)

\* while (!is_rx_done): a packet is to be answered and packet_buffers is empty,
\* because the transmit thread has not brought the buffers back, or because all
\* are lost (arp_response keeps one for every frame that is no ARP behind its tag).
RxWants(n) ==
    /\ Running
    /\ isRxDone = 0 /\ opt.answers
    /\ rx[n] = "run"
    /\ \E pc \in {"wait", "dry"} : rx' = [rx EXCEPT ![n] = pc]
    /\ UNCHANGED <<tx, myIndex, main, flags, presses, conf, paused,
                   probed, runs>>

\* The retry loop for a buffer does not look at is_rx_done: it ends by a buffer,
\* and only a transmit thread that has not left its loops brings one.
RxBuffer(n) ==
    /\ Running
    /\ rx[n] = "wait" /\ tx[n].pc # "done"
    /\ rx' = [rx EXCEPT ![n] = "run"]
    /\ UNCHANGED <<tx, myIndex, main, flags, presses, conf, paused,
                   probed, runs>>

\* done_receiving = 1
RxLeave(n) ==
    /\ Running
    /\ isRxDone > 0
    /\ rx[n] = "run"
    /\ rx' = [rx EXCEPT ![n] = "done"]
    /\ UNCHANGED <<tx, myIndex, main, flags, presses, conf, paused,
                   probed, runs>>

RxThread(n) == RxWants(n) \/ RxBuffer(n) \/ RxLeave(n)

----------------------------------------------------------------------------
(* main_scan *)

\* while (!is_tx_done && is_status_updates)
MainStatus ==
    /\ main.pc = "status"
    /\ main' = IF isTxDone \/ ~opt.status
               THEN [main EXCEPT !.pc = "save"]
               ELSE [main EXCEPT !.pc = "read", !.nic = 0, !.min = UINT64_MAX]
    /\ UNCHANGED <<tx, myIndex, rx, flags, presses, conf, paused,
                   probed, runs>>

\* The minimum of the my_index, one adapter after the other.
MainRead ==
    /\ main.pc = "read"
    /\ main' = [main EXCEPT
                  !.min = IF @ > myIndex[main.nic] THEN myIndex[main.nic] ELSE @,
                  !.nic = @ + 1,
                  !.pc  = IF main.nic + 1 = NicCount THEN "decide" ELSE "read"]
    /\ UNCHANGED <<tx, myIndex, rx, flags, presses, conf, paused,
                   probed, runs>>

\* Fault: the scan ends with its last index in work.
MainDecide_LastInWork ==
    /\ main.pc = "decide"
    /\ isTxDone' = (isTxDone \/ (main.min + 1 >= TargetCount /\ ~opt.infinite))
    /\ main' = [main EXCEPT !.pc = "status"]
    /\ UNCHANGED <<tx, myIndex, rx, isRxDone, presses, conf, paused,
                   probed, runs>>
\* Fault: > for >=.
MainDecide_Past ==
    /\ main.pc = "decide"
    /\ isTxDone' = (isTxDone \/ (main.min > FullRange /\ ~opt.infinite))
    /\ main' = [main EXCEPT !.pc = "status"]
    /\ UNCHANGED <<tx, myIndex, rx, isRxDone, presses, conf, paused,
                   probed, runs>>

MainDecide ==
    /\ main.pc = "decide"
    /\ isTxDone' = (isTxDone \/ (main.min >= FullRange /\ ~opt.infinite))
    /\ main' = [main EXCEPT !.pc = "status"]
    /\ UNCHANGED <<tx, myIndex, rx, isRxDone, presses, conf, paused,
                   probed, runs>>

\* masscan_save_state
MainSave ==
    /\ main.pc = "save"
    /\ paused' = IF main.min < TargetCount THEN main.min ELSE paused
    /\ main' = [main EXCEPT !.pc = "wait"]
    /\ UNCHANGED <<tx, myIndex, rx, flags, presses, conf, probed,
                   runs>>

\* if (time(0) - now >= masscan->wait) is_rx_done = 1
MainWait ==
    /\ main.pc = "wait"
    /\ isRxDone' = IF main.waited >= Wait THEN 1 ELSE isRxDone
    /\ main' = [main EXCEPT !.pc = IF opt.status THEN "poll" ELSE "join"]
    /\ UNCHANGED <<tx, myIndex, rx, isTxDone, presses, conf, paused,
                   probed, runs>>

AllTransmitted == \A n \in Nics : tx[n].pc = "done"
AllReceived == \A n \in Nics : rx[n] = "done"

\* transmit_count and receive_count
MainPoll ==
    /\ main.pc = "poll"
    /\ isTxDone' = (isTxDone \/ AllTransmitted)
    /\ isRxDone' = IF AllTransmitted THEN 1 ELSE isRxDone
    /\ main' = [main EXCEPT !.pc = IF AllTransmitted /\ AllReceived
                                   THEN "exited" ELSE "wait"]
    /\ UNCHANGED <<tx, myIndex, rx, presses, conf, paused, probed,
                   runs>>

\* With --nostatus the threads are joined.
MainJoin ==
    /\ main.pc = "join"
    /\ AllTransmitted /\ AllReceived
    /\ isTxDone' = TRUE /\ isRxDone' = 1
    /\ main' = [main EXCEPT !.pc = "exited"]
    /\ UNCHANGED <<tx, myIndex, rx, presses, conf, paused, probed,
                   runs>>

Main ==
    \/ MainStatus \/ MainRead \/ MainDecide \/ MainSave \/ MainWait
    \/ MainPoll \/ MainJoin

\* A second passes while main_scan waits.
Tick ==
    /\ main.pc \in {"wait", "poll", "join"}
    /\ main.waited < Wait
    /\ main' = [main EXCEPT !.waited = @ + 1]
    /\ UNCHANGED <<tx, myIndex, rx, flags, presses, conf, paused,
                   probed, runs>>

----------------------------------------------------------------------------
\* Fault: the second press does what the first one did.
CtrlC_Same ==
    /\ Running
    /\ presses < MaxPresses
    /\ presses' = presses + 1
    /\ isTxDone' = TRUE
    /\ UNCHANGED <<tx, myIndex, rx, main, isRxDone, conf, paused,
                   probed, runs>>

\* control_c_handler
CtrlC ==
    /\ Running
    /\ presses < MaxPresses
    /\ presses' = presses + 1
    /\ isTxDone' = (isTxDone \/ presses = 0)
    /\ isRxDone' = IF presses = 0 THEN isRxDone ELSE isRxDone + 1
    /\ main' = IF presses > 0 /\ isRxDone > 1
               THEN [main EXCEPT !.pc = "killed"] ELSE main
    /\ UNCHANGED <<tx, myIndex, rx, conf, paused, probed, runs>>

\* The process dies.
Kill ==
    /\ Running
    /\ main' = [main EXCEPT !.pc = "killed"]
    /\ UNCHANGED <<tx, myIndex, rx, flags, presses, conf, paused,
                   probed, runs>>

\* masscan --resume paused.conf
Resume ==
    /\ ~Running
    /\ paused # None
    /\ runs < MaxRuns
    /\ runs' = runs + 1
    /\ tx' = NewTx(paused, opt.retries)
    /\ myIndex' = [n \in Nics |-> paused]
    /\ rx' = [n \in Nics |-> "run"]
    /\ main' = NewMain
    /\ isTxDone' = FALSE /\ isRxDone' = 0
    /\ presses' = 0
    /\ resumeIndex' = paused
    /\ UNCHANGED <<opt, paused, probed>>

Over == ~Running /\ (runs = MaxRuns \/ paused = None) /\ UNCHANGED vars

Next ==
    \/ \E n \in Nics : TxThread(n) \/ RxThread(n)
    \/ Main \/ Tick \/ CtrlC \/ Kill \/ Resume \/ Over

Spec == Init /\ [][Next]_vars

\* Every thread is scheduled, and a transmit thread that is not done brings buffers
\* back; packets need not come, and time need not pass (--wait forever).
FairSpec ==
    /\ Spec
    /\ \A n \in Nics : WF_vars(TxThread(n)) /\ WF_vars(RxBuffer(n)) /\ WF_vars(RxLeave(n))
    /\ WF_vars(Main)
----------------------------------------------------------------------------
(* Properties *)

Indices == 0 .. (UINT64_MAX + MaxRuns * (Of + NicCount))

AllRetries == 1 .. (opt.retries + 1)

TypeOK ==
    /\ tx \in [Nics -> [pc : {"loop", "probe", "test", "end", "linger", "done"},
                        i : Indices, r : 1 .. (opt.retries + 1), batch : 0 .. MaxBatch]]
    /\ myIndex \in [Nics -> Indices]
    /\ rx \in [Nics -> {"run", "wait", "dry", "done"}]
    /\ main \in [pc : {"status", "read", "decide", "save", "wait", "poll",
                       "join", "exited", "killed"},
                 nic : 0 .. NicCount, min : Indices, waited : 0 .. Wait]
    /\ isTxDone \in BOOLEAN /\ isRxDone \in 0 .. 3
    /\ presses \in 0 .. MaxPresses
    /\ opt \in Options
    /\ resumeIndex \in Indices /\ paused \in Indices
    /\ probed \subseteq Indices \X AllRetries
    /\ runs \in 1 .. MaxRuns

\* The index in paused.conf is stale: main_scan read it up to a second before
\* it saved it, and adapter by adapter.  Still nothing below it is left out,
\* whatever the resumption skips: every index has had all its probes.
ResumeSkipsNothing ==
    paused # None =>
        \A i \in 0 .. (paused - 1) : {i} \X AllRetries \subseteq probed

\* The target of a probe: (i + r * rate) brought into the range.
Target(i, r) == (i + r * ThreadRate) % TargetCount
ProbesTo(t) == {p \in probed : Target(p[1], p[2]) = t}

\* In a scan that is not interrupted no adapter stops receiving before --wait
\* seconds have passed since the last probe of any adapter.
ResponsesAwaited ==
    \A n \in Nics : rx[n] = "done" /\ presses = 0 /\ opt.status =>
        main.waited >= Wait /\ \A m \in Nics : tx[m].i >= End(m)

\* "Note: This is how we can tell the scan has ended" (main.c:1357).  A scan
\* that ends by itself has sent every target its probe and all the retries,
\* even when it was interrupted and resumed in between, and has waited for answers.
EveryTargetProbed ==
    /\ main.pc = "exited" /\ presses = 0 /\ opt.count = 0 =>
         \A t \in 0 .. (TargetCount - 1) : Cardinality(ProbesTo(t)) >= opt.retries + 1
    /\ ResponsesAwaited

\* A receive thread that no buffer will come for any more: the transmit thread has
\* left (main.c:507), or every buffer is lost.
Stuck == \E n \in Nics : rx[n] = "dry" \/ (rx[n] = "wait" /\ tx[n].pc = "done")

\* A scan ends by itself once the seconds of --wait have passed, and so does a
\* resumed one.  Four kinds of scan are excepted, because they do not: with
\* --nostatus the threads are joined before anything stops them; with
\* --resume-count they stop short of the range main_scan waits for; an adapter
\* whose first index lies past its last one never publishes an index; and with
\* --retries and a --rate that is not whole, main_scan (main.c:1133) can wait for
\* an index past those of the threads, which round the rate down (main.c:265, 324).
\* A scan that is to end may be held up by one thing: a receive thread that is Stuck.
MustEnd ==
    /\ opt.status /\ ~opt.infinite /\ opt.count = 0
    /\ \A n \in Nics : Start(n) < End(n)
    /\ FullRange = ThreadRange
ScanEnds == WF_vars(Tick) => (Running /\ MustEnd ~> ~Running \/ Stuck)

\* "the user can press <ctrl-c> a second time to exit that waiting"
\* (main.c:1044), in whatever state the threads are when it comes.  One state is
\* excepted, a receive thread that is Stuck: main_scan waits for it, whatever
\* is_rx_done says.
SecondPressEnds == presses >= 2 ~> ~Running \/ Stuck
=============================================================================
