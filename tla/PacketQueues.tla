---------------------------- MODULE PacketQueues ----------------------------
(***************************************************************************)
(* The pool of packet buffers a transmit and a receive thread share        *)
(* (masscan main.c and proto-tcp.c).  Free buffers wait in packet_buffers; *)
(* the receive thread takes one, formats a packet in it and puts it on     *)
(* transmit_queue; the transmit thread sends it and returns the buffer.    *)
(* Both queues are rings of rte-ring.h, used here through what those       *)
(* implement, the bounded queue.                                           *)
(***************************************************************************)
EXTENDS Naturals, Sequences, FiniteSets, SequencesExt

CONSTANTS Buffers,       \* the packet buffers main_scan allocates
          Capacity,      \* what a ring holds: BUFFER_COUNT - 1
          MaxResponses,  \* bound: packets sent in answer to one packet
          MaxPackets,    \* bound: packets received in a behaviour
          MaxBatch,      \* bound: what the throttler grants at once
          ArpLinks,      \* how the frames of ARP requests for us are linked
          FlushRounds    \* iterations between two looks at is_rx_done: 1000

ASSUME PacketQueuesAssumption ==
    /\ IsFiniteSet(Buffers)
    /\ Capacity \in Nat \ {0}
    /\ Cardinality(Buffers) = Capacity   \* main.c:1264-1274
    /\ ArpLinks \subseteq {"ethernet", "vlan", "wifi", "sll"}
    /\ {MaxResponses, MaxPackets, MaxBatch} \subseteq Nat
    /\ FlushRounds \in Nat \ {0}

VARIABLES
    freeQ, freeHeld, freeClaimed,   \* packet_buffers
    sendQ, sendHeld, sendClaimed,   \* transmit_queue
    rx,         \* receive thread: pc, responses still to send, its buffer,
                \* the link of the ARP request it answers, or "none"
    tx,         \* transmit thread: pc, whether it still sends probes,
                \* batch_size, round k, its buffer
    packets,    \* packets received so far
    freed,      \* buffers given back to malloc
    isRxDone

freeVars == <<freeQ, freeHeld, freeClaimed>>
sendVars == <<sendQ, sendHeld, sendClaimed>>
vars == <<freeVars, sendVars, rx, tx, packets, freed, isRxDone>>

RxThread == "rx"
TxThread == "tx"

Free == INSTANCE BoundedFifo WITH
            Objects <- Buffers, Takers <- {RxThread},
            queue <- freeQ, held <- freeHeld, claimed <- freeClaimed
Send == INSTANCE BoundedFifo WITH
            Objects <- Buffers, Takers <- {TxThread},
            queue <- sendQ, held <- sendHeld, claimed <- sendClaimed

\* main_scan creates both rings and fills packet_buffers.
Init ==
    /\ freeQ = SetToSeq(Buffers)
    /\ freeHeld = [t \in {RxThread} |-> << >>] /\ freeClaimed = 0
    /\ Send!FifoInit
    /\ rx = [pc |-> "receive", todo |-> 0, buf |-> << >>, arp |-> "none"]
    /\ tx = [pc |-> "throttle", scanning |-> TRUE, batch |-> 0, k |-> 0, buf |-> << >>]
    /\ packets = 0
    /\ freed = {}
    /\ isRxDone = FALSE

----------------------------------------------------------------------------
(* receive_thread, tcpcon_send_packet, tcp_send_RST *)

\* A packet arrives and is answered with some responses.
RxPacket ==
    /\ rx.pc = "receive"
    /\ ~isRxDone
    /\ packets < MaxPackets
    /\ packets' = packets + 1
    /\ \E n \in 0 .. MaxResponses :
          rx' = [rx EXCEPT !.pc = IF n = 0 THEN "receive" ELSE "get",
                           !.todo = n]
    /\ UNCHANGED <<freeVars, sendVars, tx, freed, isRxDone>>

\* An ARP request for one of our addresses: one reply.
RxArp(link) ==
    /\ rx.pc = "receive"
    /\ ~isRxDone
    /\ packets < MaxPackets
    /\ packets' = packets + 1
    /\ rx' = [rx EXCEPT !.pc = "get", !.todo = 1, !.arp = link]
    /\ UNCHANGED <<freeVars, sendVars, tx, freed, isRxDone>>

\* "packet buffers empty": sleep and try again, for ever.
RxSleep ==
    /\ rx.pc = "get"
    /\ freeQ = << >>
    /\ UNCHANGED vars

\* Dequeue a free buffer.
RxGet ==
    /\ rx.pc = "get"
    /\ Free!Take(RxThread, 1)
    /\ rx' = [rx EXCEPT !.pc = "format"]
    /\ UNCHANGED <<sendVars, tx, packets, freed, isRxDone>>

\* The dequeue returns and the packet is written into the buffer.
RxFormat ==
    /\ rx.pc = "format" /\ rx.arp = "none"
    /\ rx' = [rx EXCEPT !.pc = "put", !.buf = freeHeld[RxThread]]
    /\ Free!Release(RxThread)
    /\ UNCHANGED <<sendVars, tx, packets, freed, isRxDone>>

\* proto_arp_parse looks for the request right behind an Ethernet header; it
\* rejects what preprocess_frame has found behind any other link header.
proto_arp_parse(link) == link = "ethernet"

\* arp_response: with the buffer in hand the request is parsed, and the early
\* returns leave without it.
ArpFormat ==
    /\ rx.pc = "format" /\ rx.arp # "none"
    /\ rx' = IF proto_arp_parse(rx.arp)
             THEN [rx EXCEPT !.pc = "put", !.buf = freeHeld[RxThread]]
             ELSE [rx EXCEPT !.pc = "receive", !.todo = 0, !.arp = "none"]
    /\ Free!Release(RxThread)
    /\ UNCHANGED <<sendVars, tx, packets, freed, isRxDone>>

\* Fault: an enqueue that succeeded is repeated, as after EDQUOT.
RxPut_Again ==
    /\ rx.pc = "put"
    /\ Send!Put(rx.buf)
    /\ UNCHANGED <<freeVars, rx, tx, packets, freed, isRxDone>>

\* Enqueue it for transmission; a full ring is retried for ever.
RxPut ==
    /\ rx.pc = "put"
    /\ Send!Put(rx.buf)
    /\ rx' = [pc |-> IF rx.todo = 1 THEN "receive" ELSE "get",
              todo |-> rx.todo - 1, buf |-> << >>, arp |-> "none"]
    /\ UNCHANGED <<freeVars, tx, packets, freed, isRxDone>>

\* The loop ends when is_rx_done is seen between two packets.
RxLeave ==
    /\ rx.pc = "receive"
    /\ isRxDone
    /\ rx' = [rx EXCEPT !.pc = "drain"]
    /\ UNCHANGED <<freeVars, sendVars, tx, packets, freed, isRxDone>>

\* end: the free buffers are dequeued and given back to malloc.
RxDrain ==
    /\ rx.pc = "drain"
    /\ freeQ # << >>
    /\ Free!Take(RxThread, 1)
    /\ rx' = [rx EXCEPT !.pc = "free"]
    /\ UNCHANGED <<sendVars, tx, packets, freed, isRxDone>>

RxFree ==
    /\ rx.pc = "free"
    /\ freed' = freed \cup {freeHeld[RxThread][1]}
    /\ Free!Release(RxThread)
    /\ rx' = [rx EXCEPT !.pc = "drain"]
    /\ UNCHANGED <<sendVars, tx, packets, isRxDone>>

RxExit ==
    /\ rx.pc = "drain"
    /\ freeQ = << >>
    /\ rx' = [rx EXCEPT !.pc = "done"]
    /\ UNCHANGED <<freeVars, sendVars, tx, packets, freed, isRxDone>>

----------------------------------------------------------------------------
(* transmit_thread and flush_packets *)

\* throttler_next_batch grants n packets.
TxThrottle(n) ==
    /\ tx.pc = "throttle"
    /\ tx' = [tx EXCEPT !.pc = "flush", !.batch = n]
    /\ UNCHANGED <<freeVars, sendVars, rx, packets, freed, isRxDone>>

TxTake ==
    /\ tx.pc = "flush"
    /\ tx.batch > 0
    /\ Send!Take(TxThread, 1)
    /\ tx' = [tx EXCEPT !.pc = "send"]
    /\ UNCHANGED <<freeVars, rx, packets, freed, isRxDone>>

\* The dequeue returns and the packet goes out.
TxSend ==
    /\ tx.pc = "send"
    /\ tx' = [tx EXCEPT !.pc = "return", !.buf = sendHeld[TxThread]]
    /\ Send!Release(TxThread)
    /\ UNCHANGED <<freeVars, rx, packets, freed, isRxDone>>

\* Fault: the buffer is not given back.
TxReturn_Lost ==
    /\ tx.pc = "return"
    /\ tx' = [tx EXCEPT !.pc = "flush", !.batch = @ - 1, !.buf = << >>]
    /\ UNCHANGED <<freeVars, sendVars, rx, packets, freed, isRxDone>>

\* The buffer goes back to packet_buffers; a full ring is retried for ever.
TxReturn ==
    /\ tx.pc = "return"
    /\ Free!Put(tx.buf)
    /\ tx' = [tx EXCEPT !.pc = "flush", !.batch = @ - 1, !.buf = << >>]
    /\ UNCHANGED <<sendVars, rx, packets, freed, isRxDone>>

\* Batch used up or nothing queued: the probes of this round follow, if the
\* thread still scans, and then the next round.  Once it no longer scans it
\* looks at is_rx_done before every FlushRounds rounds.
TxRound ==
    /\ tx.pc = "flush"
    /\ tx.batch = 0 \/ sendQ = << >>
    /\ \/ /\ tx.scanning
          /\ \E more \in BOOLEAN :
                tx' = [tx EXCEPT !.pc = IF more THEN "throttle" ELSE "test",
                                 !.scanning = more, !.batch = 0]
       \/ /\ ~tx.scanning
          /\ tx' = [tx EXCEPT !.pc = IF tx.k + 1 = FlushRounds
                                     THEN "test" ELSE "throttle",
                              !.k = @ + 1, !.batch = 0]
    /\ UNCHANGED <<freeVars, sendVars, rx, packets, freed, isRxDone>>

\* Fault: nothing is flushed any more once the probes are out.
TxTest_NoFlush ==
    /\ tx.pc = "test"
    /\ isRxDone
    /\ tx' = [tx EXCEPT !.pc = "done", !.k = 0]
    /\ UNCHANGED <<freeVars, sendVars, rx, packets, freed, isRxDone>>

\* while (!is_rx_done)
TxTest ==
    /\ tx.pc = "test"
    /\ tx' = [tx EXCEPT !.pc = IF isRxDone THEN "done" ELSE "throttle", !.k = 0]
    /\ UNCHANGED <<freeVars, sendVars, rx, packets, freed, isRxDone>>

----------------------------------------------------------------------------
\* main_scan or a second ctrl-C ends the scan.
EndScan ==
    /\ ~isRxDone
    /\ isRxDone' = TRUE
    /\ UNCHANGED <<freeVars, sendVars, rx, tx, packets, freed>>

\* Both threads are gone.
Finished ==
    /\ rx.pc = "done" /\ tx.pc = "done"
    /\ UNCHANGED vars

RxStep == RxGet \/ RxFormat \/ ArpFormat \/ RxPut \/ RxLeave \/ RxDrain \/ RxFree \/ RxExit
TxStep ==
    \/ \E n \in 0 .. MaxBatch : TxThrottle(n)
    \/ TxTake \/ TxSend \/ TxReturn \/ TxRound \/ TxTest

Next == RxPacket \/ (\E link \in ArpLinks : RxArp(link)) \/ RxSleep \/ RxStep \/ TxStep \/ EndScan \/ Finished

Spec == Init /\ [][Next]_vars

\* Both threads are scheduled.  A throttler that grants nothing multiplies
\* its batch size by 1.005 and grants something in the end.
FairSpec ==
    /\ Spec
    /\ WF_vars(RxStep) /\ WF_vars(TxStep)
    /\ SF_vars(\E n \in 1 .. MaxBatch : TxThrottle(n))

----------------------------------------------------------------------------
(* Properties *)

TypeOK ==
    /\ freeQ \in Seq(Buffers) /\ sendQ \in Seq(Buffers)
    /\ freeHeld \in [{RxThread} -> Seq(Buffers)]
    /\ sendHeld \in [{TxThread} -> Seq(Buffers)]
    /\ freeClaimed \in 0 .. Capacity /\ sendClaimed \in 0 .. Capacity
    /\ rx \in [pc : {"receive", "get", "format", "put", "drain", "free", "done"},
               todo : (0 .. MaxResponses) \cup {1}, buf : Seq(Buffers), arp : ArpLinks \cup {"none"}]
    /\ tx \in [pc : {"throttle", "flush", "send", "return", "test", "done"},
               scanning : BOOLEAN, batch : 0 .. MaxBatch, k : 0 .. FlushRounds,
               buf : Seq(Buffers)]
    /\ packets \in 0 .. MaxPackets
    /\ freed \subseteq Buffers
    /\ isRxDone \in BOOLEAN

\* Every buffer is in exactly one place: none is lost, none is in two hands,
\* and none that malloc has back is in anybody's.
Everywhere ==
    freeQ \o freeHeld[RxThread] \o rx.buf
      \o sendQ \o sendHeld[TxThread] \o tx.buf \o SetToSeq(freed)
BuffersConserved ==
    /\ Len(Everywhere) = Cardinality(Buffers)
    /\ ToSet(Everywhere) = Buffers

\* "transmit queue full (should be impossible)" (proto-tcp.c:811, 872 and
\* main.c:212): whoever enqueues finds room, in both rings.
NoRingEverFull ==
    /\ rx.pc = "put" => Len(sendQ) + sendClaimed < Capacity
    /\ tx.pc = "return" => Len(freeQ) + freeClaimed < Capacity

\* A packet on the transmit queue is sent while the scan lasts, and a receive
\* thread that waits for a free buffer gets one: the two retry loops never
\* wait for one another.
QueuedPacketsSent ==
    \A b \in Buffers : b \in ToSet(sendQ) ~> (b \notin ToSet(sendQ) \/ isRxDone)
WaitForBufferEnds == rx.pc = "get" ~> (rx.pc # "get" \/ isRxDone)
=============================================================================
