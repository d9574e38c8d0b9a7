------------------------------ MODULE TcpConn ------------------------------
(***************************************************************************)
(* One connection of masscan's own TCP stack (proto-tcp.c), as the receive *)
(* thread drives it (main.c): each packet, and each timer that is due,     *)
(* turns into one or several calls of tcpcon_handle, made one after the    *)
(* other.  The network loses, repeats and reorders: at any time any        *)
(* segment arrives that the peer could have sent at some time.             *)
(***************************************************************************)
EXTENDS Integers, Sequences

CONSTANTS SeqMod,          \* sequence numbers are kept modulo this: 2^32
          AckWindow,       \* handle_ack's 10000
          IssMe, IssThem,  \* first sequence numbers after the SYNs
          PeerBytes,       \* bytes the peer has to send before its FIN
          HelloLen,        \* our hello, 0 if the port has no protocol
          ReplyLen,        \* what the parser may ask to send
          HelloTimeout,    \* timeout_hello, in seconds
          Timeout,         \* timeout_connection
          T1, T2, T5, T10, \* the code's secs+1, +2, +5, +10
          MaxPackets,      \* bound: packets that arrive, payloads leaked
          Off

ASSUME TcpConnAssumption ==
    /\ SeqMod \in Nat /\ AckWindow \in Nat /\ 2 * AckWindow < SeqMod
    /\ {IssMe, IssThem} \subseteq 0 .. (SeqMod - 1)
    /\ {PeerBytes, HelloLen, ReplyLen, MaxPackets} \subseteq Nat
    /\ {HelloTimeout, Timeout, T1, T2, T5, T10} \subseteq Nat
    /\ Off \notin Nat

VARIABLES
    tcb,         \* the TCP_Control_Block
    pending,     \* calls of tcpcon_handle still to make for this packet
    packets,     \* packets so far
    delivered,   \* positions of the bytes the parser got, in this connection
    used,        \* how much of our sequence space we have sent
    heap         \* dynamically allocated payloads not freed

vars == <<tcb, pending, packets, delivered, used, heap>>

Plus(x, n)  == (x + n) % SeqMod
Minus(x, y) == (x - y) % SeqMod

Null == [what |-> "null", len |-> 0]

NoTcb == [live |-> FALSE, state |-> "SYN_SENT", app |-> "Connect",
          seqMe |-> 0, seqThem |-> 0, ackThem |-> 0, pay |-> Null,
          dynamic |-> FALSE, age |-> 0, timer |-> Off]

Init ==
    /\ tcb = NoTcb
    /\ pending = << >>
    /\ packets = 0
    /\ delivered = << >>
    /\ used = 0
    /\ heap = 0

\* tcpcon_create_tcb
NewTcb == [NoTcb EXCEPT !.live = TRUE, !.seqMe = IssMe, !.seqThem = IssThem,
                        !.ackThem = IssMe]

\* tcpcon_send_packet remembers the payload it sends, or that it sent none.
Sending(t, payload) == [t EXCEPT !.pay = payload]
SendingNone(t) == Sending(t, Null)

\* tcpcon_destroy_tcb frees a dynamic payload it still knows.
Destroy ==
    /\ tcb' = NoTcb
    /\ heap' = IF tcb.dynamic /\ tcb.pay.len > 0 THEN heap - 1 ELSE heap

Call(what) == pending # << >> /\ Head(pending).what = what
Arg == Head(pending)
Return == pending' = Tail(pending) /\ UNCHANGED packets

Established == tcb.state \in {"ESTABLISHED_SEND", "ESTABLISHED_RECV"}

----------------------------------------------------------------------------
(* The receive thread *)

\* tcpcon_timeouts runs before every packet, so nothing is due then.
Idle == pending = << >> /\ ~(tcb.live /\ tcb.timer = 0)
Arrives ==
    /\ Idle
    /\ packets < MaxPackets
    /\ packets' = packets + 1

\* A SYN-ACK with the right cookie; without a TCB it makes one.
SynAckArrives ==
    /\ Arrives
    /\ pending' = << [what |-> "SYNACK"] >>
    /\ IF tcb.live
       THEN UNCHANGED <<tcb, delivered, used>>
       ELSE tcb' = NewTcb /\ delivered' = << >> /\ used' = 0
    /\ UNCHANGED heap

\* Fault: a RST is handled before the rest of its segment.
SegmentArrives_RstFirst(pos, len, last, ack) ==
    /\ Arrives
    /\ tcb.live
    /\ pos + len <= PeerBytes /\ ack <= used
    /\ last # "FIN"
    /\ pending' = (IF last = "RST" THEN << [what |-> "RST"] >> ELSE << >>)
          \o << [what |-> "ACK", ackno |-> Plus(IssMe, ack)] >>
    /\ UNCHANGED <<tcb, delivered, used, heap>>

\* A segment: bytes pos+1 .. pos+len of the peer's stream, an acknowledgment
\* of some of what we have ever sent, and the peer's FIN if it is at the end,
\* or a RST.  The dispatcher calls the handler for each, in this order.
SegmentArrives(pos, len, last, ack) ==
    /\ Arrives
    /\ tcb.live
    /\ pos + len <= PeerBytes
    /\ last = "FIN" => pos + len = PeerBytes
    /\ ack <= used
    /\ pending' = << [what |-> "ACK", ackno |-> Plus(IssMe, ack)] >>
          \o (IF len > 0 THEN << [what |-> "DATA", pos |-> pos, len |-> len] >>
              ELSE << >>)
          \o (IF last # "none" THEN << [what |-> last, pos |-> pos] >> ELSE << >>)
    /\ UNCHANGED <<tcb, delivered, used, heap>>

\* tcpcon_timeouts: the handler, then the catch-all that links the TCB again.
TimerFires ==
    /\ pending = << >>
    /\ tcb.live /\ tcb.timer = 0
    /\ tcb' = [tcb EXCEPT !.timer = Off]
    /\ pending' = << [what |-> "TIMEOUT"], [what |-> "RELINK"] >>
    /\ UNCHANGED <<packets, delivered, used, heap>>

\* Fault: no catch-all.
Relink_None ==
    /\ Call("RELINK")
    /\ Return
    /\ UNCHANGED <<tcb, delivered, used, heap>>

Relink ==
    /\ Call("RELINK")
    /\ tcb' = IF tcb.live /\ tcb.timer = Off
              THEN [tcb EXCEPT !.timer = T2] ELSE tcb
    /\ Return
    /\ UNCHANGED <<delivered, used, heap>>

\* A second passes.
Tick ==
    /\ pending = << >>
    /\ tcb.live
    /\ tcb' = [tcb EXCEPT !.age = IF @ > Timeout THEN @ ELSE @ + 1,
                          !.timer = IF @ \in {0, Off} THEN @ ELSE @ - 1]
    /\ UNCHANGED <<pending, packets, delivered, used, heap>>

----------------------------------------------------------------------------
(* tcpcon_handle *)

\* The event has no effect in this state.
Ignored ==
    /\ \/ Call("SYNACK") /\ ~Established /\ tcb.state # "SYN_SENT"
       \/ Call("ACK") /\ ~Established /\ tcb.state # "FIN_WAIT1"
       \/ Call("DATA") /\ ~Established
       \/ Call("FIN") /\ tcb.state \notin {"ESTABLISHED_RECV", "FIN_WAIT2",
                                           "TIME_WAIT"}
       \/ Call("TIMEOUT") /\ tcb.age <= Timeout
             /\ tcb.state \in {"SYN_SENT", "FIN_WAIT2", "LAST_ACK"}
    /\ Return
    /\ UNCHANGED <<tcb, delivered, used, heap>>

\* SYN-ACK: acknowledge, and tell the application it is connected.
SynAck ==
    /\ Call("SYNACK")
    /\ tcb.state = "SYN_SENT" \/ Established
    /\ tcb' = IF Established THEN SendingNone(tcb)
              ELSE [SendingNone(tcb) EXCEPT !.timer = HelloTimeout,
                                            !.state = "ESTABLISHED_RECV",
                                            !.app = "ReceiveHello"]
    /\ Return
    /\ UNCHANGED <<delivered, used, heap>>

\* Fault: acknowledgments from the past are not told apart.
GoodAck_Old(ackno) ==
    ackno # tcb.ackThem /\ Minus(tcb.seqMe, ackno) <= AckWindow

\* handle_ack
GoodAck(ackno) ==
    /\ ackno # tcb.ackThem
    /\ Minus(ackno, tcb.ackThem) <= AckWindow
    /\ Minus(tcb.seqMe, ackno) <= AckWindow
AckThem(ackno) == IF GoodAck(ackno) THEN ackno ELSE tcb.ackThem

AckInRecv ==
    /\ Call("ACK")
    /\ tcb.state = "ESTABLISHED_RECV"
    /\ tcb' = [tcb EXCEPT !.ackThem = AckThem(Arg.ackno)]
    /\ Return
    /\ UNCHANGED <<delivered, used, heap>>

\* Fault: any acknowledgment is one of everything.
AckOfAll_Some ==
    /\ Call("ACK")
    /\ tcb.state = "ESTABLISHED_SEND"
    /\ GoodAck(Arg.ackno)
    /\ tcb' = [tcb EXCEPT !.ackThem = Arg.ackno, !.pay = Null, !.dynamic = FALSE,
                          !.state = "ESTABLISHED_RECV", !.timer = T10]
    /\ Return
    /\ UNCHANGED <<delivered, used, heap>>

\* All of the payload is acknowledged: forget it.
AckOfAll ==
    /\ Call("ACK")
    /\ tcb.state = "ESTABLISHED_SEND"
    /\ AckThem(Arg.ackno) = tcb.seqMe
    /\ heap' = IF tcb.dynamic /\ tcb.pay # Null THEN heap - 1 ELSE heap
    /\ tcb' = [tcb EXCEPT !.ackThem = tcb.seqMe, !.pay = Null,
                          !.dynamic = FALSE, !.state = "ESTABLISHED_RECV",
                          !.app = IF @ = "SendNext" THEN "ReceiveNext" ELSE @,
                          !.timer = T10]
    /\ Return
    /\ UNCHANGED <<delivered, used>>

AckOfPart ==
    /\ Call("ACK")
    /\ tcb.state = "ESTABLISHED_SEND"
    /\ AckThem(Arg.ackno) # tcb.seqMe
    /\ tcb' = [tcb EXCEPT !.ackThem = AckThem(Arg.ackno), !.timer = T1]
    /\ Return
    /\ UNCHANGED <<delivered, used, heap>>

AckInFinWait1 ==
    /\ Call("ACK")
    /\ tcb.state = "FIN_WAIT1"
    /\ tcb' = IF GoodAck(Arg.ackno)
              THEN [tcb EXCEPT !.ackThem = Arg.ackno, !.state = "FIN_WAIT2",
                               !.timer = T5]
              ELSE tcb
    /\ Return
    /\ UNCHANGED <<delivered, used, heap>>

\* Fault: nothing is cut off.
Behind_Whole == 0

\* Data: what lies before seqno_them is cut off.
Behind == Minus(tcb.seqThem, Plus(IssThem, Arg.pos))

\* Nothing new, or a gap: acknowledge what we have.
DataUseless ==
    /\ Call("DATA")
    /\ Established
    /\ Behind >= Arg.len
    /\ tcb' = SendingNone(tcb)
    /\ Return
    /\ UNCHANGED <<delivered, used, heap>>

\* The application is waiting for its own data to be sent and looks at nothing.
DataWhileSending ==
    /\ Call("DATA")
    /\ Established
    /\ Behind < Arg.len
    /\ tcb.app = "SendNext"
    /\ tcb' = SendingNone(tcb)
    /\ Return
    /\ UNCHANGED <<delivered, used, heap>>

\* The parser takes the new bytes and may ask to send a reply, or to close.
\* Whatever it asked for, a plain acknowledgment follows.
DataDelivered(reply, dynamic, closing) ==
    /\ Call("DATA")
    /\ Established
    /\ Behind < Arg.len
    /\ tcb.app # "SendNext"
    /\ dynamic => reply /\ heap < MaxPackets
    /\ LET n == Arg.len - Behind
           t == [tcb EXCEPT !.seqThem = Plus(@, n), !.app = "ReceiveNext"]
           s == IF reply
                THEN [Sending(t, [what |-> "reply", len |-> ReplyLen])
                        EXCEPT !.seqMe = Plus(@, ReplyLen),
                               !.dynamic = dynamic,
                               !.state = "ESTABLISHED_SEND",
                               !.app = "SendNext"]
                ELSE SendingNone(t)
       IN  /\ delivered' = delivered \o [k \in 1 .. n |-> Arg.pos + Behind + k]
           /\ tcb' = IF closing
                     THEN [SendingNone(s) EXCEPT !.seqMe = Plus(@, 1),
                                                 !.state = "FIN_WAIT1",
                                                 !.timer = T1]
                     ELSE SendingNone(s)
    /\ used' = used + (IF reply THEN ReplyLen ELSE 0) + (IF closing THEN 1 ELSE 0)
    /\ heap' = IF dynamic THEN heap + 1 ELSE heap
    /\ Return

FinInRecv ==
    /\ Call("FIN")
    /\ tcb.state = "ESTABLISHED_RECV"
    /\ tcb' = [SendingNone(tcb) EXCEPT !.seqThem = Plus(IssThem, Arg.pos + 1),
                                       !.seqMe = Plus(@, 1),
                                       !.state = "LAST_ACK"]
    /\ used' = used + 1
    /\ Return
    /\ UNCHANGED <<delivered, heap>>

FinInFinWait2 ==
    /\ Call("FIN")
    /\ tcb.state \in {"FIN_WAIT2", "TIME_WAIT"}
    /\ tcb' = [SendingNone(tcb) EXCEPT !.seqThem = Plus(IssThem, Arg.pos + 1),
                                       !.state = "TIME_WAIT", !.timer = T5]
    /\ Return
    /\ UNCHANGED <<delivered, used, heap>>

Rst ==
    /\ Call("RST")
    /\ Destroy
    /\ Return
    /\ UNCHANGED <<delivered, used>>

\* A timer runs out in a connection that is too old, or in TIME_WAIT.  The RST
\* sent to the former leaves no payload to free.
TimeoutDestroys ==
    /\ Call("TIMEOUT")
    /\ tcb.age > Timeout \/ tcb.state = "TIME_WAIT"
    /\ tcb' = NoTcb
    /\ heap' = IF tcb.age <= Timeout /\ tcb.dynamic /\ tcb.pay.len > 0
               THEN heap - 1 ELSE heap
    /\ Return
    /\ UNCHANGED <<delivered, used>>

\* No data came: send our hello, if there is one and none was received.
TimeoutInRecv ==
    /\ Call("TIMEOUT")
    /\ tcb.age <= Timeout
    /\ tcb.state = "ESTABLISHED_RECV"
    /\ IF tcb.app # "ReceiveHello" THEN UNCHANGED <<tcb, used>>
       ELSE IF HelloLen = 0
       THEN tcb' = [tcb EXCEPT !.timer = T1] /\ UNCHANGED used
       ELSE /\ tcb' = [Sending(tcb, [what |-> "hello", len |-> HelloLen])
                         EXCEPT !.seqMe = Plus(@, HelloLen), !.dynamic = FALSE,
                                !.state = "ESTABLISHED_SEND", !.timer = T1]
            /\ used' = used + HelloLen
    /\ Return
    /\ UNCHANGED <<delivered, heap>>

\* Resend the last len bytes of the payload, if we still have it; what was
\* sent last becomes the payload.
Unacked == Minus(tcb.seqMe, tcb.ackThem)
TimeoutInSend ==
    /\ Call("TIMEOUT")
    /\ tcb.age <= Timeout
    /\ tcb.state = "ESTABLISHED_SEND"
    /\ tcb' = [tcb EXCEPT !.pay = IF @ = Null THEN Null ELSE [@ EXCEPT !.len = Unacked],
                          !.timer = T2]
    /\ Return
    /\ UNCHANGED <<delivered, used, heap>>

TimeoutInFinWait1 ==
    /\ Call("TIMEOUT")
    /\ tcb.age <= Timeout
    /\ tcb.state = "FIN_WAIT1"
    /\ tcb' = [SendingNone(tcb) EXCEPT !.timer = T1]
    /\ Return
    /\ UNCHANGED <<delivered, used, heap>>

TcpconHandle ==
    \/ Ignored \/ SynAck
    \/ AckInRecv \/ AckOfAll \/ AckOfPart \/ AckInFinWait1
    \/ DataUseless \/ DataWhileSending
    \/ \E reply, dynamic, closing \in BOOLEAN :
          DataDelivered(reply, dynamic, closing)
    \/ FinInRecv \/ FinInFinWait2 \/ Rst
    \/ TimeoutDestroys \/ TimeoutInRecv \/ TimeoutInSend \/ TimeoutInFinWait1

\* The thread runs on with nothing to do.
Quiet == ~tcb.live /\ packets = MaxPackets /\ pending = << >> /\ UNCHANGED vars

Next ==
    \/ SynAckArrives
    \/ \E pos, len \in 0 .. PeerBytes, last \in {"none", "FIN", "RST"},
          ack \in 0 .. used : SegmentArrives(pos, len, last, ack)
    \/ TimerFires \/ Relink \/ Tick \/ TcpconHandle \/ Quiet

Spec == Init /\ [][Next]_vars

\* Time passes, however many packets come, and the receive thread runs; packets
\* need not come.
FairSpec ==
    /\ Spec
    /\ SF_vars(Tick) /\ WF_vars(TimerFires)
    /\ WF_vars(Relink) /\ WF_vars(TcpconHandle)

----------------------------------------------------------------------------
(* Properties *)

States == {"SYN_SENT", "ESTABLISHED_SEND", "ESTABLISHED_RECV", "LAST_ACK",
           "FIN_WAIT1", "FIN_WAIT2", "TIME_WAIT"}
Seqs == 0 .. (SeqMod - 1)

Tcbs == [live : BOOLEAN, state : States,
         app : {"Connect", "ReceiveHello", "ReceiveNext", "SendNext"},
         seqMe : Seqs, seqThem : Seqs, ackThem : Seqs,
         pay : [what : {"null", "hello", "reply"}, len : Nat],
         dynamic : BOOLEAN, age : 0 .. (Timeout + 1), timer : Nat \cup {Off}]

TypeOK ==
    /\ tcb \in Tcbs
    /\ packets \in 0 .. MaxPackets
    /\ delivered \in Seq(1 .. PeerBytes)
    /\ used \in Nat /\ heap \in Nat

\* However segments are lost, repeated, reordered and overlap, the parser sees
\* the peer's bytes once each and in order, and what we acknowledge while the
\* connection is open is exactly what the parser has got.
DeliveredInOrder ==
    /\ \A k \in DOMAIN delivered : delivered[k] = k
    /\ tcb.live /\ Established => tcb.seqThem = Plus(IssThem, Len(delivered))

\* ackno_them never moves back and never passes what we have sent: an old or
\* repeated acknowledgment is not taken for a new one, across the wrap of 2^32
\* (handle_ack's two windows).
AckNeverBack ==
    [][tcb.live /\ tcb'.live
        => /\ Minus(tcb.ackThem, IssMe) <= Minus(tcb'.ackThem, IssMe)
           /\ Minus(tcb'.ackThem, IssMe) <= used']_vars

\* A retransmission never reads before the start of the payload it repeats:
\* payload + payload_length - len is inside it, in every order of partial
\* acknowledgments, repeated hellos and earlier retransmissions.
RetransmitInBounds ==
    tcb.live /\ tcb.state = "ESTABLISHED_SEND" /\ tcb.pay # Null
        => Unacked <= tcb.pay.len

\* "there must ALWAYS be a 'timeout' associated with a TCB, otherwise, we'll
\* lose track of it and leak memory" (proto-tcp.c:157).
AlwaysATimer == tcb.live /\ pending = << >> => tcb.timer # Off

\* However the calls for one packet follow each other, none is made with a TCB
\* that an earlier one has put on the free list (the "double free" that "should
\* be impossible", proto-tcp.c:566), and one that is not on it has its timer.
NoCallOnDeadTcb ==
    /\ pending # << >> /\ Head(pending).what # "RELINK" => tcb.live
    /\ AlwaysATimer

\* "Make sure no connection lasts more than ~30 seconds" (proto-tcp.c:1272):
\* every TCB is destroyed in the end, if packets are (MaxPackets): each FIN
\* repeated in TIME_WAIT arms its timer again (proto-tcp.c:1531).
TcbDestroyed == tcb.live ~> ~tcb.live

\* "If we have payload, then: 1. remember the payload so we can resend it"
\* (proto-tcp.c:798): as long as data is unacknowledged, it can be resent.
UnackedIsRemembered ==
    tcb.live /\ tcb.state = "ESTABLISHED_SEND" /\ Unacked > 0 => tcb.pay # Null
=============================================================================
