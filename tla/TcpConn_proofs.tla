---------------------------- MODULE TcpConn_proofs ----------------------------
(***************************************************************************)
(* Proofs about a connection of masscan's TCP stack, for every width of    *)
(* sequence number, every first sequence number and length, and every      *)
(* order of segments, timers and calls.                                    *)
(***************************************************************************)
EXTENDS TcpConn, SequenceTheorems, TLAPS

\* What is left of the calls for one packet or timer.  An acknowledgment is
\* one of something that has been sent; what destroys the TCB comes last, but
\* for the catch-all of tcpcon_timeouts.
AckCall(c) == \E a \in 0 .. used : c = [what |-> "ACK", ackno |-> Plus(IssMe, a)]
DataCall(c) == \E p, n \in Nat : /\ c = [what |-> "DATA", pos |-> p, len |-> n]
                                 /\ n > 0 /\ p + n <= PeerBytes
LastCall(c) == \E w \in {"FIN", "RST"}, p \in Nat : c = [what |-> w, pos |-> p]

TimerRuns == tcb.timer # Off
Calls ==
    \/ pending = << >> /\ (tcb.live => TimerRuns)
    \/ pending = << [what |-> "RELINK"] >>
    \/ /\ pending = << [what |-> "TIMEOUT"], [what |-> "RELINK"] >>
       /\ tcb.live
    \/ /\ pending = << [what |-> "SYNACK"] >>
       /\ tcb.live /\ (TimerRuns \/ tcb.state = "SYN_SENT")
    \/ /\ tcb.live /\ TimerRuns
       /\ \/ \E c : pending = <<c>> /\ (AckCall(c) \/ DataCall(c) \/ LastCall(c))
          \/ \E c, d : /\ pending = <<c, d>>
                       /\ \/ AckCall(c) /\ (DataCall(d) \/ LastCall(d))
                          \/ DataCall(c) /\ LastCall(d)
          \/ \E c, d, f : /\ pending = <<c, d, f>>
                          /\ AckCall(c) /\ DataCall(d) /\ LastCall(f)

\* The acknowledgment after a reply overwrites it, so that there is never an
\* allocated payload to free.
NothingToFree == tcb.dynamic => tcb.pay = Null

IndInv == TypeOK /\ Calls /\ NothingToFree

\* What the parser has got is what the TCB has counted.
Stream ==
    /\ \A k \in DOMAIN delivered : delivered[k] = k
    /\ Len(delivered) <= PeerBytes
    /\ tcb.live /\ (Established \/ tcb.state = "SYN_SENT")
          => tcb.seqThem = Plus(IssThem, Len(delivered))

\* Where the two ends of the send window stand in what has been sent.
Window ==
    tcb.live =>
        /\ tcb.seqMe = Plus(IssMe, used)
        /\ \E a \in 0 .. used : tcb.ackThem = Plus(IssMe, a)
        /\ \/ tcb.state = "SYN_SENT"
           \/ tcb.state = "ESTABLISHED_RECV" /\ tcb.app = "ReceiveHello"
           => tcb.ackThem = tcb.seqMe
        /\ RetransmitInBounds

----------------------------------------------------------------------------
(* Sequence numbers *)

LEMMA ModUnique ==
    ASSUME NEW m \in Nat \ {0}, NEW q \in Int, NEW r \in 0 .. (m - 1)
    PROVE  (m * q + r) % m = r
<1> DEFINE n == m * q + r
<1>1. PICK p \in Int : p = n \div m
    OBVIOUS
<1>2. PICK s \in 0 .. (m - 1) : s = n % m
    OBVIOUS
<1>3. n = m * p + s
    BY <1>1, <1>2
<1>4. m * (q - p) = s - r
    BY <1>3
<1>5. q - p >= 1 => m * (q - p) >= m
    OBVIOUS
<1>6. q - p <= -1 => m * (q - p) <= -m
    OBVIOUS
<1>7. q = p
    BY <1>4, <1>5, <1>6
<1> QED
    BY <1>2, <1>4, <1>7

LEMMA SeqModType == SeqMod \in Nat \ {0} /\ AckWindow \in Nat /\ 2 * AckWindow < SeqMod
BY TcpConnAssumption

LEMMA ModType == ASSUME NEW x \in Int PROVE x % SeqMod \in Seqs
BY SeqModType DEF Seqs

LEMMA ModSmall == ASSUME NEW r \in Seqs PROVE r % SeqMod = r
<1>1. SeqMod * 0 + r = r
    BY SeqModType DEF Seqs
<1> QED
    BY <1>1, ModUnique, SeqModType DEF Seqs

LEMMA ModShift ==
    ASSUME NEW q \in Int, NEW x \in Int
    PROVE  (SeqMod * q + x) % SeqMod = x % SeqMod
<1>1. PICK p \in Int : x = SeqMod * p + (x % SeqMod)
    <2>1. x = SeqMod * (x \div SeqMod) + (x % SeqMod) /\ x \div SeqMod \in Int
        BY SeqModType
    <2> QED
        BY <2>1
<1>2. PICK r \in Seqs : r = x % SeqMod
    BY ModType
<1>3. SeqMod * q + x = SeqMod * (q + p) + r
    BY <1>1, <1>2, SeqModType DEF Seqs
<1>4. q + p \in Int /\ r \in 0 .. (SeqMod - 1)
    BY DEF Seqs
<1>5. (SeqMod * (q + p) + r) % SeqMod = r
    BY <1>4, ModUnique, SeqModType
<1> QED
    BY <1>2, <1>3, <1>5

LEMMA Quotient ==
    ASSUME NEW x \in Int
    PROVE  \E q \in Int : x = SeqMod * q + (x % SeqMod)
<1>1. x = SeqMod * (x \div SeqMod) + (x % SeqMod) /\ x \div SeqMod \in Int
    BY SeqModType
<1> QED
    BY <1>1

LEMMA PlusType == ASSUME NEW x \in Int, NEW n \in Int PROVE Plus(x, n) \in Seqs
BY ModType DEF Plus

LEMMA PlusZero == ASSUME NEW x \in Seqs PROVE Plus(x, 0) = x
BY ModSmall, SeqModType DEF Plus, Seqs

LEMMA PlusPlus ==
    ASSUME NEW x \in Int, NEW a \in Int, NEW b \in Int
    PROVE  Plus(Plus(x, a), b) = Plus(x, a + b)
<1>1. PICK q \in Int : x + a = SeqMod * q + ((x + a) % SeqMod)
    BY Quotient
<1>2. PICK r \in Seqs : r = (x + a) % SeqMod
    BY ModType
<1>3. x + a + b = SeqMod * q + (r + b)
    BY <1>1, <1>2, SeqModType DEF Seqs
<1>4. r + b \in Int
    BY SeqModType DEF Seqs
<1>5. (x + a + b) % SeqMod = (r + b) % SeqMod
    BY <1>3, <1>4, ModShift
<1>6. x + (a + b) = x + a + b
    OBVIOUS
<1> QED
    BY <1>2, <1>5, <1>6 DEF Plus

\* How far b lies behind a, both counted from the same first number.
LEMMA Distance ==
    ASSUME NEW x \in Int, NEW a \in Int, NEW b \in Int
    PROVE  Minus(Plus(x, a), Plus(x, b)) = (a - b) % SeqMod
<1>1. PICK q \in Int : x + a = SeqMod * q + ((x + a) % SeqMod)
    BY Quotient
<1>2. PICK p \in Int : x + b = SeqMod * p + ((x + b) % SeqMod)
    BY Quotient
<1>3. PICK r \in Seqs, s \in Seqs : r = (x + a) % SeqMod /\ s = (x + b) % SeqMod
    BY ModType
<1>4. a - b = SeqMod * (q - p) + (r - s)
    <2>1. x + a = SeqMod * q + r /\ x + b = SeqMod * p + s /\ r \in Int /\ s \in Int
        BY <1>1, <1>2, <1>3 DEF Seqs
    <2>2. SeqMod * (q - p) = SeqMod * q - SeqMod * p
        BY SeqModType
    <2>3. SeqMod * q \in Int /\ SeqMod * p \in Int
        BY SeqModType
    <2>4. a - b = (SeqMod * q - SeqMod * p) + (r - s)
        BY <2>1, <2>3
    <2> QED
        BY <2>2, <2>4
<1>5. q - p \in Int /\ r - s \in Int
    BY DEF Seqs
<1>6. (a - b) % SeqMod = (r - s) % SeqMod
    BY <1>4, <1>5, ModShift
<1> QED
    BY <1>3, <1>6 DEF Plus, Minus

LEMMA Ahead ==
    ASSUME NEW x \in Int, NEW a \in Nat, NEW b \in Nat, b <= a, a - b < SeqMod
    PROVE  Minus(Plus(x, a), Plus(x, b)) = a - b
<1>1. a - b \in Seqs
    BY SeqModType DEF Seqs
<1>2. (a - b) % SeqMod = a - b
    BY <1>1, ModSmall
<1> QED
    BY <1>2, Distance

LEMMA Behindhand ==
    ASSUME NEW x \in Int, NEW a \in Nat, NEW b \in Nat, a < b, b - a < SeqMod
    PROVE  Minus(Plus(x, a), Plus(x, b)) = SeqMod - (b - a)
<1>1. a - b = SeqMod * (-1) + (SeqMod - (b - a)) /\ SeqMod - (b - a) \in Seqs
    BY SeqModType DEF Seqs
<1>2. (a - b) % SeqMod = SeqMod - (b - a)
    BY <1>1, ModUnique, SeqModType DEF Seqs
<1> QED
    BY <1>2, Distance

----------------------------------------------------------------------------
(* The calls for one packet *)

\* What is known when the first of the pending calls is made.
LEMMA Heads ==
    ASSUME Calls, pending # << >>, Head(pending).what # "RELINK"
    PROVE  /\ tcb.live
           /\ \/ Call("SYNACK") /\ (TimerRuns \/ tcb.state = "SYN_SENT")
              \/ Call("TIMEOUT")
              \/ Call("ACK") /\ TimerRuns /\ \E a \in 0 .. used : Arg.ackno = Plus(IssMe, a)
              \/ /\ Call("DATA") /\ TimerRuns
                 /\ \E p, n \in Nat : /\ Arg.pos = p /\ Arg.len = n
                                      /\ n > 0 /\ p + n <= PeerBytes
              \/ /\ Call("FIN") \/ Call("RST")
                 /\ TimerRuns /\ Arg.pos \in Nat
<1>1. CASE pending = << [what |-> "TIMEOUT"], [what |-> "RELINK"] >> /\ tcb.live
    BY <1>1 DEF Call
<1>2. CASE /\ pending = << [what |-> "SYNACK"] >>
           /\ tcb.live /\ (TimerRuns \/ tcb.state = "SYN_SENT")
    BY <1>2 DEF Call
<1>3. CASE /\ tcb.live /\ TimerRuns
           /\ \/ \E c : pending = <<c>> /\ (AckCall(c) \/ DataCall(c) \/ LastCall(c))
              \/ \E c, d : /\ pending = <<c, d>>
                           /\ \/ AckCall(c) /\ (DataCall(d) \/ LastCall(d))
                              \/ DataCall(c) /\ LastCall(d)
              \/ \E c, d, f : /\ pending = <<c, d, f>>
                              /\ AckCall(c) /\ DataCall(d) /\ LastCall(f)
    <2>1. PICK c : Head(pending) = c /\ (AckCall(c) \/ DataCall(c) \/ LastCall(c))
        BY <1>3
    <2>2. CASE AckCall(c)
        BY <1>3, <2>1, <2>2 DEF AckCall, Call, Arg
    <2>3. CASE DataCall(c)
        BY <1>3, <2>1, <2>3 DEF DataCall, Call, Arg
    <2>4. CASE LastCall(c)
        BY <1>3, <2>1, <2>4 DEF LastCall, Call, Arg
    <2> QED
        BY <2>1, <2>2, <2>3, <2>4
<1>4. CASE pending = << [what |-> "RELINK"] >>
    BY <1>4
<1> QED
    BY <1>1, <1>2, <1>3, <1>4 DEF Calls

\* What is left after it.  Only a reset and a timeout may leave no TCB, only
\* a timeout may leave one whose timer is not linked.
LEMMA AfterCall ==
    ASSUME Calls, pending # << >>, Head(pending).what # "RELINK", Return,
           used \in Nat, used' \in Nat, used <= used',
           tcb'.live \/ Call("RST") \/ Call("TIMEOUT"),
           tcb'.live => TimerRuns' \/ Call("TIMEOUT")
    PROVE  Calls'
<1>0. /\ \A c : AckCall(c) => AckCall(c)'
      /\ \A c : DataCall(c) => DataCall(c)'
      /\ \A c : LastCall(c) => LastCall(c)'
    BY DEF AckCall, DataCall, LastCall
<1>1. CASE pending = << [what |-> "TIMEOUT"], [what |-> "RELINK"] >> /\ tcb.live
    <2>1. pending' = << [what |-> "RELINK"] >>
        BY <1>1 DEF Return
    <2> QED
        BY <2>1 DEF Calls
<1>2. CASE /\ pending = << [what |-> "SYNACK"] >>
           /\ tcb.live /\ (TimerRuns \/ tcb.state = "SYN_SENT")
    <2>1. pending' = << >> /\ ~Call("TIMEOUT")
        BY <1>2 DEF Return, Call
    <2> QED
        BY <2>1 DEF Calls
<1>3. CASE \E c : /\ tcb.live /\ TimerRuns
                  /\ pending = <<c>> /\ (AckCall(c) \/ DataCall(c) \/ LastCall(c))
    <2>1. pending' = << >> /\ ~Call("TIMEOUT")
        BY <1>3 DEF Return, Call, AckCall, DataCall, LastCall
    <2> QED
        BY <2>1 DEF Calls
<1>4. CASE \E c, d : /\ tcb.live /\ TimerRuns
                     /\ pending = <<c, d>>
                     /\ \/ AckCall(c) /\ (DataCall(d) \/ LastCall(d))
                        \/ DataCall(c) /\ LastCall(d)
    <2>1. PICK c, d : /\ pending = <<c, d>>
                      /\ AckCall(c) \/ DataCall(c)
                      /\ DataCall(d) \/ LastCall(d)
        BY <1>4
    <2>2. pending' = <<d>> /\ ~Call("TIMEOUT") /\ ~Call("RST")
        BY <2>1 DEF Return, Call, AckCall, DataCall
    <2>3. DataCall(d)' \/ LastCall(d)'
        BY <1>0, <2>1
    <2> QED
        BY <2>2, <2>3 DEF Calls
<1>5. CASE \E c, d, f : /\ tcb.live /\ TimerRuns
                        /\ pending = <<c, d, f>>
                        /\ AckCall(c) /\ DataCall(d) /\ LastCall(f)
    <2>1. PICK c, d, f : /\ pending = <<c, d, f>>
                         /\ AckCall(c) /\ DataCall(d) /\ LastCall(f)
        BY <1>5
    <2>2. pending' = <<d, f>> /\ ~Call("TIMEOUT") /\ ~Call("RST")
        BY <2>1 DEF Return, Call, AckCall
    <2>3. DataCall(d)' /\ LastCall(f)'
        BY <1>0, <2>1
    <2> QED
        BY <2>2, <2>3 DEF Calls
<1> QED
    BY <1>1, <1>2, <1>3, <1>4, <1>5 DEF Calls

LEMMA Constants ==
    /\ IssMe \in Seqs /\ IssThem \in Seqs
    /\ PeerBytes \in Nat /\ HelloLen \in Nat /\ ReplyLen \in Nat /\ MaxPackets \in Nat
    /\ HelloTimeout \in Nat /\ Timeout \in Nat
    /\ T1 \in Nat /\ T2 \in Nat /\ T5 \in Nat /\ T10 \in Nat
    /\ Off \notin Nat /\ 0 \in Seqs /\ Seqs \subseteq Int
BY TcpConnAssumption, SeqModType DEF Seqs

\* The TCB and the call as a handler finds them.
LEMMA Found ==
    ASSUME IndInv
    PROVE  /\ tcb \in Tcbs
           /\ packets \in 0 .. MaxPackets /\ used \in Nat /\ heap \in Nat
           /\ delivered \in Seq(1 .. PeerBytes)
           /\ Calls /\ NothingToFree
BY DEF IndInv, TypeOK

LEMMA InitInd == Init => IndInv
<1> SUFFICES ASSUME Init PROVE IndInv
    OBVIOUS
<1>1. << >> \in Seq(1 .. PeerBytes)
    OBVIOUS
<1>2. TypeOK
    BY <1>1, Constants DEF Tcbs, Init, TypeOK, NoTcb, Null, States
<1> QED
    BY <1>2 DEF Init, IndInv, Calls, NothingToFree, NoTcb, Null

\* The steps that are not calls of tcpcon_handle.
LEMMA SynAckArrivesInd == IndInv /\ SynAckArrives => IndInv'
<1> SUFFICES ASSUME IndInv, SynAckArrives PROVE IndInv'
    OBVIOUS
<1>1. << >> \in Seq(1 .. PeerBytes)
    OBVIOUS
<1>2. tcb.live => TimerRuns
    BY Found DEF SynAckArrives, Arrives, Idle, Calls
<1>3. TypeOK'
    <2>1. packets' \in 0 .. MaxPackets /\ UNCHANGED heap
        BY Found, Constants DEF SynAckArrives, Arrives
    <2>2. CASE tcb.live
        BY <2>1, <2>2, Found DEF SynAckArrives, TypeOK
    <2>3. CASE ~tcb.live
        <3>1. delivered' = << >> /\ used' = 0 /\ tcb' = NewTcb
            BY <2>3 DEF SynAckArrives
        <3>2. /\ NoTcb \in Tcbs
            BY Constants DEF Tcbs, NoTcb, Null, States
        <3>3. tcb' = [NoTcb EXCEPT !.live = TRUE, !.seqMe = IssMe,
                                   !.seqThem = IssThem, !.ackThem = IssMe]
            BY <3>1 DEF NewTcb
        <3>4. PICK n : n = NoTcb
            OBVIOUS
        <3>5. tcb' = [n EXCEPT !.live = TRUE, !.seqMe = IssMe,
                               !.seqThem = IssThem, !.ackThem = IssMe]
            BY <3>3, <3>4
        <3>6. tcb' \in Tcbs
            BY <3>2, <3>4, <3>5, Constants DEF Tcbs
        <3>7. packets' \in 0 .. MaxPackets /\ delivered' \in Seq(1 .. PeerBytes)
              /\ used' \in Nat /\ heap' \in Nat
            BY <1>1, <2>1, <3>1, Found
        <3> QED
            BY <3>6, <3>7 DEF TypeOK
    <2> QED
        BY <2>2, <2>3
<1>4. Calls'
    <2>1. pending' = << [what |-> "SYNACK"] >>
        BY DEF SynAckArrives
    <2>2. tcb'.live /\ (TimerRuns' \/ tcb'.state = "SYN_SENT")
        BY <1>2 DEF SynAckArrives, NewTcb, NoTcb, TimerRuns
    <2> QED
        BY <2>1, <2>2 DEF Calls
<1>5. NothingToFree'
    BY Found DEF SynAckArrives, NothingToFree, NewTcb, NoTcb, Null
<1> QED
    BY <1>3, <1>4, <1>5 DEF IndInv

LEMMA Rows ==
    ASSUME NEW a, NEW b, NEW c
    PROVE  /\ <<a>> \o << >> \o << >> = <<a>>
           /\ <<a>> \o <<b>> \o << >> = <<a, b>>
           /\ <<a>> \o << >> \o <<b>> = <<a, b>>
           /\ <<a>> \o <<b>> \o <<c>> = <<a, b, c>>
<1>1. <<a>> \o << >> = <<a>> /\ <<a, b>> \o << >> = <<a, b>>
    OBVIOUS
<1>2. <<a>> \o <<b>> = <<a, b>>
    <2>1. PICK s : s = <<a>> \o <<b>>
        OBVIOUS
    <2>2. s \in Seq({a, b}) /\ Len(s) = 2 /\ s[1] = a /\ s[2] = b
        BY <2>1
    <2>3. PICK t : t = <<a, b>>
        OBVIOUS
    <2>4. t \in Seq({a, b}) /\ Len(t) = 2 /\ t[1] = a /\ t[2] = b
        BY <2>3
    <2>5. \A i \in 1 .. Len(s) : s[i] = t[i]
        BY <2>2, <2>4
    <2>6. s = t
        BY <2>2, <2>4, <2>5, SeqEqual
    <2> QED
        BY <2>1, <2>3, <2>6
<1>3. <<a, b>> \o <<c>> = <<a, b, c>>
    <2>1. PICK s : s = <<a, b>> \o <<c>>
        OBVIOUS
    <2>2. s \in Seq({a, b, c}) /\ Len(s) = 3 /\ s[1] = a /\ s[2] = b /\ s[3] = c
        BY <2>1
    <2>3. PICK t : t = <<a, b, c>>
        OBVIOUS
    <2>4. t \in Seq({a, b, c}) /\ Len(t) = 3 /\ t[1] = a /\ t[2] = b /\ t[3] = c
        BY <2>3
    <2>5. \A i \in 1 .. Len(s) : s[i] = t[i]
        BY <2>2, <2>4
    <2>6. s = t
        BY <2>2, <2>4, <2>5, SeqEqual
    <2> QED
        BY <2>1, <2>3, <2>6
<1> QED
    BY <1>1, <1>2, <1>3

LEMMA SegmentArrivesInd ==
    ASSUME IndInv, NEW pos \in 0 .. PeerBytes, NEW len \in 0 .. PeerBytes,
           NEW last \in {"none", "FIN", "RST"}, NEW ack \in 0 .. used,
           SegmentArrives(pos, len, last, ack)
    PROVE  IndInv'
<1>1. tcb.live /\ TimerRuns
    BY Found DEF SegmentArrives, Arrives, Idle, Calls
<1>2. UNCHANGED <<tcb, delivered, used, heap>> /\ packets' = packets + 1 /\ packets < MaxPackets
    BY DEF SegmentArrives, Arrives
<1>3. TypeOK' /\ NothingToFree' /\ tcb'.live /\ TimerRuns'
    BY <1>1, <1>2, Found, Constants DEF TypeOK, NothingToFree, TimerRuns
<1>4. PICK a : a = [what |-> "ACK", ackno |-> Plus(IssMe, ack)] /\ AckCall(a)'
    BY <1>2 DEF AckCall
<1>5. PICK d : d = [what |-> "DATA", pos |-> pos, len |-> len] /\ (len > 0 => DataCall(d)')
    BY Constants DEF DataCall, SegmentArrives
<1>6. PICK f : f = [what |-> last, pos |-> pos] /\ (last # "none" => LastCall(f)')
    <2>1. pos \in Nat /\ (last # "none" => last \in {"FIN", "RST"})
        BY Constants
    <2> QED
        BY <2>1 DEF LastCall
<1>7. pending' = <<a>> \o (IF len > 0 THEN <<d>> ELSE << >>)
                       \o (IF last # "none" THEN <<f>> ELSE << >>)
    BY <1>4, <1>5, <1>6 DEF SegmentArrives
<1>8. CASE len > 0 /\ last # "none"
    <2>1. pending' = <<a, d, f>>
        BY <1>7, <1>8, Rows
    <2> QED
        BY <1>3, <1>4, <1>5, <1>6, <1>8, <2>1 DEF IndInv, Calls
<1>9. CASE len > 0 /\ last = "none"
    <2>1. pending' = <<a, d>>
        BY <1>7, <1>9, Rows
    <2> QED
        BY <1>3, <1>4, <1>5, <1>9, <2>1 DEF IndInv, Calls
<1>10. CASE len = 0 /\ last # "none"
    <2>1. pending' = <<a, f>>
        BY <1>7, <1>10, Rows
    <2> QED
        BY <1>3, <1>4, <1>6, <1>10, <2>1 DEF IndInv, Calls
<1>11. CASE len = 0 /\ last = "none"
    <2>1. pending' = <<a>>
        BY <1>7, <1>11, Rows
    <2> QED
        BY <1>3, <1>4, <1>11, <2>1 DEF IndInv, Calls
<1> QED
    BY <1>8, <1>9, <1>10, <1>11, Constants

LEMMA TimersInd == IndInv /\ (TimerFires \/ Relink \/ Tick) => IndInv'
<1>1. ASSUME IndInv, TimerFires PROVE IndInv'
    <2>1. TypeOK' /\ NothingToFree' /\ tcb'.live
        BY <1>1, Found, Constants DEF Tcbs, TimerFires, TypeOK, NothingToFree
    <2> QED
        BY <1>1, <2>1 DEF TimerFires, IndInv, Calls
<1>2. ASSUME IndInv, Relink PROVE IndInv'
    <2>1. TypeOK' /\ NothingToFree'
        BY <1>2, Found, Constants DEF Tcbs, Relink, Return, TypeOK, NothingToFree
    <2>2. pending # << >> /\ Head(pending).what = "RELINK"
        BY <1>2 DEF Relink, Call
    <2>3. pending = << [what |-> "RELINK"] >>
        BY <1>2, <2>2, Found DEF Calls, AckCall, DataCall, LastCall
    <2>4. pending' = << >>
        BY <1>2, <2>3 DEF Relink, Return
    <2>5. tcb'.live => TimerRuns'
        BY <1>2, Found, Constants DEF Relink, TimerRuns
    <2> QED
        BY <2>1, <2>4, <2>5 DEF IndInv, Calls
<1>3. ASSUME IndInv, Tick PROVE IndInv'
    <2>1. tcb' = [tcb EXCEPT !.age = IF @ > Timeout THEN @ ELSE @ + 1,
                             !.timer = IF @ \in {0, Off} THEN @ ELSE @ - 1]
        BY <1>3 DEF Tick
    <2>2. PICK g, t : g = tcb.age /\ t = tcb.timer
        OBVIOUS
    <2>3. g \in 0 .. (Timeout + 1) /\ t \in Nat \cup {Off}
        BY <1>3, <2>2, Found DEF Tcbs
    <2>4. /\ (IF g > Timeout THEN g ELSE g + 1) \in 0 .. (Timeout + 1)
          /\ (IF t \in {0, Off} THEN t ELSE t - 1) \in Nat \cup {Off}
          /\ t # Off => (IF t \in {0, Off} THEN t ELSE t - 1) # Off
        BY <2>3, Constants
    <2>5. tcb' = [tcb EXCEPT !.age = IF g > Timeout THEN g ELSE g + 1,
                             !.timer = IF t \in {0, Off} THEN t ELSE t - 1]
        BY <2>1, <2>2
    <2>6. TypeOK' /\ NothingToFree'
        BY <1>3, <2>4, <2>5, Found DEF Tcbs, Tick, TypeOK, NothingToFree
    <2>7. tcb'.live => TimerRuns'
        BY <1>3, <2>2, <2>4, <2>5, Found DEF Tick, TimerRuns, Calls
    <2> QED
        BY <1>3, <2>6, <2>7 DEF IndInv, Tick, Calls
<1> QED
    BY <1>1, <1>2, <1>3

----------------------------------------------------------------------------
(* tcpcon_handle keeps the invariant *)

LEMMA Called ==
    ASSUME IndInv, NEW w, Call(w), w # "RELINK"
    PROVE  /\ pending # << >> /\ Head(pending).what = w /\ Head(pending).what # "RELINK"
           /\ tcb.live
           /\ w \notin {"SYNACK", "TIMEOUT"} => TimerRuns
           /\ w = "SYNACK" => TimerRuns \/ tcb.state = "SYN_SENT"
           /\ w = "ACK" => \E a \in 0 .. used : Arg.ackno = Plus(IssMe, a)
           /\ w = "DATA" => \E p, n \in Nat : /\ Arg.pos = p /\ Arg.len = n
                                              /\ n > 0 /\ p + n <= PeerBytes
           /\ w = "FIN" => Arg.pos \in Nat
<1>1. pending # << >> /\ Head(pending).what = w /\ Head(pending).what # "RELINK"
    BY DEF Call
<1> QED
    BY <1>1, Found, Heads DEF Call

\* The handlers that leave the connection and what it has sent alone, but for
\* the TCB, and keep it.
LEMMA KeepsTcb ==
    ASSUME IndInv, NEW w, Call(w), w # "RELINK", Return,
           delivered' \in Seq(1 .. PeerBytes), heap' \in Nat, used' \in Nat, used <= used',
           tcb' \in Tcbs,
           tcb'.live, TimerRuns' \/ w = "TIMEOUT", NothingToFree'
    PROVE  IndInv'
<1>1. TypeOK'
    BY Found DEF TypeOK, Return
<1>2. Calls'
    BY Called, Found, AfterCall DEF Call
<1> QED
    BY <1>1, <1>2 DEF IndInv

LEMMA NullType == Null \in [what : {"null", "hello", "reply"}, len : Nat] /\ Null.len = 0
BY DEF Null

LEMMA IgnoredInd == IndInv /\ Ignored => IndInv'
<1> SUFFICES ASSUME IndInv, Ignored PROVE IndInv'
    OBVIOUS
<1>1. PICK w \in {"SYNACK", "ACK", "DATA", "FIN", "TIMEOUT"} :
          Call(w) /\ (w = "SYNACK" => tcb.state # "SYN_SENT")
    BY DEF Ignored
<1>2. Return /\ UNCHANGED <<tcb, delivered, used, heap>>
    BY DEF Ignored
<1>3. tcb.live /\ (TimerRuns \/ w = "TIMEOUT")
    BY <1>1, Called
<1> QED
    BY <1>1, <1>2, <1>3, KeepsTcb, Found DEF TimerRuns, NothingToFree

LEMMA SynAckInd == IndInv /\ SynAck => IndInv'
<1> SUFFICES ASSUME IndInv, SynAck PROVE IndInv'
    OBVIOUS
<1>1. Call("SYNACK") /\ tcb.live /\ (Established => TimerRuns)
    BY Called DEF SynAck, Established
<1>2. /\ tcb' \in Tcbs
      /\ tcb'.live /\ TimerRuns' /\ tcb'.pay = Null
    BY <1>1, Found, NullType, Constants
       DEF Tcbs, SynAck, SendingNone, Sending, TimerRuns, States
<1> QED
    BY <1>1, <1>2, KeepsTcb, Found DEF SynAck, NothingToFree

LEMMA AckThemType ==
    ASSUME IndInv, Call("ACK")
    PROVE  Arg.ackno \in Seqs /\ AckThem(Arg.ackno) \in Seqs
<1>1. PICK a \in 0 .. used : Arg.ackno = Plus(IssMe, a)
    BY Called
<1>2. Arg.ackno \in Seqs
    BY <1>1, Found, PlusType, Constants
<1> QED
    BY <1>2, Found DEF Tcbs, AckThem

LEMMA AcksInd ==
    IndInv /\ (AckInRecv \/ AckOfAll \/ AckOfPart \/ AckInFinWait1) => IndInv'
<1> SUFFICES ASSUME IndInv, AckInRecv \/ AckOfAll \/ AckOfPart \/ AckInFinWait1
             PROVE  IndInv'
    OBVIOUS
<1>1. Call("ACK") /\ tcb.live /\ TimerRuns
    BY Called DEF AckInRecv, AckOfAll, AckOfPart, AckInFinWait1
<1>2. PICK k : k = AckThem(Arg.ackno)
    OBVIOUS
<1>3. k \in Seqs /\ Arg.ackno \in Seqs
    BY <1>1, <1>2, AckThemType
<1>4. /\ tcb' \in Tcbs
      /\ tcb'.live /\ TimerRuns' /\ NothingToFree'
    <2>1. CASE AckInRecv
        BY <1>1, <1>2, <1>3, <2>1, Found DEF Tcbs, AckInRecv, TimerRuns, NothingToFree
    <2>2. CASE AckOfAll
        BY <1>1, <2>2, Found, NullType, Constants
           DEF Tcbs, AckOfAll, TimerRuns, NothingToFree, States
    <2>3. CASE AckOfPart
        BY <1>1, <1>2, <1>3, <2>3, Found, Constants DEF Tcbs, AckOfPart, TimerRuns, NothingToFree
    <2>4. CASE AckInFinWait1
        BY <1>1, <1>3, <2>4, Found, Constants
           DEF Tcbs, AckInFinWait1, TimerRuns, NothingToFree, States
    <2> QED
        BY <2>1, <2>2, <2>3, <2>4
<1>5. UNCHANGED <<delivered, used, heap>> /\ Return
    <2>1. AckOfAll => ~(tcb.dynamic /\ tcb.pay # Null)
        BY Found DEF NothingToFree
    <2> QED
        BY <2>1 DEF AckInRecv, AckOfAll, AckOfPart, AckInFinWait1
<1> QED
    BY <1>1, <1>4, <1>5, KeepsTcb, Found

LEMMA BehindType ==
    ASSUME IndInv, Call("DATA")
    PROVE  Behind \in Nat
<1>1. PICK p \in Nat : Arg.pos = p
    BY Called
<1>2. PICK x, y : x = tcb.seqThem /\ y = Plus(IssThem, p)
    OBVIOUS
<1>3. x \in Seqs /\ y \in Seqs
    BY <1>2, Found, PlusType, Constants DEF Tcbs
<1>4. (x - y) % SeqMod \in Seqs
    BY <1>3, ModType, Constants
<1> QED
    BY <1>1, <1>2, <1>4 DEF Behind, Minus, Seqs

LEMMA DataUselessInd == IndInv /\ (DataUseless \/ DataWhileSending) => IndInv'
<1> SUFFICES ASSUME IndInv, DataUseless \/ DataWhileSending PROVE IndInv'
    OBVIOUS
<1>1. Call("DATA") /\ tcb.live /\ TimerRuns
    BY Called DEF DataUseless, DataWhileSending
<1>2. tcb' = [tcb EXCEPT !.pay = Null]
    BY DEF DataUseless, DataWhileSending, SendingNone, Sending
<1>3. tcb' \in Tcbs /\ tcb'.live /\ TimerRuns' /\ tcb'.pay = Null
    BY <1>1, <1>2, Found, NullType DEF Tcbs, TimerRuns
<1>4. Return /\ UNCHANGED <<delivered, used, heap>>
    BY DEF DataUseless, DataWhileSending
<1> QED
    BY <1>1, <1>3, <1>4, KeepsTcb, Found DEF NothingToFree

\* The new bytes of a segment, as positions of the peer's stream.
LEMMA NewBytes ==
    ASSUME NEW p \in Nat, NEW b \in Nat, NEW n \in Nat, n > 0, p + b + n <= PeerBytes,
           NEW d \in Seq(1 .. PeerBytes)
    PROVE  /\ d \o [k \in 1 .. n |-> p + b + k] \in Seq(1 .. PeerBytes)
           /\ Len(d \o [k \in 1 .. n |-> p + b + k]) = Len(d) + n
           /\ \A i \in 1 .. (Len(d) + n) :
                 (d \o [k \in 1 .. n |-> p + b + k])[i]
                    = IF i <= Len(d) THEN d[i] ELSE p + b + (i - Len(d))
<1>1. PICK f : f = [k \in 1 .. n |-> p + b + k]
    OBVIOUS
<1>2. f \in Seq(1 .. PeerBytes) /\ Len(f) = n /\ \A k \in 1 .. n : f[k] = p + b + k
    BY <1>1, Constants
<1>3. PICK g : g = d \o f
    OBVIOUS
<1>4. /\ g \in Seq(1 .. PeerBytes) /\ Len(g) = Len(d) + n
      /\ \A i \in 1 .. (Len(d) + n) : g[i] = IF i <= Len(d) THEN d[i] ELSE f[i - Len(d)]
    BY <1>2, <1>3, ConcatProperties
<1>5. \A i \in 1 .. (Len(d) + n) :
          g[i] = IF i <= Len(d) THEN d[i] ELSE p + b + (i - Len(d))
    <2> SUFFICES ASSUME NEW i \in 1 .. (Len(d) + n), ~(i <= Len(d))
                 PROVE  f[i - Len(d)] = p + b + (i - Len(d))
        BY <1>4
    <2>1. i - Len(d) \in 1 .. n
        OBVIOUS
    <2> QED
        BY <1>2, <2>1
<1> QED
    BY <1>1, <1>3, <1>4, <1>5

\* The TCB after data has been delivered, field by field.
LEMMA DeliveredTcb ==
    ASSUME IndInv, NEW reply \in BOOLEAN, NEW dynamic \in BOOLEAN, NEW closing \in BOOLEAN,
           DataDelivered(reply, dynamic, closing)
    PROVE  /\ tcb' \in Tcbs /\ tcb'.live = tcb.live
           /\ TimerRuns => TimerRuns'
           /\ tcb'.pay = Null
           /\ tcb'.seqThem = Plus(tcb.seqThem, Arg.len - Behind)
           /\ tcb'.ackThem = tcb.ackThem
           /\ tcb'.seqMe = LET m == IF reply THEN Plus(tcb.seqMe, ReplyLen) ELSE tcb.seqMe
                           IN  IF closing THEN Plus(m, 1) ELSE m
           /\ tcb'.app # "ReceiveHello"
           /\ tcb'.state = IF closing THEN "FIN_WAIT1"
                           ELSE IF reply THEN "ESTABLISHED_SEND" ELSE tcb.state
<1> DEFINE n == Arg.len - Behind
           th == Plus(tcb.seqThem, n)
           m == IF reply THEN Plus(tcb.seqMe, ReplyLen) ELSE tcb.seqMe
           t == [tcb EXCEPT !.seqThem = th, !.app = "ReceiveNext"]
           s == IF reply
                THEN [Sending(t, [what |-> "reply", len |-> ReplyLen])
                        EXCEPT !.seqMe = Plus(@, ReplyLen), !.dynamic = dynamic,
                               !.state = "ESTABLISHED_SEND", !.app = "SendNext"]
                ELSE SendingNone(t)
<1>1. tcb' = IF closing THEN [SendingNone(s) EXCEPT !.seqMe = Plus(@, 1),
                                                    !.state = "FIN_WAIT1", !.timer = T1]
             ELSE SendingNone(s)
    BY DEF DataDelivered
<1>2. Call("DATA") /\ tcb \in Tcbs /\ tcb.live
    BY Called, Found DEF DataDelivered
<1>3. n \in Int /\ Behind \in Nat
    <2>1. PICK l \in Nat : Arg.len = l
        BY <1>2, Called
    <2>2. PICK b \in Nat : b = Behind
        BY <1>2, BehindType
    <2> QED
        BY <2>1, <2>2
<1>4. th \in Seqs /\ m \in Seqs /\ Plus(m, 1) \in Seqs /\ Plus(tcb.seqMe, ReplyLen) \in Seqs
    <2>1. tcb.seqThem \in Int /\ tcb.seqMe \in Int /\ tcb.seqMe \in Seqs
        BY <1>2, Constants DEF Tcbs
    <2>2. th \in Seqs /\ Plus(tcb.seqMe, ReplyLen) \in Seqs
        BY <1>3, <2>1, PlusType, Constants
    <2>3. m \in Seqs /\ m \in Int
        BY <2>1, <2>2, Constants
    <2> QED
        BY <2>2, <2>3, PlusType, Constants
<1> HIDE DEF n, th
<1>5. t \in Tcbs /\ t.live = tcb.live /\ t.timer = tcb.timer /\ t.seqThem = th
      /\ t.ackThem = tcb.ackThem /\ t.seqMe = tcb.seqMe /\ t.state = tcb.state
      /\ t.app = "ReceiveNext"
    BY <1>2, <1>4 DEF Tcbs
<1> HIDE DEF t
<1>6. s \in Tcbs /\ s.live = tcb.live /\ s.timer = tcb.timer /\ s.seqThem = th
      /\ s.ackThem = tcb.ackThem /\ s.seqMe = m /\ s.app # "ReceiveHello"
      /\ s.state = IF reply THEN "ESTABLISHED_SEND" ELSE tcb.state
    <2>1. CASE reply
        BY <1>4, <1>5, <2>1, Constants DEF Tcbs, Sending, States
    <2>2. CASE ~reply
        BY <1>5, <2>2, NullType DEF Tcbs, SendingNone, Sending
    <2> QED
        BY <2>1, <2>2
<1> HIDE DEF s, m
<1>7. CASE closing
    BY <1>1, <1>4, <1>6, <1>7, NullType, Constants
       DEF Tcbs, SendingNone, Sending, States, TimerRuns, th, n, m
<1>8. CASE ~closing
    BY <1>1, <1>4, <1>6, <1>8, NullType, Constants
       DEF Tcbs, SendingNone, Sending, TimerRuns, th, n, m
<1> QED
    BY <1>7, <1>8

LEMMA DataDeliveredInd ==
    ASSUME IndInv, NEW reply \in BOOLEAN, NEW dynamic \in BOOLEAN, NEW closing \in BOOLEAN,
           DataDelivered(reply, dynamic, closing)
    PROVE  IndInv'
<1>1. Call("DATA") /\ tcb.live /\ TimerRuns /\ Behind < Arg.len
    BY Called DEF DataDelivered
<1>2. PICK p \in Nat, l \in Nat : Arg.pos = p /\ Arg.len = l /\ l > 0 /\ p + l <= PeerBytes
    BY <1>1, Called
<1>3. PICK b \in Nat : b = Behind /\ b < l
    BY <1>1, <1>2, BehindType
<1>4. delivered' = delivered \o [k \in 1 .. (l - b) |-> p + b + k]
    BY <1>2, <1>3 DEF DataDelivered
<1>5. delivered' \in Seq(1 .. PeerBytes)
    <2>1. PICK n : n = l - b
        OBVIOUS
    <2>2. n \in Nat /\ n > 0 /\ p + b + n <= PeerBytes
        BY <1>2, <1>3, <2>1, Constants
    <2>3. delivered \o [k \in 1 .. n |-> p + b + k] \in Seq(1 .. PeerBytes)
        <3>1. delivered \in Seq(1 .. PeerBytes)
            BY Found
        <3> QED
            BY ZenonT(40), <2>2, <3>1, NewBytes
    <2> QED
        BY <1>4, <2>1, <2>3
<1>6. used' \in Nat /\ used <= used' /\ heap' \in Nat
    <2>1. PICK r \in Nat, c \in Nat : /\ r = IF reply THEN ReplyLen ELSE 0
                                     /\ c = IF closing THEN 1 ELSE 0
        BY Constants
    <2>2. used' = used + r + c
        BY <2>1 DEF DataDelivered
    <2>3. heap' = heap + 1 \/ heap' = heap
        BY DEF DataDelivered
    <2> QED
        BY <2>1, <2>2, <2>3, Found
<1>7. tcb' \in Tcbs /\ tcb'.live /\ TimerRuns' /\ tcb'.pay = Null
    BY <1>1, DeliveredTcb
<1> QED
    BY <1>1, <1>5, <1>6, <1>7, KeepsTcb DEF NothingToFree, DataDelivered

LEMMA FinInd == IndInv /\ (FinInRecv \/ FinInFinWait2) => IndInv'
<1> SUFFICES ASSUME IndInv, FinInRecv \/ FinInFinWait2 PROVE IndInv'
    OBVIOUS
<1>1. Call("FIN") /\ tcb.live /\ TimerRuns /\ Arg.pos \in Nat
    BY Called DEF FinInRecv, FinInFinWait2
<1>2. PICK q : q = Plus(IssThem, Arg.pos + 1)
    OBVIOUS
<1>3. q \in Seqs /\ Plus(tcb.seqMe, 1) \in Seqs
    <2>1. PICK p \in Nat : p = Arg.pos
        BY <1>1
    <2>2. p + 1 \in Int /\ IssThem \in Int
        BY Constants
    <2>3. tcb.seqMe \in Seqs
        BY Found DEF Tcbs
    <2>4. tcb.seqMe \in Int
        BY <2>3, Constants
    <2> QED
        BY <1>2, <2>1, <2>2, <2>4, PlusType
<1>4. PICK r : r = Plus(tcb.seqMe, 1)
    OBVIOUS
<1>5. tcb' \in Tcbs /\ tcb'.live /\ TimerRuns' /\ tcb'.pay = Null
    <2>1. CASE FinInRecv
        BY <1>1, <1>2, <1>3, <1>4, <2>1, Found, NullType
           DEF FinInRecv, SendingNone, Sending, Tcbs, TimerRuns, States
    <2>2. CASE FinInFinWait2
        BY <1>1, <1>2, <1>3, <2>2, Found, NullType, Constants
           DEF FinInFinWait2, SendingNone, Sending, Tcbs, TimerRuns, States
    <2> QED
        BY <2>1, <2>2
<1>6. Return /\ UNCHANGED <<delivered, heap>> /\ used' \in Nat /\ used <= used'
    BY Found DEF FinInRecv, FinInFinWait2
<1> QED
    BY <1>1, <1>5, <1>6, KeepsTcb, Found DEF NothingToFree

\* The steps that put the TCB on the free list.
LEMMA DestroyInd == IndInv /\ (Rst \/ TimeoutDestroys) => IndInv'
<1> SUFFICES ASSUME IndInv, Rst \/ TimeoutDestroys PROVE IndInv'
    OBVIOUS
<1>1. tcb' = NoTcb /\ Return /\ UNCHANGED <<delivered, used>>
    BY DEF Rst, TimeoutDestroys, Destroy
<1>2. ~(tcb.dynamic /\ tcb.pay.len > 0)
    BY Found, NullType DEF NothingToFree
<1>3. heap' = heap
    BY <1>2 DEF Rst, TimeoutDestroys, Destroy
<1>4. NoTcb \in Tcbs /\ ~NoTcb.live /\ ~NoTcb.dynamic
    BY Constants, NullType DEF NoTcb, Tcbs, States
<1>5. TypeOK' /\ NothingToFree'
    BY <1>1, <1>3, <1>4, Found DEF TypeOK, Return, NothingToFree
<1>6. PICK w \in {"RST", "TIMEOUT"} : Call(w)
    BY DEF Rst, TimeoutDestroys
<1>7. Calls'
    BY <1>1, <1>4, <1>6, Called, Found, AfterCall
<1> QED
    BY <1>5, <1>7 DEF IndInv

LEMMA UnackedType == ASSUME IndInv PROVE Unacked \in Nat
<1>1. PICK x \in Seqs, y \in Seqs : x = tcb.seqMe /\ y = tcb.ackThem
    BY Found DEF Tcbs
<1>2. (x - y) % SeqMod \in Seqs
    BY <1>1, ModType, Constants
<1> QED
    BY <1>1, <1>2 DEF Unacked, Minus, Seqs

LEMMA TimeoutInd ==
    IndInv /\ (TimeoutInRecv \/ TimeoutInSend \/ TimeoutInFinWait1) => IndInv'
<1> SUFFICES ASSUME IndInv, TimeoutInRecv \/ TimeoutInSend \/ TimeoutInFinWait1
             PROVE  IndInv'
    OBVIOUS
<1>1. Call("TIMEOUT") /\ tcb.live
    BY Called DEF TimeoutInRecv, TimeoutInSend, TimeoutInFinWait1
<1>2. tcb' \in Tcbs /\ tcb'.live /\ NothingToFree'
    <2>1. CASE TimeoutInRecv
        <3>1. PICK r \in Seqs : r = Plus(tcb.seqMe, HelloLen)
            <4>1. PICK m \in Seqs : m = tcb.seqMe
                BY Found DEF Tcbs
            <4>2. m \in Int /\ HelloLen \in Int
                BY Constants
            <4> QED
                BY <4>1, <4>2, PlusType
        <3>2. \/ tcb' = tcb
              \/ tcb' = [tcb EXCEPT !.timer = T1]
              \/ tcb' = [tcb EXCEPT !.pay = [what |-> "hello", len |-> HelloLen],
                                    !.seqMe = r, !.dynamic = FALSE,
                                    !.state = "ESTABLISHED_SEND", !.timer = T1]
            BY <2>1, <3>1, Found DEF TimeoutInRecv, Sending, Tcbs
        <3>3. CASE tcb' = tcb \/ tcb' = [tcb EXCEPT !.timer = T1]
            BY <1>1, <3>3, Found, Constants DEF Tcbs, NothingToFree
        <3>4. CASE tcb' = [tcb EXCEPT !.pay = [what |-> "hello", len |-> HelloLen],
                                      !.seqMe = r, !.dynamic = FALSE,
                                      !.state = "ESTABLISHED_SEND", !.timer = T1]
            <4>1. [what |-> "hello", len |-> HelloLen]
                     \in [what : {"null", "hello", "reply"}, len : Nat]
                BY Constants
            <4> QED
                BY <1>1, <3>4, <4>1, Found, Constants DEF Tcbs, NothingToFree, States
        <3> QED
            BY <3>2, <3>3, <3>4
    <2>2. CASE TimeoutInSend
        BY <1>1, <2>2, Found, NullType, UnackedType, Constants
           DEF TimeoutInSend, Tcbs, NothingToFree
    <2>3. CASE TimeoutInFinWait1
        BY <1>1, <2>3, Found, NullType, Constants
           DEF TimeoutInFinWait1, SendingNone, Sending, Tcbs, NothingToFree
    <2> QED
        BY <2>1, <2>2, <2>3
<1>3. Return /\ UNCHANGED <<delivered, heap>> /\ used' \in Nat /\ used <= used'
    BY Found, Constants DEF TimeoutInRecv, TimeoutInSend, TimeoutInFinWait1
<1> QED
    BY <1>1, <1>2, <1>3, KeepsTcb, Found

LEMMA StepInd == IndInv /\ [Next]_vars => IndInv'
<1> SUFFICES ASSUME IndInv, [Next]_vars PROVE IndInv'
    OBVIOUS
<1>1. CASE SynAckArrives \/ TimerFires \/ Relink \/ Tick
    BY <1>1, SynAckArrivesInd, TimersInd
<1>2. CASE \E pos, len \in 0 .. PeerBytes, last \in {"none", "FIN", "RST"},
              ack \in 0 .. used : SegmentArrives(pos, len, last, ack)
    BY <1>2, SegmentArrivesInd
<1>3. CASE TcpconHandle
    BY <1>3, IgnoredInd, SynAckInd, AcksInd, DataUselessInd, DataDeliveredInd,
       FinInd, DestroyInd, TimeoutInd
       DEF TcpconHandle
<1>4. CASE UNCHANGED vars
    BY <1>4 DEF vars, IndInv, TypeOK, Calls, NothingToFree, TimerRuns,
                AckCall, DataCall, LastCall
<1> QED
    BY <1>1, <1>2, <1>3, <1>4 DEF Next, Quiet

LEMMA Invariance == Spec => []IndInv
BY InitInd, StepInd, PTL DEF Spec

\* The variables keep their types, in particular the count of allocated
\* payloads: the acknowledgment that follows every reply (proto-tcp.c:1232)
\* makes the stack forget a payload before anything could free it twice.
THEOREM ConnTypeCorrect == Spec => []TypeOK
BY Invariance, PTL DEF IndInv

\* However the calls for a packet follow one another (main.c:876-938,
\* proto-tcp.c:121-170), none is made with a TCB that has been put on the free
\* list, and a TCB that is not on it has its timer.
THEOREM TcbAliveWhenCalled == Spec => []NoCallOnDeadTcb
<1>1. IndInv => NoCallOnDeadTcb
    <2> SUFFICES ASSUME IndInv PROVE NoCallOnDeadTcb
        OBVIOUS
    <2>1. pending # << >> /\ Head(pending).what # "RELINK" => tcb.live
        BY Found, Heads
    <2>2. AlwaysATimer
        BY Found DEF AlwaysATimer, Calls, TimerRuns
    <2> QED
        BY <2>1, <2>2 DEF NoCallOnDeadTcb
<1> QED
    BY <1>1, Invariance, PTL

----------------------------------------------------------------------------
(* What the parser gets *)

LEMMA StreamInit == Init => Stream
BY Constants DEF Init, Stream, NoTcb

\* The segment that is taken begins at or before what is expected: a gap looks
\* like nearly SeqMod old bytes, which no segment of the stream has.
LEMMA NoGap ==
    ASSUME PeerBytes < SeqMod, NEW p \in Nat, NEW l \in Nat, NEW n \in Nat,
           p + l <= PeerBytes, n <= PeerBytes,
           Minus(Plus(IssThem, n), Plus(IssThem, p)) < l
    PROVE  p <= n /\ Minus(Plus(IssThem, n), Plus(IssThem, p)) = n - p
<1>1. IssThem \in Int /\ PeerBytes \in Nat
    BY Constants
<1>2. CASE p <= n
    <2>1. n - p < SeqMod
        BY <1>1, <1>2, SeqModType
    <2> QED
        BY <1>1, <1>2, <2>1, Ahead
<1>3. CASE n < p
    <2>1. p - n < SeqMod
        BY <1>1, <1>3, SeqModType
    <2>2. Minus(Plus(IssThem, n), Plus(IssThem, p)) = SeqMod - (p - n)
        BY <1>1, <1>3, <2>1, Behindhand
    <2> QED
        BY <1>1, <1>3, <2>2, SeqModType
<1> QED
    BY <1>2, <1>3

LEMMA DataDeliveredStream ==
    ASSUME PeerBytes < SeqMod, IndInv, Stream,
           NEW reply \in BOOLEAN, NEW dynamic \in BOOLEAN, NEW closing \in BOOLEAN,
           DataDelivered(reply, dynamic, closing)
    PROVE  Stream'
<1>1. Call("DATA") /\ tcb.live /\ Behind < Arg.len /\ Established
    BY Called DEF DataDelivered
<1>2. PICK p \in Nat, l \in Nat : Arg.pos = p /\ Arg.len = l /\ l > 0 /\ p + l <= PeerBytes
    BY <1>1, Called
<1>3. PICK n \in Nat : n = Len(delivered) /\ n <= PeerBytes
    BY Found DEF Stream
<1>4. tcb.seqThem = Plus(IssThem, n)
    BY <1>1, <1>3 DEF Stream
<1>5. Behind = Minus(Plus(IssThem, n), Plus(IssThem, p))
    BY <1>2, <1>4 DEF Behind
<1>6. p <= n /\ Behind = n - p
    <2>1. Minus(Plus(IssThem, n), Plus(IssThem, p)) < l
        BY <1>1, <1>2, <1>5
    <2> QED
        BY <1>2, <1>3, <1>5, <2>1, NoGap
<1>7. PICK b \in Nat, m \in Nat : b = n - p /\ m = l - b /\ m > 0
    BY <1>1, <1>2, <1>6
<1>8. delivered' = delivered \o [k \in 1 .. m |-> p + b + k]
    BY <1>2, <1>6, <1>7 DEF DataDelivered
<1>9. /\ Len(delivered') = n + m
      /\ \A i \in 1 .. (n + m) :
            delivered'[i] = IF i <= n THEN delivered[i] ELSE p + b + (i - n)
    <2>1. p + b + m <= PeerBytes /\ delivered \in Seq(1 .. PeerBytes)
        BY <1>2, <1>7, Found, Constants
    <2> QED
        BY <1>3, <1>7, <1>8, <2>1, NewBytes
<1>10. delivered' \in Seq(1 .. PeerBytes)
    BY DataDeliveredInd DEF IndInv, TypeOK
<1>11. \A k \in DOMAIN delivered' : delivered'[k] = k
    <2> SUFFICES ASSUME NEW k \in 1 .. (n + m) PROVE delivered'[k] = k
        BY <1>9, <1>10
    <2>1. k <= n => delivered[k] = k
        <3>1. DOMAIN delivered = 1 .. n
            BY <1>3, Found
        <3> QED
            BY <3>1 DEF Stream
    <2> QED
        BY <1>6, <1>7, <1>9, <2>1
<1>12. Len(delivered') <= PeerBytes
    BY <1>2, <1>6, <1>7, <1>9, Constants
<1>13. tcb'.seqThem = Plus(IssThem, Len(delivered'))
    <2>1. tcb'.seqThem = Plus(Plus(IssThem, n), m)
        BY <1>2, <1>4, <1>6, <1>7, DeliveredTcb
    <2>2. IssThem \in Int /\ n \in Int /\ m \in Int
        BY Constants
    <2> QED
        BY <1>9, <2>1, <2>2, PlusPlus
<1> QED
    BY <1>11, <1>12, <1>13 DEF Stream

LEMMA StreamStep ==
    ASSUME PeerBytes < SeqMod
    PROVE  IndInv /\ Stream /\ [Next]_vars => Stream'
<1> SUFFICES ASSUME IndInv, Stream, [Next]_vars PROVE Stream'
    OBVIOUS
\* Steps that leave the stream where it is, or the connection.
<1> DEFINE Same == /\ UNCHANGED delivered
                   /\ tcb'.live /\ (Established' \/ tcb'.state = "SYN_SENT")
                        => /\ tcb.live /\ (Established \/ tcb.state = "SYN_SENT")
                           /\ tcb'.seqThem = tcb.seqThem
<1>1. Same => Stream'
    BY DEF Stream
<1>2. CASE SynAckArrives
    <2>1. CASE tcb.live
        BY <1>1, <1>2, <2>1 DEF SynAckArrives, Established
    <2>2. CASE ~tcb.live
        <3>1. delivered' = << >> /\ tcb'.seqThem = IssThem
            BY <1>2, <2>2 DEF SynAckArrives, NewTcb, NoTcb
        <3>2. Plus(IssThem, 0) = IssThem
            BY PlusZero, Constants
        <3>3. Len(delivered') = 0 /\ DOMAIN delivered' = {}
            BY <3>1
        <3> QED
            BY <3>1, <3>2, <3>3, Constants DEF Stream
    <2> QED
        BY <2>1, <2>2
<1>3. CASE \E pos, len \in 0 .. PeerBytes, last \in {"none", "FIN", "RST"},
              ack \in 0 .. used : SegmentArrives(pos, len, last, ack)
    BY <1>1, <1>3 DEF SegmentArrives, Established
<1>4. CASE TimerFires \/ Relink \/ Tick
    BY <1>1, <1>4, Found DEF TimerFires, Relink, Tick, Established, Tcbs
<1>5. CASE Ignored
    BY <1>1, <1>5 DEF Ignored, Established
<1>6. CASE SynAck
    BY <1>1, <1>6, Called, Found DEF SynAck, SendingNone, Sending, Established, Tcbs
<1>7. CASE AckInRecv \/ AckOfAll \/ AckOfPart \/ AckInFinWait1
    <2>1. tcb.live
        BY <1>7, Called DEF AckInRecv, AckOfAll, AckOfPart, AckInFinWait1
    <2>2. CASE AckInRecv
        BY <1>1, <2>1, <2>2, Found DEF AckInRecv, Established, Tcbs
    <2>3. CASE AckOfAll
        BY <1>1, <2>1, <2>3, Found DEF AckOfAll, Established, Tcbs
    <2>4. CASE AckOfPart
        BY <1>1, <2>1, <2>4, Found DEF AckOfPart, Established, Tcbs
    <2>5. CASE AckInFinWait1
        BY <1>1, <2>1, <2>5, Found DEF AckInFinWait1, Established, Tcbs
    <2> QED
        BY <1>7, <2>2, <2>3, <2>4, <2>5
<1>8. CASE DataUseless \/ DataWhileSending
    BY <1>1, <1>8, Found DEF DataUseless, DataWhileSending, SendingNone, Sending, Established, Tcbs
<1>9. CASE \E reply, dynamic, closing \in BOOLEAN : DataDelivered(reply, dynamic, closing)
    BY <1>9, DataDeliveredStream
<1>10. CASE FinInRecv \/ FinInFinWait2
    BY <1>1, <1>10, Found DEF FinInRecv, FinInFinWait2, SendingNone, Sending, Established, Tcbs
<1>11. CASE Rst \/ TimeoutDestroys
    BY <1>1, <1>11 DEF Rst, TimeoutDestroys, Destroy, NoTcb
<1>12. CASE TimeoutInRecv \/ TimeoutInSend \/ TimeoutInFinWait1
    BY <1>1, <1>12, Found
       DEF TimeoutInRecv, TimeoutInSend, TimeoutInFinWait1, SendingNone, Sending, Established, Tcbs
<1>13. CASE UNCHANGED vars
    BY <1>1, <1>13 DEF vars, Established
<1> QED
    BY <1>2, <1>3, <1>4, <1>5, <1>6, <1>7, <1>8, <1>9, <1>10, <1>11, <1>12, <1>13
       DEF Next, Quiet, TcpconHandle

\* However segments are lost, repeated, reordered and overlap (proto-tcp.c:
\* 1432-1468), the parser gets the peer's bytes once each and in order, and
\* seqno_them says how many.  The stream must be shorter than the sequence
\* space: the handler cannot tell a byte from one 2^32 later.
THEOREM StreamInOrder ==
    ASSUME PeerBytes < SeqMod
    PROVE  Spec => []DeliveredInOrder
<1>1. Stream => DeliveredInOrder
    BY DEF Stream, DeliveredInOrder
<1>2. Spec => []Stream
    BY Invariance, StreamInit, StreamStep, PTL DEF Spec
<1> QED
    BY <1>1, <1>2, PTL

----------------------------------------------------------------------------
(* What is acknowledged and resent *)

\* As long as less than SeqMod has been sent, places in our stream are told
\* apart by their sequence numbers.
InSpace == used < SeqMod

\* The step of AckNeverBack.
AckStep ==
    tcb.live /\ tcb'.live
        => /\ Minus(tcb.ackThem, IssMe) <= Minus(tcb'.ackThem, IssMe)
           /\ Minus(tcb'.ackThem, IssMe) <= used'

LEMMA FromBase ==
    ASSUME NEW a \in Nat, a < SeqMod
    PROVE  Minus(Plus(IssMe, a), IssMe) = a
<1>1. IssMe = Plus(IssMe, 0) /\ IssMe \in Int
    BY PlusZero, Constants
<1>2. Minus(Plus(IssMe, a), Plus(IssMe, 0)) = a - 0
    BY <1>1, Ahead
<1> QED
    BY <1>1, <1>2

\* The two windows of handle_ack: an acknowledgment it takes is ahead.
LEMMA GoodAckForward ==
    ASSUME used \in Nat, InSpace, NEW a \in 0 .. used, NEW b \in 0 .. used,
           tcb.ackThem = Plus(IssMe, a), tcb.seqMe = Plus(IssMe, used),
           GoodAck(Plus(IssMe, b))
    PROVE  a < b
<1>0. IssMe \in Int
    BY Constants
<1>1. a # b
    BY DEF GoodAck
<1>2. CASE b < a
    <2>1. Minus(Plus(IssMe, b), Plus(IssMe, a)) = SeqMod - (a - b)
        BY <1>0, <1>2, Behindhand, SeqModType DEF InSpace
    <2>2. Minus(Plus(IssMe, used), Plus(IssMe, b)) = used - b
        BY <1>0, Ahead, SeqModType DEF InSpace
    <2>3. SeqMod - (a - b) <= AckWindow /\ used - b <= AckWindow
        BY <2>1, <2>2 DEF GoodAck
    <2> QED
        BY <1>2, <2>3, SeqModType
<1> QED
    BY <1>1, <1>2

LEMMA AckThemForward ==
    ASSUME used \in Nat, InSpace, NEW a \in 0 .. used, NEW b \in 0 .. used,
           tcb.ackThem = Plus(IssMe, a), tcb.seqMe = Plus(IssMe, used)
    PROVE  \E c \in a .. used : AckThem(Plus(IssMe, b)) = Plus(IssMe, c)
<1>1. CASE GoodAck(Plus(IssMe, b))
    BY <1>1, GoodAckForward DEF AckThem
<1>2. CASE ~GoodAck(Plus(IssMe, b))
    BY <1>2 DEF AckThem
<1> QED
    BY <1>1, <1>2

LEMMA UnackedIs ==
    ASSUME used \in Nat, InSpace, NEW a \in 0 .. used,
           tcb.ackThem = Plus(IssMe, a), tcb.seqMe = Plus(IssMe, used)
    PROVE  Unacked = used - a
<1>1. Minus(Plus(IssMe, used), Plus(IssMe, a)) = used - a
    BY Ahead, Constants, SeqModType DEF InSpace
<1> QED
    BY <1>1 DEF Unacked

\* A step that moves the far end from a to c.
LEMMA Moves ==
    ASSUME used \in Nat, used' \in Nat, used <= used', used' < SeqMod,
           NEW a \in 0 .. used, NEW c \in a .. used',
           tcb.ackThem = Plus(IssMe, a), tcb'.ackThem = Plus(IssMe, c)
    PROVE  AckStep
<1>1. a \in Nat /\ c \in Nat /\ a < SeqMod /\ c < SeqMod
    BY SeqModType
<1>2. Minus(Plus(IssMe, a), IssMe) = a /\ Minus(Plus(IssMe, c), IssMe) = c
    BY <1>1, FromBase
<1> QED
    BY <1>2 DEF AckStep

LEMMA WindowInit == Init => Window
BY DEF Init, Window, NoTcb

LEMMA AckInRecvWindow ==
    ASSUME IndInv, Window, InSpace,
           AckInRecv \/ AckOfAll \/ AckOfPart \/ AckInFinWait1
    PROVE  Window' /\ AckStep
<1>1. Call("ACK") /\ tcb.live /\ tcb \in Tcbs /\ used \in Nat
    BY Called, Found DEF AckInRecv, AckOfAll, AckOfPart, AckInFinWait1
<1>2. PICK a \in 0 .. used : tcb.ackThem = Plus(IssMe, a)
    BY <1>1 DEF Window
<1>3. PICK b \in 0 .. used : Arg.ackno = Plus(IssMe, b)
    BY <1>1, Called
<1>4. tcb.seqMe = Plus(IssMe, used)
    BY <1>1 DEF Window
<1>5. PICK c \in a .. used : AckThem(Arg.ackno) = Plus(IssMe, c)
    BY <1>1, <1>2, <1>3, <1>4, AckThemForward
<1>6. used' = used
    BY DEF AckInRecv, AckOfAll, AckOfPart, AckInFinWait1
<1>7. CASE AckInRecv
    <2>1. /\ tcb'.live /\ tcb'.seqMe = tcb.seqMe /\ tcb'.ackThem = Plus(IssMe, c)
          /\ tcb'.state = "ESTABLISHED_RECV" /\ tcb.state = "ESTABLISHED_RECV"
          /\ tcb'.app = tcb.app
        BY <1>1, <1>5, <1>7 DEF AckInRecv, Tcbs
    <2>2. tcb'.app = "ReceiveHello" => tcb'.ackThem = tcb'.seqMe
        <3> SUFFICES ASSUME tcb'.app = "ReceiveHello" PROVE tcb'.ackThem = tcb'.seqMe
            OBVIOUS
        <3>1. tcb.ackThem = Plus(IssMe, used)
            BY <1>1, <1>4, <2>1 DEF Window
        <3>2. ~GoodAck(Plus(IssMe, b))
            BY <1>1, <1>4, <3>1, GoodAckForward
        <3>3. AckThem(Arg.ackno) = tcb.ackThem
            BY <1>3, <3>2 DEF AckThem
        <3> QED
            BY <1>4, <1>5, <2>1, <3>1, <3>3
    <2>3. Window'
        BY <1>1, <1>4, <1>5, <1>6, <2>1, <2>2 DEF Window, RetransmitInBounds
    <2>4. AckStep
        BY <1>1, <1>2, <1>5, <1>6, <2>1, Moves DEF InSpace
    <2> QED
        BY <2>3, <2>4
<1>8. CASE AckOfAll
    <2>1. /\ tcb'.live /\ tcb'.seqMe = tcb.seqMe /\ tcb'.ackThem = tcb.seqMe
          /\ tcb'.state = "ESTABLISHED_RECV"
        BY <1>1, <1>8 DEF AckOfAll, Tcbs
    <2>2. Window'
        BY <1>1, <1>4, <1>6, <2>1 DEF Window, RetransmitInBounds
    <2>3. AckStep
        BY <1>1, <1>2, <1>4, <1>6, <2>1, Moves DEF InSpace
    <2> QED
        BY <2>2, <2>3
<1>9. CASE AckOfPart
    <2>1. /\ tcb'.live /\ tcb'.seqMe = tcb.seqMe /\ tcb'.ackThem = Plus(IssMe, c)
          /\ tcb'.state = "ESTABLISHED_SEND" /\ tcb.state = "ESTABLISHED_SEND"
          /\ tcb'.pay = tcb.pay
        BY <1>1, <1>5, <1>9 DEF AckOfPart, Tcbs
    <2>2. Unacked = used - a
        BY <1>1, <1>2, <1>4, UnackedIs
    <2>3. Unacked' = used - c
        <3>1. Minus(Plus(IssMe, used), Plus(IssMe, c)) = used - c
            BY <1>1, <1>5, Ahead, Constants, SeqModType DEF InSpace
        <3> QED
            BY <1>4, <2>1, <3>1 DEF Unacked
    <2>4. RetransmitInBounds'
        <3> SUFFICES ASSUME tcb.pay # Null PROVE Unacked' <= tcb'.pay.len
            BY <2>1 DEF RetransmitInBounds
        <3>1. PICK n \in Nat : n = tcb.pay.len
            BY <1>1 DEF Tcbs
        <3>2. Unacked <= n
            BY <1>1, <2>1, <3>1 DEF Window, RetransmitInBounds
        <3> QED
            BY <1>1, <2>1, <2>2, <2>3, <3>1, <3>2
    <2>5. Window'
        BY <1>1, <1>4, <1>5, <1>6, <2>1, <2>4 DEF Window
    <2>6. AckStep
        BY <1>1, <1>2, <1>5, <1>6, <2>1, Moves DEF InSpace
    <2> QED
        BY <2>5, <2>6
<1>10. CASE AckInFinWait1
    <2>1. /\ tcb'.live /\ tcb'.seqMe = tcb.seqMe /\ tcb'.ackThem = Plus(IssMe, c)
          /\ tcb'.state \in {"FIN_WAIT1", "FIN_WAIT2"}
        BY <1>1, <1>5, <1>10 DEF AckInFinWait1, AckThem, Tcbs
    <2>2. Window'
        BY <1>1, <1>4, <1>5, <1>6, <2>1 DEF Window, RetransmitInBounds
    <2>3. AckStep
        BY <1>1, <1>2, <1>5, <1>6, <2>1, Moves DEF InSpace
    <2> QED
        BY <2>2, <2>3
<1> QED
    BY <1>7, <1>8, <1>9, <1>10

LEMMA DataDeliveredWindow ==
    ASSUME IndInv, Window, InSpace, InSpace',
           NEW reply \in BOOLEAN, NEW dynamic \in BOOLEAN, NEW closing \in BOOLEAN,
           DataDelivered(reply, dynamic, closing)
    PROVE  Window' /\ AckStep
<1>1. Call("DATA") /\ tcb.live /\ tcb \in Tcbs /\ used \in Nat /\ Established
    BY Called, Found DEF DataDelivered
<1>2. PICK a \in 0 .. used : tcb.ackThem = Plus(IssMe, a)
    BY <1>1 DEF Window
<1>3. tcb.seqMe = Plus(IssMe, used)
    BY <1>1 DEF Window
<1>4. PICK r \in Nat, c \in Nat : /\ r = IF reply THEN ReplyLen ELSE 0
                                 /\ c = IF closing THEN 1 ELSE 0
    BY Constants
<1>5. used' = used + r + c
    BY <1>4 DEF DataDelivered
<1>6. tcb'.seqMe = Plus(IssMe, used')
    <2>1. IssMe \in Int /\ ReplyLen \in Nat
        BY Constants
    <2>2. PICK m : m = IF reply THEN Plus(tcb.seqMe, ReplyLen) ELSE tcb.seqMe
        OBVIOUS
    <2>3. m = Plus(IssMe, used + r)
        <3>1. CASE reply
            BY <1>1, <1>3, <1>4, <2>1, <2>2, <3>1, PlusPlus
        <3>2. CASE ~reply
            <4>1. used + r = used
                BY <1>1, <1>4, <3>2
            <4> QED
                BY <1>3, <2>2, <3>2, <4>1
        <3> QED
            BY <3>1, <3>2
    <2>4. tcb'.seqMe = IF closing THEN Plus(m, 1) ELSE m
        BY <2>2, DeliveredTcb
    <2>5. CASE closing
        <3>1. used + r \in Int /\ used' = (used + r) + 1
            BY <1>1, <1>4, <1>5, <2>5
        <3> QED
            BY <2>1, <2>3, <2>4, <2>5, <3>1, PlusPlus
    <2>6. CASE ~closing
        <3>1. used' = used + r
            BY <1>1, <1>4, <1>5, <2>6
        <3> QED
            BY <2>3, <2>4, <2>6, <3>1
    <2> QED
        BY <2>5, <2>6
<1>7. used' \in Nat /\ used <= used'
    BY <1>1, <1>4, <1>5
<1>8. /\ tcb'.live /\ tcb'.ackThem = Plus(IssMe, a) /\ tcb'.pay = Null
      /\ tcb'.app # "ReceiveHello" /\ tcb'.state # "SYN_SENT"
    BY <1>1, <1>2, DeliveredTcb DEF Established
<1>9. Window'
    <2>1. a \in 0 .. used'
        BY <1>1, <1>7
    <2> QED
        BY <1>6, <1>8, <2>1 DEF Window, RetransmitInBounds
<1>10. AckStep
    <2>1. a \in a .. used'
        BY <1>1, <1>7
    <2> QED
        BY <1>1, <1>2, <1>7, <1>8, <2>1, Moves DEF InSpace
<1> QED
    BY <1>9, <1>10

LEMMA FinInRecvWindow ==
    ASSUME IndInv, Window, InSpace, InSpace', FinInRecv
    PROVE  Window' /\ AckStep
<1>1. Call("FIN") /\ tcb.live /\ tcb \in Tcbs /\ used \in Nat
    BY Called, Found DEF FinInRecv
<1>2. PICK a \in 0 .. used : tcb.ackThem = Plus(IssMe, a)
    BY <1>1 DEF Window
<1>3. used' = used + 1
    BY DEF FinInRecv
<1>4. PICK q : q = Plus(tcb.seqMe, 1)
    OBVIOUS
<1>5. q = Plus(IssMe, used')
    <2>1. tcb.seqMe = Plus(IssMe, used) /\ IssMe \in Int
        BY <1>1, Constants DEF Window
    <2> QED
        BY <1>1, <1>3, <1>4, <2>1, PlusPlus
<1>6. /\ tcb'.live /\ tcb'.seqMe = q /\ tcb'.ackThem = tcb.ackThem
      /\ tcb'.state = "LAST_ACK"
    BY <1>1, <1>4 DEF FinInRecv, SendingNone, Sending, Tcbs
<1>7. Window'
    BY <1>1, <1>2, <1>3, <1>5, <1>6 DEF Window, RetransmitInBounds
<1>8. AckStep
    BY <1>1, <1>2, <1>3, <1>6, Moves DEF InSpace
<1> QED
    BY <1>7, <1>8

LEMMA TimeoutInRecvWindow ==
    ASSUME IndInv, Window, InSpace, InSpace', TimeoutInRecv, tcb' # tcb,
           tcb.app = "ReceiveHello", HelloLen # 0
    PROVE  Window' /\ AckStep
<1>1. /\ Call("TIMEOUT") /\ tcb.live /\ tcb \in Tcbs /\ used \in Nat
      /\ tcb.state = "ESTABLISHED_RECV" /\ HelloLen \in Nat /\ IssMe \in Int
    BY Called, Found, Constants DEF TimeoutInRecv
<1>2. tcb.seqMe = Plus(IssMe, used) /\ tcb.ackThem = Plus(IssMe, used)
    BY <1>1 DEF Window
<1>3. used' = used + HelloLen
    BY DEF TimeoutInRecv
<1>4. PICK q : q = Plus(tcb.seqMe, HelloLen)
    OBVIOUS
<1>5. q = Plus(IssMe, used')
    BY <1>1, <1>2, <1>3, <1>4, PlusPlus
<1>6. /\ tcb'.live /\ tcb'.seqMe = q /\ tcb'.ackThem = tcb.ackThem
      /\ tcb'.state = "ESTABLISHED_SEND" /\ tcb'.pay.len = HelloLen
    <2>1. tcb' = [tcb EXCEPT !.pay = [what |-> "hello", len |-> HelloLen],
                             !.seqMe = q, !.dynamic = FALSE,
                             !.state = "ESTABLISHED_SEND", !.timer = T1]
        BY <1>1, <1>4 DEF TimeoutInRecv, Sending, Tcbs
    <2> QED
        BY <1>1, <2>1 DEF Tcbs
<1>7. Minus(Plus(IssMe, used'), Plus(IssMe, used)) = HelloLen
    <2>1. used' \in Nat /\ used <= used' /\ used' - used = HelloLen /\ HelloLen < SeqMod
        BY <1>1, <1>3, SeqModType DEF InSpace
    <2> QED
        BY <1>1, <2>1, Ahead
<1>8. RetransmitInBounds'
    BY <1>1, <1>2, <1>5, <1>6, <1>7 DEF RetransmitInBounds, Unacked
<1>9. Window'
    BY <1>1, <1>2, <1>3, <1>5, <1>6, <1>8 DEF Window
<1>10. AckStep
    <2>1. used \in used .. used' /\ used \in 0 .. used
        BY <1>1, <1>3
    <2> QED
        BY <1>1, <1>2, <1>3, <1>6, <2>1, Moves DEF InSpace
<1> QED
    BY <1>9, <1>10

\* Steps that leave the window where it is, or the connection.
Still ==
    tcb'.live =>
        /\ tcb.live
        /\ used' = used /\ tcb'.seqMe = tcb.seqMe /\ tcb'.ackThem = tcb.ackThem
        /\ \/ tcb'.state = "SYN_SENT"
           \/ tcb'.state = "ESTABLISHED_RECV" /\ tcb'.app = "ReceiveHello"
           => \/ tcb.state = "SYN_SENT"
              \/ tcb.state = "ESTABLISHED_RECV" /\ tcb.app = "ReceiveHello"
        /\ RetransmitInBounds'

LEMMA StillWindow ==
    ASSUME IndInv, Window, InSpace, Still
    PROVE  Window' /\ AckStep
<1>1. CASE ~tcb'.live
    BY <1>1 DEF Window, AckStep
<1>2. CASE tcb'.live
    <2>1. PICK a \in 0 .. used : tcb.ackThem = Plus(IssMe, a)
        BY <1>2 DEF Window, Still
    <2>2. Window'
        BY <1>2, <2>1 DEF Window, Still
    <2>3. a \in a .. used' /\ used \in Nat /\ used' = used /\ tcb'.ackThem = Plus(IssMe, a)
        BY <1>2, <2>1, Found DEF Still
    <2>4. AckStep
        BY <2>1, <2>3, Moves DEF InSpace
    <2> QED
        BY <2>2, <2>4
<1> QED
    BY <1>1, <1>2

\* And of those, steps that leave the payload too, or forget it.
LEMMA PayloadKept ==
    ASSUME Window, tcb'.live => tcb.live, tcb'.seqMe = tcb.seqMe, tcb'.ackThem = tcb.ackThem,
           \/ tcb'.pay = Null
           \/ tcb'.state # "ESTABLISHED_SEND"
           \/ tcb'.pay = tcb.pay /\ tcb.state = "ESTABLISHED_SEND"
    PROVE  RetransmitInBounds'
BY DEF Window, RetransmitInBounds, Unacked

LEMMA WindowStep ==
    IndInv /\ Window /\ InSpace /\ InSpace' /\ [Next]_vars => Window' /\ AckStep
<1> SUFFICES ASSUME IndInv, Window, InSpace, InSpace', [Next]_vars
             PROVE  Window' /\ AckStep
    OBVIOUS
<1>1. CASE SynAckArrives
    <2>1. CASE tcb.live
        <3>1. UNCHANGED <<tcb, used>>
            BY <1>1, <2>1 DEF SynAckArrives
        <3> QED
            BY <3>1, StillWindow DEF Still, Window, RetransmitInBounds, Unacked
    <2>2. CASE ~tcb.live
        <3>1. /\ tcb'.seqMe = IssMe /\ tcb'.ackThem = IssMe /\ tcb'.pay = Null
              /\ used' = 0
            BY <1>1, <2>2 DEF SynAckArrives, NewTcb, NoTcb
        <3>2. Plus(IssMe, 0) = IssMe
            BY PlusZero, Constants
        <3> QED
            BY <2>2, <3>1, <3>2 DEF Window, RetransmitInBounds, AckStep
    <2> QED
        BY <2>1, <2>2
<1>2. CASE \/ \E pos, len \in 0 .. PeerBytes, last \in {"none", "FIN", "RST"},
                 ack \in 0 .. used : SegmentArrives(pos, len, last, ack)
           \/ Ignored \/ UNCHANGED vars
    <2>1. UNCHANGED <<tcb, used>>
        BY <1>2 DEF SegmentArrives, Ignored, vars
    <2> QED
        BY <2>1, StillWindow DEF Still, Window, RetransmitInBounds, Unacked
<1>3. CASE TimerFires \/ Relink \/ Tick
    <2>1. /\ tcb'.live = tcb.live /\ tcb'.seqMe = tcb.seqMe /\ tcb'.ackThem = tcb.ackThem
          /\ tcb'.state = tcb.state /\ tcb'.app = tcb.app /\ tcb'.pay = tcb.pay
          /\ used' = used
        BY <1>3, Found DEF TimerFires, Relink, Tick, Tcbs
    <2> QED
        BY <2>1, PayloadKept, StillWindow DEF Still
<1>4. CASE SynAck
    <2>1. /\ tcb'.live = tcb.live /\ tcb'.seqMe = tcb.seqMe /\ tcb'.ackThem = tcb.ackThem
          /\ (tcb'.state = tcb.state /\ tcb'.app = tcb.app) \/ tcb.state = "SYN_SENT"
          /\ tcb'.pay = Null /\ used' = used
        BY <1>4, Found DEF SynAck, SendingNone, Sending, Established, Tcbs
    <2> QED
        BY <2>1, PayloadKept, StillWindow DEF Still
<1>5. CASE AckInRecv \/ AckOfAll \/ AckOfPart \/ AckInFinWait1
    BY <1>5, AckInRecvWindow
<1>6. CASE DataUseless \/ DataWhileSending
    <2>1. /\ tcb'.live = tcb.live /\ tcb'.seqMe = tcb.seqMe /\ tcb'.ackThem = tcb.ackThem
          /\ tcb'.state = tcb.state /\ tcb'.app = tcb.app
          /\ tcb'.pay = Null /\ used' = used
        BY <1>6, Found DEF DataUseless, DataWhileSending, SendingNone, Sending, Tcbs
    <2> QED
        BY <2>1, PayloadKept, StillWindow DEF Still
<1>7. CASE \E reply, dynamic, closing \in BOOLEAN : DataDelivered(reply, dynamic, closing)
    BY <1>7, DataDeliveredWindow
<1>8. CASE FinInRecv
    BY <1>8, FinInRecvWindow
<1>9. CASE FinInFinWait2 \/ TimeoutInFinWait1
    <2>1. /\ tcb'.live = tcb.live /\ tcb'.seqMe = tcb.seqMe /\ tcb'.ackThem = tcb.ackThem
          /\ tcb'.state \in {"TIME_WAIT", "FIN_WAIT1"} /\ tcb'.pay = Null /\ used' = used
        BY <1>9, Found DEF FinInFinWait2, TimeoutInFinWait1, SendingNone, Sending, Tcbs
    <2> QED
        BY <2>1, PayloadKept, StillWindow DEF Still
<1>10. CASE Rst \/ TimeoutDestroys
    <2>1. ~tcb'.live
        BY <1>10 DEF Rst, TimeoutDestroys, Destroy, NoTcb
    <2> QED
        BY <2>1, StillWindow DEF Still
<1>11. CASE TimeoutInRecv
    <2>1. CASE tcb' # tcb /\ tcb.app = "ReceiveHello" /\ HelloLen # 0
        BY <1>11, <2>1, TimeoutInRecvWindow
    <2>2. CASE ~(tcb.app = "ReceiveHello" /\ HelloLen # 0)
        <3>1. /\ tcb'.live = tcb.live /\ tcb'.seqMe = tcb.seqMe /\ tcb'.ackThem = tcb.ackThem
              /\ tcb'.state = tcb.state /\ tcb'.app = tcb.app
              /\ tcb'.pay = tcb.pay /\ used' = used
            BY <1>11, <2>2, Found DEF TimeoutInRecv, Tcbs
        <3> QED
            BY <3>1, PayloadKept, StillWindow DEF Still
    <2>3. tcb.app = "ReceiveHello" /\ HelloLen # 0 => tcb' # tcb
        BY <1>11, Found DEF TimeoutInRecv, Sending, Tcbs
    <2> QED
        BY <2>1, <2>2, <2>3
<1>12. CASE TimeoutInSend
    <2>1. /\ tcb'.live = tcb.live /\ tcb'.seqMe = tcb.seqMe /\ tcb'.ackThem = tcb.ackThem
          /\ tcb'.state = tcb.state /\ tcb'.state = "ESTABLISHED_SEND"
          /\ tcb'.pay = Null \/ tcb'.pay.len = Unacked
          /\ used' = used
        BY <1>12, Found DEF TimeoutInSend, Tcbs
    <2>2. Unacked' = Unacked /\ Unacked \in Nat
        BY <2>1, UnackedType DEF Unacked
    <2>3. RetransmitInBounds'
        BY <2>1, <2>2 DEF RetransmitInBounds
    <2> QED
        BY <2>1, <2>3, StillWindow DEF Still
<1> QED
    BY <1>1, <1>2, <1>3, <1>4, <1>5, <1>6, <1>7, <1>8, <1>9, <1>10, <1>11, <1>12
       DEF Next, Quiet, TcpconHandle

LEMMA WindowAlways == Spec /\ []InSpace => []Window
BY Invariance, WindowInit, WindowStep, PTL DEF Spec

\* A retransmission stays inside the payload it repeats (proto-tcp.c:1403-
\* 1430), in every order of partial acknowledgments, repeated hellos and
\* earlier retransmissions, in a connection that sends less than SeqMod.
THEOREM ResendsInBounds == Spec /\ []InSpace => []RetransmitInBounds
<1>1. IndInv /\ Window => RetransmitInBounds
    BY DEF Window, RetransmitInBounds
<1> QED
    BY <1>1, Invariance, WindowAlways, PTL

\* The two windows of handle_ack (proto-tcp.c:1022-1070) never take an old
\* acknowledgment for a new one, across the wrap: ackno_them goes forward, and
\* no further than what has been sent.
THEOREM AcksGoForward == Spec /\ []InSpace => AckNeverBack
<1>1. /\ IndInv /\ Window /\ InSpace /\ InSpace' /\ [Next]_vars
      => [tcb.live /\ tcb'.live
            => /\ Minus(tcb.ackThem, IssMe) <= Minus(tcb'.ackThem, IssMe)
               /\ Minus(tcb'.ackThem, IssMe) <= used']_vars
    BY WindowStep DEF AckStep
<1> QED
    BY <1>1, Invariance, WindowAlways, PTL DEF Spec, AckNeverBack
=============================================================================
