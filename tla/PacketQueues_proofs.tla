------------------------ MODULE PacketQueues_proofs ------------------------
(***************************************************************************)
(* Proofs about the pool of packet buffers, for every number of buffers,   *)
(* responses, packets and batches: no buffer is lost or in two hands, and  *)
(* neither ring is ever full when one of the two threads enqueues.         *)
(***************************************************************************)
EXTENDS PacketQueues, SequenceTheorems, FiniteSetTheorems, TLAPS

----------------------------------------------------------------------------
(* Facts about the elements of a sequence. *)

(* The elements of a sequence are those at its positions. *)
LEMMA Elements ==
    ASSUME NEW S, NEW s \in Seq(S)
    PROVE  /\ ToSet(s) = {s[i] : i \in 1 .. Len(s)}
           /\ ToSet(s) \subseteq S
BY DEF ToSet

(* An empty sequence has no elements. *)
LEMMA NoElements == ToSet(<< >>) = {} /\ Len(<< >>) = 0
BY DEF ToSet

(* A concatenation has the elements of both its parts. *)
LEMMA ConcatElements ==
    ASSUME NEW S, NEW s \in Seq(S), NEW t \in Seq(S)
    PROVE  /\ s \o t \in Seq(S)
           /\ Len(s \o t) = Len(s) + Len(t)
           /\ ToSet(s \o t) = ToSet(s) \cup ToSet(t)
<1>1. /\ s \o t \in Seq(S) /\ Len(s \o t) = Len(s) + Len(t)
      /\ \A i \in 1 .. Len(s) + Len(t) :
            (s \o t)[i] = IF i <= Len(s) THEN s[i] ELSE t[i - Len(s)]
  BY ConcatProperties, Zenon
<1> DEFINE u == s \o t
<1>0. ToSet(u) = {u[i] : i \in 1 .. Len(s) + Len(t)}
  BY <1>1, Elements, Zenon
<1>2. ToSet(s \o t) \subseteq ToSet(s) \cup ToSet(t)
  <2>1. ASSUME NEW i \in 1 .. Len(s) + Len(t)
        PROVE  (s \o t)[i] \in ToSet(s) \cup ToSet(t)
    <3>1. CASE i <= Len(s)
      BY <1>1, <3>1, Elements
    <3>2. CASE ~(i <= Len(s))
      <4>1. i - Len(s) \in 1 .. Len(t)
        BY <3>2
      <4>2. QED
        BY <1>1, <3>2, <4>1, Elements
    <3>3. QED
      BY <3>1, <3>2
  <2>2. QED
    BY <1>0, <2>1
<1>3. ASSUME NEW i \in 1 .. Len(s)
      PROVE  s[i] \in ToSet(s \o t)
  <2>1. i \in 1 .. Len(s) + Len(t) /\ (s \o t)[i] = s[i]
    BY <1>1
  <2>2. QED
    BY <1>0, <2>1
<1>4. ASSUME NEW i \in 1 .. Len(t)
      PROVE  t[i] \in ToSet(s \o t)
  <2> DEFINE k == i + Len(s)
  <2>1. k \in 1 .. Len(s) + Len(t) /\ ~(k <= Len(s)) /\ k - Len(s) = i
    OBVIOUS
  <2>2. (s \o t)[k] = t[i]
    BY <1>1, <2>1
  <2>3. QED
    BY <1>0, <2>1, <2>2
<1>5. ToSet(s) \cup ToSet(t) \subseteq ToSet(s \o t)
  BY <1>3, <1>4, Elements
<1>6. QED
  BY <1>1, <1>2, <1>5

(* Taking the first object off a queue splits its elements. *)
LEMMA TakeFirst ==
    ASSUME NEW S, NEW q \in Seq(S), q # << >>
    PROVE  /\ SubSeq(q, 1, 1) \in Seq(S) /\ Len(SubSeq(q, 1, 1)) = 1
           /\ SubSeq(q, 2, Len(q)) \in Seq(S)
           /\ Len(SubSeq(q, 2, Len(q))) = Len(q) - 1
           /\ ToSet(SubSeq(q, 1, 1)) \cup ToSet(SubSeq(q, 2, Len(q))) = ToSet(q)
<1> DEFINE first == SubSeq(q, 1, 1)
           rest == SubSeq(q, 2, Len(q))
<1>1. Len(q) \in Nat /\ Len(q) >= 1
  BY EmptySeq
<1>2. \A i \in 1 .. Len(q) : q[i] \in S
  BY ElementOfSeq
<1>3. first \in Seq(S) /\ Len(first) = 1 /\ first[1] = q[1]
  <2>1. \A i \in 1 .. 1 : q[i] \in S
    BY <1>1, <1>2
  <2>2. QED
    BY <2>1, SubSeqProperties
<1>4. /\ rest \in Seq(S) /\ Len(rest) = Len(q) - 1
      /\ \A i \in 1 .. (Len(q) - 1) : rest[i] = q[i + 1]
  <2>1. \A i \in 2 .. Len(q) : q[i] \in S
    BY <1>1, <1>2
  <2>2. PICK n \in Nat : n = Len(q) /\ n >= 1
    BY <1>1
  <2>3. /\ SubSeq(q, 2, n) \in Seq(S) /\ Len(SubSeq(q, 2, n)) = n - 1
        /\ \A i \in 1 .. (n - 1) : SubSeq(q, 2, n)[i] = q[i + 1]
    BY <2>1, <2>2, SubSeqProperties
  <2>4. QED
    BY <2>2, <2>3
<1> HIDE DEF first, rest
<1>5. ToSet(first) \cup ToSet(rest) \subseteq ToSet(q)
  <2>1. ToSet(first) = {q[1]}
    <3>1. ToSet(first) = {first[i] : i \in 1 .. 1}
      BY <1>3, Elements
    <3>2. 1 .. 1 = {1}
      OBVIOUS
    <3>3. QED
      BY <1>3, <3>1, <3>2
  <2>2. ASSUME NEW i \in 1 .. (Len(q) - 1)
        PROVE  rest[i] \in ToSet(q)
    <3>1. i + 1 \in 1 .. Len(q)
      BY <1>1
    <3>2. QED
      BY <1>4, <3>1, Elements
  <2>3. QED
    BY <1>1, <1>4, <2>1, <2>2, Elements
<1>6. ASSUME NEW i \in 1 .. Len(q)
      PROVE  q[i] \in ToSet(first) \cup ToSet(rest)
  <2>1. CASE i = 1
    BY SMTT(40), <1>3, <2>1, Elements
  <2>2. CASE i # 1
    <3>1. i - 1 \in 1 .. Len(rest) /\ (i - 1) + 1 = i
      BY <1>1, <1>4, <2>2
    <3>2. rest[i - 1] = q[i]
      BY <1>4, <3>1
    <3>3. QED
      BY <1>4, <3>1, <3>2, Elements
  <2>3. QED
    BY <2>1, <2>2
<1>7. QED
  BY <1>3, <1>4, <1>5, <1>6, Elements DEF first, rest

(* A sequence has no more elements than positions. *)
LEMMA FewElements ==
    ASSUME NEW S, NEW s \in Seq(S)
    PROVE  /\ IsFiniteSet(ToSet(s))
           /\ Cardinality(ToSet(s)) \in 0 .. Len(s)
<1>1. Len(s) \in Nat /\ DOMAIN s = 1 .. Len(s)
  BY LenProperties
<1>2. IsFiniteSet(1 .. Len(s)) /\ Cardinality(1 .. Len(s)) = Len(s)
  BY <1>1, FS_Interval
<1>3. s \in Surjection(1 .. Len(s), ToSet(s))
  BY <1>1, Elements DEF Surjection
<1>4. IsFiniteSet(ToSet(s)) /\ Cardinality(ToSet(s)) <= Len(s)
  BY <1>2, <1>3, FS_Surjection
<1>5. QED
  BY <1>1, <1>4, FS_CardinalityType

(* A sequence adds to a set at most as many elements as it has positions. *)
LEMMA JoinBound ==
    ASSUME NEW S, NEW s \in Seq(S), NEW A, NEW n \in Nat,
           IsFiniteSet(A), Cardinality(A) <= n
    PROVE  /\ IsFiniteSet(A \cup ToSet(s))
           /\ Cardinality(A \cup ToSet(s)) <= n + Len(s)
           /\ n + Len(s) \in Nat
<1>1. IsFiniteSet(ToSet(s)) /\ Cardinality(ToSet(s)) \in 0 .. Len(s)
  BY FewElements
<1>2. /\ IsFiniteSet(A \cup ToSet(s))
      /\ Cardinality(A \cup ToSet(s)) =
            Cardinality(A) + Cardinality(ToSet(s)) - Cardinality(A \cap ToSet(s))
  BY <1>1, FS_Union
<1>3. Cardinality(A \cap ToSet(s)) \in Nat /\ Cardinality(A) \in Nat
  <2>1. IsFiniteSet(A \cap ToSet(s))
    BY <1>1, FS_Intersection
  <2>2. QED
    BY <2>1, FS_CardinalityType
<1>4. Len(s) \in Nat
  OBVIOUS
<1>5. QED
  BY <1>1, <1>2, <1>3, <1>4

(* A finite set and the sequence made of it. *)
LEMMA SetAsSequence ==
    ASSUME NEW S, IsFiniteSet(S)
    PROVE  /\ SetToSeq(S) \in Seq(S)
           /\ Len(SetToSeq(S)) = Cardinality(S)
           /\ ToSet(SetToSeq(S)) = S
<1> DEFINE n == Cardinality(S)
           f == SetToSeq(S)
<1>1. n \in Nat /\ ExistsBijection(1 .. n, S)
  BY FS_CardinalityType
<1>2. PICK g : g \in Bijection(1 .. n, S)
  BY <1>1 DEF ExistsBijection
<1>3. g \in [1 .. n -> S] /\ IsInjective(g)
  BY <1>2 DEF Bijection, Injection, IsInjective
<1>4. f \in [1 .. n -> S] /\ IsInjective(f)
  BY <1>3 DEF SetToSeq
<1>5. f \in Seq(S) /\ Len(f) = n
  BY <1>1, <1>4
<1>6. f \in Injection(1 .. n, S)
  BY <1>4 DEF IsInjective, Injection
<1>7. f \in Surjection(1 .. n, S)
  <2>1. IsFiniteSet(1 .. n) /\ Cardinality(1 .. n) = n
    BY <1>1, FS_Interval
  <2>2. QED
    BY <1>6, <2>1, FS_Injection
<1>8. ToSet(f) = S
  <2>1. ToSet(f) = {f[i] : i \in 1 .. n}
    BY <1>5, Elements
  <2>2. QED
    BY <1>4, <1>7, <2>1 DEF Surjection
<1>9. QED
  BY <1>5, <1>8

----------------------------------------------------------------------------
(* The inductive invariant. *)

\* The types of the two threads' locals, as TypeOK has them.
RxType ==
    rx \in [pc : {"receive", "get", "format", "put", "drain", "free", "done"},
           todo : (0 .. MaxResponses) \cup {1}, buf : Seq(Buffers), arp : ArpLinks \cup {"none"}]
TxType ==
    tx \in [pc : {"throttle", "flush", "send", "return", "test", "done"},
           scanning : BOOLEAN, batch : 0 .. MaxBatch, k : 0 .. FlushRounds,
           buf : Seq(Buffers)]

FreeHand == freeHeld[RxThread]
SendHand == sendHeld[TxThread]
RxBuf == rx.buf
TxBuf == tx.buf

\* The buffers in all the places a buffer can be in, counted and collected.
Total ==
    Len(freeQ) + Len(FreeHand) + Len(RxBuf) + Len(sendQ) + Len(SendHand)
      + Len(TxBuf) + Cardinality(freed)
Content ==
    ToSet(freeQ) \cup ToSet(FreeHand) \cup ToSet(RxBuf) \cup ToSet(sendQ)
      \cup ToSet(SendHand) \cup ToSet(TxBuf) \cup freed

\* The places hold as many buffers as there are, and all of them: hence each
\* exactly once.
Conserved == Total = Capacity /\ Content = Buffers

\* Where a thread stands tells how many buffers it has in its hands, and the
\* room that is claimed in a ring is that of the buffer being taken out.
InHands ==
    /\ Len(FreeHand) = IF rx.pc \in {"format", "free"} THEN 1 ELSE 0
    /\ Len(RxBuf) = IF rx.pc = "put" THEN 1 ELSE 0
    /\ Len(SendHand) = IF tx.pc = "send" THEN 1 ELSE 0
    /\ Len(TxBuf) = IF tx.pc = "return" THEN 1 ELSE 0
    /\ freeClaimed = Len(FreeHand) /\ sendClaimed = Len(SendHand)

\* A response is owed while one is being sent; a batch is not overdrawn; the
\* rounds between two looks at is_rx_done are counted from 0.
Counted ==
    /\ rx.pc \in {"get", "format", "put"} => rx.todo >= 1
    /\ tx.pc \in {"send", "return"} => tx.batch >= 1
    /\ tx.pc # "test" => tx.k < FlushRounds

\* Whatever arrives, the places never hold more buffers than there are.
IndInv == TypeOK /\ Total <= Capacity /\ InHands /\ Counted

(* The constants, as the provers need them. *)
LEMMA Constants ==
    /\ Capacity \in Nat /\ Capacity >= 1 /\ FlushRounds \in Nat /\ FlushRounds >= 1
    /\ MaxResponses \in Nat /\ MaxPackets \in Nat /\ MaxBatch \in Nat
    /\ IsFiniteSet(Buffers) /\ Cardinality(Buffers) = Capacity
BY PacketQueuesAssumption DEF PacketQueuesAssumption

(* The lengths and the count the invariant is about are numbers. *)
LEMMA Sizes ==
    ASSUME TypeOK
    PROVE  /\ Len(freeQ) \in Nat /\ Len(sendQ) \in Nat
           /\ FreeHand \in Seq(Buffers) /\ Len(FreeHand) \in Nat
           /\ SendHand \in Seq(Buffers) /\ Len(SendHand) \in Nat
           /\ RxBuf \in Seq(Buffers) /\ Len(RxBuf) \in Nat
           /\ TxBuf \in Seq(Buffers) /\ Len(TxBuf) \in Nat
           /\ IsFiniteSet(freed) /\ Cardinality(freed) \in Nat
<1>1. freed \in SUBSET Buffers
  BY DEF TypeOK
<1>2. IsFiniteSet(freed)
  BY <1>1, Constants, FS_Subset
<1>3. Cardinality(freed) \in Nat
  BY <1>2, FS_CardinalityType
<1>4. QED
  BY <1>2, <1>3 DEF TypeOK, FreeHand, SendHand, RxBuf, TxBuf

(* If every buffer is in some place the places hold at least that many. *)
LEMMA ContentCounted ==
    TypeOK /\ Content = Buffers => Capacity <= Total
<1> SUFFICES ASSUME TypeOK, Content = Buffers PROVE Capacity <= Total
  OBVIOUS
<1> DEFINE A == ToSet(freeQ)
           B == A \cup ToSet(FreeHand)
           C == B \cup ToSet(RxBuf)
           D == C \cup ToSet(sendQ)
           E == D \cup ToSet(SendHand)
           F == E \cup ToSet(TxBuf)
           nA == Len(freeQ)
           nB == nA + Len(FreeHand)
           nC == nB + Len(RxBuf)
           nD == nC + Len(sendQ)
           nE == nD + Len(SendHand)
           nF == nE + Len(TxBuf)
<1>1. /\ freeQ \in Seq(Buffers) /\ sendQ \in Seq(Buffers)
      /\ FreeHand \in Seq(Buffers) /\ SendHand \in Seq(Buffers)
      /\ RxBuf \in Seq(Buffers) /\ TxBuf \in Seq(Buffers)
      /\ IsFiniteSet(freed) /\ Cardinality(freed) \in Nat
  BY Sizes DEF TypeOK
<1>2. Content = F \cup freed /\ Total = nF + Cardinality(freed)
  BY DEF Content, Total
<1>3. IsFiniteSet(A) /\ nA \in Nat /\ Cardinality(A) <= nA
  BY <1>1, FewElements
<1>4. IsFiniteSet(B) /\ nB \in Nat /\ Cardinality(B) <= nB
  <2> HIDE DEF A, nA
  <2>1. QED
    BY <1>1, <1>3, JoinBound
<1>5. IsFiniteSet(C) /\ nC \in Nat /\ Cardinality(C) <= nC
  <2> HIDE DEF B, nB
  <2>1. QED
    BY <1>1, <1>4, JoinBound
<1>6. IsFiniteSet(D) /\ nD \in Nat /\ Cardinality(D) <= nD
  <2> HIDE DEF C, nC
  <2>1. QED
    BY <1>1, <1>5, JoinBound
<1>7. IsFiniteSet(E) /\ nE \in Nat /\ Cardinality(E) <= nE
  <2> HIDE DEF D, nD
  <2>1. QED
    BY <1>1, <1>6, JoinBound
<1>8. IsFiniteSet(F) /\ nF \in Nat /\ Cardinality(F) <= nF
  <2> HIDE DEF E, nE
  <2>1. QED
    BY <1>1, <1>7, JoinBound
<1> HIDE DEF F, nF
<1>9. Cardinality(F \cup freed) <= nF + Cardinality(freed)
  <2>1. Cardinality(F \cup freed) =
           Cardinality(F) + Cardinality(freed) - Cardinality(F \cap freed)
    BY <1>1, <1>8, FS_Union
  <2>2. IsFiniteSet(F \cap freed)
    BY <1>8, FS_Intersection
  <2>3. Cardinality(F \cap freed) \in Nat /\ Cardinality(F) \in Nat
    BY <1>8, <2>2, FS_CardinalityType
  <2>4. QED
    BY <1>1, <1>8, <2>1, <2>3
<1>10. QED
  BY <1>2, <1>9, Constants

(* Counting and collecting the places is what joining them does. *)
LEMMA EverywhereIs ==
    ASSUME TypeOK
    PROVE  Len(Everywhere) = Total /\ ToSet(Everywhere) = Content
<1>1. /\ freeQ \in Seq(Buffers) /\ FreeHand \in Seq(Buffers)
      /\ RxBuf \in Seq(Buffers) /\ sendQ \in Seq(Buffers)
      /\ SendHand \in Seq(Buffers) /\ TxBuf \in Seq(Buffers)
      /\ IsFiniteSet(freed) /\ freed \subseteq Buffers
  BY Sizes DEF TypeOK
<1>2. PICK s1 \in Seq(Buffers) : /\ s1 = SetToSeq(freed)
                                /\ Len(s1) = Cardinality(freed) /\ ToSet(s1) = freed
  <2>1. /\ SetToSeq(freed) \in Seq(freed) /\ Len(SetToSeq(freed)) = Cardinality(freed)
        /\ ToSet(SetToSeq(freed)) = freed
    BY <1>1, SetAsSequence
  <2>2. QED
    BY <1>1, <2>1
<1>3. PICK s2 \in Seq(Buffers) : /\ s2 = freeQ \o FreeHand
                                /\ Len(s2) = Len(freeQ) + Len(FreeHand)
                                /\ ToSet(s2) = ToSet(freeQ) \cup ToSet(FreeHand)
  BY ZenonT(40), <1>1, ConcatElements
<1>4. PICK s3 \in Seq(Buffers) : /\ s3 = s2 \o RxBuf
                                /\ Len(s3) = Len(s2) + Len(RxBuf)
                                /\ ToSet(s3) = ToSet(s2) \cup ToSet(RxBuf)
  BY ZenonT(40), <1>1, ConcatElements
<1>5. PICK s4 \in Seq(Buffers) : /\ s4 = s3 \o sendQ
                                /\ Len(s4) = Len(s3) + Len(sendQ)
                                /\ ToSet(s4) = ToSet(s3) \cup ToSet(sendQ)
  BY ZenonT(40), <1>1, ConcatElements
<1>6. PICK s5 \in Seq(Buffers) : /\ s5 = s4 \o SendHand
                                /\ Len(s5) = Len(s4) + Len(SendHand)
                                /\ ToSet(s5) = ToSet(s4) \cup ToSet(SendHand)
  BY ZenonT(40), <1>1, ConcatElements
<1>7. PICK s6 \in Seq(Buffers) : /\ s6 = s5 \o TxBuf
                                /\ Len(s6) = Len(s5) + Len(TxBuf)
                                /\ ToSet(s6) = ToSet(s5) \cup ToSet(TxBuf)
  BY ZenonT(40), <1>1, ConcatElements
<1>8. PICK s7 \in Seq(Buffers) : /\ s7 = s6 \o s1
                                /\ Len(s7) = Len(s6) + Len(s1)
                                /\ ToSet(s7) = ToSet(s6) \cup ToSet(s1)
  BY ZenonT(40), <1>1, ConcatElements
<1>9. Everywhere = s7
  BY <1>2, <1>3, <1>4, <1>5, <1>6, <1>7, <1>8, Zenon
     DEF Everywhere, FreeHand, SendHand, RxBuf, TxBuf
<1>10. Len(s7) = Total /\ ToSet(s7) = Content
  BY <1>2, <1>3, <1>4, <1>5, <1>6, <1>7, <1>8 DEF Total, Content
<1>11. QED
  BY <1>9, <1>10, Zenon

(* At the start every buffer is in packet_buffers. *)
LEMMA InitInd == Init => IndInv /\ Conserved
<1> SUFFICES ASSUME Init PROVE IndInv /\ Conserved
  OBVIOUS
<1>1. /\ freeQ \in Seq(Buffers) /\ Len(freeQ) = Capacity
      /\ ToSet(freeQ) = Buffers
  BY Constants, SetAsSequence DEF Init
<1>2. /\ FreeHand = << >> /\ SendHand = << >> /\ RxBuf = << >> /\ TxBuf = << >>
      /\ sendQ = << >> /\ freed = {} /\ freeClaimed = 0 /\ sendClaimed = 0
      /\ rx.pc = "receive" /\ tx.pc = "throttle" /\ tx.k = 0
  BY DEF Init, Send!FifoInit, FreeHand, SendHand, RxBuf, TxBuf
<1>3. TypeOK
  <2>1. << >> \in Seq(Buffers)
    OBVIOUS
  <2>2. /\ freeHeld \in [{RxThread} -> Seq(Buffers)]
        /\ sendHeld \in [{TxThread} -> Seq(Buffers)]
    BY <2>1 DEF Init, Send!FifoInit
  <2>3. /\ rx = [pc |-> "receive", todo |-> 0, buf |-> << >>, arp |-> "none"]
        /\ tx = [pc |-> "throttle", scanning |-> TRUE, batch |-> 0, k |-> 0, buf |-> << >>]
        /\ packets = 0 /\ freed = {} /\ isRxDone = FALSE
    BY DEF Init
  <2>4. 0 \in 0 .. MaxResponses /\ 0 \in 0 .. MaxBatch /\ 0 \in 0 .. FlushRounds
        /\ 0 \in 0 .. MaxPackets /\ 0 \in 0 .. Capacity
    BY Constants
  <2>5. RxType
    BY <2>1, <2>3, <2>4 DEF RxType, RxBuf
  <2>6. TxType
    BY <2>1, <2>3, <2>4 DEF TxType
  <2>7. freed \subseteq Buffers /\ isRxDone \in BOOLEAN /\ packets \in 0 .. MaxPackets
    BY <2>3, <2>4
  <2>8. QED
    BY <1>1, <1>2, <2>1, <2>2, <2>4, <2>5, <2>6, <2>7, Zenon DEF TypeOK, RxType, RxBuf, TxType
<1>4. Conserved
  BY <1>1, <1>2, NoElements, FS_EmptySet, Constants DEF Conserved, Total, Content
<1>5. InHands
  BY <1>2, NoElements DEF InHands
<1>6. Counted
  BY <1>2, Constants DEF Counted
<1>7. Total <= Capacity
  BY <1>4, Constants DEF Conserved
<1>8. QED
  BY <1>3, <1>4, <1>5, <1>6, <1>7 DEF IndInv

----------------------------------------------------------------------------
(* The operations of the two rings. *)

(* What taking one buffer out of packet_buffers does. *)
LEMMA FreeTake ==
    ASSUME TypeOK, Free!Take(RxThread, 1)
    PROVE  /\ freeQ' \in Seq(Buffers) /\ Len(freeQ') = Len(freeQ) - 1
           /\ freeHeld' \in [{RxThread} -> Seq(Buffers)]
           /\ FreeHand = << >> /\ Len(FreeHand') = 1 /\ FreeHand' \in Seq(Buffers)
           /\ ToSet(FreeHand') \cup ToSet(freeQ') = ToSet(freeQ)
           /\ freeClaimed' = freeClaimed + 1
<1>1. /\ freeQ \in Seq(Buffers) /\ freeQ # << >>
      /\ freeHeld \in [{RxThread} -> Seq(Buffers)] /\ FreeHand = << >>
      /\ freeHeld' = [freeHeld EXCEPT ![RxThread] = SubSeq(freeQ, 1, 1)]
      /\ freeQ' = SubSeq(freeQ, 2, Len(freeQ))
      /\ freeClaimed' = freeClaimed + 1
  BY DEF TypeOK, Free!Take, FreeHand
<1>2. FreeHand' = SubSeq(freeQ, 1, 1)
  BY <1>1 DEF FreeHand
<1>3. /\ SubSeq(freeQ, 1, 1) \in Seq(Buffers) /\ Len(SubSeq(freeQ, 1, 1)) = 1
      /\ SubSeq(freeQ, 2, Len(freeQ)) \in Seq(Buffers)
      /\ Len(SubSeq(freeQ, 2, Len(freeQ))) = Len(freeQ) - 1
      /\ ToSet(SubSeq(freeQ, 1, 1)) \cup ToSet(SubSeq(freeQ, 2, Len(freeQ))) = ToSet(freeQ)
  BY <1>1, TakeFirst
<1>4. freeHeld' \in [{RxThread} -> Seq(Buffers)]
  BY <1>1, <1>3
<1>5. QED
  BY <1>1, <1>2, <1>3, <1>4

(* What the return of that dequeue does. *)
LEMMA FreeRelease ==
    ASSUME TypeOK, Free!Release(RxThread)
    PROVE  /\ freeQ' = freeQ /\ freeHeld' \in [{RxThread} -> Seq(Buffers)]
           /\ FreeHand # << >> /\ FreeHand' = << >> /\ freeClaimed' = freeClaimed - Len(FreeHand)
BY DEF TypeOK, Free!Release, FreeHand

(* What enqueueing a burst does. *)
LEMMA FreePut ==
    ASSUME TypeOK, NEW s \in Seq(Buffers), Free!Put(s)
    PROVE  /\ freeQ' \in Seq(Buffers) /\ Len(freeQ') = Len(freeQ) + Len(s)
           /\ ToSet(freeQ') = ToSet(freeQ) \cup ToSet(s)
           /\ freeHeld' = freeHeld /\ freeClaimed' = freeClaimed /\ FreeHand' = FreeHand
<1>1. freeQ \in Seq(Buffers) /\ freeQ' = freeQ \o s /\ freeHeld' = freeHeld /\ freeClaimed' = freeClaimed
  BY DEF TypeOK, Free!Put
<1>2. QED
  BY <1>1, ConcatElements DEF FreeHand

(* What taking one buffer out of transmit_queue does. *)
LEMMA SendTake ==
    ASSUME TypeOK, Send!Take(TxThread, 1)
    PROVE  /\ sendQ' \in Seq(Buffers) /\ Len(sendQ') = Len(sendQ) - 1
           /\ sendHeld' \in [{TxThread} -> Seq(Buffers)]
           /\ SendHand = << >> /\ Len(SendHand') = 1 /\ SendHand' \in Seq(Buffers)
           /\ ToSet(SendHand') \cup ToSet(sendQ') = ToSet(sendQ)
           /\ sendClaimed' = sendClaimed + 1
<1>1. /\ sendQ \in Seq(Buffers) /\ sendQ # << >>
      /\ sendHeld \in [{TxThread} -> Seq(Buffers)] /\ SendHand = << >>
      /\ sendHeld' = [sendHeld EXCEPT ![TxThread] = SubSeq(sendQ, 1, 1)]
      /\ sendQ' = SubSeq(sendQ, 2, Len(sendQ))
      /\ sendClaimed' = sendClaimed + 1
  BY DEF TypeOK, Send!Take, SendHand
<1>2. SendHand' = SubSeq(sendQ, 1, 1)
  BY <1>1 DEF SendHand
<1>3. /\ SubSeq(sendQ, 1, 1) \in Seq(Buffers) /\ Len(SubSeq(sendQ, 1, 1)) = 1
      /\ SubSeq(sendQ, 2, Len(sendQ)) \in Seq(Buffers)
      /\ Len(SubSeq(sendQ, 2, Len(sendQ))) = Len(sendQ) - 1
      /\ ToSet(SubSeq(sendQ, 1, 1)) \cup ToSet(SubSeq(sendQ, 2, Len(sendQ))) = ToSet(sendQ)
  BY <1>1, TakeFirst
<1>4. sendHeld' \in [{TxThread} -> Seq(Buffers)]
  BY <1>1, <1>3
<1>5. QED
  BY <1>1, <1>2, <1>3, <1>4

(* What the return of that dequeue does. *)
LEMMA SendRelease ==
    ASSUME TypeOK, Send!Release(TxThread)
    PROVE  /\ sendQ' = sendQ /\ sendHeld' \in [{TxThread} -> Seq(Buffers)]
           /\ SendHand # << >> /\ SendHand' = << >> /\ sendClaimed' = sendClaimed - Len(SendHand)
BY DEF TypeOK, Send!Release, SendHand

(* What enqueueing a burst does. *)
LEMMA SendPut ==
    ASSUME TypeOK, NEW s \in Seq(Buffers), Send!Put(s)
    PROVE  /\ sendQ' \in Seq(Buffers) /\ Len(sendQ') = Len(sendQ) + Len(s)
           /\ ToSet(sendQ') = ToSet(sendQ) \cup ToSet(s)
           /\ sendHeld' = sendHeld /\ sendClaimed' = sendClaimed /\ SendHand' = SendHand
<1>1. sendQ \in Seq(Buffers) /\ sendQ' = sendQ \o s /\ sendHeld' = sendHeld /\ sendClaimed' = sendClaimed
  BY DEF TypeOK, Send!Put
<1>2. QED
  BY <1>1, ConcatElements DEF SendHand

----------------------------------------------------------------------------
(* The invariant is preserved, action by action. *)

(* A step that moves no buffer keeps them all where they are. *)
LEMMA NothingMoves ==
    ASSUME UNCHANGED <<freeVars, sendVars, freed>>,
           RxBuf' = RxBuf, TxBuf' = TxBuf
    PROVE  Total' = Total /\ Content' = Content
BY DEF Total, Content, freeVars, sendVars, FreeHand, SendHand

(* The receive thread starts to answer a packet or ignores it. *)
LEMMA RxPacketInd ==
    ASSUME IndInv, RxPacket \/ \E link \in ArpLinks : RxArp(link)
    PROVE  IndInv' /\ (Conserved => Conserved')
<1>1. /\ rx.pc = "receive" /\ packets < MaxPackets /\ packets' = packets + 1
      /\ UNCHANGED <<freeVars, sendVars, tx, freed, isRxDone>>
  BY DEF RxPacket, RxArp
<1>0. TxBuf' = TxBuf
  BY <1>1 DEF TxBuf
<1>2. \E n \in (0 .. MaxResponses) \cup {1}, link \in ArpLinks \cup {"none"} :
         rx' = [rx EXCEPT !.pc = IF n = 0 THEN "receive" ELSE "get", !.todo = n,
                          !.arp = link]
  <2>1. TypeOK
    BY DEF IndInv
  <2>2. CASE RxPacket
    <3>1. PICK n \in 0 .. MaxResponses :
             rx' = [rx EXCEPT !.pc = IF n = 0 THEN "receive" ELSE "get", !.todo = n]
      BY <2>2 DEF RxPacket
    <3>2. rx.arp \in ArpLinks \cup {"none"}
      BY <2>1 DEF TypeOK
    <3>3. rx' = [rx EXCEPT !.pc = IF n = 0 THEN "receive" ELSE "get", !.todo = n,
                           !.arp = rx.arp]
      BY <2>1, <3>1 DEF TypeOK
    <3>4. QED
      BY <3>2, <3>3
  <2>3. ASSUME NEW link \in ArpLinks, RxArp(link)
        PROVE  rx' = [rx EXCEPT !.pc = IF 1 = 0 THEN "receive" ELSE "get",
                                !.todo = 1, !.arp = link]
    <3>1. (IF 1 = 0 THEN "receive" ELSE "get") = "get"
      OBVIOUS
    <3>2. QED
      BY <2>3, <3>1 DEF RxArp
  <2>4. CASE \E link \in ArpLinks : RxArp(link)
    BY <2>3, <2>4
  <2>5. QED
    BY <2>2, <2>4
<1>3. PICK n \in (0 .. MaxResponses) \cup {1}, link \in ArpLinks \cup {"none"} :
         rx' = [rx EXCEPT !.pc = IF n = 0 THEN "receive" ELSE "get", !.todo = n,
                          !.arp = link]
  BY <1>2
<1>4. n \in Nat
  BY Constants
<1>5. RxType /\ RxType' /\ RxBuf' = RxBuf /\ rx'.todo = n
      /\ rx'.pc = IF n = 0 THEN "receive" ELSE "get"
  BY <1>3 DEF IndInv, TypeOK, RxType, RxBuf
<1>6. TypeOK'
  BY SMTT(40), <1>1, <1>5, Constants DEF IndInv, TypeOK, RxType, RxBuf, freeVars, sendVars
<1>7. Total' = Total /\ Content' = Content
  BY <1>0, <1>1, <1>5, NothingMoves
<1>8. InHands' /\ Counted'
  BY <1>0, <1>1, <1>4, <1>5 DEF IndInv, InHands, Counted, freeVars, sendVars, FreeHand, SendHand
<1>9. QED
  BY <1>6, <1>7, <1>8 DEF IndInv, Conserved

(* A free buffer is claimed, for a response or at the end. *)
LEMMA RxTakeInd ==
    ASSUME IndInv, RxGet \/ RxDrain
    PROVE  IndInv' /\ (Conserved => Conserved')
<1>1. /\ TypeOK /\ Free!Take(RxThread, 1)
      /\ rx.pc \in {"get", "drain"}
      /\ rx' = [rx EXCEPT !.pc = IF rx.pc = "get" THEN "format" ELSE "free"]
      /\ UNCHANGED <<sendVars, tx, packets, freed, isRxDone>>
  BY DEF IndInv, RxGet, RxDrain
<1>0. TxBuf' = TxBuf
  BY <1>1 DEF TxBuf
<1>2. /\ freeQ' \in Seq(Buffers) /\ Len(freeQ') = Len(freeQ) - 1
      /\ freeHeld' \in [{RxThread} -> Seq(Buffers)]
      /\ FreeHand = << >> /\ Len(FreeHand') = 1
      /\ ToSet(FreeHand') \cup ToSet(freeQ') = ToSet(freeQ)
      /\ freeClaimed' = freeClaimed + 1
  BY <1>1, FreeTake
<1>3. /\ RxType' /\ RxBuf' = RxBuf /\ rx'.todo = rx.todo
      /\ rx'.pc = IF rx.pc = "get" THEN "format" ELSE "free"
  BY <1>1 DEF TypeOK, RxType, RxBuf
<1>4. SendHand' = SendHand
  BY <1>1 DEF SendHand, sendVars
<1>5. Len(FreeHand) = 0 /\ ToSet(FreeHand) = {}
  BY <1>2, NoElements
<1>6. TypeOK'
  BY <1>1, <1>2, <1>3, <1>5, Constants DEF IndInv, InHands, TypeOK, RxType, RxBuf, sendVars
<1>7. Total' = Total
  BY <1>0, <1>1, <1>2, <1>3, <1>4, <1>5, Sizes DEF Total, sendVars
<1>10. Content' = Content
  BY <1>0, <1>1, <1>2, <1>3, <1>4, <1>5 DEF Content, sendVars
<1>8. InHands' /\ Counted'
  BY <1>0, <1>1, <1>2, <1>3, <1>4, <1>5 DEF IndInv, InHands, Counted, sendVars
<1>9. QED
  BY <1>6, <1>7, <1>8, <1>10 DEF IndInv, Conserved

(* The dequeue returns and the buffer is the caller's. *)
LEMMA RxFormatInd ==
    ASSUME IndInv, RxFormat \/ (ArpFormat /\ proto_arp_parse(rx.arp))
    PROVE  IndInv' /\ (Conserved => Conserved')
<1>1. /\ TypeOK /\ Free!Release(RxThread)
      /\ rx.pc = "format"
      /\ rx' = [rx EXCEPT !.pc = "put", !.buf = FreeHand]
      /\ UNCHANGED <<sendVars, tx, packets, freed, isRxDone>>
  BY DEF IndInv, RxFormat, ArpFormat, FreeHand
<1>0. TxBuf' = TxBuf
  BY <1>1 DEF TxBuf
<1>2. /\ freeQ' = freeQ /\ freeHeld' \in [{RxThread} -> Seq(Buffers)]
      /\ FreeHand' = << >> /\ freeClaimed' = freeClaimed - Len(FreeHand)
  BY <1>1, FreeRelease
<1>3. /\ RxType' /\ RxBuf' = FreeHand /\ rx'.todo = rx.todo /\ rx'.pc = "put"
  BY <1>1, Sizes DEF TypeOK, RxType, RxBuf
<1>4. SendHand' = SendHand
  BY <1>1 DEF SendHand, sendVars
<1>5. /\ Len(FreeHand') = 0 /\ ToSet(FreeHand') = {}
      /\ Len(RxBuf) = 0 /\ Len(FreeHand) = 1 /\ freeClaimed = 1
  BY <1>1, <1>2, NoElements DEF IndInv, InHands
<1>6. RxBuf = << >> /\ ToSet(RxBuf) = {}
  BY <1>5, Sizes, EmptySeq, NoElements DEF IndInv
<1>7. TypeOK'
  BY <1>1, <1>2, <1>3, <1>5, Constants DEF TypeOK, RxType, RxBuf, sendVars
<1>8. Total' = Total
  <2>1. Len(RxBuf') = 1 /\ freed' = freed /\ tx' = tx /\ sendQ' = sendQ
    BY <1>1, <1>3, <1>5 DEF sendVars
  <2>2. /\ Len(freeQ) \in Nat /\ Len(sendQ) \in Nat /\ Len(SendHand) \in Nat
        /\ Len(TxBuf) \in Nat /\ Cardinality(freed) \in Nat
    BY <1>1, Sizes
  <2>3. QED
    BY <1>0, <1>2, <1>4, <1>5, <2>1, <2>2 DEF Total
<1>11. Content' = Content
  BY <1>0, <1>1, <1>2, <1>3, <1>4, <1>5, <1>6 DEF Content, sendVars
<1>9. InHands' /\ Counted'
  BY <1>0, <1>1, <1>2, <1>3, <1>4, <1>5 DEF IndInv, InHands, Counted, sendVars
<1>10. QED
  BY <1>7, <1>8, <1>9, <1>11 DEF IndInv, Conserved

(* The early return of arp_response leaves with the buffer: one less. *)
LEMMA ArpDroppedInd ==
    ASSUME IndInv, ArpFormat, ~proto_arp_parse(rx.arp)
    PROVE  IndInv' /\ rx.arp \in ArpLinks \ {"ethernet"}
<1>1. /\ TypeOK /\ Free!Release(RxThread)
      /\ rx.pc = "format" /\ rx.arp # "none" /\ rx.arp # "ethernet"
      /\ rx' = [rx EXCEPT !.pc = "receive", !.todo = 0, !.arp = "none"]
      /\ UNCHANGED <<sendVars, tx, packets, freed, isRxDone>>
  BY DEF IndInv, ArpFormat, proto_arp_parse
<1>0. TxBuf' = TxBuf
  BY <1>1 DEF TxBuf
<1>2. /\ freeQ' = freeQ /\ freeHeld' \in [{RxThread} -> Seq(Buffers)]
      /\ FreeHand' = << >> /\ freeClaimed' = freeClaimed - Len(FreeHand)
  BY <1>1, FreeRelease
<1>3. /\ RxType' /\ RxBuf' = RxBuf /\ rx'.todo = 0 /\ rx'.pc = "receive"
  <2>1. RxType /\ 0 \in 0 .. MaxResponses
    BY <1>1, Constants DEF TypeOK, RxType, RxBuf
  <2>2. QED
    BY <1>1, <2>1 DEF RxType, RxBuf
<1>4. SendHand' = SendHand /\ sendQ' = sendQ
  BY <1>1 DEF SendHand, sendVars
<1>5. /\ Len(FreeHand') = 0 /\ Len(FreeHand) = 1 /\ freeClaimed = 1
  BY <1>1, <1>2, NoElements DEF IndInv, InHands
<1>6. TypeOK'
  BY <1>1, <1>2, <1>3, <1>5, Constants DEF TypeOK, RxType, RxBuf, sendVars
<1>7. Total \in Int /\ Total' = Total - 1
  <2>1. /\ Len(freeQ) \in Nat /\ Len(sendQ) \in Nat /\ Len(SendHand) \in Nat
        /\ Len(RxBuf) \in Nat /\ Len(TxBuf) \in Nat /\ Cardinality(freed) \in Nat
    BY <1>1, Sizes
  <2>2. /\ tx' = tx /\ freed' = freed /\ freeQ' = freeQ /\ sendQ' = sendQ
        /\ SendHand' = SendHand /\ RxBuf' = RxBuf
    BY <1>1, <1>2, <1>3, <1>4 DEF sendVars
  <2>3. Len(FreeHand') = 0 /\ Len(FreeHand) = 1
    BY <1>5
  <2>4. Total' = Len(freeQ) + 0 + Len(RxBuf) + Len(sendQ) + Len(SendHand)
      + Len(TxBuf) + Cardinality(freed)
    BY <1>0, <2>2, <2>3 DEF Total
  <2>5. Total = Len(freeQ) + 1 + Len(RxBuf) + Len(sendQ) + Len(SendHand)
      + Len(TxBuf) + Cardinality(freed)
    BY <2>2, <2>3 DEF Total
  <2>6. Total' = Total - 1
    BY <2>1, <2>4, <2>5
  <2>7. QED
    BY <2>1, <2>5, <2>6
<1>8. InHands' /\ Counted'
  BY <1>0, <1>1, <1>2, <1>3, <1>4, <1>5 DEF IndInv, InHands, Counted, sendVars
<1>9. Total \in Int /\ Total' <= Capacity
  BY <1>7, Constants DEF IndInv
<1>10. rx.arp \in ArpLinks \ {"ethernet"}
  BY <1>1 DEF TypeOK
<1>11. QED
  BY <1>6, <1>8, <1>9, <1>10 DEF IndInv

(* The formatted packet goes on the transmit queue. *)
LEMMA RxPutInd ==
    ASSUME IndInv, RxPut
    PROVE  IndInv' /\ (Conserved => Conserved')
<1>1. /\ TypeOK /\ rx.pc = "put" /\ Send!Put(RxBuf)
      /\ rx' = [pc |-> IF rx.todo = 1 THEN "receive" ELSE "get",
                todo |-> rx.todo - 1, buf |-> << >>, arp |-> "none"]
      /\ UNCHANGED <<freeVars, tx, packets, freed, isRxDone>>
  BY DEF IndInv, RxPut, RxBuf
<1>0. TxBuf' = TxBuf
  BY <1>1 DEF TxBuf
<1>2. /\ RxBuf \in Seq(Buffers) /\ Len(RxBuf) = 1
      /\ rx.todo \in Nat /\ rx.todo >= 1 /\ rx.todo \in (0 .. MaxResponses) \cup {1}
  BY SMTT(40), <1>1, Sizes, Constants DEF IndInv, InHands, Counted, TypeOK
<1>3. /\ sendQ' \in Seq(Buffers) /\ Len(sendQ') = Len(sendQ) + 1
      /\ ToSet(sendQ') = ToSet(sendQ) \cup ToSet(RxBuf)
      /\ sendHeld' = sendHeld /\ sendClaimed' = sendClaimed /\ SendHand' = SendHand
  BY <1>1, <1>2, SendPut
<1>4. /\ RxBuf' = << >> /\ rx'.todo = rx.todo - 1
      /\ rx'.pc = IF rx.todo = 1 THEN "receive" ELSE "get"
      /\ Len(RxBuf') = 0 /\ ToSet(RxBuf') = {}
  BY <1>1, NoElements DEF RxBuf
<1>5. RxType'
  <2>1. rx.todo - 1 \in 0 .. MaxResponses
    BY <1>2, Constants
  <2>2. << >> \in Seq(Buffers)
    OBVIOUS
  <2>3. QED
    BY <1>1, <2>1, <2>2 DEF RxType, RxBuf
<1>6. FreeHand' = FreeHand /\ freeQ' = freeQ
  BY <1>1 DEF FreeHand, freeVars
<1>7. TypeOK'
  BY <1>1, <1>3, <1>5, Constants DEF TypeOK, RxType, RxBuf, freeVars
<1>8. Total' = Total
  <2>1. /\ Len(freeQ) \in Nat /\ Len(sendQ) \in Nat /\ Len(SendHand) \in Nat
        /\ Len(FreeHand) \in Nat /\ Len(TxBuf) \in Nat /\ Cardinality(freed) \in Nat
    BY <1>1, Sizes
  <2>2. /\ tx' = tx /\ freed' = freed
        /\ Len(RxBuf) = 1 /\ Len(RxBuf') = 0 /\ Len(sendQ') = Len(sendQ) + 1
    BY <1>1, <1>2, <1>3, <1>4
  <2>3. SendHand' = SendHand /\ FreeHand' = FreeHand /\ freeQ' = freeQ
    BY <1>3, <1>6
  <2>4. Total' = Len(freeQ) + Len(FreeHand) + 0 + (Len(sendQ) + 1) + Len(SendHand)
      + Len(TxBuf) + Cardinality(freed)
    BY <1>0, <2>2, <2>3 DEF Total
  <2>5. Total = Len(freeQ) + Len(FreeHand) + 1 + Len(sendQ) + Len(SendHand)
      + Len(TxBuf) + Cardinality(freed)
    BY <2>2 DEF Total
  <2>6. QED
    BY <2>1, <2>4, <2>5
<1>9. Content' = Content
  BY <1>0, <1>1, <1>3, <1>4, <1>6 DEF Content
<1>10. InHands'
  BY <1>0, <1>1, <1>3, <1>4, <1>6 DEF IndInv, InHands, freeVars
<1>11. Counted'
  BY <1>1, <1>2, <1>4 DEF IndInv, Counted
<1>12. QED
  BY <1>7, <1>8, <1>9, <1>10, <1>11 DEF IndInv, Conserved

(* The receive thread leaves its loop, and then the drained pool. *)
LEMMA RxLeaveInd ==
    ASSUME IndInv, RxLeave \/ RxExit
    PROVE  IndInv' /\ (Conserved => Conserved')
<1>1. /\ rx.pc \in {"receive", "drain"}
      /\ \E pc \in {"drain", "done"} : rx' = [rx EXCEPT !.pc = pc]
      /\ UNCHANGED <<freeVars, sendVars, tx, packets, freed, isRxDone>>
  BY DEF RxLeave, RxExit
<1>0. TxBuf' = TxBuf
  BY <1>1 DEF TxBuf
<1>2. RxType' /\ RxBuf' = RxBuf /\ rx'.pc \in {"drain", "done"}
  BY <1>1 DEF IndInv, TypeOK, RxType, RxBuf
<1>3. Total' = Total /\ Content' = Content
  BY <1>0, <1>1, <1>2, NothingMoves
<1>4. TypeOK'
  BY <1>1, <1>2 DEF IndInv, TypeOK, RxType, RxBuf, freeVars, sendVars
<1>5. InHands' /\ Counted'
  BY <1>0, <1>1, <1>2 DEF IndInv, InHands, Counted, freeVars, sendVars, FreeHand, SendHand
<1>6. QED
  BY <1>3, <1>4, <1>5 DEF IndInv, Conserved

(* A drained buffer goes back to malloc; while none is missing it was in
   nobody else's hands. *)
LEMMA RxFreeInd ==
    ASSUME IndInv, RxFree
    PROVE  IndInv' /\ (Conserved => Conserved')
<1>1. /\ TypeOK /\ Free!Release(RxThread) /\ rx.pc = "free"
      /\ freed' = freed \cup {FreeHand[1]}
      /\ rx' = [rx EXCEPT !.pc = "drain"]
      /\ UNCHANGED <<sendVars, tx, packets, isRxDone>>
  BY DEF IndInv, RxFree, FreeHand
<1>0. TxBuf' = TxBuf
  BY <1>1 DEF TxBuf
<1>2. /\ freeQ' = freeQ /\ freeHeld' \in [{RxThread} -> Seq(Buffers)]
      /\ FreeHand' = << >> /\ freeClaimed' = freeClaimed - Len(FreeHand)
  BY <1>1, FreeRelease
<1>3. /\ FreeHand \in Seq(Buffers) /\ Len(FreeHand) = 1 /\ freeClaimed = 1
      /\ Len(FreeHand') = 0 /\ ToSet(FreeHand') = {}
  BY <1>1, <1>2, Sizes, NoElements DEF IndInv, InHands
<1>4. FreeHand[1] \in Buffers /\ ToSet(FreeHand) = {FreeHand[1]}
  BY <1>3, Elements
<1>5. RxType' /\ RxBuf' = RxBuf /\ rx'.todo = rx.todo /\ rx'.pc = "drain"
  BY <1>1 DEF TypeOK, RxType, RxBuf
<1>6. SendHand' = SendHand /\ sendQ' = sendQ /\ tx' = tx
  BY <1>1 DEF SendHand, sendVars
<1>7. TypeOK'
  BY <1>1, <1>2, <1>3, <1>4, <1>5, Constants DEF TypeOK, RxType, RxBuf, sendVars
<1>8. /\ Len(freeQ) \in Nat /\ Len(sendQ) \in Nat /\ Len(SendHand) \in Nat
      /\ Len(RxBuf) \in Nat /\ Len(TxBuf) \in Nat
      /\ IsFiniteSet(freed) /\ Cardinality(freed) \in Nat
  BY <1>1, Sizes
<1>9. /\ Total' = Len(freeQ) + 0 + Len(RxBuf) + Len(sendQ) + Len(SendHand)
                    + Len(TxBuf) + Cardinality(freed')
      /\ Total = Len(freeQ) + 1 + Len(RxBuf) + Len(sendQ) + Len(SendHand)
                    + Len(TxBuf) + Cardinality(freed)
  BY <1>0, <1>2, <1>3, <1>5, <1>6 DEF Total
<1>10. Cardinality(freed') = IF FreeHand[1] \in freed THEN Cardinality(freed)
                             ELSE Cardinality(freed) + 1
  BY <1>1, <1>8, FS_AddElement
<1>11. Total' <= Total /\ Total \in Nat /\ Total' \in Nat
  BY <1>8, <1>9, <1>10
<1>12. Content' = Content
  BY <1>0, <1>1, <1>2, <1>3, <1>4, <1>5, <1>6 DEF Content
<1>13. ASSUME Conserved PROVE Total' = Total
  <2>1. (TypeOK /\ Content = Buffers)'
    BY <1>7, <1>12, <1>13 DEF Conserved
  <2>2. (Capacity <= Total)'
    BY <2>1, ContentCounted, PTL
  <2>3. QED
    BY <1>11, <1>13, <2>2, Constants DEF Conserved
<1>14. InHands' /\ Counted'
  BY <1>0, <1>1, <1>2, <1>3, <1>5, <1>6 DEF IndInv, InHands, Counted, sendVars
<1>15. Total' <= Capacity
  BY <1>11, Constants DEF IndInv
<1>16. QED
  BY <1>7, <1>12, <1>13, <1>14, <1>15 DEF IndInv, Conserved

(* The throttler grants a batch, a round ends, is_rx_done is looked at. *)
LEMMA TxRoundInd ==
    ASSUME IndInv, TxRound \/ TxTest \/ \E n \in 0 .. MaxBatch : TxThrottle(n)
    PROVE  IndInv' /\ (Conserved => Conserved')
<1>1. /\ tx.pc \in {"throttle", "flush", "test"}
      /\ UNCHANGED <<freeVars, sendVars, rx, packets, freed, isRxDone>>
  BY DEF TxRound, TxTest, TxThrottle
<1>2. /\ TxType' /\ tx'.buf = tx.buf
      /\ tx'.pc \in {"throttle", "flush", "test", "done"}
      /\ tx'.pc # "test" => tx'.k < FlushRounds
  <2>1. /\ TxType /\ tx.k \in Nat /\ tx.k <= FlushRounds
        /\ tx.pc # "test" => tx.k < FlushRounds
    BY Constants DEF IndInv, TypeOK, TxType, Counted
  <2>2. CASE TxRound
    <3>0. tx.pc = "flush"
      BY <2>2 DEF TxRound
    <3>1. 0 \in 0 .. MaxBatch /\ tx.pc = "flush" /\ tx.k + 1 \in 0 .. FlushRounds
      <4>1. tx.k < FlushRounds
        BY <2>1, <3>0
      <4>2. QED
        BY <2>1, <3>0, <4>1, Constants
    <3>2. CASE tx.scanning
      <4>1. PICK more \in BOOLEAN :
               tx' = [tx EXCEPT !.pc = IF more THEN "throttle" ELSE "test",
                                !.scanning = more, !.batch = 0]
        BY <2>2, <3>2 DEF TxRound
      <4>2. QED
        BY <2>1, <3>1, <4>1 DEF TxType
    <3>3. CASE ~tx.scanning
      <4>1. tx' = [tx EXCEPT !.pc = IF tx.k + 1 = FlushRounds
                                    THEN "test" ELSE "throttle",
                             !.k = @ + 1, !.batch = 0]
        BY <2>2, <3>3 DEF TxRound
      <4>2. CASE tx.k + 1 = FlushRounds
        BY <2>1, <3>1, <4>1, <4>2 DEF TxType
      <4>3. CASE tx.k + 1 # FlushRounds
        <5>1. tx.k + 1 < FlushRounds
          BY <3>1, <4>3, Constants
        <5>2. QED
          BY <2>1, <3>1, <4>1, <4>3, <5>1 DEF TxType
      <4>4. QED
        BY <4>2, <4>3
    <3>4. QED
      BY <3>2, <3>3
  <2>3. CASE TxTest
    <3>1. tx' = [tx EXCEPT !.pc = IF isRxDone THEN "done" ELSE "throttle", !.k = 0]
      BY <2>3 DEF TxTest
    <3>2. 0 \in 0 .. FlushRounds /\ 0 < FlushRounds
      BY Constants
    <3>3. QED
      BY <2>1, <3>1, <3>2 DEF TxType
  <2>4. ASSUME NEW n \in 0 .. MaxBatch, TxThrottle(n)
        PROVE  /\ TxType' /\ tx'.buf = tx.buf /\ tx'.pc = "flush" /\ tx'.k = tx.k
    BY <2>1, <2>4 DEF TxThrottle, TxType
  <2>5. CASE \E n \in 0 .. MaxBatch : TxThrottle(n)
    <3>1. tx.pc = "throttle"
      BY <2>5 DEF TxThrottle
    <3>2. QED
      BY <2>1, <2>4, <2>5, <3>1
  <2>6. QED
    BY <2>2, <2>3, <2>5
<1>3. RxBuf' = RxBuf /\ TxBuf' = TxBuf
  BY <1>1, <1>2 DEF RxBuf, TxBuf
<1>4. Total' = Total /\ Content' = Content
  BY <1>1, <1>3, NothingMoves
<1>5. TypeOK'
  BY <1>1, <1>2 DEF IndInv, TypeOK, TxType, freeVars, sendVars
<1>6. InHands' /\ Counted'
  BY <1>1, <1>2, <1>3
     DEF IndInv, InHands, Counted, freeVars, sendVars, FreeHand, SendHand
<1>7. QED
  BY <1>4, <1>5, <1>6 DEF IndInv, Conserved

(* A queued packet is claimed. *)
LEMMA TxTakeInd ==
    ASSUME IndInv, TxTake
    PROVE  IndInv' /\ (Conserved => Conserved')
<1>1. /\ TypeOK /\ Send!Take(TxThread, 1)
      /\ tx.pc = "flush" /\ tx.batch > 0
      /\ tx' = [tx EXCEPT !.pc = "send"]
      /\ UNCHANGED <<freeVars, rx, packets, freed, isRxDone>>
  BY DEF IndInv, TxTake
<1>2. /\ sendQ' \in Seq(Buffers) /\ Len(sendQ') = Len(sendQ) - 1
      /\ sendHeld' \in [{TxThread} -> Seq(Buffers)]
      /\ SendHand = << >> /\ Len(SendHand') = 1
      /\ ToSet(SendHand') \cup ToSet(sendQ') = ToSet(sendQ)
      /\ sendClaimed' = sendClaimed + 1
  BY <1>1, SendTake
<1>3. /\ TxType' /\ tx'.pc = "send" /\ tx'.batch = tx.batch /\ tx'.k = tx.k
      /\ tx.batch \in Nat /\ tx.batch >= 1
  <2>1. TxType /\ tx.batch \in Nat
    BY <1>1, Constants DEF TypeOK, TxType
  <2>2. tx.batch >= 1
    BY <1>1, <2>1
  <2>3. QED
    BY <1>1, <2>1, <2>2 DEF TxType
<1>4. TxBuf' = TxBuf /\ RxBuf' = RxBuf /\ FreeHand' = FreeHand /\ freeQ' = freeQ
  BY <1>1 DEF TypeOK, TxBuf, RxBuf, FreeHand, freeVars
<1>5. Len(SendHand) = 0 /\ ToSet(SendHand) = {}
  BY <1>2, NoElements
<1>6. TypeOK'
  BY SMTT(40), <1>1, <1>2, <1>3, <1>5, Constants DEF IndInv, InHands, TypeOK, TxType, freeVars
<1>7. Total' = Total
  BY <1>1, <1>2, <1>4, <1>5, Sizes DEF Total
<1>8. Content' = Content
  BY <1>1, <1>2, <1>4, <1>5 DEF Content
<1>9. InHands' /\ Counted'
  BY <1>1, <1>2, <1>3, <1>4, <1>5 DEF IndInv, InHands, Counted, freeVars
<1>10. QED
  BY <1>6, <1>7, <1>8, <1>9 DEF IndInv, Conserved

(* The dequeue returns and the packet is sent. *)
LEMMA TxSendInd ==
    ASSUME IndInv, TxSend
    PROVE  IndInv' /\ (Conserved => Conserved')
<1>1. /\ TypeOK /\ Send!Release(TxThread) /\ tx.pc = "send"
      /\ tx' = [tx EXCEPT !.pc = "return", !.buf = SendHand]
      /\ UNCHANGED <<freeVars, rx, packets, freed, isRxDone>>
  BY DEF IndInv, TxSend, SendHand
<1>2. /\ sendQ' = sendQ /\ sendHeld' \in [{TxThread} -> Seq(Buffers)]
      /\ SendHand' = << >> /\ sendClaimed' = sendClaimed - Len(SendHand)
  BY <1>1, SendRelease
<1>3. SendHand \in Seq(Buffers)
  BY <1>1, Sizes
<1>4. /\ TxType' /\ TxBuf' = SendHand /\ tx'.pc = "return"
      /\ tx'.batch = tx.batch /\ tx'.k = tx.k
  BY <1>1, <1>3 DEF TypeOK, TxType, TxBuf
<1>5. RxBuf' = RxBuf /\ FreeHand' = FreeHand /\ freeQ' = freeQ
  BY <1>1 DEF RxBuf, FreeHand, freeVars
<1>6. /\ Len(SendHand') = 0 /\ ToSet(SendHand') = {}
      /\ Len(TxBuf) = 0 /\ Len(SendHand) = 1 /\ sendClaimed = 1
  BY <1>1, <1>2, NoElements DEF IndInv, InHands
<1>7. ToSet(TxBuf) = {}
  BY <1>1, <1>6, Sizes, EmptySeq, NoElements
<1>8. TypeOK'
  BY <1>1, <1>2, <1>4, <1>6, Constants DEF TypeOK, TxType, freeVars
<1>9. Total' = Total
  <2>1. Len(TxBuf') = 1
    BY <1>4, <1>6
  <2>2. QED
    BY <1>1, <1>2, <1>5, <1>6, <2>1, Sizes DEF Total
<1>10. Content' = Content
  BY <1>1, <1>2, <1>4, <1>5, <1>6, <1>7 DEF Content
<1>11. InHands' /\ Counted'
  BY <1>1, <1>2, <1>4, <1>5, <1>6 DEF IndInv, InHands, Counted, freeVars
<1>12. QED
  BY <1>8, <1>9, <1>10, <1>11 DEF IndInv, Conserved

(* The buffer goes back to packet_buffers. *)
LEMMA TxReturnInd ==
    ASSUME IndInv, TxReturn
    PROVE  IndInv' /\ (Conserved => Conserved')
<1>1. /\ TypeOK /\ tx.pc = "return" /\ Free!Put(TxBuf)
      /\ tx' = [tx EXCEPT !.pc = "flush", !.batch = @ - 1, !.buf = << >>]
      /\ UNCHANGED <<sendVars, rx, packets, freed, isRxDone>>
  BY DEF IndInv, TxReturn, TxBuf
<1>2. TxBuf \in Seq(Buffers) /\ Len(TxBuf) = 1
  BY <1>1, Sizes DEF IndInv, InHands
<1>3. /\ freeQ' \in Seq(Buffers) /\ Len(freeQ') = Len(freeQ) + 1
      /\ ToSet(freeQ') = ToSet(freeQ) \cup ToSet(TxBuf)
      /\ freeHeld' = freeHeld /\ freeClaimed' = freeClaimed /\ FreeHand' = FreeHand
  BY <1>1, <1>2, FreePut
<1>4. /\ TxType' /\ TxBuf' = << >> /\ tx'.pc = "flush" /\ tx'.k = tx.k
  <2>1. tx.batch - 1 \in 0 .. MaxBatch
    BY <1>1, Constants DEF IndInv, TypeOK, Counted
  <2>2. TxType /\ << >> \in Seq(Buffers)
    BY <1>1 DEF TypeOK, TxType
  <2>3. QED
    BY <1>1, <2>1, <2>2 DEF TxType, TxBuf
<1>5. Len(TxBuf') = 0 /\ ToSet(TxBuf') = {}
  BY <1>4, NoElements
<1>6. RxBuf' = RxBuf /\ SendHand' = SendHand /\ sendQ' = sendQ
  BY <1>1 DEF RxBuf, SendHand, sendVars
<1>7. TypeOK'
  BY <1>1, <1>3, <1>4, Constants DEF TypeOK, TxType, sendVars
<1>8. Total' = Total
  BY <1>1, <1>2, <1>3, <1>5, <1>6, Sizes DEF Total
<1>9. Content' = Content
  BY <1>1, <1>3, <1>5, <1>6 DEF Content
<1>10. InHands' /\ Counted'
  BY <1>1, <1>3, <1>4, <1>5, <1>6 DEF IndInv, InHands, Counted, sendVars
<1>11. QED
  BY <1>7, <1>8, <1>9, <1>10 DEF IndInv, Conserved

(* Every step preserves the invariant, and loses no buffer unless an ARP
   request for us comes over a link that is not Ethernet. *)
LEMMA StepInd ==
    IndInv /\ [Next]_vars =>
        /\ IndInv'
        /\ ArpLinks \subseteq {"ethernet"} /\ Conserved => Conserved'
<1> SUFFICES ASSUME IndInv, [Next]_vars
             PROVE  /\ IndInv'
                    /\ ArpLinks \subseteq {"ethernet"} /\ Conserved => Conserved'
  OBVIOUS
<1>1. CASE RxPacket \/ \E link \in ArpLinks : RxArp(link)
  BY <1>1, RxPacketInd
<1>2. CASE RxGet \/ RxDrain
  BY <1>2, RxTakeInd
<1>3. CASE RxFormat
  BY <1>3, RxFormatInd
<1>4. CASE ArpFormat
  <2>1. CASE proto_arp_parse(rx.arp)
    BY <1>4, <2>1, RxFormatInd
  <2>2. CASE ~proto_arp_parse(rx.arp)
    BY <1>4, <2>2, ArpDroppedInd
  <2>3. QED
    BY <2>1, <2>2
<1>5. CASE RxPut
  BY <1>5, RxPutInd
<1>6. CASE RxLeave \/ RxExit
  BY <1>6, RxLeaveInd
<1>7. CASE RxFree
  BY <1>7, RxFreeInd
<1>8. CASE TxRound \/ TxTest \/ \E n \in 0 .. MaxBatch : TxThrottle(n)
  BY <1>8, TxRoundInd
<1>9. CASE TxTake
  BY <1>9, TxTakeInd
<1>10. CASE TxSend
  BY <1>10, TxSendInd
<1>11. CASE TxReturn
  BY <1>11, TxReturnInd
<1>12. CASE EndScan
  <2>1. /\ isRxDone' = TRUE
        /\ UNCHANGED <<freeVars, sendVars, rx, tx, packets, freed>>
    BY <1>12 DEF EndScan
  <2>2. RxBuf' = RxBuf /\ TxBuf' = TxBuf
    BY <2>1 DEF RxBuf, TxBuf
  <2>3. Total' = Total /\ Content' = Content
    BY <2>1, <2>2, NothingMoves
  <2>4. TypeOK' /\ InHands' /\ Counted'
    BY <2>1, <2>2 DEF IndInv, TypeOK, InHands, Counted, freeVars, sendVars,
                      FreeHand, SendHand
  <2>5. QED
    BY <2>3, <2>4 DEF IndInv, Conserved
<1>13. CASE UNCHANGED vars
  <2>1. UNCHANGED <<freeVars, sendVars, rx, tx, packets, freed, isRxDone>>
    BY <1>13 DEF vars
  <2>2. RxBuf' = RxBuf /\ TxBuf' = TxBuf
    BY <2>1 DEF RxBuf, TxBuf
  <2>3. Total' = Total /\ Content' = Content
    BY <2>1, <2>2, NothingMoves
  <2>4. TypeOK' /\ InHands' /\ Counted'
    BY <2>1, <2>2 DEF IndInv, TypeOK, InHands, Counted, freeVars, sendVars,
                      FreeHand, SendHand
  <2>5. QED
    BY <2>3, <2>4 DEF IndInv, Conserved
<1>14. QED
  BY <1>1, <1>2, <1>3, <1>4, <1>5, <1>6, <1>7, <1>8, <1>9, <1>10, <1>11, <1>12,
     <1>13 DEF Next, RxStep, TxStep, RxSleep, Finished

(* The inductive invariant holds in every reachable state. *)
THEOREM QueuesInvariant == Spec => []IndInv
<1>1. Init => IndInv
  BY InitInd
<1>2. IndInv /\ [Next]_vars => IndInv'
  BY StepInd
<1>3. QED
  BY <1>1, <1>2, PTL DEF Spec

(* The two queues, the hands and the locals of both threads keep their types. *)
THEOREM QueuesTypeCorrect == Spec => []TypeOK
<1>1. IndInv => TypeOK
  BY DEF IndInv
<1>2. QED
  BY <1>1, QueuesInvariant, PTL

(* What the comments in proto-tcp.c and main.c call impossible is: whoever
   enqueues finds room, in both rings, whatever packets arrive and however the
   two threads interleave. *)
THEOREM RingsNeverFull == Spec => []NoRingEverFull
<1>1. IndInv => NoRingEverFull
  <2> SUFFICES ASSUME IndInv PROVE NoRingEverFull
    OBVIOUS
  <2>1. /\ Len(freeQ) \in Nat /\ Len(sendQ) \in Nat /\ Len(SendHand) \in Nat
        /\ Len(FreeHand) \in Nat /\ Len(RxBuf) \in Nat /\ Len(TxBuf) \in Nat
        /\ Cardinality(freed) \in Nat /\ Total <= Capacity
    BY Sizes DEF IndInv
  <2>2. freeClaimed = Len(FreeHand) /\ sendClaimed = Len(SendHand)
    BY DEF IndInv, InHands
  <2>3. ASSUME rx.pc = "put" PROVE Len(sendQ) + sendClaimed < Capacity
    <3>1. Len(RxBuf) = 1
      BY <2>3 DEF IndInv, InHands
    <3>2. QED
      BY <2>1, <2>2, <3>1, Constants DEF Total
  <2>4. ASSUME tx.pc = "return" PROVE Len(freeQ) + freeClaimed < Capacity
    <3>1. Len(TxBuf) = 1
      BY <2>4 DEF IndInv, InHands
    <3>2. QED
      BY <2>1, <2>2, <3>1, Constants DEF Total
  <2>5. QED
    BY <2>3, <2>4 DEF NoRingEverFull
<1>2. QED
  BY <1>1, QueuesInvariant, PTL

(* While ARP requests reach us over Ethernet only, no buffer is ever lost, in
   two hands, or used after malloc has it back. *)
THEOREM NoBufferLost ==
    ASSUME ArpLinks \subseteq {"ethernet"}
    PROVE  Spec => []BuffersConserved
<1>1. Init => IndInv /\ Conserved
  BY InitInd
<1>2. (IndInv /\ Conserved) /\ [Next]_vars => (IndInv /\ Conserved)'
  BY StepInd
<1>3. IndInv /\ Conserved => BuffersConserved
  BY EverywhereIs, Constants DEF IndInv, Conserved, BuffersConserved
<1>4. QED
  BY <1>1, <1>2, <1>3, PTL DEF Spec
=============================================================================
