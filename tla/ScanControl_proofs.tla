------------------------- MODULE ScanControl_proofs -------------------------
(***************************************************************************)
(* From the ranges given to the probes.  The scan: one that is interrupted *)
(* and resumed leaves nothing out, and one that ends by itself has sent    *)
(* every index all its probes, for any range, rate, number of adapters,    *)
(* number of retries and choice of options, and however often it is        *)
(* interrupted - if it is not one of several shards.  The shuffle is a     *)
(* permutation of the indices.  Lists of ranges stand for what was given,  *)
(* less what was excluded, and every number below their count picks one    *)
(* member.  Together: every address and port wanted is probed, and no      *)
(* other.                                                                  *)
(***************************************************************************)
EXTENDS ScanControl, Blackrock, RangeList, FiniteSetTheorems, TLAPS

\* Every probe of an index has been sent.
Sent(j) == \A r \in AllRetries : <<j, r>> \in probed

\* What adapter n goes through in this run, and that it has sent it up to m.
Mine(n) == {resumeIndex + n + k * NicCount : k \in Nat}
SentUpTo(n, m) == \A j \in Mine(n) : j < m => Sent(j)

TxStates == {"loop", "probe", "test", "end", "linger", "done"}
MainStates ==
    {"status", "read", "decide", "save", "wait", "poll", "join", "exited", "killed"}

Types ==
    /\ tx \in [Nics -> [pc : TxStates, i : Nat, r : Nat, batch : Nat]]
    /\ \A n \in Nics : tx[n].r \in 1 .. (opt.retries + 1)
    /\ myIndex \in [Nics -> Nat]
    /\ main \in [pc : MainStates, nic : Nat, min : Nat, waited : Nat]
    /\ opt \in Options /\ resumeIndex \in Nat /\ paused \in Nat

\* The thread: what it has sent, also of the index in work.
Behind ==
    \A n \in Nics :
        /\ tx[n].i \in Mine(n) /\ SentUpTo(n, tx[n].i)
        /\ \A r \in AllRetries : r > tx[n].r => <<tx[n].i, r>> \in probed

\* With --infinite the thread starts again only when it has finished an index.
Whole ==
    \A n \in Nics :
        /\ tx[n].i >= End(n) => tx[n].r = opt.retries + 1
        /\ tx[n].pc = "end" => isTxDone

\* What it has published, and what main_scan has made of that.
Published == \A n \in Nics : SentUpTo(n, myIndex[n])
Minimum ==
    /\ \A n \in Nics : n < main.nic => SentUpTo(n, main.min)
    /\ main.nic = 0 => main.min = UINT64_MAX
    /\ main.pc \in {"status", "decide", "save"} => main.nic \in {0, NicCount}
    /\ main.pc = "read" => main.nic < NicCount

\* What was skipped when this run began, and what the file will skip.
Resumed == \A j \in Nat : j < resumeIndex => Sent(j)
Saved == paused # None => \A j \in Nat : j < paused => Sent(j)

IInv == Types /\ Behind /\ Whole /\ Published /\ Minimum /\ Resumed /\ Saved

Alone == One = 1 /\ Of = 1

LEMMA Constants ==
    /\ NicCount \in Nat /\ NicCount >= 1 /\ TargetCount \in Nat /\ TargetCount >= 1
    /\ RateUnit \in Nat /\ RateUnit >= 1
    /\ MaxBatch \in Nat /\ MaxRuns \in Nat
    /\ UINT64_MAX \in Nat /\ UINT64_MAX >= TargetCount /\ None = UINT64_MAX
    /\ \A o \in Options : o.retries \in Nat /\ o.count \in Nat /\ o.rate \in Nat
    /\ Nics = 0 .. (NicCount - 1)
<1>1. /\ NicCount \in Nat /\ NicCount >= 1 /\ TargetCount \in Nat /\ TargetCount >= 1
      /\ RateUnit \in Nat /\ RateUnit >= 1
      /\ Of \in Nat /\ MaxRetries \in Nat /\ MaxRate \in Nat /\ MaxBatch \in Nat /\ MaxRuns \in Nat
    BY ScanControlAssumption
<1>2. MaxRetries * MaxRate \in Nat
    BY <1>1
<1>3. UINT64_MAX \in Nat /\ UINT64_MAX >= TargetCount
    BY <1>1, <1>2 DEF UINT64_MAX
<1>4. \A o \in Options : o.retries \in Nat /\ o.count \in Nat /\ o.rate \in Nat
    BY <1>1, ScanControlAssumption
<1> QED
    BY <1>1, <1>3, <1>4 DEF None, Nics

LEMMA MineInNat ==
    ASSUME NEW n \in Nat, resumeIndex \in Nat, NEW j \in Mine(n)
    PROVE  j \in Nat /\ j >= resumeIndex + n
<1>1. PICK k \in Nat : j = resumeIndex + n + k * NicCount
    BY DEF Mine
<1>2. k * NicCount \in Nat
    BY Constants
<1> QED
    BY <1>1, <1>2

\* Two indices of one adapter differ by a multiple of the number of adapters.
LEMMA NextOfMine ==
    ASSUME NEW n \in Nat, resumeIndex \in Nat, NEW i \in Mine(n)
    PROVE  /\ i \in Nat /\ i + NicCount \in Mine(n)
           /\ \A j \in Mine(n) : j < i + NicCount => j <= i
<1>1. PICK k \in Nat : i = resumeIndex + n + k * NicCount
    BY DEF Mine
<1>2. NicCount \in Nat /\ k * NicCount \in Nat
    BY Constants
<1>3. (k + 1) * NicCount = k * NicCount + NicCount
    BY Constants
<1>4. i + NicCount \in Mine(n)
    <2>1. i + NicCount = resumeIndex + n + (k + 1) * NicCount
        BY <1>1, <1>2, <1>3
    <2> QED
        BY <2>1 DEF Mine
<1>5. ASSUME NEW j \in Mine(n), j < i + NicCount PROVE j <= i
    <2>1. PICK l \in Nat : j = resumeIndex + n + l * NicCount
        BY DEF Mine
    <2>2. CASE l <= k
        <3>1. k - l \in Nat /\ (k - l) * NicCount \in Nat
            BY <2>2, Constants
        <3>2. k * NicCount = l * NicCount + (k - l) * NicCount
            BY <3>1, Constants
        <3>3. l * NicCount \in Nat
            BY <2>1, Constants
        <3> QED
            BY <1>1, <1>2, <2>1, <3>1, <3>2, <3>3
    <2>3. CASE l > k
        <3>1. l - (k + 1) \in Nat /\ (l - (k + 1)) * NicCount \in Nat
            BY <2>3, Constants
        <3>2. l * NicCount = (k + 1) * NicCount + (l - (k + 1)) * NicCount
            BY <3>1, Constants
        <3> QED
            BY <1>1, <1>2, <1>3, <1>5, <2>1, <3>1, <3>2
    <2> QED
        BY <2>2, <2>3
<1> QED
    BY <1>1, <1>2, <1>4, <1>5

\* Every index from resumeIndex on is some adapter's.
LEMMA Everyones ==
    ASSUME resumeIndex \in Nat, NEW j \in Nat, j >= resumeIndex
    PROVE  \E n \in Nics : j \in Mine(n)
<1> DEFINE d == j - resumeIndex
           n == d % NicCount
           k == d \div NicCount
<1>1. d \in Nat
    OBVIOUS
<1>2. n \in 0 .. (NicCount - 1) /\ k \in Nat /\ d = NicCount * k + n
    BY <1>1, Constants
<1>3. k * NicCount = NicCount * k /\ NicCount * k \in Nat
    BY <1>2, Constants
<1>4. j = resumeIndex + n + k * NicCount
    BY <1>2, <1>3, Constants
<1> QED
    BY <1>2, <1>4, Constants DEF Mine

\* What has been sent stays sent.
LEMMA Keeps ==
    ASSUME UNCHANGED conf, probed \subseteq probed'
    PROVE  /\ \A j : Sent(j) => Sent(j)'
           /\ \A n : Mine(n)' = Mine(n)
           /\ \A n, m : SentUpTo(n, m) => SentUpTo(n, m)'
           /\ Resumed => Resumed'
           /\ AllRetries' = AllRetries /\ \A n : End(n)' = End(n)
<1>1. opt' = opt /\ resumeIndex' = resumeIndex
    BY DEF conf
<1>2. AllRetries' = AllRetries
    BY <1>1 DEF AllRetries
<1>3. \A j : Sent(j) => Sent(j)'
    BY <1>2 DEF Sent
<1>4. \A n : Mine(n)' = Mine(n)
    BY <1>1 DEF Mine
<1>5. \A n, m : SentUpTo(n, m) => SentUpTo(n, m)'
    BY <1>3, <1>4 DEF SentUpTo
<1>6. Resumed => Resumed'
    BY <1>1, <1>3 DEF Resumed
<1>7. \A n : End(n)' = End(n)
    BY <1>1 DEF End, Start, ThreadRate
<1> QED
    BY <1>2, <1>3, <1>4, <1>5, <1>6, <1>7

LEMMA Divided ==
    ASSUME NEW x \in Nat, NEW u \in Nat \ {0}
    PROVE  x \div u \in Nat /\ x % u \in 0 .. (u - 1) /\ x = u * (x \div u) + (x % u)
OBVIOUS

\* The rate of the threads, rounded down, and what it makes of the range: not
\* more than main_scan's, which rounds after it has multiplied.
LEMMA RateType ==
    ASSUME IInv
    PROVE  /\ ThreadRate \in Nat /\ opt.retries \in Nat /\ opt.retries * ThreadRate \in Nat
           /\ ThreadRange \in Nat /\ FullRange \in Nat /\ ThreadRange <= FullRange
           /\ UNCHANGED conf => ThreadRange' = ThreadRange /\ FullRange' = FullRange
<1>1. PICK r \in Nat, x \in Nat, u \in Nat \ {0} :
          r = opt.retries /\ x = opt.rate /\ u = RateUnit
    <2>1. RateUnit \in Nat \ {0}
        BY Constants
    <2>2. opt.retries \in Nat /\ opt.rate \in Nat
        BY Constants DEF IInv, Types
    <2> QED
        BY <2>1, <2>2
<1>2. PICK q \in Nat : q = x \div u /\ u * q <= x
    <2>1. x \div u \in Nat /\ x = u * (x \div u) + (x % u) /\ x % u \in 0 .. (u - 1)
        BY Divided
    <2>2. PICK d \in Nat, m \in Nat : d = x \div u /\ x = u * d + m
        BY <2>1
    <2>3. u * d \in Nat
        OBVIOUS
    <2> QED
        BY <2>2, <2>3
<1>3. r * q \in Nat /\ r * x \in Nat
    OBVIOUS
<1>4. u * (r * q) <= r * x
    <2>1. u * (r * q) = r * (u * q)
        OBVIOUS
    <2>2. PICK y \in Nat : y = u * q
        <3>1. u * q \in Nat
            OBVIOUS
        <3> QED
            BY <3>1
    <2>3. r * y <= r * x
        <3>1. PICK d \in Nat : x = y + d
            <4>1. x - y \in Nat /\ x = y + (x - y)
                BY <1>2, <2>2
            <4> QED
                BY <4>1
        <3>2. r * x = r * y + r * d /\ r * d \in Nat /\ r * y \in Nat
            BY <3>1
        <3> QED
            BY <3>2
    <2> QED
        BY <2>1, <2>2, <2>3
<1>5. (r * x) \div u \in Nat /\ r * q <= (r * x) \div u
    <2>1. PICK a \in Nat, b \in Nat : a = r * q /\ b = r * x /\ u * a <= b
        BY <1>3, <1>4
    <2>2. PICK c \in Nat, e \in Nat : c = b \div u /\ b = u * c + e /\ e < u
        <3>1. b \div u \in Nat /\ b % u \in 0 .. (u - 1) /\ b = u * (b \div u) + (b % u)
            BY Divided
        <3> QED
            BY <3>1, <1>1
    <2>3. a <= c
        <3> SUFFICES ASSUME a >= c + 1 PROVE FALSE
            OBVIOUS
        <3>1. PICK d \in Nat : a = c + 1 + d
            <4>1. a - (c + 1) \in Nat /\ a = c + 1 + (a - (c + 1))
                OBVIOUS
            <4> QED
                BY <4>1
        <3>2. u * a = u * c + u + u * d /\ u * d \in Nat /\ u * c \in Nat
            BY <3>1
        <3> QED
            BY <2>1, <2>2, <3>2
    <2> QED
        BY <2>1, <2>2, <2>3
<1>6. ThreadRate = q /\ ThreadRange = TargetCount + r * q /\ FullRange = TargetCount + (r * x) \div u
    BY <1>1, <1>2 DEF ThreadRate, ThreadRange, FullRange
<1>7. UNCHANGED conf => ThreadRange' = ThreadRange /\ FullRange' = FullRange
    BY DEF ThreadRange, FullRange, ThreadRate, conf
<1>8. TargetCount \in Nat
    BY Constants
<1>9. PICK v \in Nat, w \in Nat : v = r * q /\ w = (r * x) \div u /\ v <= w
    BY <1>3, <1>5
<1> QED
    BY <1>1, <1>6, <1>7, <1>8, <1>9

LEMMA EndType ==
    ASSUME IInv, Alone, NEW n \in Nics
    PROVE  Start(n) \in Nat /\ Start(n) = resumeIndex + n /\ End(n) \in Nat
<1>1. opt.retries \in Nat /\ opt.count \in Nat /\ resumeIndex \in Nat /\ n \in Nat
    BY Constants DEF IInv, Types
<1>2. opt.retries * ThreadRate \in Nat
    BY RateType
<1>3. Start(n) = resumeIndex + n
    BY <1>1 DEF Start, Alone
<1> QED
    BY SMTT(40), <1>1, <1>2, <1>3, Constants DEF End

LEMMA InitInv == Alone /\ Init => IInv
<1> SUFFICES ASSUME Alone, Init PROVE IInv
    OBVIOUS
<1>1. /\ opt \in Options /\ opt.retries \in Nat /\ resumeIndex = 0 /\ paused = None
      /\ myIndex = [n \in Nics |-> 0] /\ main = NewMain
      /\ tx = [n \in Nics |-> [pc |-> "loop", i |-> n, r |-> opt.retries + 1, batch |-> 0]]
    BY Constants DEF Init, NewTx, Alone
<1>2. Types
    <2>1. tx \in [Nics -> [pc : TxStates, i : Nat, r : Nat, batch : Nat]]
        BY <1>1, Constants DEF TxStates
    <2>2. main \in [pc : MainStates, nic : Nat, min : Nat, waited : Nat]
        BY <1>1, Constants DEF NewMain, MainStates
    <2>3. /\ \A n \in Nics : tx[n].r \in 1 .. (opt.retries + 1)
          /\ myIndex \in [Nics -> Nat] /\ paused \in Nat
        BY <1>1, Constants
    <2> QED
        BY <1>1, <2>1, <2>2, <2>3 DEF Types
<1>4. \A n \in Nics : n \in Mine(n)
    <2> SUFFICES ASSUME NEW n \in Nics PROVE n \in Mine(n)
        OBVIOUS
    <2>1. n = resumeIndex + n + 0 * NicCount /\ 0 \in Nat
        BY <1>1, Constants
    <2> QED
        BY <2>1 DEF Mine
<1>5. Behind
    <2> SUFFICES ASSUME NEW n \in Nics
                 PROVE  /\ tx[n].i \in Mine(n) /\ SentUpTo(n, tx[n].i)
                        /\ \A r \in AllRetries : ~(r > tx[n].r)
        BY DEF Behind
    <2>1. tx[n].i = n /\ tx[n].r = opt.retries + 1 /\ n \in Nat
        BY <1>1, Constants
    <2>2. \A j \in Mine(n) : j \in Nat /\ ~(j < n)
        BY <1>1, <2>1, MineInNat
    <2>3. \A r \in AllRetries : ~(r > opt.retries + 1)
        BY <1>1 DEF AllRetries
    <2> QED
        BY <1>4, <2>1, <2>2, <2>3 DEF SentUpTo
<1>6. Whole
    BY <1>1 DEF Whole
<1>7. Published
    <2>1. \A n \in Nics : \A j \in Mine(n) : ~(j < 0)
        BY <1>1, Constants, MineInNat
    <2> QED
        BY <1>1, <2>1 DEF Published, SentUpTo
<1>8. Minimum /\ Resumed /\ Saved
    BY <1>1, Constants DEF Minimum, Resumed, Saved, NewMain
<1> QED
    BY <1>2, <1>5, <1>6, <1>7, <1>8 DEF IInv

\* Steps after which the thread is at the same index and the same retry.
LEMMA ThreadMoves ==
    ASSUME IInv, NEW n \in Nics, TxBatch(n) \/ TxTest(n) \/ TxLeave(n)
    PROVE  IInv'
<1>1. /\ UNCHANGED <<myIndex, main, isTxDone, conf, paused, probed>>
      /\ tx' \in [Nics -> [pc : TxStates, i : Nat, r : Nat, batch : Nat]]
      /\ \A m \in Nics : tx'[m].i = tx[m].i /\ tx'[m].r = tx[m].r
      /\ \A m \in Nics : tx'[m].pc = "end" => isTxDone
    <2>1. CASE TxBatch(n)
        <3>1. PICK b \in 1 .. MaxBatch : tx' = [tx EXCEPT ![n].pc = "probe", ![n].batch = b]
            BY <2>1 DEF TxBatch
        <3>2. b \in Nat
            BY Constants
        <3> QED
            BY ZenonT(40), <2>1, <3>1, <3>2 DEF TxBatch, flags, IInv, Types, TxStates, Whole
    <2>2. CASE TxTest(n)
        BY <2>2 DEF TxTest, flags, IInv, Types, TxStates, Whole
    <2>3. CASE TxLeave(n)
        BY <2>3 DEF TxLeave, flags, IInv, Types, TxStates, Whole
    <2> QED
        BY <2>1, <2>2, <2>3
<1>2. /\ tx' \in [Nics -> [pc : TxStates, i : Nat, r : Nat, batch : Nat]]
      /\ \A m \in Nics : tx'[m].i = tx[m].i /\ tx'[m].r = tx[m].r
      /\ \A m \in Nics : tx'[m].pc = "end" => isTxDone
    BY <1>1
<1>3. opt' = opt /\ resumeIndex' = resumeIndex
    BY <1>1 DEF conf
<1>4. Types'
    BY <1>1, <1>2, <1>3 DEF IInv, Types
<1>5. Behind'
    BY <1>1, <1>2, Keeps DEF IInv, Behind
<1>6. Whole'
    BY <1>1, <1>2, <1>3, Keeps DEF IInv, Whole
<1>7. Published' /\ Minimum' /\ Resumed' /\ Saved'
    BY <1>1, Keeps DEF IInv, Published, Minimum, Saved
<1> QED
    BY <1>4, <1>5, <1>6, <1>7 DEF IInv

LEMMA ProbeStep ==
    ASSUME IInv, Alone, NEW n \in Nics, TxProbe(n)
    PROVE  IInv'
<1> PICK i, r, full : i = tx[n].i /\ r = tx[n].r /\ full = opt.retries + 1
    OBVIOUS
<1>1. /\ UNCHANGED <<myIndex, main, isTxDone, conf, paused>>
      /\ probed' = probed \cup {<<i, r>>} /\ i < End(n) /\ tx[n].pc = "probe"
      /\ tx' = [tx EXCEPT ![n] =
                  [pc |-> "probe", batch |-> tx[n].batch - 1,
                   i |-> IF r = 1 THEN i + Increment ELSE i,
                   r |-> IF r = 1 THEN full ELSE r - 1]]
      /\ tx[n].batch > 0
    BY DEF TxProbe, flags
<1>2. Increment = NicCount /\ NicCount \in Nat
    BY Constants DEF Increment, Alone
<1>3. /\ i \in Nat /\ r \in 1 .. full /\ full \in Nat /\ tx[n].batch \in Nat /\ n \in Nat
      /\ resumeIndex \in Nat /\ i \in Mine(n)
    <2>1. tx[n] \in [pc : TxStates, i : Nat, r : Nat, batch : Nat] /\ tx[n].r \in 1 .. (opt.retries + 1)
        BY DEF IInv, Types
    <2>2. opt.retries \in Nat /\ n \in Nat /\ resumeIndex \in Nat
        BY Constants DEF IInv, Types
    <2>3. tx[n].i \in Mine(n)
        BY DEF IInv, Behind
    <2> QED
        BY <2>1, <2>2, <2>3
<1>4. /\ tx' \in [Nics -> [pc : TxStates, i : Nat, r : Nat, batch : Nat]]
      /\ \A m \in Nics : tx'[m].r \in 1 .. full
    BY <1>1, <1>2, <1>3 DEF IInv, Types, TxStates
<1>5. opt' = opt /\ resumeIndex' = resumeIndex
    BY <1>1 DEF conf
<1>6. Types'
    BY <1>1, <1>4, <1>5 DEF IInv, Types
<1>7. \A s \in AllRetries : s >= r => <<i, s>> \in probed'
    BY <1>1, <1>3 DEF IInv, Behind, AllRetries
<1>8. \A m \in Nics : m # n => tx'[m] = tx[m]
    BY <1>1 DEF IInv, Types
<1>9. CASE r = 1
    <2>1. tx'[n].i = i + NicCount /\ tx'[n].r = full /\ tx'[n].pc = "probe"
        BY <1>1, <1>2, <1>9 DEF IInv, Types
    <2>2. Sent(i)'
        BY <1>7, <1>9, <1>5 DEF Sent, AllRetries
    <2>3. SentUpTo(n, i)'
        BY <1>1, Keeps DEF IInv, Behind
    <2>4. SentUpTo(n, i + NicCount)'
        <3> SUFFICES ASSUME NEW j \in Mine(n), j < i + NicCount PROVE Sent(j)'
            BY <1>1, Keeps DEF SentUpTo
        <3>1. j <= i /\ j \in Nat
            BY <1>3, NextOfMine
        <3> QED
            BY <1>1, <1>3, <2>2, <2>3, <3>1, Keeps DEF SentUpTo
    <2>5. i + NicCount \in Mine(n)'
        BY <1>1, <1>3, NextOfMine, Keeps
    <2>6. \A s \in AllRetries : ~(s > full)
        BY <1>3 DEF AllRetries
    <2>7. Behind'
        <3>1. /\ tx'[n].i \in Mine(n)' /\ SentUpTo(n, tx[n].i)'
              /\ \A s \in AllRetries' : s > tx'[n].r => <<tx'[n].i, s>> \in probed'
            BY <1>1, <2>1, <2>4, <2>5, <2>6, Keeps
        <3> QED
            BY <1>1, <1>8, <3>1, Keeps DEF IInv, Behind
    <2>8. Whole'
        BY <1>1, <1>5, <1>8, <2>1, Keeps DEF IInv, Whole
    <2> QED
        BY <2>7, <2>8, <1>1, <1>6, Keeps DEF IInv, Published, Minimum, Saved
<1>10. CASE r # 1
    <2>1. tx'[n].i = i /\ tx'[n].r = r - 1 /\ tx'[n].pc = "probe"
        BY <1>1, <1>2, <1>10 DEF IInv, Types
    <2>2. Behind'
        <3>1. \A s \in AllRetries : s > r - 1 => s >= r
            BY <1>3 DEF AllRetries
        <3>2. /\ tx'[n].i \in Mine(n)' /\ SentUpTo(n, tx[n].i)'
              /\ \A s \in AllRetries' : s > tx'[n].r => <<tx'[n].i, s>> \in probed'
            BY <1>1, <1>3, <1>7, <2>1, <3>1, Keeps DEF IInv, Behind
        <3> QED
            BY <1>1, <1>8, <3>2, Keeps DEF IInv, Behind
    <2>3. End(n)' = End(n) /\ End(n) \in Nat
        BY <1>1, Keeps, EndType
    <2>4. Whole'
        BY <1>1, <1>3, <1>5, <1>8, <2>1, <2>3, Keeps DEF IInv, Whole
    <2> QED
        BY <2>2, <2>4, <1>1, <1>6, Keeps DEF IInv, Published, Minimum, Saved
<1> QED
    BY <1>9, <1>10

LEMMA SaveStep ==
    ASSUME IInv, NEW n \in Nics, TxSave(n)
    PROVE  IInv'
<1>1. /\ UNCHANGED <<main, isTxDone, conf, paused, probed>>
      /\ myIndex' = [myIndex EXCEPT ![n] = tx[n].i]
      /\ tx' = [tx EXCEPT ![n].pc = "test", ![n].batch = 0]
    BY DEF TxSave, flags
<1>2. /\ tx' \in [Nics -> [pc : TxStates, i : Nat, r : Nat, batch : Nat]]
      /\ \A m \in Nics : tx'[m].i = tx[m].i /\ tx'[m].r = tx[m].r
      /\ \A m \in Nics : tx'[m].pc = "end" => isTxDone
      /\ myIndex' \in [Nics -> Nat]
    BY <1>1 DEF IInv, Types, TxStates, Whole
<1>3. opt' = opt /\ resumeIndex' = resumeIndex
    BY <1>1 DEF conf
<1>4. Types'
    BY <1>1, <1>2, <1>3 DEF IInv, Types
<1>5. Behind'
    BY <1>1, <1>2, Keeps DEF IInv, Behind
<1>6. Whole'
    BY <1>1, <1>2, <1>3, Keeps DEF IInv, Whole
<1>7. Published'
    <2>1. \A m \in Nics : myIndex'[m] \in {myIndex[m], tx[m].i}
        BY <1>1 DEF IInv, Types
    <2> QED
        BY <1>1, <2>1, Keeps DEF IInv, Behind, Published
<1>8. Minimum' /\ Resumed' /\ Saved'
    BY <1>1, Keeps DEF IInv, Minimum, Saved
<1> QED
    BY <1>4, <1>5, <1>6, <1>7, <1>8 DEF IInv

LEMMA EndStep ==
    ASSUME IInv, Alone, NEW n \in Nics, TxEnd(n)
    PROVE  IInv'
<1>1. /\ UNCHANGED <<myIndex, main, isTxDone, conf, paused, probed>>
      /\ \/ tx[n].pc = "end"
         \/ tx[n].pc = "loop" /\ tx[n].i >= End(n)
    BY DEF TxEnd, flags
<1>2. opt' = opt /\ resumeIndex' = resumeIndex
    BY <1>1 DEF conf
<1>3. CASE opt.infinite /\ ~isTxDone
    <2>1. tx' = [tx EXCEPT ![n].pc = "loop", ![n].i = Start(n)]
        BY <1>3 DEF TxEnd
    <2>2. Start(n) \in Nat /\ Start(n) = resumeIndex + n /\ tx[n].r = opt.retries + 1
        BY <1>1, <1>3, EndType DEF IInv, Whole
    <2>3. /\ tx' \in [Nics -> [pc : TxStates, i : Nat, r : Nat, batch : Nat]]
          /\ \A m \in Nics : tx'[m].r = tx[m].r /\ (tx'[m].pc = "end" => isTxDone)
          /\ \A m \in Nics : m # n => tx'[m].i = tx[m].i
          /\ tx'[n].i = Start(n)
        BY <2>1, <2>2 DEF IInv, Types, TxStates, Whole
    <2>4. Types'
        BY <1>1, <1>2, <2>3 DEF IInv, Types
    <2>5. Start(n) \in Mine(n) /\ SentUpTo(n, Start(n))
        <3>1. n \in Nat /\ resumeIndex \in Nat
            BY Constants DEF IInv, Types
        <3>2. Start(n) = resumeIndex + n + 0 * NicCount /\ 0 \in Nat
            BY <2>2, <3>1, Constants
        <3>3. \A j \in Mine(n) : ~(j < Start(n))
            BY <2>2, <3>1, MineInNat
        <3> QED
            BY <3>2, <3>3 DEF Mine, SentUpTo
    <2>6. \A r \in AllRetries : ~(r > tx[n].r)
        BY SMTT(40), <2>2, Constants DEF AllRetries, IInv, Types
    <2>7. Behind'
        <3>1. PICK i : i = Start(n)
            OBVIOUS
        <3>2. i \in Mine(n)' /\ SentUpTo(n, i)'
            BY <1>1, <2>5, <3>1, Keeps
        <3>3. /\ tx'[n].i \in Mine(n)' /\ SentUpTo(n, tx[n].i)'
              /\ \A r \in AllRetries' : ~(r > tx'[n].r)
            BY <1>1, <2>3, <2>6, <3>1, <3>2, Keeps
        <3> QED
            BY <1>1, <2>3, <3>3, Keeps DEF IInv, Behind
    <2>8. Whole'
        BY <1>1, <1>2, <2>2, <2>3, Keeps DEF IInv, Whole
    <2> QED
        BY <1>1, <2>4, <2>7, <2>8, Keeps DEF IInv, Published, Minimum, Saved
<1>4. CASE ~(opt.infinite /\ ~isTxDone)
    <2>1. tx' = [tx EXCEPT ![n].pc = "linger"]
        BY <1>4 DEF TxEnd
    <2>2. /\ tx' \in [Nics -> [pc : TxStates, i : Nat, r : Nat, batch : Nat]]
          /\ \A m \in Nics : tx'[m].i = tx[m].i /\ tx'[m].r = tx[m].r
          /\ \A m \in Nics : tx'[m].pc = "end" => isTxDone
        BY <2>1 DEF IInv, Types, TxStates, Whole
    <2>3. Types'
        BY <1>1, <1>2, <2>2 DEF IInv, Types
    <2>4. Behind' /\ Whole'
        BY <1>1, <1>2, <2>2, Keeps DEF IInv, Behind, Whole
    <2> QED
        BY <1>1, <2>3, <2>4, Keeps DEF IInv, Published, Minimum, Saved
<1> QED
    BY <1>3, <1>4

\* Steps that concern neither the threads nor the file.
LEMMA Aside ==
    ASSUME IInv, UNCHANGED <<tx, myIndex, conf, paused, probed>>, isTxDone => isTxDone',
           main' \in [pc : MainStates, nic : Nat, min : Nat, waited : Nat], Minimum'
    PROVE  IInv'
<1>1. opt' = opt /\ resumeIndex' = resumeIndex
    BY DEF conf
<1>2. Types'
    BY <1>1 DEF IInv, Types
<1>3. Behind' /\ Published' /\ Resumed' /\ Saved'
    BY Keeps DEF IInv, Behind, Published, Saved
<1>4. Whole'
    BY <1>1, Keeps DEF IInv, Whole
<1> QED
    BY <1>2, <1>3, <1>4 DEF IInv

LEMMA MainReadStep == ASSUME IInv, MainRead PROVE IInv'
<1> PICK k, low : k = main.nic /\ low = (IF main.min > myIndex[main.nic] THEN myIndex[main.nic] ELSE main.min)
    OBVIOUS
<1>1. /\ main.pc = "read" /\ UNCHANGED <<tx, myIndex, conf, paused, probed, isTxDone>>
      /\ main' = [main EXCEPT !.min = low, !.nic = k + 1,
                              !.pc = IF k + 1 = NicCount THEN "decide" ELSE "read"]
    BY DEF MainRead, flags
<1>2. k \in Nics /\ k \in Nat /\ main.min \in Nat /\ myIndex[k] \in Nat
    <2>1. main.nic \in Nat /\ main.nic < NicCount /\ main.min \in Nat
        BY <1>1 DEF IInv, Types, Minimum
    <2>2. k \in Nics
        BY <2>1, Constants
    <2> QED
        BY <2>1, <2>2 DEF IInv, Types
<1>3. low \in Nat /\ low <= main.min /\ low <= myIndex[k]
    BY <1>2
<1>4. /\ main' \in [pc : MainStates, nic : Nat, min : Nat, waited : Nat]
      /\ main'.nic = k + 1 /\ main'.min = low
      /\ main'.pc = (IF k + 1 = NicCount THEN "decide" ELSE "read")
    <2>1. main \in [pc : MainStates, nic : Nat, min : Nat, waited : Nat]
        BY DEF IInv, Types
    <2>2. CASE k + 1 = NicCount
        <3>1. main' = [main EXCEPT !.min = low, !.nic = k + 1, !.pc = "decide"]
            BY <1>1, <2>2
        <3>2. main' = [pc |-> "decide", nic |-> k + 1, min |-> low, waited |-> main.waited]
            BY <2>1, <3>1
        <3>3. main.waited \in Nat /\ "decide" \in MainStates
            BY <2>1 DEF MainStates
        <3> QED
            BY <1>2, <1>3, <2>2, <3>2, <3>3
    <2>3. CASE k + 1 # NicCount
        <3>1. main' = [main EXCEPT !.min = low, !.nic = k + 1, !.pc = "read"]
            BY <1>1, <2>3
        <3>2. main' = [pc |-> "read", nic |-> k + 1, min |-> low, waited |-> main.waited]
            BY <2>1, <3>1
        <3>3. main.waited \in Nat /\ "read" \in MainStates
            BY <2>1 DEF MainStates
        <3> QED
            BY <1>2, <1>3, <2>3, <3>2, <3>3
    <2> QED
        BY <2>2, <2>3
<1>5. \A n \in Nics : n < k + 1 => SentUpTo(n, low)
    <2> SUFFICES ASSUME NEW n \in Nics, n < k + 1, NEW j \in Mine(n), j < low PROVE Sent(j)
        BY DEF SentUpTo
    <2>1. j \in Nat /\ n \in Nat
        BY MineInNat, Constants DEF IInv, Types
    <2>2. CASE n = k
        BY <1>2, <1>3, <2>1, <2>2 DEF IInv, Published, SentUpTo
    <2>3. CASE n < k
        BY <1>2, <1>3, <2>1, <2>3 DEF IInv, Minimum, SentUpTo
    <2> QED
        BY <1>2, <2>1, <2>2, <2>3
<1>6. Minimum'
    <2>1. \A n \in Nics : n < main'.nic => SentUpTo(n, main.min)'
        BY <1>1, <1>4, <1>5, Keeps
    <2>2. k + 1 # 0 /\ (k + 1 # NicCount => k + 1 < NicCount)
        BY <1>2, Constants
    <2> QED
        BY <1>4, <2>1, <2>2 DEF Minimum
<1> QED
    BY <1>1, <1>4, <1>6, Aside

LEMMA MainStep ==
    ASSUME IInv, MainStatus \/ MainDecide \/ MainWait \/ MainPoll \/ MainJoin \/ Tick \/ CtrlC \/ Kill
    PROVE  IInv'
<1>1. /\ UNCHANGED <<tx, myIndex, conf, paused, probed>> /\ (isTxDone => isTxDone')
      /\ main' \in [pc : MainStates, nic : Nat, min : Nat, waited : Nat]
      /\ \/ main'.nic = main.nic /\ main'.min = main.min
         \/ main'.nic = 0 /\ main'.min = UINT64_MAX
      /\ main'.pc \in {"status", "decide", "save"} => main.nic \in {0, NicCount}
      /\ main'.pc = "read" => main'.nic < NicCount
    <2>1. CASE MainStatus
        <3>1. CASE isTxDone \/ ~opt.status
            <4>1. main' = [main EXCEPT !.pc = "save"]
                BY <2>1, <3>1 DEF MainStatus
            <4> QED
                BY <2>1, <4>1 DEF MainStatus, flags, IInv, Types, MainStates, Minimum
        <3>2. CASE ~(isTxDone \/ ~opt.status)
            <4>1. main' = [main EXCEPT !.pc = "read", !.nic = 0, !.min = UINT64_MAX]
                BY <2>1, <3>2 DEF MainStatus
            <4>2. main' = [pc |-> "read", nic |-> 0, min |-> UINT64_MAX, waited |-> main.waited]
                BY <4>1 DEF IInv, Types
            <4>3. main.waited \in Nat /\ "read" \in MainStates
                BY DEF IInv, Types, MainStates
            <4> QED
                <5>1. UNCHANGED <<tx, myIndex, conf, paused, probed, isTxDone>>
                    BY <2>1 DEF MainStatus, flags
                <5>2. main' \in [pc : MainStates, nic : Nat, min : Nat, waited : Nat]
                    BY <4>2, <4>3, Constants
                <5>3. /\ main'.pc = "read" /\ main'.nic = 0 /\ main'.min = UINT64_MAX
                      /\ main'.nic < NicCount
                    BY <4>2, Constants
                <5> QED
                    BY <5>1, <5>2, <5>3
        <3> QED
            BY <3>1, <3>2
    <2>2. CASE MainDecide
        BY <2>2 DEF MainDecide, IInv, Types, MainStates, Minimum
    <2>3. CASE MainWait
        BY <2>3 DEF MainWait, IInv, Types, MainStates, Minimum
    <2>4. CASE MainPoll
        BY <2>4 DEF MainPoll, IInv, Types, MainStates, Minimum
    <2>5. CASE MainJoin
        BY <2>5 DEF MainJoin, IInv, Types, MainStates, Minimum
    <2>6. CASE Tick
        BY <2>6 DEF Tick, flags, IInv, Types, MainStates, Minimum
    <2>7. CASE CtrlC
        BY <2>7 DEF CtrlC, IInv, Types, MainStates, Minimum
    <2>8. CASE Kill
        BY <2>8 DEF Kill, flags, IInv, Types, MainStates, Minimum
    <2> QED
        BY <2>1, <2>2, <2>3, <2>4, <2>5, <2>6, <2>7, <2>8
<1>2. Minimum'
    <2>1. CASE main'.nic = main.nic /\ main'.min = main.min
        BY <1>1, <2>1, Keeps DEF IInv, Minimum
    <2>2. CASE main'.nic = 0 /\ main'.min = UINT64_MAX
        <3>1. \A n \in Nics : ~(n < 0)
            BY Constants
        <3> QED
            BY <1>1, <2>2, <3>1 DEF Minimum
    <2> QED
        BY <1>1, <2>1, <2>2
<1> QED
    BY <1>1, <1>2, Aside

\* Once all adapters have been looked at, the minimum holds for all of them,
\* and what it is the minimum of is everything.
LEMMA MainSaveStep == ASSUME IInv, MainSave PROVE IInv'
<1>1. /\ main.pc = "save" /\ main' = [main EXCEPT !.pc = "wait"]
      /\ UNCHANGED <<tx, myIndex, isTxDone, conf, probed>>
      /\ paused' = IF main.min < TargetCount THEN main.min ELSE paused
    BY DEF MainSave, flags
<1>2. /\ main' \in [pc : MainStates, nic : Nat, min : Nat, waited : Nat]
      /\ main'.pc = "wait" /\ main'.nic = main.nic /\ main'.min = main.min
      /\ opt' = opt /\ resumeIndex' = resumeIndex /\ paused' \in Nat
    BY <1>1 DEF IInv, Types, MainStates, conf
<1>3. Types'
    BY <1>1, <1>2 DEF IInv, Types
<1>4. Behind' /\ Published' /\ Resumed' /\ Minimum'
    BY <1>1, <1>2, Keeps DEF IInv, Behind, Published, Minimum
<1>5. Whole'
    BY <1>1, <1>2, Keeps DEF IInv, Whole
<1>6. Saved'
    <2>1. CASE main.min < TargetCount
        <3>1. main.nic = NicCount
            BY <1>1, <2>1, Constants DEF IInv, Minimum, Types
        <3>2. \A n \in Nics : SentUpTo(n, main.min)
            BY <3>1, Constants DEF IInv, Minimum
        <3>3. ASSUME NEW j \in Nat, j < main.min PROVE Sent(j)
            <4>1. CASE j < resumeIndex
                BY <4>1 DEF IInv, Resumed
            <4>2. CASE j >= resumeIndex
                <5>1. PICK n \in Nics : j \in Mine(n)
                    BY <4>2, Everyones DEF IInv, Types
                <5> QED
                    BY <3>2, <3>3, <5>1 DEF SentUpTo
            <4> QED
                BY <4>1, <4>2 DEF IInv, Types
        <3> QED
            BY <1>1, <2>1, <3>3, Keeps DEF Saved
    <2>2. CASE ~(main.min < TargetCount)
        BY <1>1, <2>2, Keeps DEF IInv, Saved
    <2> QED
        BY <2>1, <2>2
<1> QED
    BY <1>3, <1>4, <1>5, <1>6 DEF IInv

LEMMA ResumeStep == ASSUME IInv, Alone, Resume PROVE IInv'
<1>1. /\ paused # None /\ opt' = opt /\ paused' = paused /\ probed' = probed
      /\ resumeIndex' = paused /\ main' = NewMain /\ isTxDone' = FALSE
      /\ myIndex' = [n \in Nics |-> paused] /\ tx' = NewTx(paused, opt.retries)
    BY DEF Resume
<1>2. opt \in Options /\ opt.retries \in Nat /\ paused \in Nat
    BY Constants DEF IInv, Types
<1>3. tx' = [n \in Nics |-> [pc |-> "loop", i |-> paused + n, r |-> opt.retries + 1, batch |-> 0]]
    BY <1>1, <1>2, Constants DEF NewTx, Alone
<1>4. Types'
    <2>1. tx' \in [Nics -> [pc : TxStates, i : Nat, r : Nat, batch : Nat]]
        BY <1>2, <1>3, Constants DEF TxStates
    <2>2. main' \in [pc : MainStates, nic : Nat, min : Nat, waited : Nat]
        BY <1>1, Constants DEF NewMain, MainStates
    <2>3. /\ \A n \in Nics : tx'[n].r \in 1 .. (opt.retries + 1)
          /\ myIndex' \in [Nics -> Nat]
        BY <1>1, <1>2, <1>3, Constants
    <2> QED
        BY <1>1, <1>2, <2>1, <2>2, <2>3 DEF Types
<1>5. \A n \in Nics : /\ paused + n \in Mine(n)' /\ \A j \in Mine(n)' : j \in Nat /\ j >= paused + n
    <2> SUFFICES ASSUME NEW n \in Nics
                 PROVE  /\ paused + n \in Mine(n)'
                        /\ \A k \in Nat : /\ paused + n + k * NicCount \in Nat
                                          /\ paused + n + k * NicCount >= paused + n
        BY <1>1 DEF Mine
    <2>1. n \in Nat /\ \A k \in Nat : k * NicCount \in Nat
        BY Constants
    <2>2. paused + n = paused + n + 0 * NicCount /\ 0 \in Nat
        BY <1>2, <2>1, Constants
    <2>3. paused + n \in Mine(n)'
        BY <1>1, <2>2 DEF Mine
    <2> QED
        BY <1>2, <2>1, <2>3
<1>6. Behind'
    <2> SUFFICES ASSUME NEW n \in Nics
                 PROVE  /\ tx'[n].i \in Mine(n)' /\ SentUpTo(n, tx[n].i)'
                        /\ \A r \in AllRetries' : ~(r > tx'[n].r)
        BY DEF Behind
    <2>1. tx'[n].i = paused + n /\ tx'[n].r = opt.retries + 1 /\ n \in Nat
        BY <1>3, Constants
    <2>2. \A r \in AllRetries' : ~(r > opt.retries + 1)
        BY <1>1, <1>2 DEF AllRetries
    <2>3. \A j \in Mine(n)' : ~(j < tx'[n].i)
        BY <1>2, <1>5, <2>1
    <2> QED
        BY <1>5, <2>1, <2>2, <2>3 DEF SentUpTo
<1>7. Whole'
    BY <1>1, <1>3 DEF Whole
<1>8. Published'
    <2>1. \A n \in Nics : n \in Nat /\ myIndex'[n] = paused
        BY <1>1, Constants
    <2>2. \A n \in Nics : \A j \in Mine(n)' : ~(j < myIndex'[n])
        BY <1>2, <1>5, <2>1
    <2> QED
        BY <2>2 DEF Published, SentUpTo
<1>9. Minimum'
    BY <1>1, Constants DEF Minimum, NewMain
<1>10. \A j : Sent(j)' <=> Sent(j)
    BY <1>1 DEF Sent, AllRetries
<1>11. Resumed' /\ Saved'
    BY <1>1, <1>10 DEF IInv, Resumed, Saved
<1> QED
    BY <1>4, <1>6, <1>7, <1>8, <1>9, <1>11 DEF IInv

LEMMA IdleStep ==
    ASSUME IInv, (\E n \in Nics : RxThread(n)) \/ Over \/ UNCHANGED vars
    PROVE  IInv'
<1>1. UNCHANGED <<tx, myIndex, main, isTxDone, conf, paused, probed>>
    BY DEF RxThread, RxWants, RxBuffer, RxLeave, Over, vars, flags, conf
<1>2. main' \in [pc : MainStates, nic : Nat, min : Nat, waited : Nat] /\ Minimum'
    BY <1>1, Keeps DEF IInv, Types, Minimum
<1> QED
    BY <1>1, <1>2, Aside

LEMMA NextInv == ASSUME IInv, Alone, [Next]_vars PROVE IInv'
<1>1. CASE \E n \in Nics : TxThread(n)
    BY <1>1, ThreadMoves, ProbeStep, SaveStep, EndStep DEF TxThread
<1>2. CASE Main
    BY <1>2, MainStep, MainReadStep, MainSaveStep DEF Main
<1>3. CASE Tick \/ CtrlC \/ Kill \/ Resume
    BY <1>3, MainStep, ResumeStep
<1>4. CASE (\E n \in Nics : RxThread(n)) \/ Over \/ UNCHANGED vars
    BY <1>4, IdleStep
<1> QED
    BY <1>1, <1>2, <1>3, <1>4 DEF Next

\* masscan_save_state and --resume (main.c:1337-1383, main-conf.c:311): the
\* resume-index is the minimum of indices that main_scan has read one by one,
\* up to a second ago, from threads that move on.  Nothing below it is left
\* out, whoever dies or is interrupted when, and however often.
THEOREM NothingSkipped ==
    ASSUME Alone
    PROVE  Spec => []ResumeSkipsNothing
<1>1. IInv => ResumeSkipsNothing
    <2> SUFFICES ASSUME IInv, paused # None, NEW i \in 0 .. (paused - 1), NEW r \in AllRetries
                 PROVE  <<i, r>> \in probed
        BY DEF ResumeSkipsNothing
    <2>1. i \in Nat /\ i < paused
        BY DEF IInv, Types
    <2> QED
        BY <2>1 DEF IInv, Saved, Sent
<1>2. Init => IInv
    BY InitInv
<1>3. IInv /\ [Next]_vars => IInv'
    BY NextInv
<1> QED
    BY <1>1, <1>2, <1>3, PTL DEF Spec

----------------------------------------------------------------------------
(* The end of a scan that nobody interrupts *)

\* Every index has had its probes, those of the retries included.
AllSent == \A j \in Nat : j < ThreadRange => Sent(j)

\* is_tx_done is set only when all has been sent, and a thread lingers only
\* when its share has.
Ended ==
    /\ IsFiniteSet(probed) /\ presses \in Nat
    /\ main.pc = "decide" => main.nic = NicCount
    /\ main.pc = "exited" => isTxDone
    /\ opt.count = 0 /\ presses = 0 =>
          /\ isTxDone => AllSent
          /\ \A n \in Nics : tx[n].pc \in {"linger", "done"} => SentUpTo(n, ThreadRange)

\* What is published, and what main_scan makes of it, lags behind; main_scan
\* leaves its status loop when is_tx_done is set, and is_rx_done is set when
\* the seconds of --wait have passed after that.
Awaited ==
    /\ rx \in [Nics -> {"run", "wait", "dry", "done"}] /\ isRxDone \in Nat
    /\ ~opt.infinite =>
          \A n \in Nics : myIndex[n] <= tx[n].i /\ (n < main.nic => main.min <= tx[n].i)
    /\ \A n \in Nics : rx[n] = "done" \/ tx[n].pc = "done" => isRxDone > 0
    /\ opt.status /\ presses = 0 =>
          /\ isTxDone => \A m \in Nics : tx[m].i >= End(m)
          /\ main.pc \in {"save", "wait", "poll", "join", "exited"} => isTxDone
          /\ isRxDone > 0 => isTxDone /\ main.waited >= Wait

\* Without --resume-count an adapter is to go up to the threads' range,
\* which is not above main_scan's, and never beyond it.
LEMMA EndBelow ==
    ASSUME IInv, Alone, NEW n \in Nics
    PROVE  /\ End(n) <= ThreadRange /\ End(n) <= FullRange
           /\ opt.count = 0 => End(n) = ThreadRange
<1>1. PICK q \in Nat : q = opt.retries * ThreadRate
    BY RateType
<1>2. Start(n) \in Nat /\ opt.count \in Nat
    BY EndType, Constants DEF IInv, Types
<1>3. TargetCount \in Nat /\ ThreadRange = TargetCount + q /\ ThreadRange <= FullRange /\ FullRange \in Nat
    BY <1>1, RateType, Constants DEF ThreadRange
<1> QED
    BY <1>1, <1>2, <1>3 DEF End

\* Everything is sent when every adapter has sent its share of it.
LEMMA SharesAreAll ==
    ASSUME IInv, NEW m \in Nat, m >= ThreadRange, \A n \in Nics : SentUpTo(n, m)
    PROVE  AllSent
<1> SUFFICES ASSUME NEW j \in Nat, j < ThreadRange PROVE Sent(j)
    BY DEF AllSent
<1>1. CASE j < resumeIndex
    BY <1>1 DEF IInv, Resumed
<1>2. CASE j >= resumeIndex
    <2>1. PICK n \in Nics : j \in Mine(n)
        BY <1>2, Everyones DEF IInv, Types
    <2>2. j < m
        BY RateType
    <2> QED
        BY <2>1, <2>2 DEF SentUpTo
<1> QED
    BY <1>1, <1>2 DEF IInv, Types

LEMMA ShareOfAll ==
    ASSUME IInv, AllSent, NEW n \in Nics
    PROVE  SentUpTo(n, ThreadRange)
<1>1. \A j \in Mine(n) : j \in Nat
    BY MineInNat, Constants DEF IInv, Types
<1> QED
    BY <1>1 DEF AllSent, SentUpTo

\* What a step may do to keep Ended.
LEMMA EndedKeeps ==
    ASSUME IInv, Ended, UNCHANGED conf, probed \subseteq probed', IsFiniteSet(probed'),
           presses' \in Nat, presses' = 0 => presses = 0,
           main'.pc = "decide" => main'.nic = NicCount,
           main'.pc = "exited" => isTxDone',
           opt.count = 0 /\ presses' = 0 /\ isTxDone' => AllSent,
           \A n \in Nics : opt.count = 0 /\ presses' = 0 /\ tx'[n].pc \in {"linger", "done"}
                               => SentUpTo(n, ThreadRange)
    PROVE  Ended'
<1>1. opt' = opt /\ ThreadRange' = ThreadRange
    BY RateType DEF conf
<1>2. AllSent => AllSent'
    BY <1>1, Keeps DEF AllSent
<1>3. \A n \in Nics : SentUpTo(n, ThreadRange) => SentUpTo(n, ThreadRange)'
    <2>1. PICK m : m = ThreadRange
        OBVIOUS
    <2>2. \A n \in Nics : SentUpTo(n, m) => SentUpTo(n, m)'
        BY Keeps
    <2> QED
        BY <1>1, <2>1, <2>2 DEF SentUpTo
<1> QED
    BY <1>1, <1>2, <1>3 DEF Ended
LEMMA EndedInit == Alone /\ Init => Ended
<1> SUFFICES ASSUME Alone, Init PROVE Ended
    OBVIOUS
<1>1. /\ \A n \in Nics : tx[n].pc = "loop"
      /\ main.pc = "status" /\ isTxDone = FALSE /\ presses = 0 /\ probed = {}
    BY DEF Init, NewTx, NewMain
<1>2. IsFiniteSet(probed)
    BY <1>1, FS_EmptySet
<1> QED
    BY <1>1, <1>2 DEF Ended

LEMMA EndedThread ==
    ASSUME IInv, Alone, Ended, NEW n \in Nics, TxThread(n)
    PROVE  Ended'
<1>1. /\ UNCHANGED <<main, isTxDone, conf, presses>> /\ probed \subseteq probed'
      /\ IsFiniteSet(probed')
    <2>1. CASE TxProbe(n)
        <3>1. probed' = probed \cup {<<tx[n].i, tx[n].r>>} /\ UNCHANGED <<main, isTxDone, conf, presses>>
            BY <2>1 DEF TxProbe, flags
        <3>2. IsFiniteSet(probed')
            BY <3>1, FS_AddElement DEF Ended
        <3> QED
            BY <3>1, <3>2
    <2>2. CASE ~TxProbe(n)
        BY <2>2 DEF TxThread, TxBatch, TxSave, TxTest, TxEnd, TxLeave, flags, Ended
    <2> QED
        BY <2>1, <2>2
<1>2. ASSUME NEW m \in Nics, opt.count = 0, presses = 0, tx'[m].pc \in {"linger", "done"}
      PROVE  SentUpTo(m, ThreadRange)
    <2>1. CASE tx[m].pc \in {"linger", "done"}
        BY <1>2, <2>1 DEF Ended
    <2>2. CASE tx[m].pc \notin {"linger", "done"}
        <3>1. m = n /\ TxEnd(n)
            <4>1. CASE TxBatch(n)
                <5>1. PICK b \in 1 .. MaxBatch : tx' = [tx EXCEPT ![n].pc = "probe", ![n].batch = b]
                    BY <4>1 DEF TxBatch
                <5> QED
                    BY <1>2, <2>2, <5>1 DEF IInv, Types
            <4>2. CASE TxProbe(n)
                <5>1. PICK b, i, r :
                          tx' = [tx EXCEPT ![n] = [pc |-> "probe", batch |-> b, i |-> i, r |-> r]]
                    BY <4>2 DEF TxProbe
                <5> QED
                    BY <1>2, <2>2, <5>1 DEF IInv, Types
            <4>3. CASE TxSave(n)
                BY <1>2, <2>2, <4>3 DEF TxSave, IInv, Types
            <4>4. CASE TxTest(n)
                BY <1>2, <2>2, <4>4 DEF TxTest, IInv, Types
            <4>5. CASE TxLeave(n)
                BY <1>2, <2>2, <4>5 DEF TxLeave, IInv, Types
            <4>6. CASE TxEnd(n)
                <5>1. PICK x : tx' = [tx EXCEPT ![n] = x]
                    BY <4>6 DEF TxEnd
                <5> QED
                    BY <1>2, <2>2, <4>6, <5>1 DEF IInv, Types
            <4> QED
                BY <4>1, <4>2, <4>3, <4>4, <4>5, <4>6 DEF TxThread
        <3>2. CASE tx[n].pc = "end"
            BY <1>2, <3>1, <3>2, ShareOfAll DEF IInv, Whole, Ended
        <3>3. CASE tx[n].i >= End(n)
            <4>1. SentUpTo(n, tx[n].i) /\ tx[n].i \in Nat
                BY DEF IInv, Behind, Types
            <4>2. ThreadRange \in Nat /\ ThreadRange <= tx[n].i
                BY <1>2, <3>3, EndBelow, RateType
            <4>3. \A j \in Mine(n) : j \in Nat
                BY MineInNat, Constants DEF IInv, Types
            <4> QED
                BY <3>1, <4>1, <4>2, <4>3 DEF SentUpTo
        <3> QED
            BY <3>1, <3>2, <3>3 DEF TxEnd
    <2> QED
        BY <2>1, <2>2
<1> QED
    BY <1>1, <1>2, EndedKeeps DEF Ended

\* main_scan sets is_tx_done when the minimum of what the threads have
\* published reaches its range, or when they have all left.
LEMMA EndedMain ==
    ASSUME IInv, Alone, Ended, Main
    PROVE  Ended'
<1>1. CASE MainStatus
    <2>1. UNCHANGED <<tx, isTxDone, conf, presses, probed>> /\ main'.pc \in {"save", "read"}
        BY <1>1 DEF MainStatus, flags, IInv, Types
    <2> QED
        BY <2>1, EndedKeeps DEF Ended
<1>2. CASE MainRead
    <2>1. UNCHANGED <<tx, isTxDone, conf, presses, probed>>
        BY <1>2 DEF MainRead, flags
    <2>2. /\ main'.nic = main.nic + 1
          /\ main'.pc = IF main.nic + 1 = NicCount THEN "decide" ELSE "read"
        BY <1>2 DEF MainRead, IInv, Types
    <2> QED
        BY <2>1, <2>2, EndedKeeps DEF Ended
<1>3. CASE MainDecide
    <2>1. /\ UNCHANGED <<tx, conf, presses, probed>> /\ main.pc = "decide" /\ main'.pc = "status"
          /\ isTxDone' = (isTxDone \/ (main.min >= FullRange /\ ~opt.infinite))
        BY <1>3 DEF MainDecide, IInv, Types
    <2>2. ASSUME main.min >= FullRange PROVE AllSent
        <3>1. \A n \in Nics : n < main.nic
            BY <2>1, Constants DEF Ended
        <3>2. \A n \in Nics : SentUpTo(n, main.min)
            BY <3>1 DEF IInv, Minimum
        <3>3. main.min \in Nat
            BY DEF IInv, Types
        <3>4. main.min >= ThreadRange
            BY <2>2, <3>3, RateType
        <3> QED
            BY <2>2, <3>2, <3>3, <3>4, SharesAreAll
    <2> QED
        BY <2>1, <2>2, EndedKeeps DEF Ended
<1>4. CASE MainSave \/ MainWait
    <2>1. /\ UNCHANGED <<tx, isTxDone, conf, presses, probed>>
          /\ main'.pc \in {"wait", "poll", "join"}
        BY <1>4 DEF MainSave, MainWait, flags, IInv, Types
    <2> QED
        BY <2>1, EndedKeeps DEF Ended
<1>5. CASE MainPoll \/ MainJoin
    <2>1. /\ UNCHANGED <<tx, conf, presses, probed>>
          /\ main'.pc \in {"exited", "wait"}
          /\ (isTxDone' => isTxDone \/ AllTransmitted) /\ (main'.pc = "exited" => isTxDone')
        BY <1>5 DEF MainPoll, MainJoin, IInv, Types
    <2>2. ASSUME AllTransmitted, opt.count = 0, presses = 0 PROVE AllSent
        <3>1. \A n \in Nics : SentUpTo(n, ThreadRange)
            BY <2>2 DEF AllTransmitted, Ended
        <3>2. PICK m \in Nat : m = ThreadRange
            BY RateType
        <3> QED
            BY <3>1, <3>2, SharesAreAll
    <2> QED
        BY <2>1, <2>2, EndedKeeps DEF Ended
<1> QED
    BY <1>1, <1>2, <1>3, <1>4, <1>5 DEF Main

LEMMA EndedNext ==
    ASSUME IInv, Alone, Ended, [Next]_vars
    PROVE  Ended'
<1>1. CASE \E n \in Nics : TxThread(n)
    BY <1>1, EndedThread
<1>2. CASE Main
    BY <1>2, EndedMain
<1>3. CASE (\E n \in Nics : RxThread(n)) \/ Over \/ UNCHANGED vars
    <2>1. UNCHANGED <<tx, main, isTxDone, conf, presses, probed>>
        BY <1>3 DEF RxThread, RxWants, RxBuffer, RxLeave, Over, vars, flags
    <2> QED
        BY <2>1, EndedKeeps DEF Ended
<1>4. CASE Tick \/ Kill
    <2>1. /\ UNCHANGED <<tx, isTxDone, conf, presses, probed>> /\ main'.nic = main.nic
          /\ main'.pc \in {main.pc, "killed"}
        BY <1>4 DEF Tick, Kill, flags, IInv, Types
    <2> QED
        BY <2>1, EndedKeeps DEF Ended
<1>5. CASE CtrlC
    <2>1. /\ UNCHANGED <<tx, conf, probed>> /\ presses' = presses + 1 /\ main'.nic = main.nic
          /\ main'.pc \in {main.pc, "killed"} /\ (isTxDone => isTxDone')
        BY <1>5 DEF CtrlC, IInv, Types
    <2>2. presses' \in Nat /\ presses' # 0
        BY <2>1 DEF Ended
    <2> QED
        BY <2>1, <2>2, EndedKeeps DEF Ended
<1>6. CASE Resume
    <2>1. /\ \A n \in Nics : tx'[n].pc = "loop"
          /\ main'.pc = "status" /\ isTxDone' = FALSE /\ presses' = 0 /\ probed' = probed
        BY <1>6 DEF Resume, NewTx, NewMain
    <2> QED
        BY <2>1 DEF Ended
<1> QED
    BY <1>1, <1>2, <1>3, <1>4, <1>5, <1>6 DEF Next

LEMMA AwaitedInit == Alone /\ Init => Awaited
<1> SUFFICES ASSUME Alone, Init PROVE Awaited
    OBVIOUS
<1>1. /\ tx = [n \in Nics |-> [pc |-> "loop", i |-> n, r |-> opt.retries + 1, batch |-> 0]]
      /\ myIndex = [n \in Nics |-> 0] /\ rx = [n \in Nics |-> "run"]
      /\ main.pc = "status" /\ main.nic = 0 /\ isTxDone = FALSE /\ isRxDone = 0
    BY Constants DEF Init, NewTx, NewMain, Alone
<1>2. \A n \in Nics : /\ n \in Nat /\ tx[n].i = n /\ tx[n].pc = "loop" /\ myIndex[n] = 0
                      /\ rx[n] = "run"
    BY <1>1, Constants
<1> QED
    BY <1>1, <1>2 DEF Awaited

\* A thread's index only grows, unless --infinite makes the thread start again.
LEMMA ThreadForward ==
    ASSUME IInv, Alone, NEW n \in Nics, TxThread(n), NEW m \in Nics
    PROVE  /\ tx[m].i \in Nat /\ tx'[m].i \in Nat
           /\ tx'[m].i >= tx[m].i \/ (opt.infinite /\ ~isTxDone)
           /\ tx'[m].pc = "done" => tx[m].pc = "done" \/ isRxDone > 0
<1>1. tx[m].i \in Nat
    BY DEF IInv, Types
<1>2. CASE TxBatch(n)
    <2>1. PICK b \in 1 .. MaxBatch : tx' = [tx EXCEPT ![n].pc = "probe", ![n].batch = b]
        BY <1>2 DEF TxBatch
    <2> QED
        BY <1>1, <2>1 DEF IInv, Types
<1>3. CASE TxProbe(n)
    <2>1. PICK b, j, r : /\ tx' = [tx EXCEPT ![n] = [pc |-> "probe", batch |-> b, i |-> j, r |-> r]]
                         /\ j \in {tx[n].i, tx[n].i + Increment}
        BY <1>3 DEF TxProbe
    <2>2. Increment \in Nat
        BY Constants DEF Increment, Alone
    <2>3. CASE m = n
        <3>1. tx'[m].pc = "probe" /\ tx'[m].i = j
            BY <2>1, <2>3 DEF IInv, Types
        <3> QED
            BY <1>1, <2>1, <2>2, <2>3, <3>1
    <2>4. CASE m # n
        BY <1>1, <2>1, <2>4 DEF IInv, Types
    <2> QED
        BY <2>3, <2>4
<1>4. CASE TxSave(n)
    BY <1>1, <1>4 DEF TxSave, IInv, Types
<1>5. CASE TxTest(n)
    BY <1>1, <1>5 DEF TxTest, IInv, Types
<1>6. CASE TxLeave(n)
    BY <1>1, <1>6 DEF TxLeave, IInv, Types
<1>7. CASE TxEnd(n)
    <2>1. CASE opt.infinite /\ ~isTxDone
        <3>1. PICK i \in Nat : i = Start(n)
            BY EndType
        <3>2. tx' = [tx EXCEPT ![n].pc = "loop", ![n].i = i]
            BY <1>7, <2>1, <3>1 DEF TxEnd, IInv, Types
        <3> QED
            BY <1>1, <2>1, <3>2 DEF IInv, Types
    <2>2. CASE ~(opt.infinite /\ ~isTxDone)
        <3>1. tx' = [tx EXCEPT ![n].pc = "linger"]
            BY <1>7, <2>2 DEF TxEnd
        <3> QED
            BY <1>1, <3>1 DEF IInv, Types
    <2> QED
        BY <2>1, <2>2
<1> QED
    BY <1>2, <1>3, <1>4, <1>5, <1>6, <1>7 DEF TxThread

LEMMA AwaitedThread ==
    ASSUME IInv, Alone, Awaited, NEW n \in Nics, TxThread(n)
    PROVE  Awaited'
<1>1. /\ UNCHANGED <<main, rx, isTxDone, isRxDone, presses, conf>>
      /\ probed \subseteq probed'
      /\ myIndex' \in {myIndex, [myIndex EXCEPT ![n] = tx[n].i]}
    BY DEF TxThread, TxBatch, TxProbe, TxSave, TxTest, TxEnd, TxLeave, flags
<1>2. opt' = opt /\ \A m \in Nics : End(m)' = End(m) /\ End(m) \in Nat
    BY <1>1, EndType, Keeps DEF conf
<1>3. \A m \in Nics : /\ myIndex'[m] \in {myIndex[m], tx[m].i} /\ myIndex[m] \in Nat
                      /\ main.min \in Nat
    BY <1>1 DEF IInv, Types
<1>4. ASSUME ~opt.infinite, NEW m \in Nics
      PROVE  myIndex'[m] <= tx'[m].i /\ (m < main.nic => main.min <= tx'[m].i)
    <2>1. /\ tx[m].i \in Nat /\ tx'[m].i \in Nat /\ tx'[m].i >= tx[m].i
          /\ myIndex[m] <= tx[m].i /\ (m < main.nic => main.min <= tx[m].i)
        BY <1>4, ThreadForward DEF Awaited
    <2> QED
        BY <1>3, <2>1
<1>5. ASSUME NEW m \in Nics, isTxDone, opt.status, presses = 0 PROVE tx'[m].i >= End(m)
    <2>1. tx[m].i \in Nat /\ tx'[m].i \in Nat /\ tx'[m].i >= tx[m].i /\ tx[m].i >= End(m)
        BY <1>5, ThreadForward DEF Awaited
    <2> QED
        BY <1>2, <2>1
<1>6. \A m \in Nics : rx[m] = "done" \/ tx'[m].pc = "done" => isRxDone > 0
    BY ThreadForward DEF Awaited
<1> QED
    BY <1>1, <1>2, <1>4, <1>5, <1>6 DEF Awaited

\* What a step of main_scan, of time or of the handler may do to keep Awaited.
LEMMA AwaitedKeeps ==
    ASSUME IInv, Alone, Awaited, UNCHANGED <<tx, myIndex, conf, probed>>,
           rx' \in [Nics -> {"run", "wait", "dry", "done"}], isRxDone' \in Nat, isRxDone > 0 => isRxDone' > 0,
           \A n \in Nics : rx'[n] = "done" => rx[n] = "done" \/ isRxDone > 0,
           ~opt.infinite => \A n \in Nics : n < main'.nic => main'.min <= tx[n].i,
           presses' = 0 => presses = 0,
           opt.status /\ presses' = 0 =>
               /\ isTxDone' => isTxDone \/ \A m \in Nics : tx[m].i >= End(m)
               /\ main'.pc \in {"save", "wait", "poll", "join", "exited"} => isTxDone'
               /\ isRxDone' > 0 => isTxDone' /\ main'.waited >= Wait
    PROVE  Awaited'
<1>1. opt' = opt /\ \A m \in Nics : End(m)' = End(m)
    BY Keeps DEF conf
<1> QED
    BY <1>1 DEF Awaited

LEMMA AwaitedMain ==
    ASSUME IInv, Alone, Ended, Awaited, Main
    PROVE  Awaited'
<1>1. AllTransmitted => isRxDone > 0
    <2>1. 0 \in Nics
        BY Constants
    <2> QED
        BY <2>1 DEF AllTransmitted, Awaited
<1>2. CASE MainStatus
    <2>1. /\ UNCHANGED <<tx, myIndex, conf, probed, rx, isTxDone, isRxDone, presses>>
          /\ main'.waited = main.waited
          /\ \/ main'.pc = "save" /\ (opt.status => isTxDone) /\ main'.nic = main.nic /\ main'.min = main.min
             \/ main'.pc = "read" /\ main'.nic = 0
        BY <1>2 DEF MainStatus, flags, IInv, Types
    <2>2. \A n \in Nics : ~(n < 0)
        BY Constants
    <2> QED
        BY <2>1, <2>2, AwaitedKeeps DEF Awaited
<1>3. CASE MainRead
    <2> PICK k, low : k = main.nic /\ low = (IF main.min > myIndex[main.nic] THEN myIndex[main.nic] ELSE main.min)
        OBVIOUS
    <2>1. /\ UNCHANGED <<tx, myIndex, conf, probed, rx, isTxDone, isRxDone, presses>>
          /\ main'.waited = main.waited /\ main.pc = "read"
          /\ main'.nic = k + 1 /\ main'.min = low /\ main'.pc \in {"read", "decide"}
        BY <1>3 DEF MainRead, flags, IInv, Types
    <2>2. k \in Nat /\ k \in Nics /\ main.min \in Nat
        BY <2>1, Constants DEF IInv, Types, Minimum
    <2>3. myIndex[k] \in Nat /\ low \in Nat /\ low <= main.min /\ low <= myIndex[k]
        BY <2>2 DEF IInv, Types
    <2>4. ASSUME ~opt.infinite, NEW n \in Nics, n < k + 1 PROVE low <= tx[n].i
        <3>1. tx[n].i \in Nat /\ n \in Nat
            BY Constants DEF IInv, Types
        <3>2. CASE n = k
            BY <2>2, <2>3, <2>4, <3>1, <3>2 DEF Awaited
        <3>3. CASE n < k
            BY <2>2, <2>3, <2>4, <3>1, <3>3 DEF Awaited
        <3> QED
            BY <2>2, <2>4, <3>1, <3>2, <3>3
    <2> QED
        BY <2>1, <2>4, AwaitedKeeps DEF Awaited
<1>4. CASE MainDecide
    <2>1. /\ UNCHANGED <<tx, myIndex, conf, probed, rx, isRxDone, presses>>
          /\ main.pc = "decide" /\ main'.pc = "status" /\ main'.nic = main.nic
          /\ main'.min = main.min /\ main'.waited = main.waited
          /\ isTxDone' = (isTxDone \/ (main.min >= FullRange /\ ~opt.infinite))
        BY <1>4 DEF MainDecide, IInv, Types
    <2>2. ASSUME main.min >= FullRange, ~opt.infinite, NEW m \in Nics PROVE tx[m].i >= End(m)
        <3>1. m < main.nic
            BY <2>1, Constants DEF Ended
        <3>2. main.min <= tx[m].i /\ tx[m].i \in Nat /\ main.min \in Nat
            BY <2>2, <3>1 DEF Awaited, IInv, Types
        <3>3. End(m) \in Nat /\ End(m) <= FullRange /\ FullRange \in Nat
            BY EndType, EndBelow, RateType
        <3> QED
            BY <2>2, <3>2, <3>3
    <2> QED
        BY <2>1, <2>2, AwaitedKeeps DEF Awaited
<1>5. CASE MainSave
    <2>1. /\ UNCHANGED <<tx, myIndex, conf, probed, rx, isTxDone, isRxDone, presses>>
          /\ main.pc = "save" /\ main'.nic = main.nic
          /\ main'.min = main.min /\ main'.waited = main.waited
        BY <1>5 DEF MainSave, flags, IInv, Types
    <2> QED
        BY <2>1, AwaitedKeeps DEF Awaited
<1>6. CASE MainWait
    <2>1. /\ UNCHANGED <<tx, myIndex, conf, probed, rx, isTxDone, presses>>
          /\ main.pc = "wait" /\ main'.nic = main.nic
          /\ main'.min = main.min /\ main'.waited = main.waited
          /\ isRxDone' = IF main.waited >= Wait THEN 1 ELSE isRxDone
        BY <1>6 DEF MainWait, IInv, Types
    <2> QED
        BY <2>1, AwaitedKeeps DEF Awaited
<1>7. CASE MainPoll \/ MainJoin
    <2>1. /\ UNCHANGED <<tx, myIndex, conf, probed, rx, presses>>
          /\ main.pc \in {"poll", "join"} /\ main'.nic = main.nic
          /\ main'.min = main.min /\ main'.waited = main.waited
          /\ isTxDone => isTxDone'
          /\ isTxDone' => isTxDone \/ AllTransmitted
          /\ isRxDone' = isRxDone \/ (isRxDone' = 1 /\ AllTransmitted)
        <3>1. CASE MainPoll
            BY <3>1 DEF MainPoll, IInv, Types
        <3>2. CASE MainJoin
            BY <3>2 DEF MainJoin, IInv, Types
        <3> QED
            BY <1>7, <3>1, <3>2
    <2> QED
        BY <1>1, <2>1, AwaitedKeeps DEF Awaited
<1> QED
    BY <1>2, <1>3, <1>4, <1>5, <1>6, <1>7 DEF Main

LEMMA AwaitedNext ==
    ASSUME IInv, Alone, Ended, Awaited, [Next]_vars
    PROVE  Awaited'
<1>1. CASE \E n \in Nics : TxThread(n)
    BY <1>1, AwaitedThread
<1>2. CASE Main
    BY <1>2, AwaitedMain
<1>3. CASE \E n \in Nics : RxThread(n)
    <2>1. PICK n \in Nics : RxThread(n)
        BY <1>3
    <2>2. /\ UNCHANGED <<tx, main, myIndex, conf, probed, isTxDone, isRxDone, presses>>
          /\ \E pc \in {"run", "wait", "dry", "done"} :
                 rx' = [rx EXCEPT ![n] = pc] /\ (pc = "done" => isRxDone > 0)
        BY <2>1 DEF RxThread, RxWants, RxBuffer, RxLeave, flags
    <2> QED
        BY <2>2, AwaitedKeeps DEF Awaited
<1>4. CASE Over \/ UNCHANGED vars
    <2>1. UNCHANGED <<tx, main, myIndex, conf, probed, rx, isTxDone, isRxDone, presses>>
        BY <1>4 DEF Over, vars, flags
    <2> QED
        BY <2>1, AwaitedKeeps DEF Awaited
<1>5. CASE Tick
    <2>1. /\ UNCHANGED <<tx, myIndex, conf, probed, rx, isTxDone, isRxDone, presses>>
          /\ main'.nic = main.nic /\ main'.min = main.min /\ main'.pc = main.pc
          /\ main'.waited = main.waited + 1 /\ main.waited \in Nat
        BY <1>5 DEF Tick, flags, IInv, Types
    <2>2. Wait \in Nat
        BY ScanControlAssumption
    <2> QED
        BY <2>1, <2>2, AwaitedKeeps DEF Awaited
<1>6. CASE Kill
    <2>1. /\ UNCHANGED <<tx, myIndex, conf, probed, rx, isTxDone, isRxDone, presses>>
          /\ main'.nic = main.nic /\ main'.min = main.min /\ main'.pc = "killed"
          /\ main'.waited = main.waited
        BY <1>6 DEF Kill, flags, IInv, Types
    <2> QED
        BY <2>1, AwaitedKeeps DEF Awaited
<1>7. CASE CtrlC
    <2>1. /\ UNCHANGED <<tx, myIndex, conf, probed, rx>>
          /\ main'.nic = main.nic /\ main'.min = main.min
          /\ presses' = presses + 1 /\ isRxDone' \in {isRxDone, isRxDone + 1}
        BY <1>7 DEF CtrlC, IInv, Types
    <2>2. presses' # 0 /\ isRxDone' \in Nat /\ (isRxDone > 0 => isRxDone' > 0)
        BY <2>1 DEF Ended, Awaited
    <2> QED
        BY <2>1, <2>2, AwaitedKeeps DEF Awaited
<1>8. CASE Resume
    <2>1. /\ tx' = NewTx(paused, opt.retries) /\ myIndex' = [n \in Nics |-> paused]
          /\ rx' = [n \in Nics |-> "run"] /\ isTxDone' = FALSE /\ isRxDone' = 0
          /\ main'.nic = 0 /\ main'.pc = "status"
        BY <1>8 DEF Resume, NewMain
    <2>2. \A n \in Nics : /\ n \in Nat /\ tx'[n].i = paused + n /\ tx'[n].pc = "loop"
                          /\ myIndex'[n] = paused /\ rx'[n] = "run" /\ paused \in Nat
        BY <2>1, Constants DEF NewTx, Alone, IInv, Types
    <2>3. \A n \in Nics : paused <= paused + n /\ ~(n < 0)
        BY <2>2
    <2> QED
        BY <2>1, <2>2, <2>3 DEF Awaited
<1> QED
    BY <1>1, <1>2, <1>3, <1>4, <1>5, <1>6, <1>7, <1>8 DEF Next

\* Shifted by any number of places the range still meets every target.
LEMMA Remainder ==
    ASSUME NEW m \in Nat \ {0}, NEW t \in 0 .. (m - 1), NEW a \in Nat
    PROVE  \E j \in 0 .. (m - 1) : (j + a) % m = t
<1>1. PICK q \in Nat, s \in 0 .. (m - 1) : a = m * q + s
    <2>1. a \div m \in Nat /\ a % m \in 0 .. (m - 1) /\ a = m * (a \div m) + (a % m)
        OBVIOUS
    <2> QED
        BY <2>1
<1>2. \A p \in Nat : (m * p + t) % m = t
    <2> SUFFICES ASSUME NEW p \in Nat PROVE (m * p + t) % m = t
        OBVIOUS
    <2>1. PICK n \in Nat : n = m * p + t
        <3>1. m * p \in Nat
            OBVIOUS
        <3> QED
            BY <3>1
    <2>2. PICK d \in Nat, r \in 0 .. (m - 1) : n = m * d + r /\ r = n % m
        <3>1. n \div m \in Nat /\ n % m \in 0 .. (m - 1) /\ n = m * (n \div m) + (n % m)
            OBVIOUS
        <3> QED
            BY <3>1
    <2>3. m * (p - d) = r - t
        BY <2>1, <2>2
    <2>4. p - d >= 1 => m * (p - d) >= m
        OBVIOUS
    <2>5. p - d <= -1 => m * (p - d) <= -m
        OBVIOUS
    <2>6. p = d
        BY <2>3, <2>4, <2>5
    <2>7. m * (p - d) = 0
        BY <2>6
    <2>8. n % m = t
        BY <2>2, <2>3, <2>7
    <2> QED
        BY <2>1, <2>8
<1>3. CASE s <= t
    <2>1. t - s \in 0 .. (m - 1) /\ (t - s) + a = m * q + t
        BY <1>1, <1>3
    <2> QED
        BY <1>2, <2>1
<1>4. CASE s > t
    <2>1. m * (q + 1) = m * q + m /\ q + 1 \in Nat
        OBVIOUS
    <2>2. t - s + m \in 0 .. (m - 1) /\ (t - s + m) + a = m * (q + 1) + t
        BY <1>1, <1>4, <2>1
    <2> QED
        BY <1>2, <2>1, <2>2
<1> QED
    BY <1>3, <1>4

\* Every retry adds one probe to a target: that of the index rate below.
LEMMA EnoughProbes ==
    ASSUME IInv, IsFiniteSet(probed), AllSent, NEW t \in 0 .. (TargetCount - 1)
    PROVE  Cardinality(ProbesTo(t)) >= opt.retries + 1
<1> DEFINE R == opt.retries + 1
           g == [r \in 1 .. R |-> CHOOSE j \in 0 .. (TargetCount - 1) : (j + r * ThreadRate) % TargetCount = t]
           f == [r \in 1 .. R |-> <<g[r], r>>]
<1>1. opt.retries \in Nat /\ TargetCount \in Nat \ {0} /\ ThreadRate \in Nat
    BY Constants, RateType
<1>2. ASSUME NEW r \in 1 .. R
      PROVE  g[r] \in 0 .. (TargetCount - 1) /\ (g[r] + r * ThreadRate) % TargetCount = t
    <2>1. PICK a \in Nat : a = r * ThreadRate
        <3>1. r \in Nat
            BY <1>1
        <3>2. r * ThreadRate \in Nat
            BY <1>1, <3>1
        <3> QED
            BY <3>2
    <2>2. \E j \in 0 .. (TargetCount - 1) : (j + r * ThreadRate) % TargetCount = t
        BY <1>1, <2>1, Remainder
    <2> QED
        BY <2>2
<1>3. f \in Injection(1 .. R, ProbesTo(t))
    <2>1. ASSUME NEW r \in 1 .. R PROVE f[r] \in ProbesTo(t)
        <3>1. PICK j : j = g[r]
            OBVIOUS
        <3>2. j \in Nat /\ j < ThreadRange /\ Target(j, r) = t
            <4>1. j \in 0 .. (TargetCount - 1) /\ (j + r * ThreadRate) % TargetCount = t
                BY <1>2, <3>1
            <4>2. PICK q \in Nat : q = opt.retries * ThreadRate
                BY RateType
            <4> QED
                BY <1>1, <4>1, <4>2 DEF ThreadRange, Target
        <3>3. r \in AllRetries
            BY DEF AllRetries
        <3>4. <<j, r>> \in probed
            BY <3>2, <3>3 DEF AllSent, Sent
        <3>5. f[r] = <<j, r>>
            BY <3>1
        <3> QED
            BY <3>2, <3>4, <3>5 DEF ProbesTo
    <2>2. ASSUME NEW a \in 1 .. R, NEW b \in 1 .. R, f[a] = f[b] PROVE a = b
        BY <2>2
    <2>3. f = [r \in 1 .. R |-> <<g[r], r>>]
        OBVIOUS
    <2> HIDE DEF f
    <2>4. f \in [1 .. R -> ProbesTo(t)]
        BY <2>1, <2>3
    <2> QED
        BY <2>2, <2>4 DEF Injection, IsInjective
<1>4. IsFiniteSet(ProbesTo(t))
    <2>1. ProbesTo(t) \in SUBSET probed
        BY DEF ProbesTo
    <2> QED
        BY <2>1, FS_Subset
<1> HIDE DEF f
<1>5. Cardinality(1 .. R) <= Cardinality(ProbesTo(t))
    BY <1>3, <1>4, FS_Injection
<1>6. Cardinality(1 .. R) = R
    BY <1>1, FS_Interval
<1>7. Cardinality(ProbesTo(t)) \in Nat
    BY <1>4, FS_CardinalityType
<1> QED
    BY <1>5, <1>6

\* The three inductive invariants of a scan together.
LEMMA EndsAsMeant ==
    ASSUME Alone
    PROVE  Spec => [](IInv /\ Ended /\ Awaited)
<1>1. Init => IInv /\ Ended /\ Awaited
    BY InitInv, EndedInit, AwaitedInit
<1>2. IInv /\ Ended /\ Awaited /\ [Next]_vars => (IInv /\ Ended /\ Awaited)'
    BY NextInv, EndedNext, AwaitedNext
<1> QED
    BY <1>1, <1>2, PTL DEF Spec

\* main_scan's end (main.c:1330-1445): a scan that ends by itself, in whatever
\* order main_scan, the threads and the passing of time got there, resumed any
\* number of times before, has sent every target its probe and every retry; and
\* no adapter has stopped receiving before --wait seconds had passed after the
\* last probe of all of them.
THEOREM EveryoneProbed ==
    ASSUME Alone
    PROVE  Spec => []EveryTargetProbed
<1>1. IInv /\ Ended /\ Awaited => EveryTargetProbed
    <2> SUFFICES ASSUME IInv, Ended, Awaited PROVE EveryTargetProbed
        OBVIOUS
    <2>1. ASSUME main.pc = "exited", presses = 0, opt.count = 0, NEW t \in 0 .. (TargetCount - 1)
          PROVE  Cardinality(ProbesTo(t)) >= opt.retries + 1
        BY <2>1, EnoughProbes DEF Ended
    <2>2. ResponsesAwaited
        BY DEF Awaited, ResponsesAwaited
    <2> QED
        BY <2>1, <2>2 DEF EveryTargetProbed
<1>2. Spec => [](IInv /\ Ended /\ Awaited)
    BY EndsAsMeant
<1> QED
    BY <1>1, <1>2, PTL

----------------------------------------------------------------------------
(* Induction over numbers, for the walks and rounds of the shuffle and for *)
(* what is computed from a list of ranges *)

(* The well-foundedness of finite sets gives every set of numbers a least. *)
LEMMA Least ==
    ASSUME NEW T \in SUBSET Nat, T # {}
    PROVE  \E x \in T : \A y \in T : x <= y
<1> DEFINE Below == {1 .. n : n \in T}
           R == StrictSubsetOrdering(Nat)
           F == FiniteSubsetsOf(Nat)
<1>1. Below # {} /\ Below \subseteq F
    <2>1. ASSUME NEW n \in T PROVE 1 .. n \in F
        BY FS_Interval DEF FiniteSubsetsOf
    <2> QED
        BY <2>1
<1>2. IsWellFoundedOn(R, F)
    BY FS_StrictSubsetOrderingWellFounded
<1>3. PICK U \in Below : \A V \in Below : ~ (<<V, U>> \in R)
    <2> HIDE DEF R, F, Below
    <2> QED
        BY <1>1, <1>2, WFMin
<1>4. PICK x \in T : U = 1 .. x
    OBVIOUS
<1>5. ASSUME NEW y \in T, y < x PROVE FALSE
    <2>1. 1 .. y \subseteq 1 .. x /\ x \in 1 .. x /\ x \notin 1 .. y
        BY <1>5
    <2>2. <<1 .. y, U>> \in R
        BY <1>4, <2>1 DEF StrictSubsetOrdering
    <2> QED
        BY <2>2, <1>3
<1> QED
    BY <1>5

LEMMA Counting ==
    ASSUME NEW n \in Nat, NEW S, 0 \in S,
           \A k \in 1 .. n : k - 1 \in S => k \in S
    PROVE  0 .. n \subseteq S
<1> SUFFICES ASSUME (0 .. n) \ S # {} PROVE FALSE
    OBVIOUS
<1>1. PICK x \in (0 .. n) \ S : \A y \in (0 .. n) \ S : x <= y
    <2>1. (0 .. n) \ S \in SUBSET Nat
        OBVIOUS
    <2> QED
        BY <2>1, Least
<1>2. x \in 1 .. n /\ x - 1 \in 0 .. n /\ ~ (x <= x - 1)
    BY <1>1
<1>3. x - 1 \in S
    BY <1>1, <1>2
<1> QED
    BY <1>1, <1>2, <1>3

\* n steps on S, and what they make of x one after the other.
Steps(n, S) == [(1 .. n) \X S -> S]
Results(n, S, x, F) ==
    {g \in [0 .. n -> S] : g[0] = x /\ \A j \in 1 .. n : g[j] = F[<<j, g[j - 1]>>]}

(* What a definition by recursion on 0 .. n chooses exists. *)
LEMMA Recursion ==
    ASSUME NEW n \in Nat, NEW S, NEW x \in S, NEW F \in Steps(n, S)
    PROVE  Results(n, S, x, F) # {}
<1> DEFINE Defined(g, k) == g[0] = x /\ \A j \in 1 .. k : g[j] = F[<<j, g[j - 1]>>]
           Upto == {k \in 0 .. n : \E g \in [0 .. k -> S] : Defined(g, k)}
<1>1. 0 \in Upto
    <2> DEFINE g == [j \in 0 .. 0 |-> x]
    <2>1. g \in [0 .. 0 -> S] /\ Defined(g, 0)
        OBVIOUS
    <2> HIDE DEF g, Defined
    <2> QED
        BY <2>1
<1>2. ASSUME NEW k \in 1 .. n, k - 1 \in Upto PROVE k \in Upto
    <2>1. PICK g \in [0 .. (k - 1) -> S] : Defined(g, k - 1)
        BY <1>2
    <2> DEFINE h == [j \in 0 .. k |-> IF j = k THEN F[<<k, g[k - 1]>>] ELSE g[j]]
    <2>2. F[<<k, g[k - 1]>>] \in S
        <3>1. k - 1 \in 0 .. (k - 1)
            OBVIOUS
        <3>2. g[k - 1] \in S
            BY <3>1
        <3> QED
            BY <3>2 DEF Steps
    <2>3. \A j \in 0 .. (k - 1) : j \in 0 .. k /\ j # k
        OBVIOUS
    <2>4. h \in [0 .. k -> S]
        <3>1. ASSUME NEW j \in 0 .. k, j # k PROVE g[j] \in S
            <4>1. j \in 0 .. (k - 1)
                BY <3>1
            <4> QED
                BY <4>1
        <3> QED
            BY <2>2, <3>1
    <2>5. h[k] = F[<<k, g[k - 1]>>] /\ \A j \in 0 .. (k - 1) : h[j] = g[j]
        BY <2>3
    <2> HIDE DEF h
    <2>6. Defined(h, k)
        <3>1. 0 \in 0 .. (k - 1) /\ k - 1 \in 0 .. (k - 1)
            OBVIOUS
        <3>2. ASSUME NEW j \in 1 .. k PROVE h[j] = F[<<j, h[j - 1]>>]
            <4>1. CASE j = k
                BY <2>5, <3>1, <4>1
            <4>2. CASE j # k
                <5>1. j \in 1 .. (k - 1) /\ j \in 0 .. (k - 1) /\ j - 1 \in 0 .. (k - 1)
                    BY <4>2
                <5> QED
                    BY <2>1, <2>5, <5>1
            <4> QED
                BY <4>1, <4>2
        <3> QED
            BY <2>1, <2>5, <3>1, <3>2
    <2> HIDE DEF Defined
    <2> QED
        BY <2>4, <2>6
<1>3. n \in Upto
    <2> HIDE DEF Upto
    <2>1. 0 .. n \subseteq Upto
        BY <1>1, <1>2, Counting
    <2> QED
        BY <2>1
<1> QED
    BY <1>3 DEF Results

LEMMA Rest ==
    ASSUME NEW s \in Nat \ {0}, NEW q \in Int, NEW r \in 0 .. (s - 1)
    PROVE  (q * s + r) % s = r
<1> DEFINE x == q * s + r
           p == x \div s
           t == x % s
<1>1. x \in Int /\ p \in Int /\ t \in 0 .. (s - 1) /\ x = s * p + t
    OBVIOUS
<1> HIDE DEF p, t
<1>2. ASSUME p >= q + 1 PROVE FALSE
    <2>1. s * p >= s * (q + 1)
        BY <1>1, <1>2
    <2> QED
        BY <1>1, <2>1
<1>3. ASSUME q >= p + 1 PROVE FALSE
    <2>1. s * q >= s * (p + 1)
        BY <1>1, <1>3
    <2> QED
        BY <1>1, <2>1
<1>4. p = q
    BY <1>1, <1>2, <1>3
<1>5. t = r
    BY <1>1, <1>4
<1> QED
    BY <1>5 DEF t

----------------------------------------------------------------------------
(* One round *)

(* Subtracting modulo s undoes adding modulo s, as ENCRYPT and UNENCRYPT do. *)
LEMMA Subtracted ==
    ASSUME NEW s \in Nat \ {0}, NEW l \in 0 .. (s - 1), NEW f \in Nat,
           NEW t, t = (l + f) % s
    PROVE  (IF f > t THEN (s - ((f - t) % s)) % s ELSE (t - f) % s) = l
<1> DEFINE q == (l + f) \div s
<1>1. q \in Int /\ t \in 0 .. (s - 1) /\ l + f = s * q + t
    OBVIOUS
<1> HIDE DEF q
<1>2. t - f = (- q) * s + l /\ - q \in Int
    BY <1>1
<1>3. (t - f) % s = l
    BY <1>2, Rest
<1>4. CASE l = 0
    <2>1. f - t = q * s + 0
        BY <1>1, <1>4
    <2>2. (q * s + 0) % s = 0
        BY <1>1, Rest
    <2>5. (f - t) % s = 0
        BY <2>1, <2>2
    <2>3. s = 1 * s + 0
        OBVIOUS
    <2>4. s % s = 0
        BY <2>3, Rest
    <2> QED
        BY <1>3, <1>4, <2>5, <2>4
<1>5. CASE l # 0
    <2>1. f - t = (q - 1) * s + (s - l) /\ q - 1 \in Int /\ s - l \in 0 .. (s - 1)
        BY <1>1, <1>5
    <2>2. (f - t) % s = s - l
        BY <2>1, Rest
    <2>3. s - (s - l) = 0 * s + l
        OBVIOUS
    <2>4. (s - (s - l)) % s = l
        BY <2>3, Rest
    <2> QED
        BY <1>3, <2>2, <2>4
<1> QED
    BY <1>4, <1>5

(* A network that blackrock_init could have set up. *)
Net(br) ==
    /\ {br.a, br.b, br.range} \subseteq Nat \ {0} /\ br.seed \in Nat
    /\ br.range <= br.a * br.b

LEMMA NumberRead ==
    ASSUME NEW j \in Nat, NEW half \in Nat, NEW seed \in Nat
    PROVE  READ(j, half, seed) \in Nat
BY DEF READ

(* Where the pair is after j rounds. *)
Pairs(br, j) == IF j % 2 = 0 THEN (0 .. (br.a - 1)) \X (0 .. (br.b - 1))
                             ELSE (0 .. (br.b - 1)) \X (0 .. (br.a - 1))

LEMMA Parity ==
    ASSUME NEW j \in Nat \ {0}
    PROVE  /\ j % 2 = 1 => (j - 1) % 2 = 0
           /\ j % 2 # 1 => (j - 1) % 2 = 1 /\ j % 2 = 0
OBVIOUS

LEMMA RoundKeepsPairs ==
    ASSUME NEW br, Net(br), NEW j \in Nat \ {0}, NEW h \in Pairs(br, j - 1)
    PROVE  /\ Round(br, j, h) \in Pairs(br, j)
           /\ Unround(br, j, Round(br, j, h)) = h
<1> DEFINE s == Side(br, j)
           f == READ(j, h[2], br.seed)
           t == (h[1] + f) % s
<1>1. s \in Nat \ {0} /\ h = <<h[1], h[2]>> /\ h[1] \in 0 .. (s - 1) /\ h[2] \in Nat
    BY Parity DEF Net, Pairs, Side
<1>2. f \in Nat
    BY <1>1, NumberRead DEF Net
<1>3. Round(br, j, h) = <<h[2], t>>
    BY DEF Round
<1>4. t \in 0 .. (s - 1)
    <2> HIDE DEF s, f
    <2> QED
        BY <1>1, <1>2
<1>5. Round(br, j, h) \in Pairs(br, j)
    BY <1>3, <1>4, Parity DEF Pairs, Side
<1>6. (IF f > t THEN (s - ((f - t) % s)) % s ELSE (t - f) % s) = h[1]
    <2> HIDE DEF s, f
    <2> QED
        BY <1>1, <1>2, Subtracted
<1>7. Unround(br, j, <<h[2], t>>)
        = <<IF f > t THEN (s - ((f - t) % s)) % s ELSE (t - f) % s, h[2]>>
    BY DEF Unround
<1> QED
    BY <1>1, <1>3, <1>5, <1>6, <1>7

LEMMA RoundTypes ==
    ASSUME NEW br, Net(br), NEW j \in Nat, NEW h \in Nat \X Nat
    PROVE  Round(br, j, h) \in Nat \X Nat /\ Unround(br, j, h) \in Nat \X Nat
<1> DEFINE s == Side(br, j)
<1>1. s \in Nat \ {0} /\ h[1] \in Nat /\ h[2] \in Nat
    BY DEF Net, Side
<1>2. READ(j, h[2], br.seed) \in Nat /\ READ(j, h[1], br.seed) \in Nat
    BY <1>1, NumberRead DEF Net
<1>3. ASSUME NEW x \in Int PROVE x % s \in Nat
    <2> HIDE DEF s
    <2> QED
        BY <1>1
<1> QED
    BY <1>1, <1>2, <1>3 DEF Round, Unround

----------------------------------------------------------------------------
(* All rounds *)

LEMMA Iteration ==
    ASSUME NEW n \in Nat, NEW S, NEW x \in S, NEW F \in Steps(n, S)
    PROVE  Iterate(n, x, F) \in Results(n, S, x, F)
<1> DEFINE Defined(v) == v = [j \in 0 .. n |-> IF j = 0 THEN x ELSE F[<<j, v[j - 1]>>]]
           v == Iterate(n, x, F)
<1>1. PICK g \in Results(n, S, x, F) : TRUE
    BY Recursion
<1>2. g \in [0 .. n -> S] /\ g[0] = x /\ \A j \in 1 .. n : g[j] = F[<<j, g[j - 1]>>]
    BY DEF Results
<1>3. 0 \in 0 .. n /\ \A j \in 0 .. n : j = 0 \/ j \in 1 .. n
    OBVIOUS
<1>4. Defined(g)
    <2>1. \A j \in 0 .. n : g[j] = IF j = 0 THEN x ELSE F[<<j, g[j - 1]>>]
        BY <1>2, <1>3
    <2>2. g = [j \in 0 .. n |-> g[j]]
        BY <1>2
    <2> QED
        BY <2>1, <2>2
<1>5. v = CHOOSE f : Defined(f)
    BY DEF Iterate
<1>6. Defined(v)
    <2> HIDE DEF Defined
    <2> QED
        BY <1>4, <1>5
<1> HIDE DEF v
<1>7. \A j \in 0 .. n : v[j] = IF j = 0 THEN x ELSE F[<<j, v[j - 1]>>]
    BY <1>6
<1>8. v = g
    <2> DEFINE T == {j \in 0 .. n : v[j] = g[j]}
    <2>1. 0 \in T
        BY <1>2, <1>3, <1>7
    <2>2. ASSUME NEW k \in 1 .. n, k - 1 \in T PROVE k \in T
        <3>1. k \in 0 .. n /\ k # 0 /\ v[k - 1] = g[k - 1]
            BY <2>2
        <3> QED
            BY <1>2, <1>7, <3>1
    <2>3. 0 .. n \subseteq T
        <3> HIDE DEF T
        <3> QED
            BY <2>1, <2>2, Counting
    <2>4. \A j \in 0 .. n : v[j] = g[j]
        BY <2>3
    <2> QED
        BY <1>2, <1>6, <2>4
<1> QED
    BY <1>8 DEF v

LEMMA RoundsAre ==
    ASSUME NEW br, Net(br), NEW h \in Nat \X Nat, NEW e, e = Encrypting(br, h)
    PROVE  /\ e \in [0 .. Rounds -> Halves] /\ e[0] = h
           /\ \A j \in 1 .. Rounds : e[j] = Round(br, j, e[j - 1])
<1> DEFINE F == [p \in (1 .. Rounds) \X Halves |-> Round(br, p[1], p[2])]
<1>1. Rounds \in Nat /\ h \in Halves
    BY BlackrockAssumption DEF Halves
<1>2. F \in Steps(Rounds, Halves)
    BY <1>1, RoundTypes DEF Steps, Halves
<1>3. e = Iterate(Rounds, h, F)
    BY DEF Encrypting
<1>4. e \in Results(Rounds, Halves, h, F)
    <2> HIDE DEF F
    <2> QED
        BY <1>1, <1>2, <1>3, Iteration
<1>5. e \in [0 .. Rounds -> Halves] /\ e[0] = h /\ \A j \in 1 .. Rounds : e[j] = F[<<j, e[j - 1]>>]
    <2> HIDE DEF F
    <2> QED
        BY <1>4 DEF Results
<1>6. ASSUME NEW j \in 1 .. Rounds PROVE e[j] = Round(br, j, e[j - 1])
    <2>1. j - 1 \in 0 .. Rounds
        BY <1>1
    <2>2. e[j - 1] \in Halves
        BY <1>5, <2>1
    <2> QED
        BY <1>5, <2>2
<1> QED
    BY <1>5, <1>6

LEMMA UnroundsAre ==
    ASSUME NEW br, Net(br), NEW h \in Nat \X Nat, NEW d, d = Decrypting(br, h)
    PROVE  /\ d \in [0 .. Rounds -> Halves] /\ d[0] = h
           /\ \A j \in 1 .. Rounds : d[j] = Unround(br, Rounds + 1 - j, d[j - 1])
<1> DEFINE F == [p \in (1 .. Rounds) \X Halves |-> Unround(br, Rounds + 1 - p[1], p[2])]
<1>1. Rounds \in Nat /\ h \in Halves
    BY BlackrockAssumption DEF Halves
<1>2. F \in Steps(Rounds, Halves)
    BY <1>1, RoundTypes DEF Steps, Halves
<1>3. d = Iterate(Rounds, h, F)
    BY DEF Decrypting
<1>4. d \in Results(Rounds, Halves, h, F)
    <2> HIDE DEF F
    <2> QED
        BY <1>1, <1>2, <1>3, Iteration
<1>5. d \in [0 .. Rounds -> Halves] /\ d[0] = h /\ \A j \in 1 .. Rounds : d[j] = F[<<j, d[j - 1]>>]
    <2> HIDE DEF F
    <2> QED
        BY <1>4 DEF Results
<1>6. ASSUME NEW j \in 1 .. Rounds PROVE d[j] = Unround(br, Rounds + 1 - j, d[j - 1])
    <2>1. j - 1 \in 0 .. Rounds
        BY <1>1
    <2>2. d[j - 1] \in Halves
        BY <1>5, <2>1
    <2> QED
        BY <1>5, <2>2
<1> QED
    BY <1>5, <1>6

LEMMA EncryptedPairs ==
    ASSUME NEW br, Net(br), NEW h \in Pairs(br, 0)
    PROVE  \A j \in 0 .. Rounds : Encrypting(br, h)[j] \in Pairs(br, j)
<1> DEFINE e == Encrypting(br, h)
           T == {j \in 0 .. Rounds : e[j] \in Pairs(br, j)}
<1>1. Rounds \in Nat /\ h \in Nat \X Nat
    BY BlackrockAssumption DEF Pairs, Net
<1>2. e[0] = h /\ \A j \in 1 .. Rounds : e[j] = Round(br, j, e[j - 1])
    BY <1>1, RoundsAre
<1> HIDE DEF e
<1>3. 0 \in T
    BY <1>1, <1>2
<1>4. ASSUME NEW k \in 1 .. Rounds, k - 1 \in T PROVE k \in T
    <2>1. k \in Nat \ {0} /\ k \in 0 .. Rounds /\ e[k - 1] \in Pairs(br, k - 1)
        BY <1>1, <1>4
    <2> QED
        BY <1>2, <2>1, RoundKeepsPairs
<1>5. 0 .. Rounds \subseteq T
    <2> HIDE DEF T
    <2> QED
        BY <1>1, <1>3, <1>4, Counting
<1> QED
    BY <1>5 DEF e

LEMMA DecryptedPairs ==
    ASSUME NEW br, Net(br), NEW h \in Pairs(br, 0)
    PROVE  Decrypting(br, Encrypting(br, h)[Rounds])[Rounds] = h
<1> DEFINE e == Encrypting(br, h)
           d == Decrypting(br, e[Rounds])
           T == {k \in 0 .. Rounds : d[k] = e[Rounds - k]}
<1>1. Rounds \in Nat /\ h \in Nat \X Nat
    BY BlackrockAssumption DEF Pairs, Net
<1>2. /\ e \in [0 .. Rounds -> Nat \X Nat] /\ e[0] = h
      /\ \A j \in 1 .. Rounds : e[j] = Round(br, j, e[j - 1])
    <2> HIDE DEF e, d, T
    <2>1. e = Encrypting(br, h)
        BY DEF e
    <2>2. /\ e \in [0 .. Rounds -> Halves] /\ e[0] = h
          /\ \A j \in 1 .. Rounds : e[j] = Round(br, j, e[j - 1])
        BY <1>1, <2>1, RoundsAre
    <2> QED
        BY <2>2 DEF Halves
<1>3. \A j \in 0 .. Rounds : e[j] \in Pairs(br, j)
    BY EncryptedPairs
<1> HIDE DEF e
<1>4. e[Rounds] \in Nat \X Nat
    <2>1. Rounds \in 0 .. Rounds
        BY <1>1
    <2> QED
        BY <1>2, <2>1
<1>5. /\ d[0] = e[Rounds]
      /\ \A k \in 1 .. Rounds : d[k] = Unround(br, Rounds + 1 - k, d[k - 1])
    BY <1>4, UnroundsAre
<1> HIDE DEF d
<1>6. 0 \in T
    BY <1>1, <1>5
<1>7. ASSUME NEW k \in 1 .. Rounds, k - 1 \in T PROVE k \in T
    <2> DEFINE j == Rounds + 1 - k
    <2>1. /\ j \in 1 .. Rounds /\ j \in Nat \ {0} /\ j - 1 \in 0 .. Rounds
          /\ j = Rounds - (k - 1) /\ j - 1 = Rounds - k /\ k \in 0 .. Rounds
        BY <1>1
    <2> HIDE DEF j
    <2>2. d[k - 1] = e[j]
        BY <1>7, <2>1
    <2>3. e[j] = Round(br, j, e[j - 1]) /\ e[j - 1] \in Pairs(br, j - 1)
        BY <1>2, <1>3, <2>1
    <2>4. Unround(br, j, e[j]) = e[j - 1]
        BY <2>1, <2>3, RoundKeepsPairs
    <2>5. d[k] = Unround(br, j, d[k - 1])
        BY <1>5 DEF j
    <2> QED
        BY <2>1, <2>2, <2>4, <2>5
<1>8. 0 .. Rounds \subseteq T
    <2> HIDE DEF T
    <2> QED
        BY <1>1, <1>6, <1>7, Counting
<1>9. d[Rounds] = e[Rounds - Rounds]
    BY <1>1, <1>8
<1> QED
    BY <1>1, <1>2, <1>9 DEF d, e

----------------------------------------------------------------------------
(* Numbers and pairs *)

Numbers(br) == 0 .. (br.a * br.b - 1)

LEMMA SplitJoined ==
    ASSUME NEW br, Net(br), NEW h \in Pairs(br, 0)
    PROVE  Join(br, h) \in Numbers(br) /\ Split(br, Join(br, h)) = h
<1> DEFINE a == br.a
           b == br.b
           l == h[1]
           r == h[2]
<1>1. a \in Nat \ {0} /\ b \in Nat \ {0} /\ l \in 0 .. (a - 1) /\ r \in 0 .. (b - 1) /\ h = <<l, r>>
    BY DEF Net, Pairs
<1>2. Join(br, h) = a * r + l
    BY DEF Join
<1> DEFINE m == a * r + l
<1>3. a * r \in Nat /\ a * b \in Nat /\ a * r <= a * (b - 1) /\ a * (b - 1) = a * b - a
    <2> HIDE DEF a, b, l, r
    <2> QED
        BY <1>1
<1>4. m \in Nat /\ m <= a * b - 1
    <2> HIDE DEF a, b, l, r
    <2> QED
        BY <1>1, <1>3
<1>5. m % a = l
    <2>1. m = r * a + l /\ r \in Int
        <3> HIDE DEF a, b, l, r
        <3> QED
            BY <1>1
    <2>2. (r * a + l) % a = l
        <3> HIDE DEF a, b, l, r
        <3> QED
            BY <1>1, Rest
    <2> QED
        BY <2>1, <2>2
<1>6. m \div a = r
    <2> DEFINE q == m \div a
    <2>1. q \in Int /\ m = a * q + (m % a)
        <3> HIDE DEF a, b, l, r, m
        <3> QED
            BY <1>1, <1>4
    <2> HIDE DEF q
    <2>2. a * r = a * q
        <3> HIDE DEF a, b, l, r
        <3>1. a * q \in Int /\ a * r \in Int
            BY <1>1, <2>1
        <3> QED
            BY <1>1, <1>5, <2>1, <3>1
    <2>3. r = q
        <3> HIDE DEF a, b, l, r
        <3>1. ASSUME r > q PROVE FALSE
            <4>1. a * r >= a * (q + 1)
                BY <1>1, <2>1, <3>1
            <4>2. a * (q + 1) = a * q + a /\ a * q \in Int
                BY <1>1, <2>1
            <4> QED
                BY <1>1, <2>2, <4>1, <4>2
        <3>2. ASSUME q > r PROVE FALSE
            <4>1. a * q >= a * (r + 1)
                BY <1>1, <2>1, <3>2
            <4>2. a * (r + 1) = a * r + a /\ a * r \in Int
                BY <1>1
            <4> QED
                BY <1>1, <2>2, <4>1, <4>2
        <3> QED
            BY <1>1, <2>1, <3>1, <3>2
    <2> QED
        BY <2>3 DEF q
<1> QED
    BY <1>1, <1>2, <1>4, <1>5, <1>6 DEF Split, Numbers

LEMMA JoinedSplit ==
    ASSUME NEW br, Net(br), NEW m \in Numbers(br)
    PROVE  Split(br, m) \in Pairs(br, 0) /\ Join(br, Split(br, m)) = m
<1> DEFINE a == br.a
           b == br.b
           q == m \div a
           l == m % a
<1>1. a \in Nat \ {0} /\ b \in Nat \ {0} /\ a * b \in Nat /\ m \in Nat /\ m < a * b
    <2>1. a \in Nat \ {0} /\ b \in Nat \ {0}
        BY DEF Net
    <2> QED
        BY <2>1 DEF Numbers
<1>2. q \in Nat /\ l \in 0 .. (a - 1) /\ m = a * q + l
    <2> HIDE DEF a, b
    <2> QED
        BY <1>1
<1> HIDE DEF q, l
<1>3. q <= b - 1
    <2> HIDE DEF a, b
    <2> SUFFICES ASSUME q >= b PROVE FALSE
        BY <1>1, <1>2
    <2>1. a * q >= a * b
        BY <1>1, <1>2
    <2>2. a * q \in Nat
        BY <1>1, <1>2
    <2> QED
        BY <1>1, <1>2, <2>1, <2>2
<1>4. Split(br, m) = <<l, q>>
    BY DEF Split, l, q
<1> QED
    BY <1>1, <1>2, <1>3, <1>4 DEF Pairs, Join

(* UNENCRYPT undoes ENCRYPT, whatever the mixing function and the rounds. *)
LEMMA EncryptUndone ==
    ASSUME NEW br, Net(br), NEW m \in Numbers(br)
    PROVE  ENCRYPT(br, m) \in Numbers(br) /\ UNENCRYPT(br, ENCRYPT(br, m)) = m
<1> DEFINE h == Split(br, m)
           x == Encrypting(br, h)[Rounds]
           y == Turned(x)
<1>1. h \in Pairs(br, 0) /\ Join(br, h) = m /\ Rounds \in Nat
    BY JoinedSplit, BlackrockAssumption
<1>2. x \in Pairs(br, Rounds) /\ Decrypting(br, x)[Rounds] = h
    <2> HIDE DEF h
    <2>1. Rounds \in 0 .. Rounds
        BY <1>1
    <2> QED
        BY <1>1, <2>1, EncryptedPairs, DecryptedPairs
<1>3. ENCRYPT(br, m) = Join(br, y)
    BY DEF ENCRYPT
<1> HIDE DEF h, x
<1>4. y \in Pairs(br, 0) /\ Turned(y) = x
    BY <1>1, <1>2 DEF Turned, Swap, Pairs
<1> HIDE DEF y
<1>5. Join(br, y) \in Numbers(br) /\ Split(br, Join(br, y)) = y
    BY <1>4, SplitJoined
<1> QED
    BY <1>1, <1>2, <1>3, <1>4, <1>5 DEF UNENCRYPT

----------------------------------------------------------------------------
(* The walk *)

(* An injection of a finite set to itself reaches everything. *)
LEMMA OntoItself ==
    ASSUME NEW S, IsFiniteSet(S), NEW f \in [S -> S],
           \A x, y \in S : f[x] = f[y] => x = y
    PROVE  f \in Bijection(S, S) /\ \A y \in S : \E x \in S : f[x] = y
<1>1. f \in Injection(S, S)
    BY DEF Injection, IsInjective
<1>2. f \in Surjection(S, S)
    BY <1>1, FS_Injection
<1> QED
    BY <1>1, <1>2 DEF Bijection, Surjection

LEMMA UndoneIsNumber ==
    ASSUME NEW br, Net(br), NEW z \in Numbers(br)
    PROVE  UNENCRYPT(br, z) \in Numbers(br)
<1> DEFINE N == Numbers(br)
           f == [m \in N |-> ENCRYPT(br, m)]
<1>1. IsFiniteSet(N)
    <2>1. br.a * br.b - 1 \in Int
        BY DEF Net
    <2> QED
        BY <2>1, FS_Interval DEF Numbers
<1>2. \A m \in N : f[m] = ENCRYPT(br, m) /\ f[m] \in N /\ UNENCRYPT(br, f[m]) = m
    <2> HIDE DEF N
    <2>1. \A m \in N : ENCRYPT(br, m) \in N /\ UNENCRYPT(br, ENCRYPT(br, m)) = m
        BY EncryptUndone DEF N
    <2> QED
        BY <2>1
<1>3. f \in [N -> N]
    BY <1>2
<1> HIDE DEF f, N
<1>4. \A x, y \in N : f[x] = f[y] => x = y
    BY <1>2
<1>5. PICK m \in N : f[m] = z
    BY <1>1, <1>3, <1>4, OntoItself DEF N
<1> QED
    BY <1>2, <1>5 DEF N

LEMMA WalksAre ==
    ASSUME NEW br, Net(br), NEW m \in Numbers(br), NEW c, c = ShuffleWalk(br, m)
    PROVE  /\ c \in [0 .. br.a * br.b -> Numbers(br)] /\ c[0] = m
           /\ \A n \in 1 .. br.a * br.b : c[n] = ENCRYPT(br, c[n - 1])
<1> DEFINE ab == br.a * br.b
           D == 0 .. (ab - 1)
           F == [p \in (1 .. ab) \X D |-> ENCRYPT(br, p[2])]
<1>1. ab \in Nat /\ D = Numbers(br)
    BY DEF Net, Numbers
<1>2. F \in Steps(ab, D)
    <2> HIDE DEF ab, D
    <2> QED
        BY <1>1, EncryptUndone DEF Steps
<1>3. c = Iterate(ab, m, F)
    BY DEF ShuffleWalk
<1> HIDE DEF ab, D
<1>4. c \in Results(ab, D, m, F)
    <2> HIDE DEF F
    <2> QED
        BY <1>1, <1>2, <1>3, Iteration
<1>5. c \in [0 .. ab -> D] /\ c[0] = m /\ \A n \in 1 .. ab : c[n] = F[<<n, c[n - 1]>>]
    <2> HIDE DEF F
    <2> QED
        BY <1>4 DEF Results
<1>6. ASSUME NEW n \in 1 .. ab PROVE c[n] = ENCRYPT(br, c[n - 1])
    <2>1. n - 1 \in 0 .. ab
        BY <1>1
    <2>2. c[n - 1] \in D
        BY <1>5, <2>1
    <2> QED
        BY <1>5, <2>2
<1> QED
    BY <1>1, <1>5, <1>6 DEF ab

LEMMA WalksBackAre ==
    ASSUME NEW br, Net(br), NEW m \in Numbers(br), NEW c, c = UnshuffleWalk(br, m)
    PROVE  /\ c \in [0 .. br.a * br.b -> Numbers(br)] /\ c[0] = m
           /\ \A n \in 1 .. br.a * br.b : c[n] = UNENCRYPT(br, c[n - 1])
<1> DEFINE ab == br.a * br.b
           D == 0 .. (ab - 1)
           F == [p \in (1 .. ab) \X D |-> UNENCRYPT(br, p[2])]
<1>1. ab \in Nat /\ D = Numbers(br)
    BY DEF Net, Numbers
<1>2. F \in Steps(ab, D)
    <2> HIDE DEF ab, D
    <2> QED
        BY <1>1, UndoneIsNumber DEF Steps
<1>3. c = Iterate(ab, m, F)
    BY DEF UnshuffleWalk
<1> HIDE DEF ab, D
<1>4. c \in Results(ab, D, m, F)
    <2> HIDE DEF F
    <2> QED
        BY <1>1, <1>2, <1>3, Iteration
<1>5. c \in [0 .. ab -> D] /\ c[0] = m /\ \A n \in 1 .. ab : c[n] = F[<<n, c[n - 1]>>]
    <2> HIDE DEF F
    <2> QED
        BY <1>4 DEF Results
<1>6. ASSUME NEW n \in 1 .. ab PROVE c[n] = UNENCRYPT(br, c[n - 1])
    <2>1. n - 1 \in 0 .. ab
        BY <1>1
    <2>2. c[n - 1] \in D
        BY <1>5, <2>1
    <2> QED
        BY <1>5, <2>2
<1> QED
    BY <1>1, <1>5, <1>6 DEF ab

(* From any place of the range the walk comes back to the range: among more    *)
(* places than there are numbers one occurs twice, and undoing the steps up to *)
(* its first occurrence leads to where the walk began.                          *)
LEMMA WalkReturns ==
    ASSUME NEW br, Net(br), NEW m \in 0 .. (br.range - 1), NEW c, c = ShuffleWalk(br, m)
    PROVE  \E n \in 1 .. br.a * br.b : c[n] < br.range
<1> DEFINE ab == br.a * br.b
           D == Numbers(br)
<1>1. ab \in Nat /\ br.range \in Nat /\ m \in D
    BY DEF Net, Numbers
<1>2. /\ c \in [0 .. ab -> D] /\ c[0] = m
      /\ \A n \in 1 .. ab : c[n] = ENCRYPT(br, c[n - 1])
    BY <1>1, WalksAre
<1> HIDE DEF ab
<1>3. \A n \in 1 .. ab : c[n - 1] = UNENCRYPT(br, c[n])
    <2>1. ASSUME NEW n \in 1 .. ab PROVE c[n - 1] \in D
        <3>1. n - 1 \in 0 .. ab
            BY <1>1
        <3> QED
            BY <1>2, <3>1
    <2> QED
        BY <1>2, <2>1, EncryptUndone
<1>4. PICK i, j \in 0 .. ab : i < j /\ c[i] = c[j]
    <2>1. IsFiniteSet(0 .. ab) /\ IsFiniteSet(D) /\ Cardinality(D) < Cardinality(0 .. ab)
        <3>1. IsFiniteSet(0 .. ab) /\ Cardinality(0 .. ab) = ab + 1
            <4>1. 0 \in Int /\ ab \in Int
                BY <1>1
            <4>2. IsFiniteSet(0 .. ab)
                BY <4>1, FS_Interval
            <4>3. Cardinality(0 .. ab) = IF 0 > ab THEN 0 ELSE ab - 0 + 1
                BY <4>1, FS_Interval
            <4> QED
                BY <1>1, <4>2, <4>3
        <3>2. IsFiniteSet(D) /\ Cardinality(D) = ab
            <4>1. D = 0 .. (ab - 1) /\ ab - 1 \in Int
                BY <1>1 DEF Numbers, ab
            <4>2. IsFiniteSet(0 .. (ab - 1))
                BY <4>1, FS_Interval
            <4>3. Cardinality(0 .. (ab - 1)) = IF 0 > ab - 1 THEN 0 ELSE (ab - 1) - 0 + 1
                BY <4>1, FS_Interval
            <4> QED
                BY <1>1, <4>1, <4>2, <4>3
        <3> QED
            BY <1>1, <3>1, <3>2
    <2>2. PICK x, y \in 0 .. ab : x # y /\ c[x] = c[y]
        <3>1. PICK S : S = 0 .. ab
            OBVIOUS
        <3>2. c \in [S -> D]
            BY <1>2, <3>1
        <3>3. IsFiniteSet(S) /\ IsFiniteSet(D) /\ Cardinality(D) < Cardinality(S)
            BY <2>1, <3>1
        <3> HIDE DEF D
        <3>4. \E x, y \in S : x # y /\ c[x] = c[y]
            BY <3>2, <3>3, FS_PigeonHole
        <3> QED
            BY <3>1, <3>4
    <2>3. x < y \/ y < x
        BY <1>1, <2>2
    <2> QED
        BY <2>2, <2>3
<1> DEFINE T == {k \in 0 .. i : c[i - k] = c[j - k]}
<1>5. 0 \in T
    BY <1>1, <1>4
<1>6. ASSUME NEW k \in 1 .. i, k - 1 \in T PROVE k \in T
    <2>1. /\ i - (k - 1) \in 1 .. ab /\ j - (k - 1) \in 1 .. ab /\ k \in 0 .. i
          /\ (i - (k - 1)) - 1 = i - k /\ (j - (k - 1)) - 1 = j - k
        BY <1>1, <1>4
    <2>2. c[i - (k - 1)] = c[j - (k - 1)]
        BY <1>6
    <2> QED
        BY <1>3, <2>1, <2>2
<1>7. i \in T
    <2>1. i \in Nat
        BY <1>1
    <2>2. 0 .. i \subseteq T
        <3> HIDE DEF T
        <3> QED
            BY <1>5, <1>6, <2>1, Counting
    <2> QED
        BY <2>1, <2>2
<1>8. c[j - i] = m /\ j - i \in 1 .. ab
    BY <1>1, <1>2, <1>4, <1>7
<1> QED
    BY <1>1, <1>8 DEF ab

FirstAt(br, c, n) ==
    /\ n \in 1 .. br.a * br.b /\ c[n] < br.range
    /\ \A k \in 1 .. (n - 1) : c[k] >= br.range

LEMMA FirstExists ==
    ASSUME NEW br, Net(br), NEW c \in [0 .. br.a * br.b -> Numbers(br)],
           \E n \in 1 .. br.a * br.b : c[n] < br.range
    PROVE  FirstAt(br, c, FirstInRange(br, c))
<1> DEFINE ab == br.a * br.b
           T == {n \in 1 .. ab : c[n] < br.range}
<1>1. ab \in Nat /\ br.range \in Nat
    BY DEF Net
<1>2. T \in SUBSET Nat /\ T # {}
    OBVIOUS
<1>3. PICK n \in T : \A y \in T : n <= y
    <2> HIDE DEF T
    <2> QED
        BY <1>2, Least
<1>4. FirstAt(br, c, n)
    <2>1. ASSUME NEW k \in 1 .. (n - 1) PROVE c[k] >= br.range
        <3> HIDE DEF ab
        <3>1. k \in 1 .. ab /\ k \in 0 .. ab /\ ~ (n <= k)
            BY <1>1
        <3>2. c[k] \in Nat
            BY <3>1 DEF ab, Numbers
        <3> QED
            BY <1>1, <1>3, <3>1, <3>2
    <2> QED
        BY <2>1 DEF FirstAt
<1>5. FirstInRange(br, c) = CHOOSE x \in 1 .. ab :
          c[x] < br.range /\ \A k \in 1 .. (x - 1) : c[k] >= br.range
    BY DEF FirstInRange
<1>6. n \in 1 .. ab /\ c[n] < br.range /\ \A k \in 1 .. (n - 1) : c[k] >= br.range
    BY <1>4 DEF FirstAt
<1>7. FirstInRange(br, c) \in 1 .. ab /\ c[FirstInRange(br, c)] < br.range
      /\ \A k \in 1 .. (FirstInRange(br, c) - 1) : c[k] >= br.range
    <2> HIDE DEF ab, T
    <2> QED
        BY <1>5, <1>6
<1> QED
    BY <1>7 DEF FirstAt

LEMMA Unshuffled ==
    ASSUME NEW br, Net(br), NEW m \in 0 .. (br.range - 1)
    PROVE  /\ Shuffle(br, m) \in 0 .. (br.range - 1)
           /\ Unshuffle(br, Shuffle(br, m)) = m
<1> DEFINE ab == br.a * br.b
           D == Numbers(br)
           c == ShuffleWalk(br, m)
           n == FirstInRange(br, c)
           z == c[n]
           u == UnshuffleWalk(br, z)
           T == {k \in 0 .. n : u[k] = c[n - k]}
           p == FirstInRange(br, u)
<1>1. ab \in Nat /\ br.range \in Nat /\ m \in D
    BY DEF Net, Numbers
<1>2. /\ c \in [0 .. ab -> D] /\ c[0] = m
      /\ \A k \in 1 .. ab : c[k] = ENCRYPT(br, c[k - 1])
    <2> HIDE DEF T, D
    <2> QED
        BY <1>1, WalksAre DEF D
<1>3. FirstAt(br, c, n)
    <2>1. \E k \in 1 .. ab : c[k] < br.range
        BY WalkReturns
    <2> HIDE DEF c
    <2> QED
        BY <1>2, <2>1, FirstExists
<1>4. Shuffle(br, m) = z
    BY DEF Shuffle
<1> HIDE DEF c, n, ab, D
<1>5. n \in 1 .. ab /\ z < br.range /\ \A k \in 1 .. (n - 1) : c[k] >= br.range
    BY <1>3 DEF FirstAt, ab
<1>6. z \in D /\ z \in 0 .. (br.range - 1)
    <2>1. z \in D
        BY <1>1, <1>2, <1>5
    <2>2. z \in Nat
        BY <2>1 DEF D, Numbers
    <2> QED
        BY <1>1, <1>5, <2>1, <2>2
<1>7. Unshuffle(br, z) = u[p]
    BY DEF Unshuffle
<1>8. /\ u \in [0 .. ab -> D] /\ u[0] = z
      /\ \A k \in 1 .. ab : u[k] = UNENCRYPT(br, u[k - 1])
    <2> HIDE DEF z, T
    <2> QED
        BY <1>6, WalksBackAre DEF D, ab
<1> HIDE DEF u, z
<1>9. T = 0 .. n
    <2>1. 0 \in T
        BY <1>1, <1>5, <1>8 DEF z
    <2>2. ASSUME NEW k \in 1 .. n, k - 1 \in T PROVE k \in T
        <3> DEFINE x == c[n - k]
        <3>1. /\ n - (k - 1) \in 1 .. ab /\ (n - (k - 1)) - 1 = n - k
              /\ n - k \in 0 .. ab /\ k \in 1 .. ab /\ k \in 0 .. n
            BY <1>1, <1>5
        <3>2. x \in D /\ c[n - (k - 1)] = ENCRYPT(br, x)
            BY <1>2, <3>1
        <3>3. u[k - 1] = ENCRYPT(br, x)
            BY <2>2, <3>2
        <3>4. u[k] = UNENCRYPT(br, ENCRYPT(br, x))
            BY <1>8, <3>1, <3>3
        <3>5. u[k] = x
            BY <3>2, <3>4, EncryptUndone DEF D
        <3> QED
            BY <3>1, <3>5
    <2>3. n \in Nat
        BY <1>1, <1>5
    <2>4. 0 .. n \subseteq T
        <3> HIDE DEF T
        <3> QED
            BY <2>1, <2>2, <2>3, Counting
    <2> QED
        BY <2>4
<1>10. \A k \in 0 .. n : u[k] = c[n - k]
    BY <1>9
<1>11. u[n] = m
    BY <1>1, <1>2, <1>5, <1>10
<1>12. FirstAt(br, u, p)
    <2>1. \E k \in 1 .. ab : u[k] < br.range
        BY <1>1, <1>5, <1>11
    <2> QED
        BY <1>8, <2>1, FirstExists DEF ab, D
<1> HIDE DEF p
<1>13. p \in 1 .. ab /\ u[p] < br.range /\ \A k \in 1 .. (p - 1) : u[k] >= br.range
    BY <1>12 DEF FirstAt, ab
<1>14. ASSUME p < n PROVE FALSE
    <2>1. p \in 0 .. n /\ n - p \in 1 .. (n - 1) /\ n - p \in 0 .. ab
        BY <1>1, <1>5, <1>13, <1>14
    <2>2. u[p] >= br.range
        BY <1>5, <1>10, <2>1
    <2>3. u[p] \in Nat
        BY <1>2, <1>10, <2>1 DEF D, Numbers
    <2> QED
        BY <1>1, <1>13, <2>2, <2>3
<1>15. ASSUME n < p PROVE FALSE
    <2>1. n \in 1 .. (p - 1)
        BY <1>1, <1>5, <1>13, <1>15
    <2>2. m >= br.range
        BY <1>11, <1>13, <2>1
    <2> QED
        BY <1>1, <2>2
<1>16. p = n
    BY <1>1, <1>5, <1>13, <1>14, <1>15
<1> QED
    BY <1>4, <1>6, <1>7, <1>11, <1>16

----------------------------------------------------------------------------
(* What blackrock_init sets up *)

LEMMA IsqrtIs ==
    ASSUME NEW n \in Nat
    PROVE  LET k == Isqrt(n) IN k \in 0 .. n /\ k * k <= n /\ n < (k + 1) * (k + 1)
<1> DEFINE T == {k \in Nat : n < (k + 1) * (k + 1)}
<1>1. n \in T
    <2>1. (n + 1) * (n + 1) = n * n + 2 * n + 1 /\ n * n \in Nat
        OBVIOUS
    <2> QED
        BY <2>1
<1>2. PICK k \in T : \A y \in T : k <= y
    <2>1. T \in SUBSET Nat /\ T # {}
        BY <1>1
    <2> HIDE DEF T
    <2> QED
        BY <2>1, Least
<1>3. k \in 0 .. n
    BY <1>1, <1>2
<1>4. k * k <= n
    <2>1. CASE k = 0
        BY <2>1
    <2>2. CASE k # 0
        <3>1. k - 1 \in Nat /\ ~ (k <= k - 1)
            BY <1>3, <2>2
        <3>2. k - 1 \notin T
            BY <1>2, <3>1
        <3>3. ~ (n < ((k - 1) + 1) * ((k - 1) + 1))
            BY <3>1, <3>2
        <3>4. (k - 1) + 1 = k /\ k * k \in Nat
            BY <3>1
        <3> QED
            BY <3>3, <3>4
    <2> QED
        BY <2>1, <2>2
<1>5. n < (k + 1) * (k + 1)
    BY <1>2
<1> HIDE DEF T
<1> QED
    BY <1>3, <1>4, <1>5 DEF Isqrt

LEMMA GrownEnough ==
    ASSUME NEW a \in Nat \ {0}, NEW b \in Nat \ {0}, NEW range \in Nat
    PROVE  GrowB(a, b, range) \in Nat \ {0} /\ a * GrowB(a, b, range) > range
<1> DEFINE T == {c \in b .. (b + range) : a * c > range}
<1>1. b + range \in T
    <2>1. a * (b + range) = a * b + a * range /\ a * b >= 1 /\ a * range >= range
          /\ a * b \in Nat /\ a * range \in Nat
        <3>1. a * b \in Nat /\ a * range \in Nat /\ a * (b + range) = a * b + a * range
            OBVIOUS
        <3>2. a * b >= 1 * b
            OBVIOUS
        <3>3. a * range >= 1 * range
            OBVIOUS
        <3> QED
            BY <3>1, <3>2, <3>3
    <2> QED
        BY <2>1
<1>2. PICK c \in T : \A y \in T : c <= y
    <2>1. T # {}
        BY <1>1
    <2>2. T \in SUBSET Nat
        OBVIOUS
    <2> HIDE DEF T
    <2> QED
        BY <2>1, <2>2, Least
<1>3. \A d \in b .. (c - 1) : a * d <= range
    <2>1. ASSUME NEW d \in b .. (c - 1) PROVE a * d <= range
        <3>1. d \in b .. (b + range) /\ ~ (c <= d) /\ a * d \in Nat
            OBVIOUS
        <3>2. d \notin T
            BY <1>2, <3>1
        <3> QED
            BY <3>1, <3>2
    <2> QED
        BY <2>1
<1>4. c \in b .. (b + range) /\ a * c > range
    OBVIOUS
<1> HIDE DEF T
<1>5. GrowB(a, b, range) \in b .. (b + range) /\ a * GrowB(a, b, range) > range
    BY <1>3, <1>4 DEF GrowB
<1> QED
    BY <1>5

LEMMA NewIsNet ==
    ASSUME NEW range \in Nat \ {0}, NEW seed \in Nat
    PROVE  Net(New(range, seed)) /\ New(range, seed).range = range
<1> DEFINE sides == CASE range = 1 -> <<1, 1>>
                      [] range = 2 -> <<1, 2>>
                      [] range = 3 -> <<2, 2>>
                      [] range \in 4 .. 6 -> <<2, 3>>
                      [] range \in 7 .. 8 -> <<3, 3>>
                      [] range > 8 -> <<Isqrt(range) - 2, Isqrt(range) + 3>>
           a == sides[1]
           b == GrowB(a, sides[2], range)
<1>1. a \in Nat \ {0} /\ sides[2] \in Nat \ {0}
    <2>1. CASE range = 1
        BY <2>1
    <2>2. CASE range = 2
        BY <2>2
    <2>3. CASE range = 3
        BY <2>3
    <2>4. CASE range \in 4 .. 6
        BY <2>4
    <2>5. CASE range \in 7 .. 8
        BY <2>5
    <2>6. CASE range > 8
        <3>1. sides = <<Isqrt(range) - 2, Isqrt(range) + 3>>
            BY <2>6
        <3>2. PICK k : k = Isqrt(range)
            OBVIOUS
        <3>3. k \in Nat /\ range < (k + 1) * (k + 1)
            BY <3>2, IsqrtIs
        <3>4. k >= 3
            <4>1. CASE k = 0
                BY <2>6, <3>3, <4>1
            <4>2. CASE k = 1
                BY <2>6, <3>3, <4>2
            <4>3. CASE k = 2
                BY <2>6, <3>3, <4>3
            <4> QED
                BY <3>3, <4>1, <4>2, <4>3
        <3> QED
            BY <3>1, <3>2, <3>3, <3>4
    <2> QED
        BY <2>1, <2>2, <2>3, <2>4, <2>5, <2>6
<1>2. New(range, seed) = [range |-> range, seed |-> seed, a |-> a, b |-> b]
    BY DEF New
<1> HIDE DEF sides
<1>3. b \in Nat \ {0} /\ a * b > range
    BY <1>1, GrownEnough
<1> HIDE DEF a, b
<1>4. a * b \in Nat
    BY <1>1, <1>3
<1> QED
    BY <1>1, <1>2, <1>3, <1>4 DEF Net

(* blackrock_shuffle (rand-blackrock.c:279-289) is a permutation of the range    *)
(* for every range, seed and number of rounds, its loop ends, and               *)
(* blackrock_unshuffle undoes it: every index stands for one target of its own, *)
(* and every target has an index.  Of the mixing function only that it yields a *)
(* number is used.                                                              *)
THEOREM ShuffleIsPermutation ==
    ASSUME NEW range \in Nat \ {0}, NEW seed \in Nat
    PROVE  LET br == New(range, seed)
               indices == 0 .. (range - 1)
           IN  /\ [m \in indices |-> Shuffle(br, m)] \in Bijection(indices, indices)
               /\ \A m \in indices : Unshuffle(br, Shuffle(br, m)) = m
<1> DEFINE br == New(range, seed)
           indices == 0 .. (range - 1)
           f == [m \in indices |-> Shuffle(br, m)]
<1>1. Net(br) /\ br.range = range
    BY NewIsNet
<1> HIDE DEF br
<1>2. \A m \in indices : Shuffle(br, m) \in indices /\ Unshuffle(br, Shuffle(br, m)) = m
    BY <1>1, Unshuffled
<1>3. IsFiniteSet(indices)
    BY FS_Interval
<1> HIDE DEF indices
<1>4. f \in [indices -> indices] /\ \A x, y \in indices : f[x] = f[y] => x = y
    BY <1>2
<1>5. f \in Bijection(indices, indices)
    <2> HIDE DEF f
    <2> QED
        BY <1>3, <1>4, OntoItself
<1> QED
    BY <1>2, <1>5 DEF br, indices

----------------------------------------------------------------------------
(* One range *)

LEMMA SpanType ==
    ASSUME NEW r \in Spans
    PROVE  /\ r.begin \in Nat /\ r.end \in Nat
           /\ r.begin <= MaxAddr /\ r.end <= MaxAddr
BY RangeAssumption DEF Spans, Addrs

\* range_is_overlap and range_combine (ranges.c): when two ranges that hold
\* something are taken to overlap, the one range they are combined into holds
\* the addresses of both and no other.
THEOREM CombineIsUnion ==
    ASSUME NEW l \in Spans, NEW r \in Spans, IsValid(l), IsValid(r), IsOverlap(l, r)
    PROVE  /\ Combine(l, r) \in Spans
           /\ IsValid(Combine(l, r))
           /\ Members(Combine(l, r)) = Members(l) \cup Members(r)
<1>1. /\ l.begin \in Nat /\ l.end \in Nat /\ l.begin <= MaxAddr /\ l.end <= MaxAddr
      /\ r.begin \in Nat /\ r.end \in Nat /\ r.begin <= MaxAddr /\ r.end <= MaxAddr
    BY SpanType
<1>2. l.begin <= l.end /\ r.begin <= r.end
    BY DEF IsValid
<1>3. /\ Combine(l, r).begin = (IF l.begin > r.begin THEN r.begin ELSE l.begin)
      /\ Combine(l, r).end = (IF l.end < r.end THEN r.end ELSE l.end)
    BY DEF Combine, Span
<1>4. Combine(l, r) \in Spans
    BY <1>1, RangeAssumption DEF Combine, Span, Spans, Addrs
<1>5. IsValid(Combine(l, r))
    BY <1>1, <1>2, <1>3 DEF IsValid
<1>6. \/ r.begin <= l.end + 1 /\ l.begin <= r.begin
      \/ l.begin <= r.end + 1 /\ r.begin <= l.begin
    BY <1>1, <1>2, RangeAssumption DEF IsOverlap, Joins
<1>7. Members(Combine(l, r)) = Members(l) \cup Members(r)
    BY <1>1, <1>2, <1>3, <1>6 DEF Members
<1> QED
    BY <1>4, <1>5, <1>7

\* The other direction: ranges that are kept apart leave a gap, so that a
\* list in which no neighbours overlap is the shortest one there is.
THEOREM ApartLeavesGap ==
    ASSUME NEW l \in Spans, NEW r \in Spans, IsValid(l), IsValid(r),
           ~IsOverlap(l, r), l.begin <= r.begin
    PROVE  l.end + 1 < r.begin
<1>1. /\ l.begin \in Nat /\ l.end \in Nat /\ l.begin <= MaxAddr /\ l.end <= MaxAddr
      /\ r.begin \in Nat /\ r.end \in Nat /\ r.begin <= MaxAddr /\ r.end <= MaxAddr
    BY SpanType
<1> QED
    BY <1>1, RangeAssumption DEF IsOverlap, Joins, IsValid

\* range_apply_exclude (ranges.c): what is left of a target, in one part or
\* two, is the target without the exclude, and the part that is split off
\* lies above the other.
THEOREM ApplyExcludeIsDifference ==
    ASSUME NEW x \in Spans, NEW t \in Spans, IsValid(x), IsValid(t)
    PROVE  LET a == ApplyExclude(x, t)
           IN  /\ a.target \in Spans /\ a.split \in Spans
               /\ Members(a.target) \cup Members(a.split) = Members(t) \ Members(x)
               /\ IsValid(a.split) => IsValid(a.target) /\ a.target.end < a.split.begin
<1> DEFINE a == ApplyExclude(x, t)
<1>1. /\ x.begin \in Nat /\ x.end \in Nat /\ x.begin <= MaxAddr /\ x.end <= MaxAddr
      /\ t.begin \in Nat /\ t.end \in Nat /\ t.begin <= MaxAddr /\ t.end <= MaxAddr
    BY SpanType
<1>2. x.begin <= x.end /\ t.begin <= t.end
    BY DEF IsValid
<1>3. /\ INVALID_RANGE \in Spans /\ ~IsValid(INVALID_RANGE) /\ Members(INVALID_RANGE) = {}
    BY RangeAssumption DEF INVALID_RANGE, Span, Spans, Addrs, IsValid, Members
<1>4. CASE t.begin > x.end \/ t.end < x.begin
    <2>1. a = [target |-> t, split |-> INVALID_RANGE]
        BY <1>1, <1>2, <1>4 DEF ApplyExclude, a
    <2>2. Members(t) = Members(t) \ Members(x)
        BY <1>1, <1>2, <1>4 DEF Members
    <2> QED
        BY <2>1, <2>2, <1>3
<1>5. CASE t.begin >= x.begin /\ t.end <= x.end
    <2>1. a = [target |-> INVALID_RANGE, split |-> INVALID_RANGE]
        BY <1>1, <1>2, <1>5 DEF ApplyExclude, a
    <2>2. Members(t) \ Members(x) = {}
        BY <1>1, <1>2, <1>5 DEF Members
    <2> QED
        BY <2>1, <2>2, <1>3
<1>6. CASE t.begin >= x.begin /\ t.end > x.end /\ t.begin <= x.end
    <2>1. a = [target |-> Span(x.end + 1, t.end), split |-> INVALID_RANGE]
        BY <1>1, <1>2, <1>6 DEF ApplyExclude, a
    <2>2. Span(x.end + 1, t.end) \in Spans
        BY <1>1, <1>6, RangeAssumption DEF Span, Spans, Addrs
    <2>3. Members(Span(x.end + 1, t.end)) = Members(t) \ Members(x)
        BY <1>1, <1>2, <1>6 DEF Members, Span
    <2> QED
        BY <2>1, <2>2, <2>3, <1>3
<1>7. CASE t.begin < x.begin /\ t.end <= x.end /\ t.end >= x.begin
    <2>1. a = [target |-> Span(t.begin, x.begin - 1), split |-> INVALID_RANGE]
        BY <1>1, <1>2, <1>7 DEF ApplyExclude, a
    <2>2. Span(t.begin, x.begin - 1) \in Spans
        BY <1>1, <1>7, RangeAssumption DEF Span, Spans, Addrs
    <2>3. Members(Span(t.begin, x.begin - 1)) = Members(t) \ Members(x)
        BY <1>1, <1>2, <1>7 DEF Members, Span
    <2> QED
        BY <2>1, <2>2, <2>3, <1>3
<1>8. CASE t.begin < x.begin /\ t.end > x.end
    <2>1. a = [target |-> Span(t.begin, x.begin - 1), split |-> Span(x.end + 1, t.end)]
        BY <1>1, <1>2, <1>8 DEF ApplyExclude, a
    <2>2. Span(t.begin, x.begin - 1) \in Spans /\ Span(x.end + 1, t.end) \in Spans
        BY <1>1, <1>2, <1>8, RangeAssumption DEF Span, Spans, Addrs
    <2>3. Members(Span(t.begin, x.begin - 1)) \cup Members(Span(x.end + 1, t.end))
            = Members(t) \ Members(x)
        BY <1>1, <1>2, <1>8 DEF Members, Span
    <2>4. IsValid(Span(t.begin, x.begin - 1)) /\ x.begin - 1 < x.end + 1
        BY SMTT(40), <1>1, <1>2, <1>8 DEF IsValid, Span
    <2> QED
        BY <2>1, <2>2, <2>3, <2>4 DEF Span
<1> QED
    BY <1>1, <1>2, <1>4, <1>5, <1>6, <1>7, <1>8

----------------------------------------------------------------------------
(* Lists of ranges: what is picked from them *)

\* Lists of ranges that hold something.
SpanLists == {l \in Seq(Spans) : \A k \in 1 .. Len(l) : IsValid(l[k])}

LEMMA SpanOfList ==
    ASSUME NEW l \in SpanLists, NEW k \in 1 .. Len(l)
    PROVE  /\ l[k] \in Spans
           /\ l[k].begin \in Nat /\ l[k].end \in Nat
           /\ l[k].begin <= l[k].end /\ l[k].end <= MaxAddr
           /\ SizeOf(l[k]) \in Nat
<1>1. l[k] \in Spans /\ IsValid(l[k])
    BY DEF SpanLists
<1>2. l[k].begin \in Nat /\ l[k].end \in Nat /\ l[k].begin <= l[k].end /\ l[k].end <= MaxAddr
    BY <1>1, SpanType DEF IsValid
<1> QED
    BY <1>1, <1>2 DEF SizeOf

LEMMA TotalIs ==
    ASSUME NEW l \in SpanLists
    PROVE  /\ Total(l) \in [0 .. Len(l) -> Nat]
           /\ Total(l)[0] = 0
           /\ \A k \in 1 .. Len(l) : Total(l)[k] = Total(l)[k - 1] + SizeOf(l[k])
<1> DEFINE n == Len(l)
           F == [p \in (1 .. n) \X Nat |-> p[2] + SizeOf(l[p[1]])]
           Defined(f) == f = [k \in 0 .. n |-> IF k = 0 THEN 0 ELSE f[k - 1] + SizeOf(l[k])]
           v == Total(l)
<1>1. n \in Nat /\ l \in Seq(Spans)
    BY DEF SpanLists
<1>2. F \in Steps(n, Nat)
    <2>1. ASSUME NEW p \in (1 .. n) \X Nat PROVE p[2] + SizeOf(l[p[1]]) \in Nat
        <3>1. p[1] \in 1 .. Len(l) /\ p[2] \in Nat
            OBVIOUS
        <3>2. SizeOf(l[p[1]]) \in Nat
            BY <3>1, SpanOfList
        <3> QED
            BY <3>1, <3>2
    <2> QED
        BY <2>1 DEF Steps
<1>3. PICK g \in Results(n, Nat, 0, F) : TRUE
    <2> HIDE DEF F
    <2> QED
        BY <1>1, <1>2, Recursion
<1>4. g \in [0 .. n -> Nat] /\ g[0] = 0 /\ \A j \in 1 .. n : g[j] = g[j - 1] + SizeOf(l[j])
    <2>1. g \in [0 .. n -> Nat] /\ g[0] = 0 /\ \A j \in 1 .. n : g[j] = F[<<j, g[j - 1]>>]
        BY DEF Results
    <2>2. ASSUME NEW j \in 1 .. n PROVE g[j] = g[j - 1] + SizeOf(l[j])
        <3>1. j - 1 \in 0 .. n
            BY <1>1
        <3>2. <<j, g[j - 1]>> \in (1 .. n) \X Nat
            BY <2>1, <3>1
        <3> QED
            BY <2>1, <3>2
    <2> QED
        BY <2>1, <2>2
<1>5. Defined(g)
    <2>1. \A k \in 0 .. n : g[k] = IF k = 0 THEN 0 ELSE g[k - 1] + SizeOf(l[k])
        BY <1>1, <1>4
    <2>2. g = [k \in 0 .. n |-> g[k]]
        BY <1>4
    <2> QED
        BY <2>1, <2>2
<1>6. v = CHOOSE f : Defined(f)
    BY DEF Total
<1>7. Defined(v)
    <2> HIDE DEF Defined
    <2> QED
        BY <1>5, <1>6
<1> HIDE DEF v
<1>8. \A k \in 0 .. n : v[k] = IF k = 0 THEN 0 ELSE v[k - 1] + SizeOf(l[k])
    BY <1>7
<1>9. v = g
    <2> DEFINE T == {j \in 0 .. n : v[j] = g[j]}
    <2>1. 0 \in T
        BY <1>1, <1>4, <1>8
    <2>2. ASSUME NEW k \in 1 .. n, k - 1 \in T PROVE k \in T
        BY <1>4, <1>8, <2>2
    <2>3. 0 .. n \subseteq T
        <3> HIDE DEF T
        <3> QED
            BY <1>1, <2>1, <2>2, Counting
    <2>4. \A j \in 0 .. n : v[j] = g[j]
        BY <2>3
    <2> QED
        BY <1>4, <1>7, <2>4
<1> QED
    BY <1>4, <1>9 DEF v

\* The totals grow, and never faster than the addresses.
LEMMA TotalsGrow ==
    ASSUME NEW l \in SpanLists
    PROVE  \A j, k \in 0 .. Len(l) : j < k => Total(l)[j] < Total(l)[k]
<1> DEFINE n == Len(l)
           T == {k \in 0 .. n : \A j \in 0 .. n : j < k => Total(l)[j] < Total(l)[k]}
<1>1. n \in Nat /\ Total(l) \in [0 .. n -> Nat]
    BY TotalIs DEF SpanLists
<1>2. 0 \in T
    BY <1>1
<1>3. ASSUME NEW k \in 1 .. n, k - 1 \in T PROVE k \in T
    <2>1. Total(l)[k] = Total(l)[k - 1] + SizeOf(l[k]) /\ SizeOf(l[k]) \in Nat \ {0}
        <3>1. SizeOf(l[k]) # 0
            BY SpanOfList DEF SizeOf
        <3> QED
            BY <3>1, TotalIs, SpanOfList
    <2>2. k - 1 \in 0 .. n /\ k \in 0 .. n
        BY <1>1
    <2>3. Total(l)[k - 1] \in Nat /\ Total(l)[k - 1] < Total(l)[k]
        BY <1>1, <2>1, <2>2
    <2>4. ASSUME NEW j \in 0 .. n, j < k PROVE Total(l)[j] < Total(l)[k]
        <3>1. j = k - 1 \/ j < k - 1
            BY <2>4
        <3>2. Total(l)[j] \in Nat /\ Total(l)[k] \in Nat
            BY <1>1, <2>2
        <3> QED
            BY <1>3, <2>3, <3>1, <3>2
    <2> QED
        BY <2>2, <2>4
<1>4. 0 .. n \subseteq T
    <2> HIDE DEF T
    <2> QED
        BY <1>1, <1>2, <1>3, Counting
<1> QED
    BY <1>4

LEMMA TotalsBelow ==
    ASSUME NEW t, t.list \in SpanLists, Canonical(t)
    PROVE  \A k \in 1 .. Len(t.list) : Total(t.list)[k - 1] <= t.list[k].begin
<1> DEFINE l == t.list
           n == Len(l)
           T == {0} \cup {k \in 1 .. n : Total(l)[k - 1] <= l[k].begin}
<1>1. n \in Nat /\ Total(l) \in [0 .. n -> Nat] /\ Total(l)[0] = 0
    BY TotalIs DEF SpanLists
<1>2. 0 \in T
    OBVIOUS
<1>3. ASSUME NEW k \in 1 .. n, k - 1 \in T PROVE k \in T
    <2>0. l[k].begin \in Nat
        BY SpanOfList
    <2>1. CASE k = 1
        BY <1>1, <2>0, <2>1
    <2>2. CASE k # 1
        <3>1. k - 1 \in 1 .. n /\ k - 1 \in 1 .. (n - 1) /\ (k - 1) + 1 = k
              /\ (k - 1) - 1 \in 0 .. n /\ k - 1 \in 0 .. n
            BY <1>1, <2>2
        <3>2. Total(l)[k - 1] = Total(l)[(k - 1) - 1] + SizeOf(l[k - 1])
            BY <3>1, TotalIs
        <3>3. Total(l)[(k - 1) - 1] <= l[k - 1].begin
            BY <1>3, <3>1
        <3>4. l[k - 1].end + 1 < l[(k - 1) + 1].begin
            BY <3>1 DEF Canonical
        <3>5. l[k - 1].begin \in Nat /\ l[k - 1].end \in Nat
            BY <3>1, SpanOfList
        <3>6. Total(l)[(k - 1) - 1] \in Nat /\ Total(l)[k - 1] \in Nat
            BY <1>1, <3>1
        <3> HIDE DEF l
        <3>7. Total(l)[k - 1] <= l[k].begin
            <4>1. Total(l)[k - 1] = Total(l)[(k - 1) - 1] + (l[k - 1].end - l[k - 1].begin + 1)
                BY <3>2 DEF SizeOf
            <4>2. l[k - 1].end + 1 < l[k].begin
                BY <3>1, <3>4
            <4>3. \A b, d, c, x, y \in Nat : y = x + (d - b + 1) /\ x <= b /\ d + 1 < c => y <= c
                OBVIOUS
            <4> QED
                BY SMTT(30), <2>0, <3>3, <3>5, <3>6, <4>1, <4>2, <4>3
        <3> QED
            BY <3>7
    <2> QED
        BY <2>1, <2>2
<1>4. 0 .. n \subseteq T
    <2> HIDE DEF T
    <2> QED
        BY <1>1, <1>2, <1>3, Counting
<1>5. ASSUME NEW k \in 1 .. n PROVE Total(l)[k - 1] <= l[k].begin
    <2>1. k \in 0 .. n /\ k # 0
        OBVIOUS
    <2> QED
        BY <1>4, <2>1
<1> QED
    BY <1>5

\* So what rangelist_optimize stores has not wrapped.
LEMMA PickerIs ==
    ASSUME NEW t, t.list \in SpanLists, Canonical(t)
    PROVE  /\ DOMAIN Picker(t) = 1 .. Len(t.list)
           /\ Len(Picker(t)) = Len(t.list)
           /\ \A k \in 1 .. Len(t.list) : Picker(t)[k] = Total(t.list)[k - 1]
<1> DEFINE l == t.list
           n == Len(l)
<1>1. n \in Nat /\ DOMAIN l = 1 .. n /\ Total(l) \in [0 .. n -> Nat]
    BY TotalIs DEF SpanLists
<1>2. ASSUME NEW k \in 1 .. n PROVE Total(l)[k - 1] % (MaxAddr + 1) = Total(l)[k - 1]
    <2>1. Total(l)[k - 1] <= l[k].begin
        BY TotalsBelow
    <2>2. l[k].begin \in Nat /\ l[k].end \in Nat /\ l[k].begin <= l[k].end /\ l[k].end <= MaxAddr
        BY SpanOfList
    <2>3. k - 1 \in 0 .. n
        BY <1>1
    <2>4. Total(l)[k - 1] \in Nat
        BY <1>1, <2>3
    <2>5. PICK s \in Nat \ {0} : s = MaxAddr + 1
        BY RangeAssumption
    <2>6. PICK r \in 0 .. (s - 1) : r = Total(l)[k - 1]
        BY <2>1, <2>2, <2>4, <2>5, RangeAssumption
    <2>7. r = 0 * s + r
        OBVIOUS
    <2>8. (0 * s + r) % s = r
        BY Rest
    <2> QED
        BY <2>5, <2>6, <2>7, <2>8
<1>3. Picker(t) = [k \in 1 .. n |-> Total(l)[k - 1] % (MaxAddr + 1)]
    BY <1>1 DEF Picker
<1>4. Len(Picker(t)) = n
    BY <1>1, <1>3
<1> QED
    BY <1>2, <1>3, <1>4

\* An index is in one range.
LEMMA RangeOfIndex ==
    ASSUME NEW l \in SpanLists, NEW index \in Nat, index < Total(l)[Len(l)]
    PROVE  \E k \in 1 .. Len(l) : Total(l)[k - 1] <= index /\ index < Total(l)[k]
<1> DEFINE n == Len(l)
           T == {k \in 0 .. n : index < Total(l)[k]}
<1>1. n \in Nat /\ Total(l) \in [0 .. n -> Nat] /\ Total(l)[0] = 0
    BY TotalIs DEF SpanLists
<1>2. n \in T /\ T \in SUBSET Nat
    BY <1>1
<1>3. PICK k \in T : \A j \in T : k <= j
    <2> HIDE DEF T
    <2> QED
        BY <1>2, Least
<1>4. k \in 1 .. n /\ k - 1 \in 0 .. n /\ ~ (k <= k - 1)
    BY <1>1
<1>5. ~ (index < Total(l)[k - 1])
    BY <1>3, <1>4
<1>6. Total(l)[k - 1] \in Nat
    BY <1>1, <1>4
<1> QED
    BY <1>3, <1>4, <1>5, <1>6

----------------------------------------------------------------------------
(* The binary search *)

\* The window after k rounds: the entry looked for, at, is in it, and the
\* search has broken off or the window is k entries smaller.
Windows(n) == [min : 0 .. n, max : 0 .. n]
Closing(n, at, k, w) ==
    /\ w \in Windows(n) /\ w.min < at /\ at <= w.max
    /\ Mid(w) + 1 = at \/ w.max - w.min <= n - k

LEMMA MidIs ==
    ASSUME NEW n \in Nat, NEW w \in Windows(n), w.min < w.max
    PROVE  Mid(w) \in 0 .. (n - 1) /\ w.min <= Mid(w) /\ Mid(w) < w.max
BY DEF Windows, Mid

LEMMA HalvedIs ==
    ASSUME NEW t, t.list \in SpanLists, Canonical(t), NEW index \in Nat,
           NEW at \in 1 .. Len(t.list),
           Total(t.list)[at - 1] <= index, index < Total(t.list)[at],
           NEW k \in 1 .. Len(t.list), NEW w, Closing(Len(t.list), at, k - 1, w)
    PROVE  Closing(Len(t.list), at, k, Halved(Picker(t), index, w))
<1> DEFINE n == Len(t.list)
           tot == Total(t.list)
           m == Mid(w)
           p == Picker(t)
<1>1. n \in Nat /\ tot \in [0 .. n -> Nat] /\ at - 1 \in 0 .. n /\ at \in 0 .. n
    BY TotalIs DEF SpanLists
<1>2. w \in Windows(n) /\ w.min \in 0 .. n /\ w.max \in 0 .. n /\ w.min < at /\ at <= w.max
    BY DEF Closing, Windows
<1>3. m \in 0 .. (n - 1) /\ w.min <= m /\ m < w.max
    BY <1>1, <1>2, MidIs
<1>4. \A j, i \in 0 .. n : j < i => tot[j] < tot[i]
    BY TotalsGrow
<1>5. Len(p) = n /\ p[m + 1] = tot[m] /\ (m + 1 # n => p[m + 2] = tot[m + 1])
    <2>1. m + 1 \in 1 .. n /\ (m + 1) - 1 = m
        BY <1>1, <1>3
    <2>2. ASSUME m + 1 # n PROVE m + 2 \in 1 .. n /\ (m + 2) - 1 = m + 1
        BY SMTT(30), <1>1, <1>3, <2>2
    <2> HIDE DEF m
    <2>3. Len(p) = n /\ p[m + 1] = tot[m]
        BY <2>1, PickerIs
    <2>4. ASSUME m + 1 # n PROVE p[m + 2] = tot[m + 1]
        BY <2>2, <2>4, PickerIs
    <2> QED
        BY <2>3, <2>4
<1>11. Halved(p, index, w) = IF index < tot[m] THEN [w EXCEPT !.max = m]
                             ELSE IF m + 1 = n \/ index < tot[m + 1] THEN w
                             ELSE [w EXCEPT !.min = m + 1]
    BY <1>5 DEF Halved
<1>12. m + 1 = at \/ w.max - w.min <= n - (k - 1)
    BY DEF Closing
<1>a. tot[at - 1] <= index /\ index < tot[at] /\ at \in 1 .. n /\ k \in 1 .. n
    OBVIOUS
<1> HIDE DEF m, tot, n
<1>6. tot[at - 1] \in Nat /\ tot[at] \in Nat /\ tot[m] \in Nat /\ tot[m + 1] \in Nat
    BY <1>1, <1>3
<1>7. index < tot[m] => at <= m
    <2> SUFFICES ASSUME index < tot[m], m < at PROVE FALSE
        BY <1>1, <1>3
    <2>1. m = at - 1 \/ m < at - 1
        BY <1>3
    <2> QED
        BY <1>1, <1>3, <1>4, <1>6, <1>a, <2>1
<1>8. ~ (index < tot[m]) => m < at
    <2> SUFFICES ASSUME tot[m] <= index, at <= m PROVE FALSE
        BY <1>1, <1>3, <1>6
    <2>1. m = at \/ at < m
        BY <1>3
    <2> QED
        BY <1>1, <1>3, <1>4, <1>6, <1>a, <2>1
<1>9. m + 1 # n /\ index < tot[m + 1] => at <= m + 1
    <2> SUFFICES ASSUME index < tot[m + 1], m + 1 < at PROVE FALSE
        BY <1>1, <1>3
    <2>1. m + 1 = at - 1 \/ m + 1 < at - 1
        BY <1>3
    <2> QED
        BY <1>1, <1>3, <1>4, <1>6, <1>a, <2>1
<1>10. m + 1 # n /\ ~ (index < tot[m + 1]) => m + 1 < at
    <2> SUFFICES ASSUME m + 1 # n, tot[m + 1] <= index, at <= m + 1 PROVE FALSE
        BY <1>1, <1>3, <1>6
    <2>1. m + 1 = at \/ at < m + 1
        BY <1>3
    <2>2. m + 1 \in 0 .. n
        BY <1>1, <1>3
    <2> QED
        BY <1>1, <1>4, <1>6, <1>a, <2>1, <2>2
<1>13. CASE index < tot[m]
    <2>1. Halved(p, index, w) = [w EXCEPT !.max = m] /\ at <= m
        BY <1>7, <1>11, <1>13
    <2> DEFINE v == [w EXCEPT !.max = m]
    <2>2. v \in Windows(n) /\ v.min = w.min /\ v.max = m
        BY SMTT(30), <1>1, <1>2, <1>3 DEF Windows
    <2>3. m + 1 # at
        BY <1>3, <2>1
    <2> HIDE DEF v
    <2>4. v.max - v.min <= n - k
        <3>1. \A lo, hi, mid, left \in Int :
                 mid < hi /\ hi - lo <= left + 1 => mid - lo <= left
            OBVIOUS
        <3>2. w.max - w.min <= (n - k) + 1
            <4>1. n - (k - 1) = (n - k) + 1
                BY <1>1, <1>a
            <4> QED
                BY <1>12, <2>3, <4>1
        <3>3. w.min \in Int /\ w.max \in Int /\ m \in Int /\ n - k \in Int
            BY <1>1, <1>2, <1>3, <1>a
        <3> QED
            BY <1>3, <2>2, <3>1, <3>2, <3>3
    <2>5. Closing(n, at, k, v)
        BY <1>2, <2>1, <2>2, <2>4 DEF Closing
    <2> QED
        BY <2>1, <2>5 DEF v, n
<1>14. CASE ~ (index < tot[m]) /\ (m + 1 = n \/ index < tot[m + 1])
    <2>1. Halved(p, index, w) = w
        BY <1>11, <1>14
    <2>2. m < at /\ at <= m + 1
        BY <1>1, <1>8, <1>9, <1>14
    <2>3. m + 1 = at
        BY <1>3, <2>2
    <2>4. Closing(n, at, k, w)
        BY <1>2, <2>3 DEF Closing, m
    <2> QED
        BY <2>1, <2>4 DEF n
<1>15. CASE ~ (index < tot[m]) /\ m + 1 # n /\ ~ (index < tot[m + 1])
    <2>1. Halved(p, index, w) = [w EXCEPT !.min = m + 1] /\ m + 1 < at
        BY <1>10, <1>11, <1>15
    <2> DEFINE v == [w EXCEPT !.min = m + 1]
    <2>2. v \in Windows(n) /\ v.min = m + 1 /\ v.max = w.max
        <3>1. m + 1 \in 0 .. n
            BY <1>1, <1>3
        <3> QED
            BY <1>2, <3>1 DEF Windows
    <2> HIDE DEF v
    <2>3. v.max - v.min <= n - k
        <3>1. \A lo, hi, mid, left \in Int :
                 lo <= mid /\ hi - lo <= left + 1 => hi - (mid + 1) <= left
            OBVIOUS
        <3>2. w.max - w.min <= (n - k) + 1
            <4>1. n - (k - 1) = (n - k) + 1
                BY <1>1, <1>a
            <4>2. m + 1 # at
                BY <1>1, <1>3, <2>1
            <4> QED
                BY <1>12, <4>1, <4>2
        <3>3. w.min \in Int /\ w.max \in Int /\ m \in Int /\ n - k \in Int
            BY <1>1, <1>2, <1>3, <1>a
        <3> QED
            BY <1>3, <2>2, <3>1, <3>2, <3>3
    <2>4. Closing(n, at, k, v)
        BY <1>2, <2>1, <2>2, <2>3 DEF Closing
    <2> QED
        BY <2>1, <2>4 DEF v, n
<1> QED
    BY <1>13, <1>14, <1>15

LEMMA SearchFinds ==
    ASSUME NEW t, t.list \in SpanLists, Canonical(t), NEW index \in Nat,
           NEW at \in 1 .. Len(t.list),
           Total(t.list)[at - 1] <= index, index < Total(t.list)[at]
    PROVE  Search(Picker(t), index) = at
<1> DEFINE n == Len(t.list)
           p == Picker(t)
           S == Windows(n)
           start == [min |-> 0, max |-> n]
           F == [q \in (1 .. n) \X S |-> IF Halved(p, index, q[2]) \in S
                                         THEN Halved(p, index, q[2]) ELSE start]
           Defined(f) == f = [k \in 0 .. n |-> IF k = 0 THEN start ELSE Halved(p, index, f[k - 1])]
<1>1. n \in Nat /\ Len(p) = n /\ start \in S
    BY PickerIs DEF SpanLists, Windows
<1>2. F \in Steps(n, S)
    <2> HIDE DEF S, start, p
    <2> QED
        BY <1>1 DEF Steps
<1>3. PICK g \in Results(n, S, start, F) : TRUE
    <2> HIDE DEF F, S, start
    <2> QED
        BY <1>1, <1>2, Recursion
<1>4. g \in [0 .. n -> S] /\ g[0] = start /\ \A j \in 1 .. n : g[j] = F[<<j, g[j - 1]>>]
    <2> HIDE DEF F, S, start
    <2> QED
        BY DEF Results
<1>5. Closing(n, at, 0, start)
    BY <1>1 DEF Closing
<1>6. ASSUME NEW k \in 1 .. n, Closing(n, at, k - 1, g[k - 1])
      PROVE  Closing(n, at, k, g[k]) /\ g[k] = Halved(p, index, g[k - 1])
    <2>1. Closing(n, at, k, Halved(p, index, g[k - 1]))
        BY <1>6, HalvedIs
    <2>2. Halved(p, index, g[k - 1]) \in S
        BY <2>1 DEF Closing
    <2>3. k - 1 \in 0 .. n
        BY <1>1
    <2>4. g[k - 1] \in S
        BY <1>4, <2>3
    <2> HIDE DEF S, p, start
    <2>5. F[<<k, g[k - 1]>>] = Halved(p, index, g[k - 1])
        BY <2>2, <2>4
    <2> QED
        BY <1>4, <2>1, <2>5
<1>7. \A k \in 0 .. n : Closing(n, at, k, g[k])
    <2> DEFINE T == {k \in 0 .. n : Closing(n, at, k, g[k])}
    <2>1. 0 \in T
        BY <1>1, <1>4, <1>5
    <2>2. ASSUME NEW k \in 1 .. n, k - 1 \in T PROVE k \in T
        BY <1>6, <2>2
    <2>3. 0 .. n \subseteq T
        <3> HIDE DEF T
        <3> QED
            BY <1>1, <2>1, <2>2, Counting
    <2> QED
        BY <2>3
<1>8. \A k \in 1 .. n : g[k] = Halved(p, index, g[k - 1])
    <2> SUFFICES ASSUME NEW k \in 1 .. n PROVE g[k] = Halved(p, index, g[k - 1])
        OBVIOUS
    <2>1. k - 1 \in 0 .. n
        BY <1>1
    <2> QED
        BY <1>6, <1>7, <2>1
<1>9. Defined(g)
    <2> HIDE DEF S, start, p, F
    <2>1. \A k \in 0 .. n : g[k] = IF k = 0 THEN start ELSE Halved(p, index, g[k - 1])
        BY <1>1, <1>4, <1>8
    <2>2. g = [k \in 0 .. n |-> g[k]]
        BY <1>4
    <2> QED
        BY <2>1, <2>2
<1> DEFINE v == CHOOSE f : Defined(f)
<1>10. Search(p, index) = Mid(v[n]) + 1
    BY <1>1 DEF Search
<1>11. Defined(v)
    <2> HIDE DEF Defined
    <2> QED
        BY <1>9
<1> HIDE DEF v, S, start, p, F
<1>12. \A k \in 0 .. n : v[k] = IF k = 0 THEN start ELSE Halved(p, index, v[k - 1])
    BY <1>11
<1>13. \A k \in 0 .. n : v[k] = g[k]
    <2> DEFINE T == {k \in 0 .. n : v[k] = g[k]}
    <2>1. 0 \in T
        BY <1>1, <1>4, <1>12
    <2>2. ASSUME NEW k \in 1 .. n, k - 1 \in T PROVE k \in T
        BY <1>8, <1>12, <2>2
    <2>3. 0 .. n \subseteq T
        <3> HIDE DEF T
        <3> QED
            BY <1>1, <2>1, <2>2, Counting
    <2> QED
        BY <2>3
<1>14. Closing(n, at, n, v[n])
    BY <1>1, <1>7, <1>13
<1>15. Mid(v[n]) + 1 = at
    <2>1. v[n].min \in 0 .. n /\ v[n].max \in 0 .. n /\ v[n].min < at /\ at <= v[n].max
          /\ (Mid(v[n]) + 1 = at \/ v[n].max - v[n].min <= n - n)
        BY <1>14 DEF Closing, Windows
    <2> QED
        BY <1>1, <2>1
<1> QED
    BY <1>10, <1>15 DEF p

\* What an index picks, by both searches.
LEMMA Picked ==
    ASSUME NEW t, t.list \in SpanLists, Canonical(t),
           NEW at \in 1 .. Len(t.list), NEW index \in Nat,
           Total(t.list)[at - 1] <= index, index < Total(t.list)[at]
    PROVE  /\ Pick(t, index) = t.list[at].begin + (index - Total(t.list)[at - 1])
           /\ PickLinear(t.list, index) = Pick(t, index)
<1> DEFINE n == Len(t.list)
           tot == Total(t.list)
<1>1. n \in Nat /\ DOMAIN t.list = 1 .. n /\ tot \in [0 .. n -> Nat]
    BY TotalIs DEF SpanLists
<1>2. Pick(t, index) = t.list[at].begin + (index - tot[at - 1])
    BY SearchFinds, PickerIs DEF Pick
<1>3. \A k \in 1 .. n : index < tot[k] /\ (\A j \in 1 .. (k - 1) : index >= tot[j]) <=> k = at
    <2> SUFFICES ASSUME NEW k \in 1 .. n
                 PROVE  index < tot[k] /\ (\A j \in 1 .. (k - 1) : index >= tot[j]) <=> k = at
        OBVIOUS
    <2>1. \A j, i \in 0 .. n : j < i => tot[j] < tot[i]
        BY TotalsGrow
    <2>2. \A j \in 1 .. n : j \in 0 .. n /\ j - 1 \in 0 .. n /\ tot[j] \in Nat /\ tot[j - 1] \in Nat
        <3> HIDE DEF tot
        <3>1. \A j \in 1 .. n : j \in 0 .. n /\ j - 1 \in 0 .. n
            BY <1>1
        <3> QED
            BY <1>1, <3>1
    <2> HIDE DEF tot
    <2>3. ASSUME k < at PROVE ~ (index < tot[k])
        <3>1. k = at - 1 \/ k < at - 1
            BY <2>3
        <3>2. tot[k] <= tot[at - 1]
            BY <2>1, <2>2, <3>1
        <3>3. tot[at - 1] <= index
            BY DEF tot
        <3> QED
            BY <2>2, <3>2, <3>3
    <2>4. ASSUME at < k PROVE at \in 1 .. (k - 1) /\ ~ (index >= tot[at])
        <3>1. index < tot[at]
            BY DEF tot
        <3> QED
            BY <2>2, <2>4, <3>1
    <2>5. ASSUME k = at PROVE index < tot[k] /\ \A j \in 1 .. (k - 1) : index >= tot[j]
        <3>1. index < tot[at] /\ tot[at - 1] <= index
            BY DEF tot
        <3>2. ASSUME NEW j \in 1 .. (k - 1) PROVE index >= tot[j]
            <4>1. j = at - 1 \/ j < at - 1
                BY <2>5
            <4>2. j \in 1 .. n
                BY <1>1
            <4>3. tot[j] <= tot[at - 1]
                BY <2>1, <2>2, <4>1, <4>2
            <4> QED
                BY <2>2, <3>1, <4>2, <4>3
        <3> QED
            BY <2>5, <3>1, <3>2
    <2>6. k < at \/ at < k \/ k = at
        BY <1>1
    <2> QED
        BY <2>3, <2>4, <2>5, <2>6
<1>4. (CHOOSE k \in DOMAIN t.list : /\ index < tot[k]
                                    /\ \A j \in 1 .. (k - 1) : index >= tot[j]) = at
    <2> HIDE DEF tot
    <2> QED
        BY <1>1, <1>3
<1>5. PickLinear(t.list, index) = t.list[at].begin + (index - tot[at - 1])
    BY <1>4 DEF PickLinear
<1> QED
    BY <1>2, <1>5

\* rangelist_pick (ranges.c:703-740) over what rangelist_optimize has stored:
\* the indices below rangelist_count pick the addresses of a sorted list, each
\* of them once, and the linear search would pick the same.
THEOREM PickEnumerates ==
    ASSUME NEW t, t.list \in SpanLists, Canonical(t)
    PROVE  /\ Count(t) \in Nat
           /\ [m \in 0 .. (Count(t) - 1) |-> Pick(t, m)]
                \in Bijection(0 .. (Count(t) - 1), AllMembers(t))
           /\ \A m \in 0 .. (Count(t) - 1) : PickLinear(t.list, m) = Pick(t, m)
<1> DEFINE l == t.list
           n == Len(l)
           tot == Total(l)
           c == Count(t)
           D == 0 .. (c - 1)
           f == [m \in D |-> Pick(t, m)]
           Holds(k, m) == tot[k - 1] <= m /\ m < tot[k]
<1>1. n \in Nat /\ DOMAIN l = 1 .. n /\ tot \in [0 .. n -> Nat] /\ tot[0] = 0 /\ c = tot[n]
    BY TotalIs DEF SpanLists, Count
<1>2. c \in Nat
    BY <1>1
<1>3. ASSUME NEW m \in D PROVE \E k \in 1 .. n : Holds(k, m)
    <2>1. m \in Nat /\ m < Total(t.list)[Len(t.list)]
        BY <1>1, <1>2
    <2> QED
        BY <2>1, RangeOfIndex
<1>4. ASSUME NEW m \in D, NEW k \in 1 .. n, Holds(k, m)
      PROVE  Pick(t, m) = l[k].begin + (m - tot[k - 1]) /\ PickLinear(l, m) = Pick(t, m)
    <2>1. m \in Nat
        OBVIOUS
    <2> QED
        BY <1>4, <2>1, Picked
<1>5. \A k \in 1 .. n :
        /\ tot[k] = tot[k - 1] + (l[k].end - l[k].begin + 1)
        /\ tot[k] \in Nat /\ tot[k - 1] \in Nat /\ l[k].begin \in Nat /\ l[k].end \in Nat
        /\ l[k].begin <= l[k].end
    <2> SUFFICES ASSUME NEW k \in 1 .. n
                 PROVE  /\ tot[k] = tot[k - 1] + (l[k].end - l[k].begin + 1)
                        /\ tot[k] \in Nat /\ tot[k - 1] \in Nat
                        /\ l[k].begin \in Nat /\ l[k].end \in Nat /\ l[k].begin <= l[k].end
        OBVIOUS
    <2>1. k \in 0 .. n /\ k - 1 \in 0 .. n
        BY <1>1
    <2>2. tot[k] \in Nat /\ tot[k - 1] \in Nat
        BY <1>1, <2>1
    <2>3. tot[k] = tot[k - 1] + SizeOf(l[k])
        BY TotalIs
    <2>4. l[k].begin \in Nat /\ l[k].end \in Nat /\ l[k].begin <= l[k].end
        BY SpanOfList
    <2> QED
        BY <2>2, <2>3, <2>4 DEF SizeOf
<1> HIDE DEF l, n, tot, c
<1>6. \A j, k \in 1 .. n : j < k => l[j].end < l[k].begin /\ tot[j] <= tot[k - 1]
    <2> SUFFICES ASSUME NEW k \in 1 .. n
                 PROVE  \A j \in 1 .. n : j < k => l[j].end < l[k].begin /\ tot[j] <= tot[k - 1]
        OBVIOUS
    <2> DEFINE T == {0} \cup {i \in 1 .. n : \A j \in 1 .. n : j < i => l[j].end < l[i].begin}
    <2>1. ASSUME NEW i \in 1 .. n, i - 1 \in T PROVE i \in T
        <3>1. ASSUME NEW j \in 1 .. n, j < i PROVE l[j].end < l[i].begin
            <4>1. i - 1 \in 1 .. n /\ i - 1 \in 1 .. (n - 1) /\ (i - 1) + 1 = i
                BY <1>1, <3>1
            <4>2. l[i - 1].end + 1 < l[i].begin
                <5>1. l[i - 1].end + 1 < l[(i - 1) + 1].begin
                    BY <4>1 DEF Canonical, l, n
                <5> QED
                    BY <4>1, <5>1
            <4>3. j = i - 1 \/ j < i - 1
                BY <3>1
            <4>4. l[j].end <= l[i - 1].end
                <5>1. CASE j = i - 1
                    BY <1>5, <5>1
                <5>2. CASE j < i - 1
                    <6>1. l[j].end < l[i - 1].begin
                        BY <2>1, <4>1, <5>2
                    <6> QED
                        BY <1>5, <4>1, <6>1
                <5> QED
                    BY <4>3, <5>1, <5>2
            <4> QED
                BY <1>5, <4>1, <4>2, <4>4
        <3> QED
            BY <3>1
    <2>2. 0 .. n \subseteq T
        <3>1. 0 \in T
            OBVIOUS
        <3> HIDE DEF T
        <3> QED
            BY <1>1, <2>1, <3>1, Counting
    <2>3. k \in T /\ k # 0
        BY <2>2
    <2>4. ASSUME NEW j \in 1 .. n, j < k PROVE tot[j] <= tot[k - 1]
        <3>1. j = k - 1 \/ (j < k - 1 /\ j \in 0 .. n /\ k - 1 \in 0 .. n)
            BY <1>1, <2>4
        <3>2. ASSUME j < k - 1 PROVE tot[j] < tot[k - 1]
            BY <3>1, <3>2, TotalsGrow DEF l, n, tot
        <3> QED
            BY <1>5, <3>1, <3>2
    <2> QED
        BY <2>3, <2>4
<1>7. \A a : a \in AllMembers(t) <=> \E k \in 1 .. n : a \in l[k].begin .. l[k].end
    BY <1>1 DEF AllMembers, Members, l
<1>8. \A m \in D : PickLinear(l, m) = Pick(t, m)
    BY <1>3, <1>4
<1>9. ASSUME NEW m \in D PROVE Pick(t, m) \in AllMembers(t)
    <2>1. PICK k \in 1 .. n : Holds(k, m)
        BY <1>3
    <2>2. Pick(t, m) = l[k].begin + (m - tot[k - 1])
        BY <1>4, <2>1
    <2>3. Pick(t, m) \in l[k].begin .. l[k].end
        BY <1>2, <1>5, <2>1, <2>2
    <2> QED
        BY <1>7, <2>3
<1>10. ASSUME NEW p \in D, NEW q \in D, p < q PROVE Pick(t, p) < Pick(t, q)
    <2>1. PICK j \in 1 .. n : Holds(j, p)
        BY <1>3
    <2>2. PICK k \in 1 .. n : Holds(k, q)
        BY <1>3
    <2>3. Pick(t, p) = l[j].begin + (p - tot[j - 1]) /\ Pick(t, q) = l[k].begin + (q - tot[k - 1])
        BY <1>4, <2>1, <2>2
    <2>4. CASE j = k
        BY <1>2, <1>5, <1>10, <2>3, <2>4
    <2>5. CASE j < k
        <3>1. l[j].end < l[k].begin
            BY <1>6, <2>5
        <3> QED
            BY <1>2, <1>5, <2>1, <2>2, <2>3, <3>1
    <2>6. CASE k < j
        <3>1. tot[k] <= tot[j - 1]
            BY <1>6, <2>6
        <3>2. q < tot[k] /\ tot[j - 1] <= p
            BY <2>1, <2>2
        <3> QED
            BY <1>2, <1>5, <1>10, <3>1, <3>2
    <2> QED
        BY <1>1, <2>4, <2>5, <2>6
<1>11. f \in [D -> AllMembers(t)]
    BY <1>9
<1>12. \A p, q \in D : f[p] = f[q] => p = q
    <2> SUFFICES ASSUME NEW p \in D, NEW q \in D, Pick(t, p) = Pick(t, q), p # q PROVE FALSE
        OBVIOUS
    <2>1. p < q \/ q < p
        BY <1>2
    <2>2. Pick(t, p) \in Int
        <3>1. PICK k \in 1 .. n : Holds(k, p)
            BY <1>3
        <3> QED
            BY <1>2, <1>4, <1>5, <3>1
    <2> QED
        BY <1>10, <2>1, <2>2
<1>13. \A a \in AllMembers(t) : \E m \in D : f[m] = a
    <2> SUFFICES ASSUME NEW a \in AllMembers(t) PROVE \E m \in D : Pick(t, m) = a
        OBVIOUS
    <2>1. PICK k \in 1 .. n : a \in l[k].begin .. l[k].end
        BY <1>7
    <2> DEFINE m == tot[k - 1] + (a - l[k].begin)
    <2>2. m \in Nat /\ Holds(k, m)
        BY <1>5, <2>1
    <2>3. tot[k] <= c
        <3>1. k = n \/ (k < n /\ k \in 0 .. n /\ n \in 0 .. n)
            BY <1>1
        <3>2. ASSUME k < n PROVE tot[k] < tot[n]
            BY <3>1, <3>2, TotalsGrow DEF l, n, tot
        <3> QED
            BY <1>1, <1>2, <1>5, <3>1, <3>2
    <2>4. m \in D
        BY <1>2, <1>5, <2>2, <2>3
    <2>5. Pick(t, m) = l[k].begin + (m - tot[k - 1])
        <3> HIDE DEF m
        <3> QED
            BY <1>4, <2>2, <2>4
    <2>6. Pick(t, m) = a
        BY <1>5, <2>1, <2>5
    <2> QED
        BY <2>4, <2>6
<1>14. f \in Bijection(D, AllMembers(t))
    <2> HIDE DEF f, D
    <2> QED
        BY <1>11, <1>12, <1>13 DEF Bijection, Injection, IsInjective, Surjection
<1> QED
    BY <1>2, <1>8, <1>14 DEF c, l

----------------------------------------------------------------------------
(* Adding and sorting *)

\* What is in a list of ranges, as AllMembers has it of a struct RangeList.
Covered(l) == UNION {Members(l[k]) : k \in 1 .. Len(l)}
Lists == [list : SpanLists, sorted : BOOLEAN]

LEMMA AllMembersIs ==
    ASSUME NEW t, t.list \in SpanLists
    PROVE  AllMembers(t) = Covered(t.list)
BY DEF AllMembers, Covered, SpanLists

LEMMA AppendedList ==
    ASSUME NEW l \in SpanLists, NEW r \in Spans, IsValid(r)
    PROVE  /\ Append(l, r) \in SpanLists
           /\ Len(Append(l, r)) = Len(l) + 1
           /\ \A k \in 1 .. Len(l) : Append(l, r)[k] = l[k]
           /\ Append(l, r)[Len(l) + 1] = r
           /\ Covered(Append(l, r)) = Covered(l) \cup Members(r)
<1> DEFINE n == Len(l)
           m == Append(l, r)
<1>1. l \in Seq(Spans) /\ n \in Nat
    BY DEF SpanLists
<1>2. m \in Seq(Spans) /\ Len(m) = n + 1 /\ m[n + 1] = r /\ \A k \in 1 .. n : m[k] = l[k]
    BY <1>1
<1> HIDE DEF n, m
<1>3. \A k \in 1 .. (n + 1) : k \in 1 .. n \/ k = n + 1
    BY <1>1
<1>4. m \in SpanLists
    BY <1>2, <1>3 DEF SpanLists, n
<1>5. Covered(m) = Covered(l) \cup Members(r)
    <2>1. \A a : a \in Covered(m) <=> \E k \in 1 .. (n + 1) : a \in Members(m[k])
        BY <1>2 DEF Covered
    <2>2. \A a : a \in Covered(l) <=> \E k \in 1 .. n : a \in Members(l[k])
        BY DEF Covered, n
    <2>3. n + 1 \in 1 .. (n + 1) /\ \A k \in 1 .. n : k \in 1 .. (n + 1)
        BY <1>1
    <2> QED
        BY <1>2, <1>3, <2>1, <2>2, <2>3
<1> QED
    BY <1>2, <1>4, <1>5 DEF m, n

LEMMA FrontOfList ==
    ASSUME NEW l \in SpanLists, l # <<>>
    PROVE  /\ Front(l) \in SpanLists
           /\ Len(l) \in Nat \ {0}
           /\ Len(Front(l)) = Len(l) - 1
           /\ \A k \in 1 .. (Len(l) - 1) : Front(l)[k] = l[k]
           /\ Last(l) = l[Len(l)] /\ Last(l) \in Spans /\ IsValid(Last(l))
           /\ Covered(l) = Covered(Front(l)) \cup Members(Last(l))
<1> DEFINE n == Len(l)
           f == Front(l)
<1>1. l \in Seq(Spans) /\ n \in Nat \ {0}
    BY DEF SpanLists
<1>2. f \in Seq(Spans) /\ Len(f) = n - 1 /\ \A k \in 1 .. (n - 1) : f[k] = l[k]
    BY SMTT(30), <1>1 DEF Front
<1>3. Last(l) = l[n] /\ n \in 1 .. n
    BY <1>1 DEF Last
<1>4. \A k \in 1 .. n : l[k] \in Spans /\ IsValid(l[k])
    BY <1>1 DEF SpanLists
<1> HIDE DEF n, f
<1>5. \A k \in 1 .. n : k \in 1 .. (n - 1) \/ k = n
    BY <1>1
<1>6. \A k \in 1 .. (n - 1) : k \in 1 .. n
    BY <1>1
<1>7. f \in SpanLists
    BY <1>2, <1>4, <1>6 DEF SpanLists
<1>8. Covered(l) = Covered(f) \cup Members(Last(l))
    <2>1. \A a : a \in Covered(l) <=> \E k \in 1 .. n : a \in Members(l[k])
        BY DEF Covered, n
    <2>2. \A a : a \in Covered(f) <=> \E k \in 1 .. (n - 1) : a \in Members(f[k])
        BY <1>2 DEF Covered
    <2> QED
        BY <1>2, <1>3, <1>5, <1>6, <2>1, <2>2
<1> QED
    BY <1>1, <1>2, <1>3, <1>4, <1>7, <1>8 DEF f, n

\* rangelist_add_range: the new range is combined with the last one or put
\* behind it; together they hold what they held.
LEMMA AddedRange ==
    ASSUME NEW t \in Lists, NEW r \in Spans, IsValid(r)
    PROVE  /\ AddRange(t, r) \in Lists
           /\ Covered(AddRange(t, r).list) = Covered(t.list) \cup Members(r)
<1> DEFINE l == t.list
<1>1. l \in SpanLists
    BY DEF Lists
<1>2. CASE l = <<>>
    <2>1. <<r>> = Append(l, r)
        BY <1>2
    <2>2. AddRange(t, r) = [list |-> Append(l, r), sorted |-> TRUE]
        BY <1>2, <2>1 DEF AddRange
    <2> QED
        BY <1>1, <2>2, AppendedList DEF Lists
<1>3. CASE l # <<>> /\ ~ IsOverlap(Last(l), r)
    <2>1. AddRange(t, r) = [list |-> Append(l, r), sorted |-> FALSE]
        BY <1>3 DEF AddRange
    <2> QED
        BY <1>1, <2>1, AppendedList DEF Lists
<1>4. CASE l # <<>> /\ IsOverlap(Last(l), r)
    <2> DEFINE c == Combine(Last(l), r)
               f == Front(l)
    <2>1. AddRange(t, r) = [list |-> f \o <<c>>, sorted |-> FALSE]
        BY <1>4 DEF AddRange
    <2>2. f \in SpanLists /\ Last(l) \in Spans /\ IsValid(Last(l))
          /\ Covered(l) = Covered(f) \cup Members(Last(l))
        BY <1>1, <1>4, FrontOfList
    <2>3. c \in Spans /\ IsValid(c) /\ Members(c) = Members(Last(l)) \cup Members(r)
        BY <1>4, <2>2, CombineIsUnion
    <2> HIDE DEF c, f, l
    <2>4. f \o <<c>> = Append(f, c)
        BY <2>2, <2>3 DEF SpanLists
    <2>5. Append(f, c) \in SpanLists /\ Covered(Append(f, c)) = Covered(f) \cup Members(c)
        BY <2>2, <2>3, AppendedList
    <2>6. Covered(Append(f, c)) = Covered(l) \cup Members(r)
        BY <2>2, <2>3, <2>5
    <2>7. AddRange(t, r) = [list |-> Append(f, c), sorted |-> FALSE]
        BY <2>1, <2>4
    <2>8. AddRange(t, r) \in Lists /\ AddRange(t, r).list = Append(f, c)
        BY <2>5, <2>7 DEF Lists
    <2>9. Covered(AddRange(t, r).list) = Covered(t.list) \cup Members(r)
        BY <2>6, <2>8 DEF l
    <2> QED
        BY <2>8, <2>9
<1> QED
    BY <1>2, <1>3, <1>4

\* The last range begins no later than b.
Before(l, b) == Len(l) # 0 => l[Len(l)].begin <= b

\* Added in order, ranges stay apart.
LEMMA AddedInOrder ==
    ASSUME NEW t \in Lists, Canonical(t), NEW r \in Spans, IsValid(r), Before(t.list, r.begin)
    PROVE  Canonical(AddRange(t, r)) /\ Before(AddRange(t, r).list, r.begin)
<1> DEFINE l == t.list
           n == Len(l)
           u == AddRange(t, r)
           m == u.list
<1>1. l \in SpanLists /\ n \in Nat /\ DOMAIN l = 1 .. n
    BY DEF Lists, SpanLists
<1>2. u \in Lists /\ m \in SpanLists /\ DOMAIN m = 1 .. Len(m)
    BY AddedRange DEF Lists, SpanLists
<1>3. r.begin \in Nat /\ r.end \in Nat
    BY SpanType
<1>4. \A k \in DOMAIN m : IsValid(m[k])
    BY <1>2 DEF SpanLists
<1>5. \A k \in 1 .. (n - 1) : l[k].end + 1 < l[k + 1].begin
    BY DEF Canonical
<1>6. SUFFICES /\ \A k \in 1 .. (Len(m) - 1) : m[k].end + 1 < m[k + 1].begin
               /\ m[Len(m)].begin <= r.begin
    BY <1>4 DEF Canonical, Before
<1>7. CASE l = <<>>
    <2>1. m = <<r>>
        BY <1>7 DEF AddRange
    <2>2. Len(m) = 1 /\ m[1] = r
        BY <2>1
    <2> HIDE DEF m
    <2> QED
        BY <1>3, <2>2
<1>8. CASE l # <<>> /\ ~ IsOverlap(Last(l), r)
    <2>1. m = Append(l, r)
        BY <1>8 DEF AddRange
    <2>2. Len(m) = n + 1 /\ m[n + 1] = r /\ \A k \in 1 .. n : m[k] = l[k]
        BY <1>1, <2>1, AppendedList
    <2>3. Last(l) = l[n] /\ Last(l) \in Spans /\ IsValid(Last(l)) /\ n \in Nat \ {0}
        BY <1>1, <1>8, FrontOfList
    <2>4. l[n].begin <= r.begin
        BY <2>3 DEF Before
    <2>5. l[n].end + 1 < r.begin
        BY <1>8, <2>3, <2>4, ApartLeavesGap
    <2> HIDE DEF m, n, l, u
    <2>6. ASSUME NEW k \in 1 .. (Len(m) - 1) PROVE m[k].end + 1 < m[k + 1].begin
        <3>1. k \in 1 .. n /\ (k = n \/ (k \in 1 .. (n - 1) /\ k + 1 \in 1 .. n))
            BY <2>2, <2>3
        <3> QED
            BY <1>5, <2>2, <2>5, <3>1
    <2> QED
        BY <1>3, <2>2, <2>6
<1>9. CASE l # <<>> /\ IsOverlap(Last(l), r)
    <2> DEFINE c == Combine(Last(l), r)
               f == Front(l)
    <2>1. m = f \o <<c>>
        BY <1>9 DEF AddRange
    <2>2. f \in SpanLists /\ Len(f) = n - 1 /\ (\A k \in 1 .. (n - 1) : f[k] = l[k])
          /\ Last(l) = l[n] /\ Last(l) \in Spans /\ IsValid(Last(l)) /\ n \in Nat \ {0}
        BY <1>1, <1>9, FrontOfList
    <2>3. c \in Spans /\ IsValid(c)
        BY <1>9, <2>2, CombineIsUnion
    <2>4. c.begin = l[n].begin
        <3>1. l[n].begin <= r.begin /\ l[n].begin \in Nat
            BY <2>2, SpanType DEF Before
        <3> QED
            BY <1>3, <2>2, <3>1 DEF Combine, Span
    <2>5. f \o <<c>> = Append(f, c)
        BY <2>2, <2>3 DEF SpanLists
    <2>6. Len(m) = n /\ m[n] = c /\ \A k \in 1 .. (n - 1) : m[k] = l[k]
        <3>1. Len(Append(f, c)) = Len(f) + 1 /\ Append(f, c)[Len(f) + 1] = c
              /\ \A k \in 1 .. Len(f) : Append(f, c)[k] = f[k]
            BY <2>2, <2>3, AppendedList
        <3> HIDE DEF m, n, l, u, c, f
        <3> QED
            BY <2>1, <2>2, <2>5, <3>1
    <2>7. l[n].begin <= r.begin
        BY <2>2 DEF Before
    <2> HIDE DEF m, n, l, u, c, f
    <2>8. ASSUME NEW k \in 1 .. (n - 1) PROVE m[k].end + 1 < m[k + 1].begin
        <3>1. k + 1 = n \/ k + 1 \in 1 .. (n - 1)
            BY <2>2
        <3> QED
            BY <1>5, <2>4, <2>6, <3>1
    <2> QED
        BY <2>4, <2>6, <2>7, <2>8
<1> QED
    BY <1>7, <1>8, <1>9

\* The list that ranges are added to, after each of them.
Additions(t, ranges) ==
    {g \in [0 .. Len(ranges) -> Lists] :
        /\ g[0] = t
        /\ \A k \in 1 .. Len(ranges) : g[k] = AddRange(g[k - 1], ranges[k])}

LEMMA AddAllIs ==
    ASSUME NEW t \in Lists, NEW ranges \in SpanLists
    PROVE  \E g \in Additions(t, ranges) : AddAll(t, ranges) = g[Len(ranges)]
<1> DEFINE n == Len(ranges)
           F == [p \in (1 .. n) \X Lists |-> AddRange(p[2], ranges[p[1]])]
           Defined(f) == f = [k \in 0 .. n |-> IF k = 0 THEN t ELSE AddRange(f[k - 1], ranges[k])]
           v == CHOOSE f : Defined(f)
<1>1. n \in Nat /\ \A k \in 1 .. n : ranges[k] \in Spans /\ IsValid(ranges[k])
    BY DEF SpanLists
<1>2. F \in Steps(n, Lists)
    <2>1. ASSUME NEW p \in (1 .. n) \X Lists PROVE AddRange(p[2], ranges[p[1]]) \in Lists
        <3>1. p[1] \in 1 .. n /\ p[2] \in Lists
            OBVIOUS
        <3> QED
            BY <1>1, <3>1, AddedRange
    <2> QED
        BY <2>1 DEF Steps
<1>3. PICK g \in Results(n, Lists, t, F) : TRUE
    <2> HIDE DEF F
    <2> QED
        BY <1>1, <1>2, Recursion
<1>4. g \in [0 .. n -> Lists] /\ g[0] = t /\ \A j \in 1 .. n : g[j] = F[<<j, g[j - 1]>>]
    <2> HIDE DEF F
    <2> QED
        BY DEF Results
<1>5. ASSUME NEW j \in 1 .. n PROVE g[j] = AddRange(g[j - 1], ranges[j])
    <2>1. j - 1 \in 0 .. n
        BY <1>1
    <2>2. <<j, g[j - 1]>> \in (1 .. n) \X Lists
        BY <1>4, <2>1
    <2> QED
        BY <1>4, <2>2
<1> HIDE DEF F
<1>6. Defined(g)
    <2>1. \A k \in 0 .. n : g[k] = IF k = 0 THEN t ELSE AddRange(g[k - 1], ranges[k])
        BY <1>1, <1>4, <1>5
    <2>2. g = [k \in 0 .. n |-> g[k]]
        BY <1>4
    <2> QED
        BY <2>1, <2>2
<1>7. AddAll(t, ranges) = v[n]
    BY DEF AddAll
<1>8. Defined(v)
    <2> HIDE DEF Defined
    <2> QED
        BY <1>6
<1> HIDE DEF v
<1>9. \A k \in 0 .. n : v[k] = IF k = 0 THEN t ELSE AddRange(v[k - 1], ranges[k])
    BY <1>8
<1>10. \A k \in 0 .. n : v[k] = g[k]
    <2> DEFINE T == {k \in 0 .. n : v[k] = g[k]}
    <2>1. 0 \in T
        BY <1>1, <1>4, <1>9
    <2>2. ASSUME NEW k \in 1 .. n, k - 1 \in T PROVE k \in T
        BY <1>5, <1>9, <2>2
    <2>3. 0 .. n \subseteq T
        <3> HIDE DEF T
        <3> QED
            BY <1>1, <2>1, <2>2, Counting
    <2> QED
        BY <2>3
<1>11. g \in Additions(t, ranges)
    BY <1>4, <1>5 DEF Additions
<1> QED
    BY <1>1, <1>7, <1>10, <1>11

\* rangelist_merge's loop (ranges.c:244-255), and the reading of any list.
LEMMA AddedAll ==
    ASSUME NEW t \in Lists, NEW ranges \in SpanLists
    PROVE  /\ AddAll(t, ranges) \in Lists
           /\ Covered(AddAll(t, ranges).list) = Covered(t.list) \cup Covered(ranges)
<1> DEFINE n == Len(ranges)
<1>1. PICK g \in Additions(t, ranges) : AddAll(t, ranges) = g[n]
    BY AddAllIs
<1>2. n \in Nat /\ g \in [0 .. n -> Lists] /\ g[0] = t
      /\ \A k \in 1 .. n : g[k] = AddRange(g[k - 1], ranges[k])
    BY DEF Additions, SpanLists
<1>3. \A k \in 1 .. n : ranges[k] \in Spans /\ IsValid(ranges[k])
    BY DEF SpanLists
<1> DEFINE Upto(k) == UNION {Members(ranges[j]) : j \in 1 .. k}
           T == {k \in 0 .. n : Covered(g[k].list) = Covered(t.list) \cup Upto(k)}
<1> HIDE DEF n
<1>4. 0 \in T
    <2>1. Upto(0) = {}
        OBVIOUS
    <2> QED
        BY <1>2, <2>1
<1>5. ASSUME NEW k \in 1 .. n, k - 1 \in T PROVE k \in T
    <2>1. k - 1 \in 0 .. n /\ k \in 0 .. n
        BY <1>2
    <2>2. Covered(g[k].list) = Covered(g[k - 1].list) \cup Members(ranges[k])
        BY <1>2, <1>3, <2>1, AddedRange
    <2>3. Upto(k) = Upto(k - 1) \cup Members(ranges[k])
        <3>1. \A j : j \in 1 .. k <=> j \in 1 .. (k - 1) \/ j = k
            BY <1>2
        <3> QED
            BY <3>1
    <2> QED
        BY <1>5, <2>1, <2>2, <2>3
<1>6. 0 .. n \subseteq T
    <2> HIDE DEF T
    <2> QED
        BY <1>2, <1>4, <1>5, Counting
<1>7. Upto(n) = Covered(ranges)
    BY DEF Covered, n
<1>8. n \in 0 .. n
    BY <1>2
<1> QED
    BY <1>1, <1>2, <1>6, <1>7, <1>8

----------------------------------------------------------------------------
\* Lists in the order qsort leaves.
InBeginOrder(l) == \A j, k \in 1 .. Len(l) : j < k => l[j].begin <= l[k].begin
OrderedLists == {l \in SpanLists : InBeginOrder(l)}

\* Where a range is inserted.
InsertedAt(s, r, k) ==
    /\ k \in 0 .. Len(s)
    /\ \A j \in 1 .. k : s[j].begin <= r.begin
    /\ \A j \in (k + 1) .. Len(s) : s[j].begin > r.begin

LEMMA PlaceExists ==
    ASSUME NEW s \in OrderedLists, NEW r \in Spans
    PROVE  \E k : InsertedAt(s, r, k)
<1> DEFINE n == Len(s)
           T == {k \in 1 .. (n + 1) : k = n + 1 \/ s[k].begin > r.begin}
<1>1. n \in Nat /\ s \in SpanLists /\ r.begin \in Nat
    BY SpanType DEF OrderedLists, SpanLists
<1>2. n + 1 \in T /\ T \in SUBSET Nat
    BY <1>1
<1>3. PICK k \in T : \A j \in T : k <= j
    <2> HIDE DEF T
    <2> QED
        BY <1>2, Least
<1>4. \A j \in 1 .. n : s[j].begin \in Nat
    BY <1>1, SpanOfList
<1>5. ASSUME NEW j \in 1 .. (k - 1) PROVE s[j].begin <= r.begin
    <2>1. j \in 1 .. n /\ j \notin T
        BY <1>1, <1>3
    <2> QED
        BY <1>1, <1>4, <2>1
<1>6. ASSUME NEW j \in k .. n PROVE s[j].begin > r.begin
    <2>1. k \in 1 .. n /\ s[k].begin > r.begin
        BY <1>1, <1>3
    <2>2. j = k \/ s[k].begin <= s[j].begin
        BY <2>1 DEF OrderedLists, InBeginOrder
    <2>3. j \in 1 .. n
        BY <2>1
    <2> QED
        BY <1>1, <1>4, <2>1, <2>2, <2>3
<1>7. k - 1 \in 0 .. n /\ (k - 1) + 1 = k
    BY <1>1
<1>8. InsertedAt(s, r, k - 1)
    BY <1>5, <1>6, <1>7 DEF InsertedAt
<1> QED
    BY <1>8

LEMMA Inserted ==
    ASSUME NEW s \in OrderedLists, NEW r \in Spans, IsValid(r)
    PROVE  /\ Insert(s, r) \in OrderedLists
           /\ Covered(Insert(s, r)) = Covered(s) \cup Members(r)
<1> DEFINE n == Len(s)
           k == CHOOSE i : InsertedAt(s, r, i)
           kk == CHOOSE i \in 0 .. Len(s) :
                    /\ \A j \in 1 .. i : s[j].begin <= r.begin
                    /\ \A j \in (i + 1) .. Len(s) : s[j].begin > r.begin
           m == SubSeq(s, 1, kk) \o <<r>> \o SubSeq(s, kk + 1, n)
<1>1. n \in Nat /\ s \in SpanLists /\ s \in Seq(Spans) /\ r.begin \in Nat
    BY SpanType DEF OrderedLists, SpanLists
<1>2. InsertedAt(s, r, kk)
    <2>1. \E i \in 0 .. Len(s) : /\ \A j \in 1 .. i : s[j].begin <= r.begin
                                 /\ \A j \in (i + 1) .. Len(s) : s[j].begin > r.begin
        BY PlaceExists DEF InsertedAt
    <2> QED
        BY <2>1 DEF InsertedAt
<1>3. Insert(s, r) = m
    BY DEF Insert
<1> HIDE DEF kk
<1>4. kk \in 0 .. n /\ (\A j \in 1 .. kk : s[j].begin <= r.begin)
      /\ \A j \in (kk + 1) .. n : s[j].begin > r.begin
    BY <1>2 DEF InsertedAt
<1>5. /\ m \in Seq(Spans) /\ Len(m) = n + 1
      /\ \A j \in 1 .. kk : m[j] = s[j]
      /\ m[kk + 1] = r
      /\ \A j \in (kk + 2) .. (n + 1) : m[j] = s[j - 1]
    <2>1. SubSeq(s, 1, kk) \in Seq(Spans) /\ Len(SubSeq(s, 1, kk)) = kk
          /\ \A j \in 1 .. kk : SubSeq(s, 1, kk)[j] = s[j]
        BY <1>1, <1>4
    <2>2. SubSeq(s, kk + 1, n) \in Seq(Spans) /\ Len(SubSeq(s, kk + 1, n)) = n - kk
          /\ \A j \in 1 .. (n - kk) : SubSeq(s, kk + 1, n)[j] = s[kk + j]
        BY <1>1, <1>4
    <2> DEFINE a == SubSeq(s, 1, kk)
               b == SubSeq(s, kk + 1, n)
    <2> HIDE DEF a, b, n
    <2>3. <<r>> \in Seq(Spans) /\ Len(<<r>>) = 1 /\ <<r>>[1] = r
        OBVIOUS
    <2>4. a \o <<r>> \in Seq(Spans) /\ Len(a \o <<r>>) = kk + 1
          /\ (\A j \in 1 .. kk : (a \o <<r>>)[j] = s[j]) /\ (a \o <<r>>)[kk + 1] = r
        BY <1>4, <2>1, <2>3 DEF a
    <2> DEFINE c == a \o <<r>>
    <2> HIDE DEF c
    <2>5. c \o b \in Seq(Spans) /\ Len(c \o b) = n + 1
          /\ (\A j \in 1 .. (kk + 1) : (c \o b)[j] = c[j])
          /\ \A j \in (kk + 2) .. (n + 1) : (c \o b)[j] = b[j - (kk + 1)]
        <3>1. b \in Seq(Spans) /\ Len(b) = n - kk
            BY <2>2 DEF b
        <3>2. c \in Seq(Spans) /\ Len(c) = kk + 1
            BY <2>4 DEF c
        <3>3. n \in Nat /\ kk \in 0 .. n
            BY <1>1, <1>4 DEF n
        <3>4. c \o b \in Seq(Spans) /\ Len(c \o b) = n + 1
            BY <3>1, <3>2, <3>3
        <3>5. \A j \in 1 .. (n + 1) : (c \o b)[j] = IF j <= kk + 1 THEN c[j] ELSE b[j - (kk + 1)]
            BY <3>1, <3>2, <3>3
        <3>6. \A j \in 1 .. (kk + 1) : j \in 1 .. (n + 1) /\ j <= kk + 1
            BY <3>3
        <3>7. \A j \in (kk + 2) .. (n + 1) : j \in 1 .. (n + 1) /\ ~ (j <= kk + 1)
            BY <3>3
        <3>8. \A j \in 1 .. (kk + 1) : (c \o b)[j] = c[j]
            BY <3>5, <3>6
        <3>9. \A j \in (kk + 2) .. (n + 1) : (c \o b)[j] = b[j - (kk + 1)]
            BY <3>5, <3>7
        <3> QED
            BY <3>4, <3>8, <3>9
    <2>6. ASSUME NEW j \in (kk + 2) .. (n + 1) PROVE (c \o b)[j] = s[j - 1]
        <3>1. j - (kk + 1) \in 1 .. (n - kk) /\ kk + (j - (kk + 1)) = j - 1
            BY <1>1, <1>4
        <3>2. b[j - (kk + 1)] = s[kk + (j - (kk + 1))]
            BY <2>2, <3>1 DEF b
        <3> QED
            BY <2>5, <3>1, <3>2
    <2>7. ASSUME NEW j \in 1 .. kk PROVE (c \o b)[j] = s[j]
        BY <1>4, <2>4, <2>5 DEF c
    <2>8. (c \o b)[kk + 1] = r
        BY <1>4, <2>4, <2>5 DEF c
    <2>9. m = c \o b
        BY DEF a, b, c, n
    <2> HIDE DEF m
    <2> QED
        BY <2>5, <2>6, <2>7, <2>8, <2>9 DEF n
<1> HIDE DEF m, n
<1>6. \A j \in 1 .. (n + 1) : \/ j \in 1 .. kk /\ j \in 1 .. n
                              \/ j = kk + 1
                              \/ j \in (kk + 2) .. (n + 1) /\ j - 1 \in (kk + 1) .. n /\ j - 1 \in 1 .. n
    BY <1>1, <1>4
<1>7. \A j \in 1 .. n : s[j] \in Spans /\ IsValid(s[j]) /\ s[j].begin \in Nat
    <2> SUFFICES ASSUME NEW j \in 1 .. n
                 PROVE  s[j] \in Spans /\ IsValid(s[j]) /\ s[j].begin \in Nat
        OBVIOUS
    <2>1. s[j] \in Spans /\ IsValid(s[j])
        BY <1>1 DEF SpanLists, n
    <2> QED
        BY <2>1, SpanType
<1>8. \A j \in 1 .. (n + 1) : IsValid(m[j])
    BY <1>5, <1>6, <1>7
<1>9. m \in SpanLists
    BY <1>5, <1>8 DEF SpanLists
<1>10. \A i, j \in 1 .. n : i < j => s[i].begin <= s[j].begin
    BY DEF OrderedLists, InBeginOrder, n
<1>11. ASSUME NEW i \in 1 .. (n + 1), NEW j \in 1 .. (n + 1), i < j
       PROVE  m[i].begin <= m[j].begin
    <2>1. CASE j \in 1 .. kk
        <3>1. i \in 1 .. kk /\ i \in 1 .. n /\ j \in 1 .. n
            BY <1>1, <1>4, <1>11, <2>1
        <3> QED
            BY <1>5, <1>10, <1>11, <2>1, <3>1
    <2>2. CASE j = kk + 1
        <3>1. i \in 1 .. kk
            BY <1>4, <1>11, <2>2
        <3> QED
            BY <1>4, <1>5, <2>2, <3>1
    <2>3. CASE j \in (kk + 2) .. (n + 1) /\ i \in 1 .. kk
        <3>1. i \in 1 .. n /\ j - 1 \in 1 .. n /\ i < j - 1
            BY <1>1, <1>4, <2>3
        <3> QED
            BY <1>5, <1>10, <2>3, <3>1
    <2>4. CASE j \in (kk + 2) .. (n + 1) /\ i = kk + 1
        <3>1. j - 1 \in (kk + 1) .. n /\ j - 1 \in 1 .. n
            BY <1>1, <1>4, <2>4
        <3> QED
            BY <1>1, <1>4, <1>5, <1>7, <2>4, <3>1
    <2>5. CASE j \in (kk + 2) .. (n + 1) /\ i \in (kk + 2) .. (n + 1)
        <3>1. i - 1 \in 1 .. n /\ j - 1 \in 1 .. n /\ i - 1 < j - 1
            BY <1>1, <1>4, <1>11, <2>5
        <3> QED
            BY <1>5, <1>10, <2>5, <3>1
    <2> QED
        BY <1>6, <2>1, <2>2, <2>3, <2>4, <2>5
<1>12. m \in OrderedLists
    BY <1>5, <1>9, <1>11 DEF OrderedLists, InBeginOrder
<1>13. Covered(m) = Covered(s) \cup Members(r)
    <2>1. \A x : x \in Covered(m) <=> \E j \in 1 .. (n + 1) : x \in Members(m[j])
        BY <1>5 DEF Covered
    <2>2. \A x : x \in Covered(s) <=> \E j \in 1 .. n : x \in Members(s[j])
        BY DEF Covered, n
    <2>3. \A x \in Covered(m) : x \in Covered(s) \cup Members(r)
        BY <1>5, <1>6, <2>1, <2>2
    <2>4. \A j \in 1 .. n : \E i \in 1 .. (n + 1) : m[i] = s[j]
        <3> SUFFICES ASSUME NEW j \in 1 .. n PROVE \E i \in 1 .. (n + 1) : m[i] = s[j]
            OBVIOUS
        <3>1. CASE j <= kk
            BY <1>1, <1>4, <1>5, <3>1
        <3>2. CASE j > kk
            <4>1. j + 1 \in (kk + 2) .. (n + 1) /\ j + 1 \in 1 .. (n + 1) /\ (j + 1) - 1 = j
                BY <1>1, <1>4, <3>2
            <4>2. m[j + 1] = s[(j + 1) - 1]
                BY <1>5, <4>1
            <4> QED
                BY <4>1, <4>2
        <3> QED
            BY <1>4, <3>1, <3>2
    <2>5. kk + 1 \in 1 .. (n + 1)
        BY <1>1, <1>4
    <2>6. \A x \in Covered(s) \cup Members(r) : x \in Covered(m)
        BY <1>5, <2>1, <2>2, <2>4, <2>5
    <2> QED
        BY <2>3, <2>6
<1> QED
    BY <1>3, <1>12, <1>13

LEMMA OrderedIs ==
    ASSUME NEW l \in SpanLists
    PROVE  Ordered(l) \in OrderedLists /\ Covered(Ordered(l)) = Covered(l)
<1> DEFINE n == Len(l)
           F == [p \in (1 .. n) \X OrderedLists |-> Insert(p[2], l[p[1]])]
           Defined(f) == f = [k \in 0 .. n |-> IF k = 0 THEN <<>> ELSE Insert(f[k - 1], l[k])]
           v == CHOOSE f : Defined(f)
<1>1. n \in Nat /\ \A k \in 1 .. n : l[k] \in Spans /\ IsValid(l[k])
    BY DEF SpanLists
<1>2. F \in Steps(n, OrderedLists)
    <2>1. ASSUME NEW p \in (1 .. n) \X OrderedLists PROVE Insert(p[2], l[p[1]]) \in OrderedLists
        <3>1. p[1] \in 1 .. n /\ p[2] \in OrderedLists
            OBVIOUS
        <3> QED
            BY <1>1, <3>1, Inserted
    <2> QED
        BY <2>1 DEF Steps
<1>0. <<>> \in OrderedLists /\ Covered(<<>>) = {}
    BY DEF OrderedLists, InBeginOrder, SpanLists, Covered
<1>3. PICK g \in Results(n, OrderedLists, <<>>, F) : TRUE
    <2> HIDE DEF F
    <2> QED
        BY <1>0, <1>1, <1>2, Recursion
<1>4. g \in [0 .. n -> OrderedLists] /\ g[0] = <<>> /\ \A j \in 1 .. n : g[j] = F[<<j, g[j - 1]>>]
    <2> HIDE DEF F
    <2> QED
        BY DEF Results
<1>5. ASSUME NEW j \in 1 .. n PROVE g[j] = Insert(g[j - 1], l[j])
    <2>1. j - 1 \in 0 .. n
        BY <1>1
    <2>2. <<j, g[j - 1]>> \in (1 .. n) \X OrderedLists
        BY <1>4, <2>1
    <2> QED
        BY <1>4, <2>2
<1> HIDE DEF F
<1>6. Defined(g)
    <2>1. \A k \in 0 .. n : g[k] = IF k = 0 THEN <<>> ELSE Insert(g[k - 1], l[k])
        BY <1>1, <1>4, <1>5
    <2>2. g = [k \in 0 .. n |-> g[k]]
        BY <1>4
    <2> QED
        BY <2>1, <2>2
<1>7. Ordered(l) = v[n]
    BY DEF Ordered
<1>8. Defined(v)
    <2> HIDE DEF Defined
    <2> QED
        BY <1>6
<1> HIDE DEF v
<1>9. \A k \in 0 .. n : v[k] = IF k = 0 THEN <<>> ELSE Insert(v[k - 1], l[k])
    BY <1>8
<1> DEFINE Upto(k) == UNION {Members(l[j]) : j \in 1 .. k}
           T == {k \in 0 .. n : v[k] = g[k] /\ Covered(g[k]) = Upto(k)}
<1> HIDE DEF n
<1>10. 0 \in T
    <2>1. Upto(0) = {}
        OBVIOUS
    <2>2. Covered(g[0]) = {}
        BY <1>0, <1>4
    <2>3. 0 \in 0 .. n
        BY <1>1
    <2> QED
        BY <1>4, <1>9, <2>1, <2>2, <2>3
<1>11. ASSUME NEW k \in 1 .. n, k - 1 \in T PROVE k \in T
    <2>1. k - 1 \in 0 .. n /\ k \in 0 .. n /\ k # 0
        BY <1>1
    <2>2. Covered(g[k]) = Covered(g[k - 1]) \cup Members(l[k])
        BY <1>1, <1>4, <1>5, <2>1, Inserted
    <2>3. Upto(k) = Upto(k - 1) \cup Members(l[k])
        <3>1. \A j : j \in 1 .. k <=> j \in 1 .. (k - 1) \/ j = k
            BY <1>1
        <3> QED
            BY <3>1
    <2>4. v[k] = g[k]
        BY <1>5, <1>9, <1>11, <2>1
    <2>5. Covered(g[k]) = Upto(k)
        BY <1>11, <2>2, <2>3
    <2> QED
        BY <2>1, <2>4, <2>5
<1>12. 0 .. n \subseteq T
    <2> HIDE DEF T
    <2> QED
        BY <1>1, <1>10, <1>11, Counting
<1>13. n \in 0 .. n
    BY <1>1
<1>14. v[n] = g[n] /\ Covered(g[n]) = Upto(n) /\ g[n] \in OrderedLists
    BY <1>4, <1>12, <1>13
<1>15. Upto(n) = Covered(l)
    BY DEF Covered, n
<1> QED
    BY <1>7, <1>14, <1>15 DEF n

\* rangelist_sort (ranges.c:125-190): a list that is put in order and added
\* up again stands for what it stood for, and its ranges are apart.
THEOREM SortIsCanonical ==
    ASSUME NEW t \in Lists, t.sorted => Canonical(t)
    PROVE  /\ Sort(t) \in Lists
           /\ Sort(t).sorted /\ Canonical(Sort(t))
           /\ AllMembers(Sort(t)) = AllMembers(t)
<1>1. t.list \in SpanLists /\ t.sorted \in BOOLEAN
    BY DEF Lists
<1>2. CASE t.sorted \/ t.list = <<>>
    <2>1. Sort(t) = [t EXCEPT !.sorted = TRUE]
        BY <1>2 DEF Sort
    <2>2. Sort(t) \in Lists /\ Sort(t).list = t.list /\ Sort(t).sorted
        BY <2>1 DEF Lists
    <2>3. Canonical(Sort(t))
        <3>1. CASE t.sorted
            BY <2>2, <3>1 DEF Canonical
        <3>2. CASE t.list = <<>>
            <4>1. DOMAIN t.list = {} /\ 1 .. (Len(t.list) - 1) = {}
                BY <3>2
            <4> QED
                BY <2>2, <4>1 DEF Canonical
        <3> QED
            BY <1>2, <3>1, <3>2
    <2>4. AllMembers(Sort(t)) = AllMembers(t)
        BY <2>2 DEF AllMembers
    <2> QED
        BY <2>2, <2>3, <2>4
<1>3. CASE ~ (t.sorted \/ t.list = <<>>)
    <2> DEFINE l == Ordered(t.list)
               n == Len(l)
               all == AddAll(Empty, l)
    <2>1. l \in OrderedLists /\ Covered(l) = Covered(t.list)
        BY <1>1, OrderedIs
    <2>2. l \in SpanLists /\ n \in Nat /\ \A j, k \in 1 .. n : j < k => l[j].begin <= l[k].begin
        BY <2>1 DEF OrderedLists, InBeginOrder, SpanLists
    <2>3. Sort(t) = [list |-> all.list, sorted |-> TRUE]
        BY <1>3 DEF Sort
    <2>4. Empty \in Lists /\ Covered(Empty.list) = {} /\ Canonical(Empty) /\ Empty.list = <<>>
        <3>1. <<>> \in SpanLists /\ Covered(<<>>) = {} /\ DOMAIN <<>> = {} /\ 1 .. (Len(<<>>) - 1) = {}
            BY DEF SpanLists, Covered
        <3> QED
            BY <3>1 DEF Empty, Lists, Canonical
    <2> HIDE DEF l
    <2>5. PICK g \in Additions(Empty, l) : all = g[n]
        BY <2>2, <2>4, AddAllIs
    <2>6. g \in [0 .. n -> Lists] /\ g[0] = Empty
          /\ \A k \in 1 .. n : g[k] = AddRange(g[k - 1], l[k])
        BY DEF Additions
    <2>7. \A k \in 1 .. n : l[k] \in Spans /\ IsValid(l[k]) /\ l[k].begin \in Nat
        <3> SUFFICES ASSUME NEW k \in 1 .. n
                     PROVE  l[k] \in Spans /\ IsValid(l[k]) /\ l[k].begin \in Nat
            OBVIOUS
        <3>1. l[k] \in Spans /\ IsValid(l[k])
            BY <2>2 DEF SpanLists
        <3> QED
            BY <3>1, SpanType
    <2> DEFINE T == {k \in 0 .. n : Canonical(g[k]) /\ (k # n => Before(g[k].list, l[k + 1].begin))}
    <2> HIDE DEF n
    <2>8. 0 \in T
        <3>1. Before(<<>>, l[1].begin)
            BY DEF Before
        <3> QED
            BY <2>2, <2>4, <2>6, <3>1
    <2>9. ASSUME NEW k \in 1 .. n, k - 1 \in T PROVE k \in T
        <3>1. k - 1 \in 0 .. n /\ k \in 0 .. n /\ k - 1 # n /\ (k - 1) + 1 = k
            BY <2>2
        <3>2. g[k - 1] \in Lists /\ Canonical(g[k - 1]) /\ Before(g[k - 1].list, l[k].begin)
            BY <2>6, <2>9, <3>1
        <3>3. Canonical(g[k]) /\ Before(g[k].list, l[k].begin) /\ g[k] \in Lists
            BY <2>6, <2>7, <3>1, <3>2, AddedInOrder
        <3>4. ASSUME k # n PROVE Before(g[k].list, l[k + 1].begin)
            <4>1. k + 1 \in 1 .. n /\ k < k + 1
                BY <2>2, <3>4
            <4>2. l[k].begin <= l[k + 1].begin
                BY <2>2, <4>1
            <4>3. ASSUME Len(g[k].list) # 0
                  PROVE  g[k].list[Len(g[k].list)].begin \in Nat
                <5>1. g[k].list \in SpanLists /\ Len(g[k].list) \in 1 .. Len(g[k].list)
                    BY <3>3, <4>3 DEF Lists, SpanLists
                <5> QED
                    BY <5>1, SpanOfList
            <4> QED
                BY <2>7, <3>3, <4>1, <4>2, <4>3 DEF Before
        <3> QED
            BY <3>1, <3>3, <3>4
    <2>10. 0 .. n \subseteq T
        <3> HIDE DEF T
        <3> QED
            BY <2>2, <2>8, <2>9, Counting
    <2>11. n \in 0 .. n
        BY <2>2
    <2>12. Canonical(all)
        BY <2>5, <2>10, <2>11
    <2>13. all \in Lists /\ Covered(all.list) = Covered(t.list)
        <3>1. all \in Lists /\ Covered(all.list) = Covered(Empty.list) \cup Covered(l)
            BY <2>2, <2>4, AddedAll
        <3>2. Covered(l) = Covered(t.list)
            BY <2>1 DEF l
        <3> HIDE DEF all
        <3> QED
            BY <2>4, <3>1, <3>2
    <2> HIDE DEF all
    <2>14. Sort(t) \in Lists /\ Sort(t).sorted /\ Sort(t).list = all.list
        BY <2>3, <2>13 DEF Lists
    <2>15. Canonical(Sort(t))
        BY <2>12, <2>14 DEF Canonical
    <2>16. AllMembers(Sort(t)) = AllMembers(t)
        <3>1. all.list \in SpanLists
            BY <2>13 DEF Lists
        <3> QED
            BY <1>1, <2>13, <2>14, <3>1, AllMembersIs
    <2> QED
        BY <2>14, <2>15, <2>16
<1> QED
    BY <1>2, <1>3

LEMMA AddedSorted ==
    ASSUME NEW t \in Lists, NEW r \in Spans, IsValid(r), AddRange(t, r).sorted
    PROVE  Canonical(AddRange(t, r))
<1>1. t.list = <<>>
    BY DEF AddRange
<1>2. AddRange(t, r) = [list |-> <<r>>, sorted |-> TRUE]
    BY <1>1 DEF AddRange
<1>3. DOMAIN <<r>> = 1 .. 1 /\ Len(<<r>>) = 1 /\ <<r>>[1] = r
    OBVIOUS
<1> QED
    BY <1>2, <1>3 DEF Canonical

\* rangelist_add_range, rangelist_merge and rangelist_sort together: in
\* whatever order ranges are given, however they overlap, repeat or touch, the
\* sorted list stands for the addresses of all of them, in ranges that are
\* apart.
THEOREM RangesAsGiven ==
    ASSUME NEW ranges \in SpanLists
    PROVE  LET t == Sort(AddAll(Empty, ranges))
           IN  /\ t \in Lists /\ t.sorted /\ Canonical(t)
               /\ AllMembers(t) = UNION {Members(ranges[k]) : k \in 1 .. Len(ranges)}
<1> DEFINE t == AddAll(Empty, ranges)
           n == Len(ranges)
<1>1. Empty \in Lists /\ Covered(Empty.list) = {} /\ ~ Empty.sorted
    BY DEF Empty, Lists, SpanLists, Covered
<1>2. t \in Lists /\ Covered(t.list) = Covered(ranges)
    <2>1. t \in Lists /\ Covered(t.list) = Covered(Empty.list) \cup Covered(ranges)
        BY <1>1, AddedAll
    <2> HIDE DEF t
    <2> QED
        BY <1>1, <2>1
<1>3. t.sorted => Canonical(t)
    <2>1. PICK g \in Additions(Empty, ranges) : t = g[n]
        BY <1>1, AddAllIs
    <2>2. n \in Nat /\ g \in [0 .. n -> Lists] /\ g[0] = Empty
          /\ \A k \in 1 .. n : g[k] = AddRange(g[k - 1], ranges[k])
        BY DEF Additions, SpanLists
    <2>3. CASE n = 0
        BY <1>1, <2>1, <2>2, <2>3
    <2>4. CASE n # 0
        <3>1. n \in 1 .. n /\ n - 1 \in 0 .. n
            BY <2>2, <2>4
        <3>2. ranges[n] \in Spans /\ IsValid(ranges[n]) /\ g[n - 1] \in Lists
              /\ g[n] = AddRange(g[n - 1], ranges[n])
            BY <2>2, <3>1 DEF SpanLists
        <3> QED
            BY <2>1, <3>2, AddedSorted
    <2> QED
        BY <2>3, <2>4
<1>4. Sort(t) \in Lists /\ Sort(t).sorted /\ Canonical(Sort(t)) /\ AllMembers(Sort(t)) = AllMembers(t)
    <2> HIDE DEF t
    <2> QED
        BY <1>2, <1>3, SortIsCanonical
<1>5. AllMembers(t) = Covered(t.list)
    BY <1>2, AllMembersIs DEF Lists
<1>6. AllMembers(Sort(t)) = Covered(ranges)
    BY <1>2, <1>4, <1>5
<1> QED
    BY <1>4, <1>6 DEF Covered

----------------------------------------------------------------------------
(* Excluding *)

LEMMA InOrderOfGaps ==
    ASSUME NEW l \in SpanLists, \A k \in 1 .. (Len(l) - 1) : l[k].end + 1 < l[k + 1].begin
    PROVE  \A j, k \in 1 .. Len(l) : j < k => l[j].end + 1 < l[k].begin
<1> DEFINE n == Len(l)
           T == {0} \cup {i \in 1 .. n : \A j \in 1 .. n : j < i => l[j].end + 1 < l[i].begin}
<1>1. n \in Nat /\ \A k \in 1 .. n : /\ l[k].begin \in Nat /\ l[k].end \in Nat
                                     /\ l[k].begin <= l[k].end
    BY SpanOfList DEF SpanLists
<1>2. \A k \in 1 .. (n - 1) : l[k].end + 1 < l[k + 1].begin
    OBVIOUS
<1> HIDE DEF n
<1>3. 0 \in T
    OBVIOUS
<1>4. ASSUME NEW i \in 1 .. n, i - 1 \in T PROVE i \in T
    <2>1. ASSUME NEW j \in 1 .. n, j < i PROVE l[j].end + 1 < l[i].begin
        <3>1. i - 1 \in 1 .. n /\ i - 1 \in 1 .. (n - 1) /\ (i - 1) + 1 = i
            BY <1>1, <2>1
        <3>2. l[i - 1].end + 1 < l[(i - 1) + 1].begin
            BY <1>2, <3>1
        <3>3. l[i - 1].end + 1 < l[i].begin
            BY <3>1, <3>2
        <3>4. j = i - 1 \/ j < i - 1
            BY <2>1
        <3>5. ASSUME j < i - 1 PROVE l[j].end + 1 < l[i - 1].begin
            BY <1>4, <3>1, <3>5
        <3>6. CASE j = i - 1
            BY <3>3, <3>6
        <3>7. CASE j < i - 1
            <4>1. l[j].end \in Nat /\ l[i - 1].begin \in Nat /\ l[i - 1].end \in Nat
                  /\ l[i].begin \in Nat /\ l[i - 1].begin <= l[i - 1].end
                BY <1>1, <3>1
            <4>2. \A a, b, c, d \in Nat : a + 1 < b /\ b <= c /\ c + 1 < d => a + 1 < d
                OBVIOUS
            <4> QED
                BY <3>3, <3>5, <3>7, <4>1, <4>2
        <3> QED
            BY <3>4, <3>6, <3>7
    <2> QED
        BY <2>1
<1>5. 0 .. n \subseteq T
    <2> HIDE DEF T
    <2> QED
        BY <1>1, <1>3, <1>4, Counting
<1>6. ASSUME NEW j \in 1 .. n, NEW k \in 1 .. n, j < k PROVE l[j].end + 1 < l[k].begin
    <2>1. k \in T /\ k # 0
        BY <1>1, <1>5
    <2> QED
        BY <1>6, <2>1
<1> QED
    BY <1>6 DEF n

\* The excludes that the proof is about: sorted, and none at the first two
\* addresses, where INVALID_RANGE would be taken for one below an exclude.
ExcludeLists ==
    {l \in SpanLists : /\ \A k \in 1 .. (Len(l) - 1) : l[k].end + 1 < l[k + 1].begin
                       /\ \A k \in 1 .. Len(l) : l[k].begin >= 2}

LEMMA ExcludesAre ==
    ASSUME NEW e \in ExcludeLists
    PROVE  /\ e \in SpanLists /\ Len(e) \in Nat
           /\ \A k \in 1 .. Len(e) : /\ e[k] \in Spans /\ IsValid(e[k])
                                     /\ e[k].begin \in Nat /\ e[k].end \in Nat
                                     /\ e[k].begin <= e[k].end /\ e[k].begin >= 2
                                     /\ e[k].end <= MaxAddr
           /\ \A j, k \in 1 .. Len(e) : j < k => e[j].end + 1 < e[k].begin
           /\ \A a : a \in Covered(e) <=>
                        a \in Int /\ \E k \in 1 .. Len(e) : e[k].begin <= a /\ a <= e[k].end
<1>1. e \in SpanLists /\ Len(e) \in Nat /\ \A k \in 1 .. Len(e) : e[k].begin >= 2
    BY DEF ExcludeLists, SpanLists
<1>2. ASSUME NEW k \in 1 .. Len(e)
      PROVE  /\ e[k] \in Spans /\ IsValid(e[k]) /\ e[k].begin \in Nat /\ e[k].end \in Nat
             /\ e[k].begin <= e[k].end /\ e[k].begin >= 2 /\ e[k].end <= MaxAddr
    BY <1>1, SpanOfList DEF SpanLists
<1>3. \A j, k \in 1 .. Len(e) : j < k => e[j].end + 1 < e[k].begin
    BY <1>1, InOrderOfGaps DEF ExcludeLists
<1>4. \A a : a \in Covered(e) <=>
                a \in Int /\ \E k \in 1 .. Len(e) : e[k].begin <= a /\ a <= e[k].end
    <2>1. \A a : a \in Covered(e) <=> \E k \in 1 .. Len(e) : a \in e[k].begin .. e[k].end
        BY DEF Covered, Members
    <2>2. \A k \in 1 .. Len(e) : \A a : a \in e[k].begin .. e[k].end
                                   <=> a \in Int /\ e[k].begin <= a /\ a <= e[k].end
        BY <1>2
    <2> QED
        BY <2>1, <2>2
<1> QED
    BY <1>1, <1>2, <1>3, <1>4

\* range_apply_exclude when the exclude begins no later than the target ends:
\* which of its cases it is.
Spared(x, t, a) == x.end < t.begin /\ a.target = t /\ a.split = INVALID_RANGE
Gone(x, t, a) == /\ t.begin >= x.begin /\ t.end <= x.end
                 /\ a.target = INVALID_RANGE /\ a.split = INVALID_RANGE
Beheaded(x, t, a) == /\ t.begin >= x.begin /\ t.begin <= x.end /\ t.end > x.end
                     /\ a.target = Span(x.end + 1, t.end) /\ a.split = INVALID_RANGE
Docked(x, t, a) == /\ t.begin < x.begin /\ t.end <= x.end
                   /\ a.target = Span(t.begin, x.begin - 1) /\ a.split = INVALID_RANGE
Halves2(x, t, a) == /\ t.begin < x.begin /\ t.end > x.end
                    /\ a.target = Span(t.begin, x.begin - 1)
                    /\ a.split = Span(x.end + 1, t.end)

LEMMA ApplyCases ==
    ASSUME NEW x \in Spans, NEW t \in Spans, IsValid(x), IsValid(t), x.begin <= t.end,
           NEW a, a = ApplyExclude(x, t)
    PROVE  Spared(x, t, a) \/ Gone(x, t, a) \/ Beheaded(x, t, a) \/ Docked(x, t, a) \/ Halves2(x, t, a)
<1>1. /\ x.begin \in Nat /\ x.end \in Nat /\ t.begin \in Nat /\ t.end \in Nat
      /\ x.begin <= x.end /\ t.begin <= t.end
    BY SpanType DEF IsValid
<1> DEFINE only(r) == [target |-> r, split |-> INVALID_RANGE]
<1>2. CASE x.end < t.begin
    <2>1. a = only(t)
        BY <1>1, <1>2 DEF ApplyExclude
    <2> QED
        BY <1>2, <2>1 DEF Spared
<1>3. CASE t.begin >= x.begin /\ t.end <= x.end
    <2>1. a = only(INVALID_RANGE)
        BY <1>1, <1>3 DEF ApplyExclude
    <2> QED
        BY <1>3, <2>1 DEF Gone
<1>4. CASE t.begin >= x.begin /\ t.begin <= x.end /\ t.end > x.end
    <2>1. a = only(Span(x.end + 1, t.end))
        BY <1>1, <1>4 DEF ApplyExclude
    <2> QED
        BY <1>4, <2>1 DEF Beheaded
<1>5. CASE t.begin < x.begin /\ t.end <= x.end
    <2>1. a = only(Span(t.begin, x.begin - 1))
        BY <1>1, <1>5 DEF ApplyExclude
    <2> QED
        BY <1>5, <2>1 DEF Docked
<1>6. CASE t.begin < x.begin /\ t.end > x.end
    <2>1. a = [target |-> Span(t.begin, x.begin - 1), split |-> Span(x.end + 1, t.end)]
        BY <1>1, <1>6 DEF ApplyExclude
    <2> QED
        BY <1>6, <2>1 DEF Halves2
<1> QED
    BY <1>1, <1>2, <1>3, <1>4, <1>5, <1>6

LEMMA SpanIs ==
    ASSUME NEW b \in Nat, NEW e \in Nat
    PROVE  /\ Span(b, e).begin = b /\ Span(b, e).end = e
           /\ IsValid(Span(b, e)) <=> b <= e
           /\ e <= MaxAddr /\ b <= MaxAddr => Span(b, e) \in Spans
           /\ INVALID_RANGE.begin = 2 /\ INVALID_RANGE.end = 1 /\ ~ IsValid(INVALID_RANGE)
           /\ Members(INVALID_RANGE) = {}
BY RangeAssumption DEF Span, IsValid, Spans, Addrs, INVALID_RANGE, Members

----------------------------------------------------------------------------
\* The inner loop: what is left of the target r, the exclude it is at, and the
\* new list, of which `before' was there when r came.
Rests(e) == [x : 1 .. (Len(e) + 1), range : {r \in Spans : IsValid(r)} \cup {INVALID_RANGE},
             new : Lists]

Stopped(e, s) == s.x > Len(e) \/ e[s.x].begin > s.range.end

Passed(e, r, s) ==
    \A y \in 1 .. (s.x - 1) : e[y].end <= r.end /\ (IsValid(s.range) => e[y].end < s.range.begin)

Reducing(e, before, r, s) ==
    /\ Canonical(s.new)
    /\ Covered(s.new.list) \cup (Members(s.range) \ Covered(e)) = before \cup (Members(r) \ Covered(e))
    /\ IsValid(s.range) => /\ r.begin <= s.range.begin /\ s.range.end <= r.end
                           /\ \A a \in Covered(s.new.list) : a + 1 < s.range.begin
    /\ Passed(e, r, s)

LEMMA RestsAre ==
    ASSUME NEW e \in ExcludeLists, NEW s \in Rests(e)
    PROVE  /\ s.x \in 1 .. (Len(e) + 1) /\ s.x \in Nat /\ s.new \in Lists
           /\ s.range \in Spans
           /\ s.range.begin \in Nat /\ s.range.end \in Nat
           /\ IsValid(s.range) \/ s.range = INVALID_RANGE
           /\ ~ Stopped(e, s) => /\ s.x \in 1 .. Len(e) /\ IsValid(s.range)
                                 /\ e[s.x].begin <= s.range.end
<1>1. s.x \in 1 .. (Len(e) + 1) /\ s.new \in Lists
      /\ ((s.range \in Spans /\ IsValid(s.range)) \/ s.range = INVALID_RANGE)
    BY DEF Rests
<1>2. INVALID_RANGE \in Spans /\ INVALID_RANGE.end = 1
    BY RangeAssumption DEF Span, Spans, Addrs, INVALID_RANGE
<1>3. s.range \in Spans
    BY <1>1, <1>2
<1>4. s.range.begin \in Nat /\ s.range.end \in Nat
    BY <1>3, SpanType
<1>5. Len(e) \in Nat /\ \A k \in 1 .. Len(e) : e[k].begin \in Nat /\ e[k].begin >= 2
    BY ExcludesAre
<1>6. ASSUME ~ Stopped(e, s)
      PROVE  s.x \in 1 .. Len(e) /\ IsValid(s.range) /\ e[s.x].begin <= s.range.end
    <2>1. s.x \in 1 .. Len(e) /\ ~ (e[s.x].begin > s.range.end)
        BY <1>1, <1>5, <1>6 DEF Stopped
    <2>2. e[s.x].begin <= s.range.end
        BY <1>4, <1>5, <2>1
    <2>3. s.range # INVALID_RANGE
        BY <1>2, <1>5, <2>1, <2>2
    <2> QED
        BY <1>1, <2>1, <2>2, <2>3
<1> QED
    BY <1>1, <1>3, <1>4, <1>5, <1>6

\* Once round the inner loop, when it does go round: what ApplyOne does in
\* each of the cases of range_apply_exclude.
LEMMA ApplyOneIs ==
    ASSUME NEW e \in ExcludeLists, NEW s \in Rests(e), ~ Stopped(e, s),
           NEW x, x = e[s.x], NEW t, t = s.range, NEW u, u = ApplyOne(e, s)
    PROVE  /\ u.x = (IF x.begin > u.range.end THEN s.x ELSE s.x + 1)
           /\ \/ x.end < t.begin /\ u.range = t /\ u.new = s.new
              \/ /\ t.begin >= x.begin /\ t.end <= x.end
                 /\ u.range = INVALID_RANGE /\ u.new = s.new
              \/ /\ t.begin >= x.begin /\ t.begin <= x.end /\ t.end > x.end
                 /\ u.range = Span(x.end + 1, t.end) /\ u.new = s.new
              \/ /\ t.begin < x.begin /\ t.end <= x.end
                 /\ u.range = Span(t.begin, x.begin - 1) /\ u.new = s.new
              \/ /\ t.begin < x.begin /\ t.end > x.end
                 /\ u.range = Span(x.end + 1, t.end)
                 /\ u.new = AddRange(s.new, Span(t.begin, x.begin - 1))
<1> DEFINE a == ApplyExclude(x, t)
           left == IF IsValid(a.split) THEN a.split ELSE a.target
<1>1. s.x \in 1 .. Len(e) /\ IsValid(t) /\ t \in Spans /\ x.begin <= t.end
      /\ t.begin \in Nat /\ t.end \in Nat
    BY RestsAre
<1>2. x \in Spans /\ IsValid(x) /\ x.begin \in Nat /\ x.end \in Nat
    BY <1>1, ExcludesAre
<1>3. Spared(x, t, a) \/ Gone(x, t, a) \/ Beheaded(x, t, a) \/ Docked(x, t, a) \/ Halves2(x, t, a)
    BY <1>1, <1>2, ApplyCases
<1>4. u = [x |-> IF x.begin > left.end THEN s.x ELSE s.x + 1,
           range |-> left,
           new |-> IF IsValid(a.split) THEN AddRange(s.new, a.target) ELSE s.new]
    BY DEF ApplyOne, Stopped
<1>5. ~ IsValid(INVALID_RANGE)
    BY DEF INVALID_RANGE, IsValid, Span
<1> HIDE DEF a
<1>6. u.x = (IF x.begin > u.range.end THEN s.x ELSE s.x + 1)
    BY <1>4
<1>7. a.split = INVALID_RANGE => u.range = a.target /\ u.new = s.new
    BY <1>4, <1>5
<1>8. ASSUME Halves2(x, t, a)
      PROVE  u.range = a.split /\ u.new = AddRange(s.new, a.target)
    <2>1. IsValid(a.split)
        <3>1. x.end + 1 \in Nat /\ x.end + 1 <= t.end /\ a.split = Span(x.end + 1, t.end)
            BY <1>1, <1>2, <1>8 DEF Halves2
        <3> QED
            BY <1>1, <3>1, SpanIs
    <2> QED
        BY <1>4, <2>1
<1> QED
    BY <1>3, <1>6, <1>7, <1>8 DEF Spared, Gone, Beheaded, Docked, Halves2

LEMMA ApplyOneTyped ==
    ASSUME NEW e \in ExcludeLists, NEW s \in Rests(e)
    PROVE  /\ ApplyOne(e, s) \in Rests(e)
           /\ Stopped(e, s) => ApplyOne(e, s) = s
           /\ ~ Stopped(e, s) => \/ ApplyOne(e, s).x = s.x + 1
                                 \/ Stopped(e, ApplyOne(e, s))
<1>1. CASE Stopped(e, s)
    BY <1>1 DEF Stopped, ApplyOne
<1>2. CASE ~ Stopped(e, s)
    <2> DEFINE u == ApplyOne(e, s)
               x == e[s.x]
               t == s.range
    <2>1. s.x \in 1 .. Len(e) /\ IsValid(t) /\ t \in Spans /\ t.begin \in Nat /\ t.end \in Nat
          /\ s.new \in Lists /\ x.begin <= t.end
        BY <1>2, RestsAre
    <2>2. x \in Spans /\ x.begin \in Nat /\ x.end \in Nat /\ x.begin <= x.end /\ x.begin >= 2
          /\ Len(e) \in Nat
        BY <2>1, ExcludesAre
    <2>3. t.begin <= t.end /\ t.end <= MaxAddr /\ x.end <= MaxAddr
        BY <2>1, <2>2, SpanType DEF IsValid
    <2>4. /\ u.x = (IF x.begin > u.range.end THEN s.x ELSE s.x + 1)
          /\ \/ x.end < t.begin /\ u.range = t /\ u.new = s.new
             \/ /\ t.begin >= x.begin /\ t.end <= x.end
                /\ u.range = INVALID_RANGE /\ u.new = s.new
             \/ /\ t.begin >= x.begin /\ t.begin <= x.end /\ t.end > x.end
                /\ u.range = Span(x.end + 1, t.end) /\ u.new = s.new
             \/ /\ t.begin < x.begin /\ t.end <= x.end
                /\ u.range = Span(t.begin, x.begin - 1) /\ u.new = s.new
             \/ /\ t.begin < x.begin /\ t.end > x.end
                /\ u.range = Span(x.end + 1, t.end)
                /\ u.new = AddRange(s.new, Span(t.begin, x.begin - 1))
        <3> HIDE DEF u, x, t
        <3> QED
            BY <1>2, ApplyOneIs DEF u, x, t
    <2>5. u = [x |-> u.x, range |-> u.range, new |-> u.new]
        BY <1>2 DEF ApplyOne, Stopped
    <2> HIDE DEF u, x, t
    <2>6. /\ x.end + 1 <= t.end => Span(x.end + 1, t.end) \in Spans /\ IsValid(Span(x.end + 1, t.end))
          /\ t.begin <= x.begin - 1 => Span(t.begin, x.begin - 1) \in Spans
                                       /\ IsValid(Span(t.begin, x.begin - 1))
        <3>1. x.end + 1 \in Nat /\ x.begin - 1 \in Nat /\ x.begin - 1 <= MaxAddr
              /\ (x.end + 1 <= t.end => x.end + 1 <= MaxAddr) /\ t.begin <= MaxAddr
            BY <2>1, <2>2, <2>3, RangeAssumption
        <3> QED
            BY <2>1, <2>3, <3>1, SpanIs
    <2>7. (x.end + 1 <= t.end <=> t.end > x.end) /\ (t.begin <= x.begin - 1 <=> t.begin < x.begin)
        BY <2>1, <2>2
    <2>8. u.range \in {r \in Spans : IsValid(r)} \cup {INVALID_RANGE}
        BY <2>1, <2>4, <2>6, <2>7
    <2>9. u.new \in Lists
        BY <2>1, <2>4, <2>6, <2>7, AddedRange
    <2>10. u.x \in 1 .. (Len(e) + 1) /\ (u.x = s.x \/ u.x = s.x + 1)
        BY <2>1, <2>2, <2>4
    <2>11. u \in Rests(e)
        BY <2>5, <2>8, <2>9, <2>10 DEF Rests
    <2>12. ASSUME u.x # s.x + 1 PROVE Stopped(e, u)
        <3>1. u.x = s.x /\ x.begin > u.range.end
            BY <2>1, <2>4, <2>12
        <3> QED
            BY <3>1 DEF Stopped, x
    <2> QED
        BY <1>2, <2>11, <2>12 DEF u
<1> QED
    BY <1>1, <1>2

\* Addresses that no exclude holds.
LEMMA Untouched ==
    ASSUME NEW e \in ExcludeLists, NEW i \in 1 .. (Len(e) + 1), NEW a \in Int,
           \A y \in 1 .. (i - 1) : e[y].end < a,
           i \in 1 .. Len(e) => a < e[i].begin
    PROVE  a \notin Covered(e)
<1>1. /\ Len(e) \in Nat
      /\ \A k \in 1 .. Len(e) : e[k].begin \in Nat /\ e[k].end \in Nat /\ e[k].begin <= e[k].end
      /\ \A j, k \in 1 .. Len(e) : j < k => e[j].end + 1 < e[k].begin
      /\ (a \in Covered(e) => \E k \in 1 .. Len(e) : e[k].begin <= a /\ a <= e[k].end)
    BY ExcludesAre
<1>2. ASSUME NEW k \in 1 .. Len(e), e[k].begin <= a, a <= e[k].end PROVE FALSE
    <2>1. CASE k < i
        <3>1. k \in 1 .. (i - 1)
            BY <1>1, <2>1
        <3> QED
            BY <1>1, <1>2, <3>1
    <2>2. CASE k = i
        BY <1>1, <1>2, <2>2
    <2>3. CASE k > i
        <3>1. i \in 1 .. Len(e)
            BY <1>1, <2>3
        <3>2. e[i].end + 1 < e[k].begin /\ a < e[i].begin
            BY <1>1, <2>3, <3>1
        <3>3. e[i].end \in Nat /\ e[i].begin \in Nat /\ e[i].begin <= e[i].end /\ e[k].begin \in Nat
            BY <1>1, <3>1
        <3> QED
            BY SMTT(30), <1>2, <3>2, <3>3
    <2> QED
        BY <1>1, <2>1, <2>2, <2>3
<1> QED
    BY <1>1, <1>2

\* The last range of a list begins at an address of the list.
LEMMA LastBelow ==
    ASSUME NEW t \in Lists, NEW b \in Nat, \A a \in Covered(t.list) : a + 1 < b
    PROVE  Before(t.list, b)
<1> DEFINE l == t.list
           n == Len(l)
<1>1. l \in SpanLists /\ n \in Nat
    BY DEF Lists, SpanLists
<1>2. ASSUME n # 0 PROVE l[n].begin <= b
    <2>1. n \in 1 .. n
        BY <1>1, <1>2
    <2>2. l[n].begin \in Nat /\ l[n].end \in Nat /\ l[n].begin <= l[n].end
        BY <1>1, <2>1, SpanOfList
    <2>3. l[n].begin \in Members(l[n])
        BY <2>2 DEF Members
    <2>4. l[n].begin \in Covered(l)
        BY <2>1, <2>3 DEF Covered
    <2>5. l[n].begin + 1 < b
        BY <2>4
    <2> QED
        BY <2>2, <2>5
<1> QED
    BY <1>2 DEF Before

LEMMA CoveredInts ==
    ASSUME NEW t \in Lists
    PROVE  \A a \in Covered(t.list) : a \in Int
<1>1. t.list \in SpanLists
    BY DEF Lists
<1>2. \A k \in 1 .. Len(t.list) : t.list[k].begin \in Nat /\ t.list[k].end \in Nat
    BY <1>1, SpanOfList
<1>3. \A k \in 1 .. Len(t.list) : Members(t.list[k]) \subseteq Int
    BY <1>2 DEF Members
<1> QED
    BY <1>3 DEF Covered

LEMMA ApplyOneKeeps ==
    ASSUME NEW e \in ExcludeLists, NEW before, NEW r \in Spans, NEW s \in Rests(e),
           Reducing(e, before, r, s)
    PROVE  Reducing(e, before, r, ApplyOne(e, s))
<1>1. CASE Stopped(e, s)
    BY <1>1, ApplyOneTyped
<1>2. CASE ~ Stopped(e, s)
    <2> DEFINE u == ApplyOne(e, s)
               x == e[s.x]
               t == s.range
               E == Covered(e)
    <2>1. s.x \in 1 .. Len(e) /\ IsValid(t) /\ t \in Spans /\ t.begin \in Nat /\ t.end \in Nat
          /\ s.new \in Lists /\ x.begin <= t.end
        BY <1>2, RestsAre
    <2>2. x \in Spans /\ x.begin \in Nat /\ x.end \in Nat /\ x.begin <= x.end /\ x.begin >= 2
          /\ Len(e) \in Nat /\ x.end <= MaxAddr
        BY <2>1, ExcludesAre
    <2>3. t.begin <= t.end /\ t.end <= MaxAddr /\ r.begin \in Nat /\ r.end \in Nat
        BY <2>1, SpanType DEF IsValid
    <2>4. /\ Canonical(s.new)
          /\ Covered(s.new.list) \cup (Members(t) \ E) = before \cup (Members(r) \ E)
          /\ r.begin <= t.begin /\ t.end <= r.end
          /\ \A a \in Covered(s.new.list) : a + 1 < t.begin
          /\ \A y \in 1 .. (s.x - 1) : e[y].end <= r.end /\ e[y].end < t.begin
        BY <2>1 DEF Reducing, Passed
    <2>5. Members(x) \subseteq E
        BY <2>1 DEF Covered
    <2>6. \A a : a \in Members(t) <=> a \in Int /\ t.begin <= a /\ a <= t.end
        BY <2>1 DEF Members
    <2>7. \A a : a \in Members(x) <=> a \in Int /\ x.begin <= a /\ a <= x.end
        BY <2>2 DEF Members
    <2>8. \A y \in 1 .. Len(e) : e[y].begin \in Nat /\ e[y].end \in Nat
        BY ExcludesAre
    <2>9. /\ u.x = (IF x.begin > u.range.end THEN s.x ELSE s.x + 1)
          /\ \/ x.end < t.begin /\ u.range = t /\ u.new = s.new
             \/ /\ t.begin >= x.begin /\ t.end <= x.end
                /\ u.range = INVALID_RANGE /\ u.new = s.new
             \/ /\ t.begin >= x.begin /\ t.begin <= x.end /\ t.end > x.end
                /\ u.range = Span(x.end + 1, t.end) /\ u.new = s.new
             \/ /\ t.begin < x.begin /\ t.end <= x.end
                /\ u.range = Span(t.begin, x.begin - 1) /\ u.new = s.new
             \/ /\ t.begin < x.begin /\ t.end > x.end
                /\ u.range = Span(x.end + 1, t.end)
                /\ u.new = AddRange(s.new, Span(t.begin, x.begin - 1))
        <3> HIDE DEF u, x, t
        <3> QED
            BY <1>2, ApplyOneIs DEF u, x, t
    <2>10. INVALID_RANGE.end = 1 /\ ~ IsValid(INVALID_RANGE) /\ Members(INVALID_RANGE) = {}
        BY SpanIs
    <2> HIDE DEF u, x, t, E
    <2>11. \A y : y \in 1 .. (s.x + 1 - 1) => y = s.x \/ y \in 1 .. (s.x - 1)
        BY <2>1, <2>2
    <2>12. e[s.x].end = x.end
        BY DEF x
    \* Spared
    <2>13. CASE x.end < t.begin /\ u.range = t /\ u.new = s.new
        <3>1. \A y \in 1 .. (u.x - 1) : e[y].end <= r.end /\ e[y].end < t.begin
            <4>1. u.x = s.x \/ u.x = s.x + 1
                BY <2>9
            <4>2. x.end <= r.end /\ x.end < t.begin
                BY <2>1, <2>2, <2>3, <2>4, <2>13
            <4>3. \A y \in 1 .. (u.x - 1) : y = s.x \/ y \in 1 .. (s.x - 1)
                BY <2>1, <2>11, <4>1
            <4> QED
                BY <2>4, <2>12, <4>2, <4>3
        <3> QED
            BY <2>4, <2>13, <3>1 DEF Reducing, Passed, u, E
    \* Gone
    <2>14. CASE /\ t.begin >= x.begin /\ t.end <= x.end
                /\ u.range = INVALID_RANGE /\ u.new = s.new
        <3>1. u.x = s.x
            BY <2>2, <2>9, <2>10, <2>14
        <3>2. Members(t) \subseteq E
            <4>1. ASSUME NEW a \in Members(t) PROVE a \in Members(x)
                <5>1. a \in Int /\ t.begin <= a /\ a <= t.end
                    BY <2>6
                <5>2. x.begin <= a /\ a <= x.end
                    BY <2>1, <2>2, <2>14, <5>1
                <5> QED
                    BY <2>7, <5>1, <5>2
            <4> QED
                BY <2>5, <4>1
        <3>3. Covered(u.new.list) \cup (Members(u.range) \ E) = before \cup (Members(r) \ E)
            BY <2>4, <2>10, <2>14, <3>2
        <3> QED
            BY <2>4, <2>10, <2>14, <3>1, <3>3 DEF Reducing, Passed, u, E
    \* Beheaded
    <2>15. CASE /\ t.begin >= x.begin /\ t.begin <= x.end /\ t.end > x.end
                /\ u.range = Span(x.end + 1, t.end) /\ u.new = s.new
        <3>1. u.range.begin = x.end + 1 /\ u.range.end = t.end
            <4>1. x.end + 1 \in Nat
                BY <2>2
            <4> QED
                BY <2>1, <2>15, <4>1, SpanIs
        <3>2. Members(u.range) \ E = Members(t) \ E
            <4>1. \A a : a \in Members(u.range) <=> a \in Int /\ x.end + 1 <= a /\ a <= t.end
                BY <2>1, <2>2, <3>1 DEF Members
            <4>2. \A a \in Int : (t.begin <= a /\ a <= t.end)
                       <=> ((x.end + 1 <= a /\ a <= t.end) \/ (t.begin <= a /\ a <= x.end))
                BY <2>1, <2>2, <2>15
            <4>3. \A a \in Int : t.begin <= a /\ a <= x.end => a \in E
                BY <2>1, <2>2, <2>5, <2>7, <2>15
            <4> QED
                BY <2>6, <4>1, <4>2, <4>3
        <3>3. \A a \in Covered(u.new.list) : a + 1 < u.range.begin
            <4>1. \A a \in Covered(s.new.list) : a \in Int
                BY <2>1, CoveredInts
            <4>2. \A a \in Int : a + 1 < t.begin => a + 1 < x.end + 1
                BY <2>1, <2>2, <2>15
            <4> QED
                BY <2>4, <2>15, <3>1, <4>1, <4>2
        <3>4. \A y \in 1 .. (u.x - 1) : e[y].end <= r.end /\ e[y].end < u.range.begin
            <4>1. u.x = s.x + 1
                BY <2>1, <2>2, <2>9, <2>15, <3>1
            <4>2. x.end <= r.end /\ x.end < x.end + 1
                BY <2>1, <2>2, <2>3, <2>4, <2>15
            <4>3. ASSUME NEW y \in 1 .. (s.x - 1) PROVE e[y].end < x.end + 1
                <5>1. e[y].end < t.begin /\ e[y].end \in Nat
                    BY <2>1, <2>2, <2>4, <2>8
                <5> QED
                    BY <2>1, <2>2, <2>15, <5>1
            <4>4. \A y \in 1 .. (u.x - 1) : y = s.x \/ y \in 1 .. (s.x - 1)
                BY <2>1, <2>11, <4>1
            <4> QED
                BY <2>4, <2>12, <3>1, <4>2, <4>3, <4>4
        <3>5. r.begin <= u.range.begin /\ u.range.end <= r.end
            BY <2>1, <2>2, <2>3, <2>4, <2>15, <3>1
        <3> QED
            BY <2>4, <2>15, <3>2, <3>3, <3>4, <3>5 DEF Reducing, Passed, u, E
    \* Docked
    <2>16. CASE /\ t.begin < x.begin /\ t.end <= x.end
                /\ u.range = Span(t.begin, x.begin - 1) /\ u.new = s.new
        <3>1. u.range.begin = t.begin /\ u.range.end = x.begin - 1
            <4>1. x.begin - 1 \in Nat
                BY <2>2
            <4> QED
                BY <2>1, <2>16, <4>1, SpanIs
        <3>2. u.x = s.x
            BY <2>2, <2>9, <3>1
        <3>3. Members(u.range) \ E = Members(t) \ E
            <4>1. \A a : a \in Members(u.range) <=> a \in Int /\ t.begin <= a /\ a <= x.begin - 1
                BY <2>1, <2>2, <3>1 DEF Members
            <4>2. \A a \in Int : (t.begin <= a /\ a <= t.end)
                       <=> ((t.begin <= a /\ a <= x.begin - 1) \/ (x.begin <= a /\ a <= t.end))
                <5>1. t.begin <= x.begin /\ x.begin - 1 <= t.end
                    BY <2>1, <2>2, <2>16
                <5> QED
                    BY <2>1, <2>2, <5>1
            <4>3. \A a \in Int : x.begin <= a /\ a <= t.end => a \in E
                BY <2>1, <2>2, <2>5, <2>7, <2>16
            <4> QED
                BY <2>6, <4>1, <4>2, <4>3
        <3>4. r.begin <= u.range.begin /\ u.range.end <= r.end
            BY <2>1, <2>2, <2>3, <2>4, <2>16, <3>1
        <3> QED
            BY <2>4, <2>16, <3>1, <3>2, <3>3, <3>4 DEF Reducing, Passed, u, E
    \* Halved
    <2>17. CASE /\ t.begin < x.begin /\ t.end > x.end
                /\ u.range = Span(x.end + 1, t.end)
                /\ u.new = AddRange(s.new, Span(t.begin, x.begin - 1))
        <3> DEFINE c == Span(t.begin, x.begin - 1)
        <3>1. u.range.begin = x.end + 1 /\ u.range.end = t.end
              /\ c.begin = t.begin /\ c.end = x.begin - 1 /\ c \in Spans /\ IsValid(c)
            <4>1. x.begin - 1 \in Nat /\ t.begin <= x.begin - 1 /\ x.begin - 1 <= MaxAddr
                  /\ t.begin <= MaxAddr /\ x.end + 1 \in Nat
                BY SMTT(30), <2>1, <2>2, <2>3, <2>17, RangeAssumption
            <4> QED
                BY <2>1, <2>17, <4>1, SpanIs
        <3> HIDE DEF c
        <3>2. Before(s.new.list, c.begin)
            BY <2>1, <2>4, <3>1, LastBelow
        <3>3. Canonical(u.new)
            BY <2>1, <2>4, <2>17, <3>1, <3>2, AddedInOrder DEF c
        <3>4. Covered(u.new.list) = Covered(s.new.list) \cup Members(c)
            BY <2>1, <2>17, <3>1, AddedRange DEF c
        <3>5. \A a : a \in Members(c) <=> a \in Int /\ t.begin <= a /\ a <= x.begin - 1
            BY <2>1, <2>2, <3>1 DEF Members
        <3>6. Members(c) \cap E = {}
            <4>1. ASSUME NEW a \in Members(c) PROVE a \notin E
                <5>1. a \in Int /\ t.begin <= a /\ a < x.begin
                    BY <2>2, <3>5
                <5>2. \A y \in 1 .. (s.x - 1) : e[y].end < a
                    <6>1. \A y \in 1 .. (s.x - 1) : e[y].end < t.begin /\ e[y].end \in Nat
                        BY <2>1, <2>2, <2>4, <2>8
                    <6> QED
                        BY <2>1, <5>1, <6>1
                <5>3. s.x \in 1 .. (Len(e) + 1)
                    BY <2>1, <2>2
                <5> QED
                    BY <5>1, <5>2, <5>3, Untouched DEF x, E
            <4> QED
                BY <4>1
        <3>7. Members(t) \ E = Members(c) \cup (Members(u.range) \ E)
            <4>1. \A a : a \in Members(u.range) <=> a \in Int /\ x.end + 1 <= a /\ a <= t.end
                BY <2>1, <2>2, <3>1 DEF Members
            <4>2. \A a \in Int : (t.begin <= a /\ a <= t.end)
                       <=> \/ t.begin <= a /\ a <= x.begin - 1
                           \/ x.begin <= a /\ a <= x.end
                           \/ x.end + 1 <= a /\ a <= t.end
                BY <2>1, <2>2, <2>17
            <4> QED
                BY <2>5, <2>6, <2>7, <3>5, <3>6, <4>1, <4>2
        <3>8. Covered(u.new.list) \cup (Members(u.range) \ E) = before \cup (Members(r) \ E)
            BY <2>4, <3>4, <3>7
        <3>9. \A a \in Covered(u.new.list) : a + 1 < u.range.begin
            <4>1. \A a \in Covered(s.new.list) : a \in Int
                BY <2>1, CoveredInts
            <4>2. \A a \in Int : a + 1 < t.begin => a + 1 < x.end + 1
                BY <2>1, <2>2, <2>17
            <4>3. \A a \in Int : a <= x.begin - 1 => a + 1 < x.end + 1
                BY <2>1, <2>2
            <4> QED
                BY <2>4, <3>1, <3>4, <3>5, <4>1, <4>2, <4>3
        <3>10. \A y \in 1 .. (u.x - 1) : e[y].end <= r.end /\ e[y].end < u.range.begin
            <4>1. u.x = s.x + 1
                BY <2>1, <2>2, <2>9, <2>17, <3>1
            <4>2. x.end <= r.end /\ x.end < x.end + 1
                BY <2>1, <2>2, <2>3, <2>4, <2>17
            <4>3. ASSUME NEW y \in 1 .. (s.x - 1) PROVE e[y].end < x.end + 1
                <5>1. e[y].end < t.begin /\ e[y].end \in Nat
                    BY <2>1, <2>2, <2>4, <2>8
                <5> QED
                    BY SMTT(30), <2>1, <2>2, <2>17, <5>1
            <4>4. \A y \in 1 .. (u.x - 1) : y = s.x \/ y \in 1 .. (s.x - 1)
                BY <2>1, <2>11, <4>1
            <4> QED
                BY <2>4, <2>12, <3>1, <4>2, <4>3, <4>4
        <3>11. r.begin <= u.range.begin /\ u.range.end <= r.end
            BY <2>1, <2>2, <2>3, <2>4, <2>17, <3>1
        <3> QED
            BY <3>3, <3>8, <3>9, <3>10, <3>11 DEF Reducing, Passed, u, E
    <2> QED
        BY Zenon, <2>9, <2>13, <2>14, <2>15, <2>16, <2>17
<1> QED
    BY <1>1, <1>2

\* The inner loop comes to an end at the last exclude at the latest.
LEMMA ApplyAllKeeps ==
    ASSUME NEW e \in ExcludeLists, NEW s \in Rests(e), NEW before, NEW r \in Spans
    PROVE  /\ ApplyAll(e, s) \in Rests(e)
           /\ Stopped(e, ApplyAll(e, s))
           /\ Reducing(e, before, r, s) => Reducing(e, before, r, ApplyAll(e, s))
<1> DEFINE n == Len(e)
           S == Rests(e)
           F == [p \in (1 .. n) \X S |-> ApplyOne(e, p[2])]
           Defined(f) == f = [k \in 0 .. n |-> IF k = 0 THEN s ELSE ApplyOne(e, f[k - 1])]
           v == CHOOSE f : Defined(f)
<1>1. n \in Nat
    BY ExcludesAre
<1> HIDE DEF S
<1>2. F \in Steps(n, S)
    <2>1. ASSUME NEW p \in (1 .. n) \X S PROVE ApplyOne(e, p[2]) \in S
        <3>1. p[2] \in S
            OBVIOUS
        <3> QED
            BY <3>1, ApplyOneTyped DEF S
    <2> QED
        BY <2>1 DEF Steps
<1>3. PICK g \in Results(n, S, s, F) : TRUE
    <2> HIDE DEF F
    <2>1. s \in S
        BY DEF S
    <2> QED
        BY <1>1, <1>2, <2>1, Recursion
<1>4. g \in [0 .. n -> S] /\ g[0] = s /\ \A j \in 1 .. n : g[j] = F[<<j, g[j - 1]>>]
    <2> HIDE DEF F
    <2> QED
        BY DEF Results
<1>5. ASSUME NEW j \in 1 .. n PROVE g[j] = ApplyOne(e, g[j - 1])
    <2>1. j - 1 \in 0 .. n
        BY <1>1
    <2>2. <<j, g[j - 1]>> \in (1 .. n) \X S
        BY <1>4, <2>1
    <2> QED
        BY <1>4, <2>2
<1> HIDE DEF F
<1>6. Defined(g)
    <2>1. \A k \in 0 .. n : g[k] = IF k = 0 THEN s ELSE ApplyOne(e, g[k - 1])
        BY <1>1, <1>4, <1>5
    <2>2. g = [k \in 0 .. n |-> g[k]]
        BY <1>4
    <2> QED
        BY <2>1, <2>2
<1>7. ApplyAll(e, s) = v[n]
    BY DEF ApplyAll
<1>8. Defined(v)
    <2> HIDE DEF Defined
    <2> QED
        BY <1>6
<1> HIDE DEF v
<1>9. \A k \in 0 .. n : v[k] = IF k = 0 THEN s ELSE ApplyOne(e, v[k - 1])
    BY <1>8
<1> DEFINE T == {k \in 0 .. n : /\ v[k] \in S
                                /\ Stopped(e, v[k]) \/ v[k].x > k
                                /\ Reducing(e, before, r, s) => Reducing(e, before, r, v[k])}
<1> HIDE DEF n, Defined
<1>10. 0 \in T
    <2>1. v[0] = s
        BY <1>1, <1>9
    <2>2. s \in S /\ s.x > 0
        BY RestsAre DEF S
    <2> QED
        BY <1>1, <2>1, <2>2
<1>11. ASSUME NEW k \in 1 .. n, k - 1 \in T PROVE k \in T
    <2>1. k - 1 \in 0 .. n /\ k \in 0 .. n /\ k # 0
        BY <1>1
    <2>2. /\ v[k - 1] \in S /\ (Stopped(e, v[k - 1]) \/ v[k - 1].x > k - 1)
          /\ Reducing(e, before, r, s) => Reducing(e, before, r, v[k - 1])
          /\ v[k] = ApplyOne(e, v[k - 1])
        BY <1>9, <1>11, <2>1
    <2>3. v[k] \in S
        BY <2>2, ApplyOneTyped DEF S
    <2>4. Stopped(e, v[k]) \/ v[k].x > k
        <3>1. CASE Stopped(e, v[k - 1])
            BY <2>2, <3>1, ApplyOneTyped DEF S
        <3>2. CASE ~ Stopped(e, v[k - 1])
            <4>1. v[k].x = v[k - 1].x + 1 \/ Stopped(e, v[k])
                BY <2>2, <3>2, ApplyOneTyped DEF S
            <4>2. v[k - 1].x \in Nat
                BY <2>2, RestsAre DEF S
            <4> QED
                BY <1>1, <2>2, <3>2, <4>1, <4>2
        <3> QED
            BY <3>1, <3>2
    <2>5. Reducing(e, before, r, s) => Reducing(e, before, r, v[k])
        BY <2>2, ApplyOneKeeps DEF S
    <2> QED
        BY <2>1, <2>3, <2>4, <2>5
<1>12. n \in T
    <2> HIDE DEF T
    <2>1. 0 .. n \subseteq T
        BY <1>1, <1>10, <1>11, Counting
    <2> QED
        BY <1>1, <2>1
<1>13. v[n] \in S /\ (Stopped(e, v[n]) \/ v[n].x > n)
       /\ (Reducing(e, before, r, s) => Reducing(e, before, r, v[n]))
    BY <1>12
<1>14. Stopped(e, v[n])
    BY <1>13 DEF Stopped, n
<1> QED
    BY <1>7, <1>13, <1>14 DEF S, n

\* When it has stopped, no exclude holds anything of what is left.
LEMMA StoppedApart ==
    ASSUME NEW e \in ExcludeLists, NEW r, NEW s \in Rests(e), Stopped(e, s), Passed(e, r, s)
    PROVE  Members(s.range) \cap Covered(e) = {}
<1>1. s.x \in 1 .. (Len(e) + 1) /\ s.x \in Nat /\ s.range.begin \in Nat /\ s.range.end \in Nat
      /\ (IsValid(s.range) \/ s.range = INVALID_RANGE)
    BY RestsAre
<1>2. Len(e) \in Nat /\ \A k \in 1 .. Len(e) : e[k].begin \in Nat /\ e[k].end \in Nat
    BY ExcludesAre
<1>3. ASSUME NEW a \in Members(s.range) PROVE a \notin Covered(e)
    <2>1. a \in Int /\ s.range.begin <= a /\ a <= s.range.end
        BY <1>1 DEF Members
    <2>2. IsValid(s.range)
        BY <1>1, <2>1 DEF IsValid
    <2>3. \A y \in 1 .. (s.x - 1) : e[y].end < s.range.begin /\ e[y].end \in Nat
        <3>1. \A y \in 1 .. (s.x - 1) : y \in 1 .. Len(e)
            BY <1>1, <1>2
        <3> QED
            BY <1>2, <2>2, <3>1 DEF Passed
    <2>4. \A y \in 1 .. (s.x - 1) : e[y].end < a
        BY <1>1, <2>1, <2>3
    <2>5. s.x \in 1 .. Len(e) => a < e[s.x].begin
        <3>1. ASSUME s.x \in 1 .. Len(e) PROVE a < e[s.x].begin
            <4>1. e[s.x].begin > s.range.end /\ e[s.x].begin \in Nat
                BY <1>1, <1>2, <3>1 DEF Stopped
            <4> QED
                BY <1>1, <2>1, <4>1
        <3> QED
            BY <3>1
    <2> QED
        BY <1>1, <2>1, <2>4, <2>5, Untouched
<1> QED
    BY <1>3

LEMMA ExcludeFromIs ==
    ASSUME NEW e \in ExcludeLists, NEW x \in 1 .. (Len(e) + 1), NEW r \in Spans
    PROVE  LET y == ExcludeFrom(x, e, r)
           IN  /\ y \in 1 .. (Len(e) + 1) /\ y >= x
               /\ \A z \in x .. (y - 1) : e[z].end < r.begin
<1> DEFINE T == {y \in x .. (Len(e) + 1) : y > Len(e) \/ e[y].end >= r.begin}
<1>1. Len(e) \in Nat /\ r.begin \in Nat /\ \A k \in 1 .. Len(e) : e[k].end \in Nat
    BY ExcludesAre, SpanType
<1>2. Len(e) + 1 \in T /\ T \in SUBSET Nat
    BY <1>1
<1>3. PICK y \in T : \A z \in T : y <= z
    <2> HIDE DEF T
    <2> QED
        BY <1>2, Least
<1>4. \A z \in x .. (y - 1) : e[z].end < r.begin
    <2>1. ASSUME NEW z \in x .. (y - 1) PROVE e[z].end < r.begin
        <3>1. z \in x .. (Len(e) + 1) /\ z \in 1 .. Len(e) /\ z \notin T
            BY <1>1, <1>3
        <3> QED
            BY <1>1, <3>1
    <2> QED
        BY <2>1
<1> DEFINE at == CHOOSE i \in x .. (Len(e) + 1) :
                    /\ i > Len(e) \/ e[i].end >= r.begin
                    /\ \A z \in x .. (i - 1) : e[z].end < r.begin
<1>5. at \in x .. (Len(e) + 1) /\ \A z \in x .. (at - 1) : e[z].end < r.begin
    BY <1>3, <1>4
<1>6. ExcludeFrom(x, e, r) = at
    BY DEF ExcludeFrom
<1> HIDE DEF at
<1> QED
    BY <1>1, <1>5, <1>6

\* What rangelist_exclude keeps from one target to the next, and what it needs
\* to be so that a target at b can follow.
Between(e) == [x : 1 .. (Len(e) + 1), new : Lists]
ReadyFor(e, s, b) ==
    /\ Canonical(s.new)
    /\ \A a \in Covered(s.new.list) : a + 1 < b
    /\ \A y \in 1 .. (s.x - 1) : e[y].end < b

LEMMA RemnantsAre ==
    ASSUME NEW e \in ExcludeLists, NEW s \in Between(e), NEW r \in Spans, IsValid(r)
    PROVE  LET u == Remnants(e, s, r)
           IN  /\ u \in Between(e)
               /\ ReadyFor(e, s, r.begin) =>
                    /\ Canonical(u.new)
                    /\ Covered(u.new.list) = Covered(s.new.list) \cup (Members(r) \ Covered(e))
                    /\ \A y \in 1 .. (u.x - 1) : e[y].end <= r.end
<1> DEFINE x == ExcludeFrom(s.x, e, r)
           first == [x |-> x, range |-> r, new |-> s.new]
           end == ApplyAll(e, first)
           u == Remnants(e, s, r)
           before == Covered(s.new.list)
           E == Covered(e)
<1>1. s.x \in 1 .. (Len(e) + 1) /\ s.new \in Lists /\ Len(e) \in Nat
    BY ExcludesAre DEF Between
<1>2. x \in 1 .. (Len(e) + 1) /\ x >= s.x /\ \A z \in s.x .. (x - 1) : e[z].end < r.begin
    <2> HIDE DEF x
    <2> QED
        BY <1>1, ExcludeFromIs DEF x
<1>3. r.begin \in Nat /\ r.end \in Nat /\ r.begin <= r.end
    BY SpanType DEF IsValid
<1>4. first \in Rests(e) /\ first.x = x /\ first.range = r /\ first.new = s.new
    BY <1>1, <1>2 DEF Rests
<1>5. u = [x |-> end.x, new |-> IF IsValid(end.range) THEN AddRange(end.new, end.range) ELSE end.new]
    BY DEF Remnants
<1> HIDE DEF first, x
<1>6. end \in Rests(e) /\ Stopped(e, end)
      /\ (Reducing(e, before, r, first) => Reducing(e, before, r, end))
    BY <1>4, ApplyAllKeeps
<1> HIDE DEF end
<1>7. end.x \in 1 .. (Len(e) + 1) /\ end.new \in Lists /\ end.range \in Spans
      /\ end.range.begin \in Nat /\ end.range.end \in Nat
      /\ (IsValid(end.range) \/ end.range = INVALID_RANGE)
    BY <1>6, RestsAre
<1>8. u \in Between(e)
    <2>1. IsValid(end.range) => AddRange(end.new, end.range) \in Lists
        BY <1>7, AddedRange
    <2> QED
        BY <1>5, <1>7, <2>1 DEF Between
<1> HIDE DEF u
<1>9. ASSUME ReadyFor(e, s, r.begin)
      PROVE  /\ Canonical(u.new)
             /\ Covered(u.new.list) = before \cup (Members(r) \ E)
             /\ \A y \in 1 .. (u.x - 1) : e[y].end <= r.end
    <2>1. \A y \in 1 .. (x - 1) : e[y].end < r.begin
        <3>1. \A y \in 1 .. (x - 1) : y \in 1 .. (s.x - 1) \/ y \in s.x .. (x - 1)
            BY <1>1, <1>2
        <3> QED
            BY <1>2, <1>9, <3>1 DEF ReadyFor
    <2>2. Passed(e, r, first)
        <3>1. \A y \in 1 .. (x - 1) : e[y].end \in Nat
            <4>1. \A y \in 1 .. (x - 1) : y \in 1 .. Len(e)
                BY <1>1, <1>2
            <4> QED
                BY <4>1, ExcludesAre
        <3>2. \A y \in 1 .. (x - 1) : e[y].end <= r.end
            BY <1>2, <1>3, <2>1, <3>1
        <3> QED
            BY <1>4, <2>1, <3>2 DEF Passed
    <2>3. Reducing(e, before, r, first)
        BY <1>3, <1>4, <1>9, <2>2 DEF Reducing, ReadyFor
    <2>4. /\ Canonical(end.new)
          /\ Covered(end.new.list) \cup (Members(end.range) \ E) = before \cup (Members(r) \ E)
          /\ IsValid(end.range) => \A a \in Covered(end.new.list) : a + 1 < end.range.begin
          /\ Passed(e, r, end)
        BY <1>6, <2>3 DEF Reducing
    <2>5. Members(end.range) \cap E = {}
        BY <1>6, <2>4, StoppedApart
    <2>6. \A y \in 1 .. (u.x - 1) : e[y].end <= r.end
        BY <1>5, <2>4 DEF Passed
    <2>7. CASE IsValid(end.range)
        <3>1. u.new = AddRange(end.new, end.range)
            BY <1>5, <2>7
        <3>2. Before(end.new.list, end.range.begin)
            BY <1>7, <2>4, <2>7, LastBelow
        <3>3. Canonical(u.new)
            BY <1>7, <2>4, <2>7, <3>1, <3>2, AddedInOrder
        <3>4. Covered(u.new.list) = Covered(end.new.list) \cup Members(end.range)
            BY <1>7, <2>7, <3>1, AddedRange
        <3>5. Covered(u.new.list) = before \cup (Members(r) \ E)
            BY <2>4, <2>5, <3>4
        <3> QED
            BY <2>6, <3>3, <3>5
    <2>8. CASE ~ IsValid(end.range)
        <3>1. u.new = end.new
            BY <1>5, <2>8
        <3>2. Members(end.range) = {}
            BY <1>7, <2>8, SpanIs
        <3>3. Covered(u.new.list) = before \cup (Members(r) \ E)
            BY <2>4, <3>1, <3>2
        <3> QED
            BY <2>4, <2>6, <3>1, <3>3
    <2> QED
        BY <2>7, <2>8
<1> QED
    BY <1>8, <1>9 DEF u

\* One pass over a list of targets that is sorted.
Passes(e, l) ==
    {g \in [0 .. Len(l) -> Between(e)] :
        /\ g[0] = [x |-> 1, new |-> Empty]
        /\ \A k \in 1 .. Len(l) : g[k] = Remnants(e, g[k - 1], l[k])}

LEMMA ExcludeIs ==
    ASSUME NEW t \in Lists, NEW e, e.list \in ExcludeLists, NEW l \in SpanLists, l = Sort(t).list
    PROVE  \E g \in Passes(e.list, l) :
                Exclude(t, e) = Sort([list |-> g[Len(l)].new.list, sorted |-> TRUE])
<1> DEFINE n == Len(l)
           S == Between(e.list)
           start == [x |-> 1, new |-> Empty]
           F == [p \in (1 .. n) \X S |-> Remnants(e.list, p[2], l[p[1]])]
           Defined(f) == f = [k \in 0 .. n |->
                                IF k = 0 THEN start ELSE Remnants(e.list, f[k - 1], l[k])]
           v == CHOOSE f : Defined(f)
<1>1. n \in Nat /\ \A k \in 1 .. n : l[k] \in Spans /\ IsValid(l[k])
    BY DEF SpanLists
<1>2. start \in S
    <2>1. Empty \in Lists
        BY DEF Empty, Lists, SpanLists
    <2>2. 1 \in 1 .. (Len(e.list) + 1)
        BY ExcludesAre
    <2> QED
        BY <2>1, <2>2 DEF Between
<1>3. F \in Steps(n, S)
    <2>1. ASSUME NEW p \in (1 .. n) \X S PROVE Remnants(e.list, p[2], l[p[1]]) \in S
        <3>1. p[1] \in 1 .. n /\ p[2] \in S
            OBVIOUS
        <3> QED
            BY <1>1, <3>1, RemnantsAre
    <2> HIDE DEF S
    <2> QED
        BY <2>1 DEF Steps
<1> HIDE DEF S, start
<1>4. PICK g \in Results(n, S, start, F) : TRUE
    <2> HIDE DEF F
    <2> QED
        BY <1>1, <1>2, <1>3, Recursion
<1>5. g \in [0 .. n -> S] /\ g[0] = start /\ \A j \in 1 .. n : g[j] = F[<<j, g[j - 1]>>]
    <2> HIDE DEF F
    <2> QED
        BY DEF Results
<1>6. ASSUME NEW j \in 1 .. n PROVE g[j] = Remnants(e.list, g[j - 1], l[j])
    <2>1. j - 1 \in 0 .. n
        BY <1>1
    <2>2. <<j, g[j - 1]>> \in (1 .. n) \X S
        BY <1>5, <2>1
    <2> QED
        BY <1>5, <2>2
<1> HIDE DEF F
<1>7. Defined(g)
    <2>1. \A k \in 0 .. n : g[k] = IF k = 0 THEN start ELSE Remnants(e.list, g[k - 1], l[k])
        BY <1>1, <1>5, <1>6
    <2>2. g = [k \in 0 .. n |-> g[k]]
        BY <1>5
    <2> QED
        BY <2>1, <2>2
<1>8. Exclude(t, e) = Sort([list |-> v[n].new.list, sorted |-> TRUE])
    BY DEF Exclude, start
<1>9. Defined(v)
    <2> HIDE DEF Defined
    <2> QED
        BY <1>7
<1> HIDE DEF v
<1>10. \A k \in 0 .. n : v[k] = IF k = 0 THEN start ELSE Remnants(e.list, v[k - 1], l[k])
    BY <1>9
<1> DEFINE T == {k \in 0 .. n : v[k] = g[k]}
<1> HIDE DEF n, Defined
<1>11. 0 \in T
    BY <1>1, <1>5, <1>10
<1>12. ASSUME NEW k \in 1 .. n, k - 1 \in T PROVE k \in T
    <2>1. k - 1 \in 0 .. n /\ k \in 0 .. n /\ k # 0
        BY <1>1
    <2> QED
        BY <1>6, <1>10, <1>12, <2>1
<1>13. n \in T
    <2> HIDE DEF T
    <2>1. 0 .. n \subseteq T
        BY <1>1, <1>11, <1>12, Counting
    <2> QED
        BY <1>1, <2>1
<1>14. g \in Passes(e.list, l)
    BY <1>5, <1>6 DEF Passes, S, start, n
<1> QED
    BY <1>8, <1>13, <1>14 DEF n

\* rangelist_exclude (ranges.c:592-655), which is one pass over two lists with
\* an index that only goes forward: with sorted excludes, none of which begins
\* at the first two addresses, what is left is what was there without what the
\* excludes hold, and it is sorted.
THEOREM ExcludeIsDifference ==
    ASSUME NEW t \in Lists, t.sorted => Canonical(t),
           NEW e \in Lists, Canonical(e), \A k \in DOMAIN e.list : e.list[k].begin >= 2
    PROVE  LET left == Exclude(t, e)
           IN  /\ left \in Lists /\ left.sorted /\ Canonical(left)
               /\ AllMembers(left) = AllMembers(t) \ AllMembers(e)
<1> DEFINE l == Sort(t).list
           n == Len(l)
           x == e.list
           E == Covered(x)
<1>1. Sort(t) \in Lists /\ Canonical(Sort(t)) /\ AllMembers(Sort(t)) = AllMembers(t)
    BY SortIsCanonical
<1>2. l \in SpanLists /\ n \in Nat /\ Covered(l) = AllMembers(t)
    BY <1>1, AllMembersIs DEF Lists, SpanLists
<1>3. \A k \in 1 .. (n - 1) : l[k].end + 1 < l[k + 1].begin
    BY <1>1 DEF Canonical
<1>4. x \in SpanLists /\ E = AllMembers(e)
    BY AllMembersIs DEF Lists
<1>5. x \in ExcludeLists
    <2>1. DOMAIN x = 1 .. Len(x)
        BY <1>4 DEF SpanLists
    <2> QED
        BY <1>4, <2>1 DEF ExcludeLists, Canonical
<1> HIDE DEF l, x
<1>6. PICK g \in Passes(x, l) : Exclude(t, e) = Sort([list |-> g[n].new.list, sorted |-> TRUE])
    BY <1>2, <1>5, ExcludeIs DEF l, x
<1>7. g \in [0 .. n -> Between(x)] /\ g[0] = [x |-> 1, new |-> Empty]
      /\ \A k \in 1 .. n : g[k] = Remnants(x, g[k - 1], l[k])
    BY DEF Passes
<1>8. \A k \in 1 .. n : /\ l[k] \in Spans /\ IsValid(l[k])
                        /\ l[k].begin \in Nat /\ l[k].end \in Nat /\ l[k].begin <= l[k].end
    BY <1>2, SpanOfList DEF SpanLists
<1>9. Len(x) \in Nat /\ \A y \in 1 .. Len(x) : x[y].end \in Nat
    BY <1>5, ExcludesAre
<1> DEFINE Upto(k) == UNION {Members(l[j]) : j \in 1 .. k}
           Kept(k) == /\ Canonical(g[k].new)
                      /\ Covered(g[k].new.list) = Upto(k) \ E
           T == {k \in 0 .. n : Kept(k) /\ (k # n => ReadyFor(x, g[k], l[k + 1].begin))}
<1> HIDE DEF n, E
<1>10. 0 \in T
    <2>1. Upto(0) = {}
        OBVIOUS
    <2>2. Canonical(Empty) /\ Covered(Empty.list) = {}
        <3>1. Covered(<<>>) = {} /\ DOMAIN <<>> = {} /\ 1 .. (Len(<<>>) - 1) = {}
            BY DEF Covered
        <3> QED
            BY <3>1 DEF Empty, Canonical
    <2>3. g[0].x = 1 /\ g[0].new = Empty
        BY <1>7
    <2>4. ReadyFor(x, g[0], l[1].begin)
        <3>1. 1 .. (1 - 1) = {}
            OBVIOUS
        <3> QED
            BY <2>2, <2>3, <3>1 DEF ReadyFor
    <2> QED
        BY <1>2, <2>1, <2>2, <2>3, <2>4
<1>11. ASSUME NEW k \in 1 .. n, k - 1 \in T PROVE k \in T
    <2> DEFINE p == g[k - 1]
               u == g[k]
               r == l[k]
    <2>1. k - 1 \in 0 .. n /\ k \in 0 .. n /\ k - 1 # n /\ (k - 1) + 1 = k
        BY <1>2
    <2>2. p \in Between(x) /\ ReadyFor(x, p, r.begin) /\ Covered(p.new.list) = Upto(k - 1) \ E
        BY <1>7, <1>11, <2>1
    <2>3. r \in Spans /\ IsValid(r) /\ r.begin \in Nat /\ r.end \in Nat /\ r.begin <= r.end
        BY <1>8
    <2>4. u = Remnants(x, p, r)
        BY <1>7
    <2> HIDE DEF p, u, r
    <2>5. /\ u \in Between(x) /\ Canonical(u.new)
          /\ Covered(u.new.list) = Covered(p.new.list) \cup (Members(r) \ E)
          /\ \A y \in 1 .. (u.x - 1) : x[y].end <= r.end
        BY <1>5, <2>2, <2>3, <2>4, RemnantsAre DEF E
    <2>6. Upto(k) = Upto(k - 1) \cup Members(r)
        <3>1. \A j : j \in 1 .. k <=> j \in 1 .. (k - 1) \/ j = k
            BY <1>2
        <3> QED
            BY <3>1 DEF r
    <2>7. Kept(k)
        BY <2>2, <2>5, <2>6 DEF u
    <2>8. ASSUME k # n PROVE ReadyFor(x, u, l[k + 1].begin)
        <3>1. k \in 1 .. (n - 1) /\ k + 1 \in 1 .. n
            BY <1>2, <2>8
        <3>2. r.end + 1 < l[k + 1].begin /\ l[k + 1].begin \in Nat
            BY <1>3, <1>8, <3>1 DEF n, r
        <3>3. ASSUME NEW a \in Covered(u.new.list) PROVE a \in Int /\ a <= r.end
            <4>1. CASE a \in Covered(p.new.list)
                <5>1. a + 1 < r.begin
                    BY <2>2, <4>1 DEF ReadyFor
                <5>2. a \in Int
                    BY <2>2, <4>1, CoveredInts DEF Between
                <5> QED
                    BY <2>3, <5>1, <5>2
            <4>2. CASE a \in Members(r)
                BY <2>3, <4>2 DEF Members
            <4> QED
                BY <2>5, <3>3, <4>1, <4>2
        <3>4. \A a \in Covered(u.new.list) : a + 1 < l[k + 1].begin
            <4>1. \A a, b, c \in Int : a <= b /\ b + 1 < c => a + 1 < c
                OBVIOUS
            <4> QED
                BY <2>3, <3>2, <3>3, <4>1
        <3>5. \A y \in 1 .. (u.x - 1) : x[y].end < l[k + 1].begin
            <4>1. \A y \in 1 .. (u.x - 1) : y \in 1 .. Len(x)
                BY <1>9, <2>5 DEF Between
            <4>2. \A a, b, c \in Int : a <= b /\ b + 1 < c => a < c
                OBVIOUS
            <4> QED
                BY <1>9, <2>3, <2>5, <3>2, <4>1, <4>2
        <3> QED
            BY <2>5, <3>4, <3>5 DEF ReadyFor
    <2> QED
        BY <2>1, <2>7, <2>8 DEF u
<1>12. n \in T
    <2> HIDE DEF T
    <2>1. 0 .. n \subseteq T
        BY <1>2, <1>10, <1>11, Counting
    <2> QED
        BY <1>2, <2>1
<1> DEFINE w == g[n].new
           q == [list |-> w.list, sorted |-> TRUE]
<1>13. w \in Lists /\ Canonical(w) /\ Covered(w.list) = Upto(n) \ E
    <2>1. n \in 0 .. n
        BY <1>2
    <2> QED
        BY <1>7, <1>12, <2>1 DEF Between
<1> HIDE DEF w
<1>14. q \in Lists /\ q.list = w.list /\ Canonical(q) /\ AllMembers(q) = Covered(w.list)
    <2>1. q \in Lists /\ q.list = w.list
        BY <1>13 DEF Lists
    <2>2. Canonical(q)
        BY <1>13, <2>1 DEF Canonical
    <2>3. w.list \in SpanLists
        BY <1>13 DEF Lists
    <2> QED
        BY <2>1, <2>2, <2>3, AllMembersIs
<1>15. Exclude(t, e) = Sort(q)
    BY <1>6 DEF w
<1> HIDE DEF q
<1>16. /\ Sort(q) \in Lists /\ Sort(q).sorted /\ Canonical(Sort(q))
       /\ AllMembers(Sort(q)) = AllMembers(q)
    BY <1>14, SortIsCanonical
<1>17. Upto(n) = Covered(l)
    BY DEF Covered, n
<1>18. AllMembers(Exclude(t, e)) = AllMembers(t) \ AllMembers(e)
    BY <1>2, <1>4, <1>13, <1>14, <1>15, <1>16, <1>17
<1> QED
    BY <1>15, <1>16, <1>18

----------------------------------------------------------------------------
(* All together: from the ranges that were given to the probes *)

\* What is picked for an index: `xXx' is shuffled, then cut into the two lists
\* (main.c:312-341, main-listscan.c:45-70).
TargetOf(t, p, seed, m) ==
    LET xXx == Shuffle(New(Count(t) * Count(p), seed), m)
    IN  <<Pick(t, xXx % Count(t)), Pick(p, xXx \div Count(t))>>

(* Every index stands for one address and port, and every address and port has *)
(* an index: blackrock_shuffle, the division into the two lists and             *)
(* rangelist_pick with its binary search, taken together.                        *)
THEOREM IndexIsTarget ==
    ASSUME NEW t \in Lists, Canonical(t), NEW p \in Lists, Canonical(p), NEW seed \in Nat,
           Count(t) # 0, Count(p) # 0
    PROVE  LET indices == 0 .. (Count(t) * Count(p) - 1)
           IN  [m \in indices |-> TargetOf(t, p, seed, m)]
                    \in Bijection(indices, AllMembers(t) \X AllMembers(p))
<1> DEFINE a == Count(t)
           b == Count(p)
           n == a * b
           indices == 0 .. (n - 1)
           A == AllMembers(t)
           B == AllMembers(p)
           s == [m \in indices |-> Shuffle(New(n, seed), m)]
           f == [m \in 0 .. (a - 1) |-> Pick(t, m)]
           g == [m \in 0 .. (b - 1) |-> Pick(p, m)]
           at == [m \in indices |-> TargetOf(t, p, seed, m)]
           net == [range |-> n, seed |-> seed, a |-> a, b |-> b]
<1>1. a \in Nat /\ f \in Bijection(0 .. (a - 1), A)
    BY PickEnumerates DEF Lists
<1>2. b \in Nat /\ g \in Bijection(0 .. (b - 1), B)
    BY PickEnumerates DEF Lists
<1>3. n \in Nat \ {0}
    <2>1. a \in Nat \ {0} /\ b \in Nat \ {0}
        BY <1>1, <1>2
    <2> HIDE DEF a, b
    <2> QED
        BY <2>1
<1>4. s \in Bijection(indices, indices)
    <2> HIDE DEF n
    <2> QED
        BY <1>3, ShuffleIsPermutation
<1>5. Net(net) /\ Numbers(net) = indices /\ \A x : Split(net, x) = <<x % a, x \div a>>
    <2>1. a \in Nat \ {0} /\ b \in Nat \ {0}
        BY <1>1, <1>2
    <2> HIDE DEF a, b
    <2> QED
        BY <1>3, <2>1 DEF Net, Numbers, Split
<1>6. ASSUME NEW m \in indices PROVE at[m] = <<f[s[m] % a], g[s[m] \div a]>>
                                     /\ s[m] % a \in 0 .. (a - 1) /\ s[m] \div a \in 0 .. (b - 1)
    <2>1. s[m] \in indices
        <3> HIDE DEF s, indices
        <3> QED
            BY <1>4 DEF Bijection, Injection
    <2>2. Split(net, s[m]) \in Pairs(net, 0)
        <3> HIDE DEF s, net, indices
        <3> QED
            BY <1>5, <2>1, JoinedSplit
    <2>3. s[m] % a \in 0 .. (a - 1) /\ s[m] \div a \in 0 .. (b - 1)
        <3>1. <<s[m] % a, s[m] \div a>> \in (0 .. (a - 1)) \X (0 .. (b - 1))
            <4>1. net.a = a /\ net.b = b
                OBVIOUS
            <4> HIDE DEF s, net, a, b
            <4> QED
                BY <1>5, <2>2, <4>1 DEF Pairs
        <3> HIDE DEF s, a, b
        <3> QED
            BY <3>1
    <2>4. at[m] = TargetOf(t, p, seed, m) /\ s[m] = Shuffle(New(n, seed), m)
        <3> HIDE DEF n
        <3> QED
            OBVIOUS
    <2>5. TargetOf(t, p, seed, m) = <<Pick(t, s[m] % a), Pick(p, s[m] \div a)>>
        <3> HIDE DEF s
        <3> QED
            BY <2>4 DEF TargetOf
    <2>6. f[s[m] % a] = Pick(t, s[m] % a) /\ g[s[m] \div a] = Pick(p, s[m] \div a)
        <3> HIDE DEF s, a, b
        <3> QED
            BY <2>3
    <2> HIDE DEF at, s, f, g, a, b
    <2> QED
        BY <2>3, <2>4, <2>5, <2>6
<1>7. \A m \in indices : Join(net, <<s[m] % a, s[m] \div a>>) = s[m]
    <2> SUFFICES ASSUME NEW m \in indices
                 PROVE  Join(net, <<s[m] % a, s[m] \div a>>) = s[m]
        OBVIOUS
    <2>1. s[m] \in indices
        <3> HIDE DEF s, indices
        <3> QED
            BY <1>4 DEF Bijection, Injection
    <2> HIDE DEF s, net, indices, a
    <2> QED
        BY <1>5, <2>1, JoinedSplit
<1>8. at = [m \in indices |-> at[m]]
    OBVIOUS
<1>9. /\ f \in [0 .. (a - 1) -> A] /\ g \in [0 .. (b - 1) -> B] /\ s \in [indices -> indices]
      /\ \A j, k \in 0 .. (a - 1) : f[j] = f[k] => j = k
      /\ \A j, k \in 0 .. (b - 1) : g[j] = g[k] => j = k
      /\ \A j, k \in indices : s[j] = s[k] => j = k
      /\ \A x \in A : \E k \in 0 .. (a - 1) : f[k] = x
      /\ \A y \in B : \E k \in 0 .. (b - 1) : g[k] = y
      /\ \A y \in indices : \E k \in indices : s[k] = y
    <2> HIDE DEF f, g, s, a, b, indices, A, B
    <2> QED
        BY <1>1, <1>2, <1>4 DEF Bijection, Injection, IsInjective, Surjection
<1> HIDE DEF at, f, g, s, A, B
<1>10. at \in [indices -> A \X B]
    <2> HIDE DEF a, b, indices
    <2>1. ASSUME NEW m \in indices PROVE at[m] \in A \X B
        <3>1. f[s[m] % a] \in A /\ g[s[m] \div a] \in B
            BY <1>6, <1>9
        <3>2. at[m] = <<f[s[m] % a], g[s[m] \div a]>>
            BY <1>6
        <3>3. \A x \in A, y \in B : <<x, y>> \in A \X B
            OBVIOUS
        <3> QED
            BY <3>1, <3>2, <3>3
    <2> QED
        BY <1>8, <2>1
<1>11. ASSUME NEW j \in indices, NEW k \in indices, at[j] = at[k] PROVE j = k
    <2>1. f[s[j] % a] = f[s[k] % a] /\ g[s[j] \div a] = g[s[k] \div a]
        <3> HIDE DEF a, b, indices
        <3> QED
            BY <1>6, <1>11
    <2>2. s[j] % a = s[k] % a /\ s[j] \div a = s[k] \div a
        <3> HIDE DEF a, b, indices
        <3> QED
            BY <1>6, <1>9, <2>1
    <2>3. s[j] = s[k]
        <3> HIDE DEF net, a, b, indices
        <3> QED
            BY <1>7, <2>2
    <2> HIDE DEF indices
    <2> QED
        BY <1>9, <2>3
<1>12. ASSUME NEW x \in A, NEW y \in B PROVE \E m \in indices : at[m] = <<x, y>>
    <2>1. PICK i \in 0 .. (a - 1), k \in 0 .. (b - 1) : f[i] = x /\ g[k] = y
        <3> HIDE DEF a, b
        <3> QED
            BY <1>9
    <2>2. <<i, k>> \in Pairs(net, 0)
        <3>1. net.a = a /\ net.b = b
            OBVIOUS
        <3> HIDE DEF net, a, b
        <3> QED
            BY <3>1 DEF Pairs
    <2> DEFINE j == Join(net, <<i, k>>)
    <2>3. j \in indices /\ <<j % a, j \div a>> = <<i, k>>
        <3> HIDE DEF net, a, indices
        <3> QED
            BY <1>5, <2>2, SplitJoined
    <2> HIDE DEF j
    <2>4. PICK m \in indices : s[m] = j
        <3> HIDE DEF indices
        <3> QED
            BY <1>9, <2>3
    <2>5. at[m] = <<x, y>>
        <3> HIDE DEF a, b, indices
        <3> QED
            BY <1>6, <2>1, <2>3, <2>4
    <2> QED
        BY <2>5
<1>13. at \in Bijection(indices, A \X B)
    <2>1. ASSUME NEW x \in A \X B PROVE \E m \in indices : at[m] = x
        <3>1. x[1] \in A /\ x[2] \in B /\ x = <<x[1], x[2]>>
            OBVIOUS
        <3>2. PICK m \in indices : at[m] = <<x[1], x[2]>>
            <4> HIDE DEF indices
            <4> QED
                BY <1>12, <3>1
        <3> QED
            BY <3>1, <3>2
    <2> HIDE DEF indices
    <2> QED
        BY <1>10, <1>11, <2>1 DEF Bijection, Injection, IsInjective, Surjection
<1> QED
    BY <1>13 DEF at, A, B

\* What main makes of the ranges that were given and of those to be left out
\* (main.c:1540-1593).
Reduced(given, excluded) == Exclude(Sort(AddAll(Empty, given)), Sort(AddAll(Empty, excluded)))

\* No range begins at the first two addresses.
AboveOne(l) == \A k \in 1 .. Len(l) : l[k].begin >= 2

LEMMA ReducedIs ==
    ASSUME NEW given \in SpanLists, NEW excluded \in SpanLists, AboveOne(excluded),
           NEW t, t = Reduced(given, excluded)
    PROVE  /\ t \in Lists /\ Canonical(t)
           /\ AllMembers(t) = Covered(given) \ Covered(excluded)
<1> DEFINE u == Sort(AddAll(Empty, given))
           e == Sort(AddAll(Empty, excluded))
<1>1. u \in Lists /\ Canonical(u) /\ AllMembers(u) = Covered(given)
    BY RangesAsGiven DEF Covered
<1>2. e \in Lists /\ Canonical(e) /\ AllMembers(e) = Covered(excluded)
    BY RangesAsGiven DEF Covered
<1>3. t = Exclude(u, e)
    BY DEF Reduced
<1> HIDE DEF u, e
<1>4. ASSUME NEW k \in DOMAIN e.list PROVE e.list[k].begin >= 2
    <2>1. e.list \in SpanLists /\ k \in 1 .. Len(e.list)
        BY <1>2 DEF Lists, SpanLists
    <2>2. e.list[k].begin \in Nat /\ e.list[k].end \in Nat /\ e.list[k].begin <= e.list[k].end
        BY <2>1, SpanOfList
    <2>3. e.list[k].begin \in Covered(e.list)
        BY <2>1, <2>2 DEF Covered, Members
    <2>4. e.list[k].begin \in Covered(excluded)
        BY <1>2, <2>1, <2>3, AllMembersIs
    <2>5. PICK j \in 1 .. Len(excluded) : e.list[k].begin \in Members(excluded[j])
        BY <2>4 DEF Covered
    <2>6. excluded[j].begin \in Nat /\ excluded[j].end \in Nat /\ excluded[j].begin >= 2
        BY SpanOfList DEF AboveOne
    <2> QED
        BY <2>2, <2>5, <2>6 DEF Members
<1> QED
    BY <1>1, <1>2, <1>3, <1>4, ExcludeIsDifference

\* Probes are of numbers.
Numbered == probed \subseteq Nat \X Nat

LEMMA NumberedNext ==
    ASSUME IInv, Numbered, [Next]_vars
    PROVE  Numbered'
<1>1. CASE \E n \in Nics : TxProbe(n)
    <2>1. PICK n \in Nics : TxProbe(n)
        BY <1>1
    <2>2. probed' = probed \cup {<<tx[n].i, tx[n].r>>}
        BY <2>1 DEF TxProbe
    <2>3. tx[n].i \in Nat /\ tx[n].r \in Nat
        <3>1. opt.retries \in Nat
            BY RateType
        <3> QED
            BY <3>1 DEF IInv, Types
    <2> QED
        BY <2>2, <2>3 DEF Numbered
<1>2. CASE \E n \in Nics : TxThread(n) /\ ~ TxProbe(n)
    <2>1. probed' = probed
        BY <1>2 DEF TxThread, TxBatch, TxSave, TxTest, TxLeave, TxEnd
    <2> QED
        BY <2>1 DEF Numbered
<1>3. CASE (\E n \in Nics : RxThread(n)) \/ Main \/ Tick \/ CtrlC \/ Kill \/ Resume \/ Over
           \/ UNCHANGED vars
    <2>1. probed' = probed
        BY <1>3 DEF RxThread, RxWants, RxBuffer, RxLeave, Main, MainStatus, MainRead, MainDecide, MainSave, MainWait,
                    MainPoll, MainJoin, Tick, CtrlC, Kill, Resume, Over, vars
    <2> QED
        BY <2>1 DEF Numbered
<1> QED
    BY <1>1, <1>2, <1>3 DEF Next

\* The probes of the address and port x.
ProbesOf(t, p, seed, x) == {q \in probed : TargetOf(t, p, seed, Target(q[1], q[2])) = x}

(* From the command line to the wire: whatever ranges of addresses and ports *)
(* are given, in whatever order and however they overlap, and whatever is    *)
(* excluded from address 2 on, no probe is ever sent to an address or a port *)
(* that was not given or that was excluded; and a scan that calls itself     *)
(* finished has sent every other address and port all its probes, however    *)
(* often it was interrupted and resumed before.                              *)
THEOREM EveryAddressProbed ==
    ASSUME Alone, NEW seed \in Nat,
           NEW given \in SpanLists, NEW excluded \in SpanLists, AboveOne(excluded),
           NEW ports \in SpanLists, NEW noPorts \in SpanLists, AboveOne(noPorts),
           NEW t, t = Reduced(given, excluded), NEW p, p = Reduced(ports, noPorts),
           TargetCount = Count(t) * Count(p)
    PROVE  LET wanted == (Covered(given) \ Covered(excluded)) \X (Covered(ports) \ Covered(noPorts))
           IN  Spec => [](/\ \A x : x \notin wanted => ProbesOf(t, p, seed, x) = {}
                          /\ main.pc = "exited" /\ presses = 0 /\ opt.count = 0
                                => \A x \in wanted :
                                      Cardinality(ProbesOf(t, p, seed, x)) >= opt.retries + 1)
<1> DEFINE wanted == (Covered(given) \ Covered(excluded)) \X (Covered(ports) \ Covered(noPorts))
           Goal == /\ \A x : x \notin wanted => ProbesOf(t, p, seed, x) = {}
                   /\ main.pc = "exited" /\ presses = 0 /\ opt.count = 0
                        => \A x \in wanted :
                              Cardinality(ProbesOf(t, p, seed, x)) >= opt.retries + 1
           D == 0 .. (TargetCount - 1)
           f == [m \in D |-> TargetOf(t, p, seed, m)]
<1>1. TargetCount \in Nat \ {0}
    BY Constants
<1>2. t \in Lists /\ Canonical(t) /\ AllMembers(t) = Covered(given) \ Covered(excluded)
    BY ReducedIs
<1>3. p \in Lists /\ Canonical(p) /\ AllMembers(p) = Covered(ports) \ Covered(noPorts)
    BY ReducedIs
<1>4. f \in Bijection(D, wanted)
    <2>1. Count(t) \in Nat /\ Count(p) \in Nat
        BY <1>2, <1>3, PickEnumerates DEF Lists
    <2>2. Count(t) # 0 /\ Count(p) # 0
        <3> DEFINE a == Count(t)
                   b == Count(p)
        <3>1. a * b # 0
            BY <1>1
        <3> HIDE DEF a, b
        <3>2. a \in Nat /\ b \in Nat
            BY <2>1 DEF a, b
        <3>3. a # 0 /\ b # 0
            BY <3>1, <3>2
        <3> QED
            BY <3>3 DEF a, b
    <2> QED
        BY <1>2, <1>3, <2>2, IndexIsTarget
<1>5. f \in [D -> wanted] /\ \A x \in wanted : \E m \in D : f[m] = x
    <2> HIDE DEF f, D, wanted
    <2> QED
        BY <1>4 DEF Bijection, Injection, Surjection
<1>6. \A m \in D : TargetOf(t, p, seed, m) = f[m]
    OBVIOUS
<1> HIDE DEF f, wanted
<1>7. IInv /\ Ended /\ Numbered => Goal
    <2> SUFFICES ASSUME IInv, Ended, Numbered PROVE Goal
        OBVIOUS
    <2>1. ASSUME NEW q \in probed PROVE Target(q[1], q[2]) \in D
        <3>1. q[1] \in Nat /\ q[2] \in Nat
            BY DEF Numbered
        <3>2. q[1] + q[2] * ThreadRate \in Nat
            <4> DEFINE a == q[1]
                       b == q[2]
            <4>1. a \in Nat /\ b \in Nat
                BY <3>1
            <4> HIDE DEF a, b
            <4>2. a + b * ThreadRate \in Nat
                BY <4>1, RateType
            <4> QED
                BY <4>2 DEF a, b
        <3> QED
            BY <1>1, <3>2 DEF Target
    <2>2. ASSUME NEW x, x \notin wanted PROVE ProbesOf(t, p, seed, x) = {}
        <3>1. ASSUME NEW q \in probed PROVE TargetOf(t, p, seed, Target(q[1], q[2])) # x
            BY <1>5, <1>6, <2>1, <2>2
        <3> QED
            BY <3>1 DEF ProbesOf
    <2>3. ASSUME main.pc = "exited", presses = 0, opt.count = 0, NEW x \in wanted
          PROVE  Cardinality(ProbesOf(t, p, seed, x)) >= opt.retries + 1
        <3> DEFINE P == ProbesOf(t, p, seed, x)
        <3>1. PICK m \in D : f[m] = x
            BY <1>5
        <3>2. ProbesTo(m) \subseteq P
            BY <1>6, <3>1 DEF ProbesTo, ProbesOf
        <3>3. IsFiniteSet(P)
            <4>1. P \subseteq probed /\ IsFiniteSet(probed)
                BY DEF Ended, ProbesOf
            <4> QED
                BY <4>1, FS_Subset
        <3> HIDE DEF P
        <3>4. Cardinality(ProbesTo(m)) >= opt.retries + 1
            BY <2>3, EnoughProbes DEF Ended
        <3>5. Cardinality(ProbesTo(m)) <= Cardinality(P)
            BY <3>2, <3>3, FS_Subset
        <3>6. Cardinality(ProbesTo(m)) \in Nat /\ Cardinality(P) \in Nat
            BY <3>2, <3>3, FS_Subset, FS_CardinalityType
        <3> QED
            BY <3>4, <3>5, <3>6, RateType DEF P
    <2> QED
        BY <2>2, <2>3
<1>8. Spec => [](IInv /\ Ended /\ Awaited)
    BY EndsAsMeant
<1>9. Init => Numbered
    BY DEF Init, Numbered
<1>10. IInv /\ Numbered /\ [Next]_vars => Numbered'
    BY NumberedNext
<1> HIDE DEF Goal
<1>11. Spec => []IInv /\ []Ended
    BY <1>8, PTL
<1>12. Spec => []Numbered
    BY <1>9, <1>10, <1>11, PTL DEF Spec
<1>13. Spec => []Goal
    BY <1>7, <1>11, <1>12, PTL
<1> QED
    BY <1>13 DEF Goal, wanted
=============================================================================
