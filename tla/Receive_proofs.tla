--------------------------- MODULE Receive_proofs ---------------------------
(***************************************************************************)
(* From a frame to what is reported and what is sent.  First the checksums *)
(* of whatever is sent: they are never made from the beginning but go on   *)
(* from the template's.  Then the receive threads: what is counted of the  *)
(* resets, what is found in the tables of duplicates, and that what is     *)
(* reported was answered, once, and as it was answered.                    *)
(***************************************************************************)
EXTENDS Receive, FiniteSetTheorems, TLAPS

----------------------------------------------------------------------------
(* Definitions by recursion on numbers *)

(* The well-foundedness of finite sets gives every set of numbers a least. *)
LEMMA Least ==
    ASSUME NEW T \in SUBSET Nat, T # {}
    PROVE  \E x \in T : \A y \in T : x <= y
<1> DEFINE Below == {1 .. n : n \in T}
           R == StrictSubsetOrdering(Nat)
           G == FiniteSubsetsOf(Nat)
<1>1. Below # {} /\ Below \subseteq G
    <2>1. ASSUME NEW n \in T PROVE 1 .. n \in G
        BY FS_Interval DEF FiniteSubsetsOf
    <2> QED
        BY <2>1
<1>2. IsWellFoundedOn(R, G)
    BY FS_StrictSubsetOrderingWellFounded
<1>3. PICK U \in Below : \A V \in Below : ~ (<<V, U>> \in R)
    <2> HIDE DEF R, G, Below
    <2> QED
        BY <1>1, <1>2, WFMin
<1>4. PICK x \in T : U = 1 .. x
    OBVIOUS
<1>5. ASSUME NEW y \in T, y < x PROVE FALSE
    <2>1. 1 .. y \subseteq 1 .. x /\ x \in 1 .. x /\ x \notin 1 .. y
        BY <1>5
    <2>2. <<1 .. y, U>> \in R
        BY <1>4, <2>1 DEF StrictSubsetOrdering
    <2> QED
        BY <2>2, <1>3
<1> QED
    BY <1>5

LEMMA Counting ==
    ASSUME NEW n \in Nat, NEW S, 0 \in S,
           \A k \in 1 .. n : k - 1 \in S => k \in S
    PROVE  0 .. n \subseteq S
<1> SUFFICES ASSUME (0 .. n) \ S # {} PROVE FALSE
    OBVIOUS
<1>1. PICK x \in (0 .. n) \ S : \A y \in (0 .. n) \ S : x <= y
    <2>1. (0 .. n) \ S \in SUBSET Nat
        OBVIOUS
    <2> QED
        BY <2>1, Least
<1>2. x \in 1 .. n /\ x - 1 \in 0 .. n /\ ~ (x <= x - 1)
    BY <1>1
<1>3. x - 1 \in S
    BY <1>1, <1>2
<1> QED
    BY <1>1, <1>2, <1>3

\* n steps on S, and what they make of x one after the other.
Steps(n, S) == [(1 .. n) \X S -> S]
Results(n, S, x, G) ==
    {g \in [0 .. n -> S] : g[0] = x /\ \A j \in 1 .. n : g[j] = G[<<j, g[j - 1]>>]}

(* What a definition by recursion on 0 .. n chooses exists. *)
LEMMA Recursion ==
    ASSUME NEW n \in Nat, NEW S, NEW x \in S, NEW G \in Steps(n, S)
    PROVE  Results(n, S, x, G) # {}
<1> DEFINE Defined(g, k) == g[0] = x /\ \A j \in 1 .. k : g[j] = G[<<j, g[j - 1]>>]
           Upto == {k \in 0 .. n : \E g \in [0 .. k -> S] : Defined(g, k)}
<1>1. 0 \in Upto
    <2> DEFINE g == [j \in 0 .. 0 |-> x]
    <2>1. g \in [0 .. 0 -> S] /\ Defined(g, 0)
        OBVIOUS
    <2> HIDE DEF g, Defined
    <2> QED
        BY <2>1
<1>2. ASSUME NEW k \in 1 .. n, k - 1 \in Upto PROVE k \in Upto
    <2>1. PICK g \in [0 .. (k - 1) -> S] : Defined(g, k - 1)
        BY <1>2
    <2> DEFINE h == [j \in 0 .. k |-> IF j = k THEN G[<<k, g[k - 1]>>] ELSE g[j]]
    <2>2. G[<<k, g[k - 1]>>] \in S
        <3>1. k - 1 \in 0 .. (k - 1)
            OBVIOUS
        <3>2. g[k - 1] \in S
            BY <3>1
        <3> QED
            BY <3>2 DEF Steps
    <2>3. \A j \in 0 .. (k - 1) : j \in 0 .. k /\ j # k
        OBVIOUS
    <2>4. h \in [0 .. k -> S]
        <3>1. ASSUME NEW j \in 0 .. k, j # k PROVE g[j] \in S
            <4>1. j \in 0 .. (k - 1)
                BY <3>1
            <4> QED
                BY <4>1
        <3> QED
            BY <2>2, <3>1
    <2>5. h[k] = G[<<k, g[k - 1]>>] /\ \A j \in 0 .. (k - 1) : h[j] = g[j]
        BY <2>3
    <2> HIDE DEF h
    <2>6. Defined(h, k)
        <3>1. 0 \in 0 .. (k - 1) /\ k - 1 \in 0 .. (k - 1)
            OBVIOUS
        <3>2. ASSUME NEW j \in 1 .. k PROVE h[j] = G[<<j, h[j - 1]>>]
            <4>1. CASE j = k
                BY <2>5, <3>1, <4>1
            <4>2. CASE j # k
                <5>1. j \in 1 .. (k - 1) /\ j \in 0 .. (k - 1) /\ j - 1 \in 0 .. (k - 1)
                    BY <4>2
                <5> QED
                    BY <2>1, <2>5, <5>1
            <4> QED
                BY <4>1, <4>2
        <3> QED
            BY <2>1, <2>5, <3>1, <3>2
    <2> HIDE DEF Defined
    <2> QED
        BY <2>4, <2>6
<1>3. n \in Upto
    <2> HIDE DEF Upto
    <2>1. 0 .. n \subseteq Upto
        BY <1>1, <1>2, Counting
    <2> QED
        BY <2>1
<1> QED
    BY <1>3 DEF Results

----------------------------------------------------------------------------
(* The updates of the checksums that probes are patched with *)

\* Four 32-bit numbers do not add up to this.
Wide == 4 * W * W

LEMMA FoldType ==
    ASSUME NEW x \in Nat
    PROVE  /\ Fold(x) \in Nat
           /\ x \div W \in Nat /\ x % W \in 0 .. W - 1
           /\ x = W * (x \div W) + (x % W)
<1> DEFINE a == x \div W
           b == x % W
<1>1. a \in Nat /\ x = W * a + b
    <2>1. a \in Nat
        BY DEF W
    <2>2. x = 65536 * (x \div 65536) + (x % 65536)
        BY SMTT(30)
    <2> QED
        BY <2>1, <2>2 DEF W
<1>2. b \in 0 .. W - 1
    BY DEF W
<1>3. b \in Nat
    BY DEF W
<1>4. Fold(x) = b + a
    BY DEF Fold
<1> HIDE DEF a, b
<1>5. Fold(x) \in Nat
    BY <1>1, <1>3, <1>4
<1> QED
    BY <1>1, <1>2, <1>5 DEF a, b

LEMMA FoldKeeps ==
    ASSUME NEW x \in Nat
    PROVE  Fold(x) % (W - 1) = x % (W - 1) /\ (x # 0 => Fold(x) # 0)
BY DEF Fold, W

\* Two folds are enough for a sum of 16-bit words, three for one that 32-bit
\* numbers have been added to as they are.
LEMMA FoldBounds ==
    /\ \A x \in Nat : x < W * W => Fold(Fold(x)) < W
    /\ \A x \in Nat : x < Wide => Folded(x) < W
BY DEF Fold, Folded, W, Wide

LEMMA ComplementVerifies ==
    ASSUME NEW s \in Nat, NEW f \in Nat, s # 0, f < W, f % (W - 1) = s % (W - 1)
    PROVE  Verifies(s + Complement(f))
BY DEF Verifies, Complement, W

LEMMA FoldedKeeps ==
    ASSUME NEW s \in Nat, s # 0
    PROVE  /\ Folded(s) \in Nat
           /\ Folded(s) % (W - 1) = s % (W - 1)
<1>1. Fold(s) \in Nat /\ Fold(s) # 0 /\ Fold(s) % (W - 1) = s % (W - 1)
    BY FoldType, FoldKeeps
<1>2. /\ Fold(Fold(s)) \in Nat /\ Fold(Fold(s)) # 0
      /\ Fold(Fold(s)) % (W - 1) = s % (W - 1)
    BY <1>1, FoldType, FoldKeeps
<1> QED
    BY <1>2, FoldType, FoldKeeps DEF Folded

\* ip_header_checksum, tcp_checksum2, udp_checksum2, icmp_checksum2 and
\* template_set_target: when the checksum field holds the complement of the
\* sum s of everything else, folded three times, the receiver's sum is all
\* ones.
THEOREM ThreeFoldsVerify ==
    ASSUME NEW s \in Nat, s # 0, s < Wide
    PROVE  Verifies(s + Complement(Folded(s)))
<1>1. Folded(s) \in Nat /\ Folded(s) < W /\ Folded(s) % (W - 1) = s % (W - 1)
    BY FoldedKeeps, FoldBounds
<1> QED
    BY <1>1, ComplementVerifies

\* tcp_create_packet folds its sum twice: the packet verifies exactly when
\* the second fold has left no carry.
THEOREM TwoFoldsVerifyWithoutCarry ==
    ASSUME NEW s \in Nat, s # 0, s < Wide
    PROVE  Verifies(s + Complement(Fold(Fold(s)))) <=> Fold(Fold(s)) < W
<1> DEFINE f == Fold(Fold(s))
<1>1. Fold(s) \in Nat /\ Fold(s) # 0 /\ Fold(s) % (W - 1) = s % (W - 1)
    BY FoldType, FoldKeeps
<1>2. f \in Nat /\ f # 0 /\ f % (W - 1) = s % (W - 1)
    BY <1>1, FoldType, FoldKeeps
<1>3. CASE f < W
    BY <1>2, <1>3, ComplementVerifies
<1>4. CASE f >= W
    <2>1. f < W + 16
        BY DEF Fold, W, Wide
    <2>2. f = W + (f % W) /\ (f % W) \in 0 .. 15
        BY <1>2, <1>4, <2>1 DEF W
    <2>3. s % (W - 1) = 1 + (f % W)
        BY <1>2, <2>2 DEF W
    <2>4. (s + Complement(f)) % (W - 1) = 1
        BY <2>2, <2>3 DEF Complement, W
    <2> QED
        BY <1>4, <2>4, <1>2 DEF Verifies, f, W
<1> QED
    BY <1>2, <1>3, <1>4 DEF W

----------------------------------------------------------------------------
(* The sums of the packets that are sent *)

\* What is summed: 16-bit words, and 32-bit numbers as pairs of them.
Word == {n \in Nat : n < W}
Number == Word \X Word

LEMMA WordIs ==
    \A n \in Nat : n < 65536 => n \in Word
BY DEF Word, W

LEMMA WordType ==
    /\ \A w \in Word : w \in Nat /\ w <= W - 1 /\ w < W
    /\ 0 \in Word
BY DEF Word, W

LEMMA WordsType ==
    ASSUME NEW words \in Seq(Word)
    PROVE  /\ Len(words) \in Nat
           /\ words \in [1 .. Len(words) -> Word]
           /\ \A i \in 1 .. Len(words) : words[i] \in Nat /\ words[i] <= W - 1
BY WordType

LEMMA SumsAre ==
    ASSUME NEW words \in Seq(Word)
    PROVE  /\ Sums(words) \in [0 .. Len(words) -> Nat]
           /\ Sums(words)[0] = 0
           /\ \A i \in 1 .. Len(words) : Sums(words)[i] = Sums(words)[i - 1] + words[i]
<1> DEFINE n == Len(words)
           G == [p \in (1 .. n) \X Nat |-> p[2] + words[p[1]]]
           Defined(f) == f = [i \in 0 .. n |-> IF i = 0 THEN 0 ELSE f[i - 1] + words[i]]
           v == Sums(words)
<1>1. n \in Nat /\ \A i \in 1 .. n : words[i] \in Nat
    BY WordsType
<1>2. G \in Steps(n, Nat)
    BY <1>1 DEF Steps
<1>3. PICK g \in Results(n, Nat, 0, G) : TRUE
    <2> HIDE DEF G
    <2> QED
        BY <1>1, <1>2, Recursion
<1>4. g \in [0 .. n -> Nat] /\ g[0] = 0 /\ \A j \in 1 .. n : g[j] = g[j - 1] + words[j]
    <2>1. g \in [0 .. n -> Nat] /\ g[0] = 0 /\ \A j \in 1 .. n : g[j] = G[<<j, g[j - 1]>>]
        BY DEF Results
    <2>2. ASSUME NEW j \in 1 .. n PROVE g[j] = g[j - 1] + words[j]
        <3>1. j - 1 \in 0 .. n
            BY <1>1
        <3>2. <<j, g[j - 1]>> \in (1 .. n) \X Nat
            BY <2>1, <3>1
        <3> QED
            BY <2>1, <3>2
    <2> QED
        BY <2>1, <2>2
<1>5. Defined(g)
    <2>1. \A k \in 0 .. n : g[k] = IF k = 0 THEN 0 ELSE g[k - 1] + words[k]
        BY <1>1, <1>4
    <2>2. g = [k \in 0 .. n |-> g[k]]
        BY <1>4
    <2> QED
        BY <2>1, <2>2
<1>6. v = CHOOSE f : Defined(f)
    BY DEF Sums
<1>7. Defined(v)
    <2> HIDE DEF Defined
    <2> QED
        BY <1>5, <1>6
<1> HIDE DEF v
<1>8. \A k \in 0 .. n : v[k] = IF k = 0 THEN 0 ELSE v[k - 1] + words[k]
    BY <1>7
<1>9. v = g
    <2> DEFINE T == {j \in 0 .. n : v[j] = g[j]}
    <2>1. 0 \in T
        BY <1>1, <1>4, <1>8
    <2>2. ASSUME NEW k \in 1 .. n, k - 1 \in T PROVE k \in T
        BY <1>4, <1>8, <2>2
    <2>3. 0 .. n \subseteq T
        <3> HIDE DEF T
        <3> QED
            BY <1>1, <2>1, <2>2, Counting
    <2>4. \A j \in 0 .. n : v[j] = g[j]
        BY <2>3
    <2> QED
        BY <1>4, <1>7, <2>4
<1> QED
    BY <1>4, <1>9 DEF v

LEMMA SumBound ==
    ASSUME NEW words \in Seq(Word)
    PROVE  SumOf(words) \in Nat /\ SumOf(words) <= Len(words) * (W - 1)
<1> DEFINE n == Len(words)
           T == {i \in 0 .. n : Sums(words)[i] <= i * (W - 1)}
<1>1. n \in Nat /\ Sums(words) \in [0 .. n -> Nat]
    BY SumsAre
<1>2. 0 \in T
    BY <1>1, SumsAre DEF W
<1>3. ASSUME NEW i \in 1 .. n, i - 1 \in T PROVE i \in T
    <2>1. Sums(words)[i] = Sums(words)[i - 1] + words[i] /\ words[i] \in Nat /\ words[i] <= W - 1
        BY SumsAre, WordsType
    <2>2. i - 1 \in 0 .. n /\ i \in 0 .. n /\ Sums(words)[i - 1] \in Nat
        BY <1>1
    <2>3. Sums(words)[i - 1] <= (i - 1) * (W - 1)
        BY <1>3
    <2>4. Sums(words)[i] <= i * (W - 1)
        BY <1>1, <2>1, <2>2, <2>3 DEF W
    <2> QED
        BY <2>2, <2>4
<1>4. 0 .. n \subseteq T
    <2> HIDE DEF T
    <2> QED
        BY <1>1, <1>2, <1>3, Counting
<1>5. n \in T
    BY <1>1, <1>4
<1> QED
    BY <1>1, <1>5 DEF SumOf

(* Two sequences that differ in one word. *)
LEMMA SumChanged ==
    ASSUME NEW s \in Seq(Word), NEW t \in Seq(Word), Len(t) = Len(s),
           NEW i \in 1 .. Len(s), \A j \in 1 .. Len(s) : j # i => t[j] = s[j]
    PROVE  SumOf(t) + s[i] = SumOf(s) + t[i]
<1> DEFINE n == Len(s)
           a == Sums(s)
           b == Sums(t)
           T == {k \in 0 .. n : IF k < i THEN b[k] = a[k] ELSE b[k] + s[i] = a[k] + t[i]}
<1>1. /\ n \in Nat
      /\ a \in [0 .. n -> Nat] /\ b \in [0 .. n -> Nat] /\ a[0] = 0 /\ b[0] = 0
      /\ \A k \in 1 .. n : a[k] = a[k - 1] + s[k] /\ b[k] = b[k - 1] + t[k]
    BY SumsAre
<1>2. \A k \in 1 .. n : s[k] \in Nat /\ t[k] \in Nat
    BY WordsType
<1> HIDE DEF a, b
<1>3. 0 \in T
    BY <1>1
<1>4. ASSUME NEW k \in 1 .. n, k - 1 \in T PROVE k \in T
    <2>1. k - 1 \in 0 .. n /\ k \in 0 .. n /\ a[k - 1] \in Nat /\ b[k - 1] \in Nat
        <3>1. k - 1 \in 0 .. n /\ k \in 0 .. n
            <4>1. n \in Nat
                BY <1>1
            <4> HIDE DEF n
            <4> QED
                BY <4>1
        <3>2. a \in [0 .. n -> Nat] /\ b \in [0 .. n -> Nat]
            BY <1>1
        <3> HIDE DEF n
        <3> QED
            BY <3>1, <3>2
    <2>2. a[k] = a[k - 1] + s[k] /\ b[k] = b[k - 1] + t[k]
        BY <1>1
    <2>3. s[k] \in Nat /\ t[k] \in Nat /\ s[i] \in Nat /\ t[i] \in Nat
        BY <1>2
    <2>4. CASE k < i
        BY <1>4, <2>1, <2>2, <2>3, <2>4
    <2>5. CASE k = i
        BY <1>4, <2>1, <2>2, <2>3, <2>5
    <2>6. CASE k > i
        <3>1. b[k - 1] + s[i] = a[k - 1] + t[i]
            BY <1>4, <2>6
        <3>2. t[k] = s[k] /\ i \in Nat /\ k \in Nat
            <4>1. k # i
                BY <2>6
            <4> QED
                BY <1>1, <4>1
        <3>3. b[k] + s[i] = a[k] + t[i]
            <4> DEFINE x == a[k - 1]
                       y == b[k - 1]
            <4> HIDE DEF x, y
            <4>1. x \in Nat /\ y \in Nat /\ y + s[i] = x + t[i] /\ a[k] = x + s[k] /\ b[k] = y + t[k]
                BY <2>1, <2>2, <3>1 DEF x, y
            <4> QED
                BY <2>3, <3>2, <4>1
        <3> QED
            BY <2>1, <2>6, <3>2, <3>3
    <2> QED
        BY <2>4, <2>5, <2>6
<1>5. 0 .. n \subseteq T
    <2> HIDE DEF T
    <2> QED
        BY <1>1, <1>3, <1>4, Counting
<1>6. n \in T
    BY <1>1, <1>5
<1> QED
    BY <1>6 DEF SumOf, a, b

LEMMA SumAtLeast ==
    ASSUME NEW words \in Seq(Word), NEW i \in 1 .. Len(words)
    PROVE  words[i] \in Nat /\ SumOf(words) >= words[i]
<1> DEFINE r == [words EXCEPT ![i] = 0]
<1>1. r \in Seq(Word) /\ Len(r) = Len(words) /\ r[i] = 0 /\ \A j \in 1 .. Len(words) : j # i => r[j] = words[j]
    BY WordType
<1> HIDE DEF r
<1>2. SumOf(r) + words[i] = SumOf(words) + 0
    BY <1>1, SumChanged
<1>3. words[i] \in Nat /\ SumOf(r) \in Nat /\ SumOf(words) \in Nat
    BY <1>1, SumBound, WordsType
<1> QED
    BY <1>2, <1>3

LEMMA SumOfFew ==
    ASSUME NEW words \in Seq(Word)
    PROVE  /\ Len(words) = 1 => SumOf(words) = words[1]
           /\ Len(words) = 2 => SumOf(words) = words[1] + words[2]
           /\ Len(words) = 3 => SumOf(words) = words[1] + words[2] + words[3]
<1> DEFINE v == Sums(words)
           n == Len(words)
<1>1. v[0] = 0 /\ \A i \in 1 .. n : v[i] = v[i - 1] + words[i] /\ words[i] \in Nat
    BY SumsAre, WordsType
<1>2. SumOf(words) = v[n] /\ n = Len(words) /\ n \in Nat
    BY DEF SumOf
<1> HIDE DEF v, n
<1>3. n >= 1 => v[1] = words[1] /\ words[1] \in Nat
    BY <1>1, <1>2
<1>4. n >= 2 => v[2] = words[1] + words[2] /\ words[2] \in Nat
    BY <1>1, <1>2, <1>3
<1>5. n >= 3 => v[3] = words[1] + words[2] + words[3]
    BY <1>1, <1>2, <1>3, <1>4
<1>6. Len(words) = 1 => SumOf(words) = words[1]
    BY <1>2, <1>3
<1>7. Len(words) = 2 => SumOf(words) = words[1] + words[2]
    BY <1>2, <1>4
<1>8. Len(words) = 3 => SumOf(words) = words[1] + words[2] + words[3]
    BY <1>2, <1>5
<1> QED
    BY <1>6, <1>7, <1>8

LEMMA SumOfTen ==
    ASSUME NEW words \in Seq(Word), Len(words) = 10
    PROVE  SumOf(words) = words[1] + words[2] + words[3] + words[4] + words[5]
                          + words[6] + words[7] + words[8] + words[9] + words[10]
<1> DEFINE v == Sums(words)
<1>1. v[0] = 0 /\ \A i \in 1 .. 10 : v[i] = v[i - 1] + words[i] /\ words[i] \in Nat
    <2>1. v[0] = 0 /\ \A i \in 1 .. Len(words) : v[i] = v[i - 1] + words[i]
        BY SumsAre
    <2>2. \A i \in 1 .. Len(words) : words[i] \in Nat
        BY WordsType
    <2> HIDE DEF v
    <2> QED
        BY <2>1, <2>2
<1>2. SumOf(words) = v[10]
    <2> DEFINE n == Len(words)
    <2>1. SumOf(words) = v[n] /\ n = 10
        BY DEF SumOf
    <2> HIDE DEF n, v
    <2> QED
        BY <2>1
<1> HIDE DEF v
<1>3. v[1] = v[0] + words[1] /\ words[1] \in Nat
    <2>1. v[1] = v[1 - 1] + words[1] /\ words[1] \in Nat
        BY <1>1
    <2> QED
        BY <2>1
<1>4. v[2] = v[1] + words[2] /\ words[2] \in Nat
    BY <1>1
<1>5. v[3] = v[2] + words[3] /\ words[3] \in Nat
    BY <1>1
<1>6. v[4] = v[3] + words[4] /\ words[4] \in Nat
    BY <1>1
<1>7. v[5] = v[4] + words[5] /\ words[5] \in Nat
    BY <1>1
<1>8. v[6] = v[5] + words[6] /\ words[6] \in Nat
    BY <1>1
<1>9. v[7] = v[6] + words[7] /\ words[7] \in Nat
    BY <1>1
<1>10. v[8] = v[7] + words[8] /\ words[8] \in Nat
    BY <1>1
<1>11. v[9] = v[8] + words[9] /\ words[9] \in Nat
    BY <1>1
<1>12. v[10] = v[9] + words[10] /\ words[10] \in Nat
    BY <1>1
<1> QED
    BY <1>1, <1>2, <1>3, <1>4, <1>5, <1>6, <1>7, <1>8, <1>9, <1>10, <1>11, <1>12

LEMMA ComplementType ==
    \A x \in Nat : Complement(x) \in Word
BY DEF Complement, Word, W

LEMMA AlsoCongruent ==
    \A a, b, x, y \in Nat : x % (W - 1) = y % (W - 1) => (a + (b + x)) % (W - 1) = (y + a + b) % (W - 1)
BY DEF W

LEMMA FoldedNot0 ==
    ASSUME NEW x \in Nat, x # 0
    PROVE  Folded(x) # 0
<1>1. Fold(x) \in Nat /\ Fold(x) # 0
    BY FoldType, FoldKeeps
<1>2. Fold(Fold(x)) \in Nat /\ Fold(Fold(x)) # 0
    BY <1>1, FoldType, FoldKeeps
<1> QED
    BY <1>2, FoldKeeps DEF Folded

LEMMA FoldedType ==
    ASSUME NEW x \in Nat
    PROVE  Folded(x) \in Nat
<1>1. Fold(Fold(x)) \in Nat
    BY FoldType
<1> QED
    BY <1>1, FoldType DEF Folded

(* A word that holds the complement of the sum of everything else. *)
LEMMA OwnSum ==
    ASSUME NEW s \in Seq(Word), NEW i \in 1 .. Len(s), s[i] = 0,
           NEW base \in Nat, base + SumOf(s) # 0, base + SumOf(s) < Wide,
           NEW t \in Seq(Word), Len(t) = Len(s), \A j \in 1 .. Len(s) : j # i => t[j] = s[j],
           t[i] = Complement(Folded(base + SumOf(s)))
    PROVE  Verifies(base + SumOf(t))
<1> DEFINE x == SumOf(s)
           y == SumOf(t)
           c == Complement(Folded(base + x))
<1>1. x \in Nat /\ y \in Nat
    BY SumBound
<1>2. y + s[i] = x + t[i]
    BY SumChanged
<1>3. Verifies((base + x) + c)
    <2> HIDE DEF x, y
    <2> QED
        BY <1>1, ThreeFoldsVerify DEF x
<1>4. c \in Nat
    <2>1. Folded(base + x) \in Nat
        <3>1. base + x \in Nat
            BY <1>1
        <3> QED
            BY <3>1, FoldedType
    <2> HIDE DEF x, y
    <2> QED
        BY <2>1, ComplementType, WordType
<1>5. base + y = (base + x) + c
    <2> HIDE DEF c, x, y
    <2>1. y + 0 = x + c
        BY <1>2 DEF c, x
    <2> QED
        BY <1>1, <1>4, <2>1
<1> QED
    BY <1>3, <1>5

LEMMA Replaced ==
    ASSUME NEW s \in Seq(Word), NEW i \in 1 .. Len(s), NEW w \in Word, NEW t, t = [s EXCEPT ![i] = w]
    PROVE  /\ t \in Seq(Word) /\ Len(t) = Len(s)
           /\ t[i] = w /\ \A j \in 1 .. Len(s) : j # i => t[j] = s[j]
OBVIOUS

\* Headers as the templates have them.
IpHeaders == {ip \in Seq(Word) : Len(ip) = 10 /\ ip[1] = 17664}

\* A header with these fields, that verifies.
Headed(h, length, v, me, them) ==
    /\ h \in IpHeaders /\ Verifies(SumOf(h))
    /\ h[2] = length /\ h[5] = v
    /\ h[7] = me[1] /\ h[8] = me[2] /\ h[9] = them[1] /\ h[10] = them[2]

(* The header of every packet that template_set_target makes. *)
LEMMA IpVerifies ==
    ASSUME NEW ip \in IpHeaders, NEW length \in Word, NEW id \in Word,
           NEW me \in Number, NEW them \in Number,
           NEW h, h = SetIp(ip, length, id, me, them)
    PROVE  Headed(h, length, ip[5], me, them)
<1> DEFINE g == [ip EXCEPT ![2] = length, ![3] = id, ![6] = 0,
                           ![7] = me[1], ![8] = me[2], ![9] = them[1], ![10] = them[2]]
           c == Complement(Folded(SumOf(g)))
<1>1. /\ me[1] \in Word /\ me[2] \in Word /\ them[1] \in Word /\ them[2] \in Word /\ 0 \in Word
      /\ ip \in Seq(Word) /\ Len(ip) = 10 /\ ip[1] = 17664
    BY WordType DEF Number, IpHeaders
<1>2. /\ g \in Seq(Word) /\ Len(g) = 10 /\ g[1] = 17664 /\ g[2] = length /\ g[5] = ip[5] /\ g[6] = 0
      /\ g[7] = me[1] /\ g[8] = me[2] /\ g[9] = them[1] /\ g[10] = them[2]
    <2>1. ip \in [1 .. 10 -> Word]
        <3>1. ip \in [1 .. Len(ip) -> Word]
            <4>1. ip \in Seq(Word)
                BY <1>1
            <4> HIDE DEF g
            <4> QED
                BY <4>1, WordsType
        <3> QED
            BY <1>1, <3>1
    <2>2. DOMAIN g = 1 .. 10
        BY <2>1
    <2>3. /\ g[1] = ip[1] /\ g[2] = length /\ g[3] = id /\ g[4] = ip[4] /\ g[5] = ip[5] /\ g[6] = 0
          /\ g[7] = me[1] /\ g[8] = me[2] /\ g[9] = them[1] /\ g[10] = them[2]
        BY <2>1
    <2>4. g = [i \in 1 .. 10 |-> g[i]]
        BY <2>1
    <2> HIDE DEF g
    <2>5. \A i \in 1 .. 10 : g[i] \in Word
        BY <1>1, <2>1, <2>3
    <2>6. g \in Seq(Word) /\ Len(g) = 10
        BY <2>4, <2>5
    <2> QED
        BY <1>1, <2>3, <2>6
<1>3. h = [g EXCEPT ![6] = c]
    BY DEF SetIp, ip_header_checksum
<1> HIDE DEF g
<1>4. SumOf(g) \in Nat /\ SumOf(g) <= 10 * (W - 1) /\ SumOf(g) >= 17664
    <2>1. g[1] \in Nat /\ SumOf(g) >= g[1]
        BY <1>2, SumAtLeast
    <2> QED
        <3>1. SumOf(g) \in Nat /\ SumOf(g) <= Len(g) * (W - 1)
            <4>1. g \in Seq(Word)
                BY <1>2
            <4> QED
                BY <4>1, SumBound
        <3> QED
            BY <1>2, <2>1, <3>1
<1>5. c \in Word
    BY <1>4, FoldedType, ComplementType
<1> HIDE DEF c
<1>6. h \in Seq(Word) /\ Len(h) = 10 /\ h[6] = c /\ \A j \in 1 .. 10 : j # 6 => h[j] = g[j]
    <2>1. g \in Seq(Word) /\ 6 \in 1 .. Len(g)
        BY <1>2
    <2>2. /\ h \in Seq(Word) /\ Len(h) = Len(g) /\ h[6] = c
          /\ \A j \in 1 .. Len(g) : j # 6 => h[j] = g[j]
        BY <1>3, <1>5, <2>1, Replaced
    <2> QED
        BY <1>2, <2>2
<1>7. Verifies(0 + SumOf(h))
    <2> DEFINE x == SumOf(g)
    <2>1. x \in Nat /\ 0 + x = x /\ x # 0 /\ x < Wide
        BY <1>4 DEF W, Wide
    <2>2. 0 + x # 0 /\ 0 + x < Wide /\ h[6] = Complement(Folded(0 + x))
        BY <1>6, <2>1 DEF c
    <2>3. 6 \in 1 .. Len(g) /\ Len(h) = Len(g) /\ 0 \in Nat /\ g[6] = 0
        BY <1>2, <1>6
    <2>4. \A j \in 1 .. Len(g) : j # 6 => h[j] = g[j]
        BY <1>2, <1>6
    <2>5. g \in Seq(Word) /\ h \in Seq(Word)
        BY <1>2, <1>6
    <2> HIDE DEF x
    <2>6. 0 + SumOf(g) # 0 /\ 0 + SumOf(g) < Wide /\ h[6] = Complement(Folded(0 + SumOf(g)))
        BY <2>2 DEF x
    <2> QED
        BY <2>3, <2>4, <2>5, <2>6, OwnSum
<1>8. 0 + SumOf(h) = SumOf(h)
    BY <1>6, SumBound
<1> QED
    BY <1>2, <1>6, <1>7, <1>8 DEF IpHeaders, Headed

Byte == {n \in Nat : n < 256}

LEMMA BytePair ==
    \A a, b \in Byte : 256 * a + b \in Word
BY DEF Byte, Word, W

LEMMA ByteOver ==
    \A a, b \in Byte : a * 256 + b \in Word /\ (a * 256 + b) % 256 = b
<1>1. \A a, b \in Byte : a * 256 + b \in Word
    BY DEF Byte, Word, W
<1>2. \A a, b \in Byte : (a * 256 + b) % 256 = b
    BY DEF Byte
<1> QED
    BY <1>1, <1>2

LEMMA WordsOfType ==
    ASSUME NEW bytes \in Seq(Byte)
    PROVE  WordsOf(bytes) \in Seq(Word) /\ Len(WordsOf(bytes)) <= Len(bytes)
<1> DEFINE n == (Len(bytes) + 1) \div 2
<1>1. n \in Nat /\ n <= Len(bytes)
    BY DEF Byte
<1>2. ASSUME NEW i \in 1 .. n
      PROVE  256 * bytes[2*i - 1] + (IF 2*i <= Len(bytes) THEN bytes[2*i] ELSE 0) \in Word
    <2>1. 2*i - 1 \in 1 .. Len(bytes)
        OBVIOUS
    <2>2. bytes[2*i - 1] \in Byte
        BY <2>1
    <2> DEFINE a == bytes[2*i - 1]
               b == IF 2*i <= Len(bytes) THEN bytes[2*i] ELSE 0
    <2>3. b \in Byte
        <3>1. 2*i <= Len(bytes) => 2*i \in 1 .. Len(bytes)
            OBVIOUS
        <3>2. 0 \in Byte
            BY DEF Byte
        <3> QED
            BY <3>1, <3>2
    <2>4. a \in Byte
        BY <2>2
    <2> HIDE DEF a, b
    <2>5. 256 * a + b \in Word
        BY <2>3, <2>4, BytePair
    <2> QED
        BY <2>5 DEF a, b
<1> QED
    BY <1>1, <1>2 DEF WordsOf

(* The templates *)

TemplateKinds == {"tcp", "udp", "sctp", "ping", "timestamp"}
Default == [tcp |-> <<40, 6>>, udp |-> <<28, 17>>, sctp |-> <<52, 132>>, ping |-> <<76, 1>>, timestamp |-> <<40, 1>>]

LEMMA DefaultIp ==
    ASSUME NEW k \in TemplateKinds
    PROVE  /\ k \in DOMAIN DefaultTemplates
           /\ DefaultTemplates[k].ip = IpHeader(Default[k][1], Default[k][2])
           /\ Default[k][1] \in Word /\ Default[k][2] \in Byte
<1>1. DOMAIN DefaultTemplates = TemplateKinds
    BY DEF TemplateKinds, DefaultTemplates
<1>2. DefaultTemplates[k].ip = IpHeader(Default[k][1], Default[k][2])
    <2>1. CASE k = "tcp"
        BY <2>1 DEF Default, DefaultTemplates, default_tcp_template
    <2>2. CASE k = "udp"
        BY <2>2 DEF Default, DefaultTemplates, default_udp_template
    <2>3. CASE k = "sctp"
        BY <2>3 DEF Default, DefaultTemplates, default_sctp_template
    <2>4. CASE k = "ping"
        BY <2>4 DEF Default, DefaultTemplates, default_icmp_ping_template
    <2>5. CASE k = "timestamp"
        BY <2>5 DEF Default, DefaultTemplates, default_icmp_timestamp_template
    <2> QED
        BY <2>1, <2>2, <2>3, <2>4, <2>5 DEF TemplateKinds
<1>3. Default[k][1] \in Word /\ Default[k][2] \in Byte
    <2>1. Default[k][1] \in {40, 28, 52, 76} /\ Default[k][2] \in {6, 17, 132, 1}
        BY DEF TemplateKinds, Default
    <2> QED
        <3> DEFINE a == Default[k][1]
                   b == Default[k][2]
        <3> HIDE DEF a, b
        <3>1. a \in {40, 28, 52, 76} /\ b \in {6, 17, 132, 1}
            BY <2>1 DEF a, b
        <3>2. a \in Word
            BY <3>1, WordIs
        <3>3. b \in Byte
            BY <3>1 DEF Byte
        <3> QED
            BY <3>2, <3>3 DEF a, b
<1> QED
    BY <1>1, <1>2, <1>3

Blank(ip) == ip[3] = 0 /\ ip[6] = 0 /\ ip[7] = 0 /\ ip[8] = 0 /\ ip[9] = 0 /\ ip[10] = 0

LEMMA BlankIp ==
    ASSUME NEW k \in TemplateKinds
    PROVE  LET ip == _template_init(k).ip IN
           /\ ip \in IpHeaders /\ Blank(ip)
           /\ ip[2] = Default[k][1] /\ ip[5] % 256 = Default[k][2]
<1> DEFINE d == IpHeader(Default[k][1], Default[k][2])
           ip == [i \in 1 .. 10 |-> IF i \in {3, 6, 7, 8, 9, 10} THEN 0 ELSE d[i]]
<1>1. _template_init(k).ip = ip
    BY DefaultIp DEF _template_init
<1>2. /\ d[1] = 17664 /\ d[2] = Default[k][1] /\ d[4] = 0 /\ d[5] = 255 * 256 + Default[k][2]
    BY DEF IpHeader
<1> HIDE DEF d
<1>3. /\ ip[1] = 17664 /\ ip[2] = Default[k][1] /\ ip[3] = 0 /\ ip[4] = 0
      /\ ip[5] = 255 * 256 + Default[k][2]
      /\ ip[6] = 0 /\ ip[7] = 0 /\ ip[8] = 0 /\ ip[9] = 0 /\ ip[10] = 0
    BY <1>2
<1>4. \A i \in 1 .. 10 : ip[i] \in Word
    <2>1. 17664 \in Word /\ 0 \in Word /\ Default[k][1] \in Word /\ 255 * 256 + Default[k][2] \in Word
        <3>1. Default[k][1] \in Word /\ Default[k][2] \in Byte
            BY DefaultIp
        <3>2. 256 * 255 + Default[k][2] \in Word
            BY <3>1, BytePair DEF Byte
        <3> QED
            <4>1. 256 * 255 + Default[k][2] = 255 * 256 + Default[k][2]
                OBVIOUS
            <4>2. 17664 \in Word /\ 0 \in Word
                BY DEF Word, W
            <4> QED
                BY <3>1, <3>2, <4>1, <4>2
    <2> HIDE DEF ip
    <2> QED
        BY <1>3, <2>1
<1>5. ip \in Seq(Word) /\ Len(ip) = 10
    BY <1>4
<1>6. ip[5] % 256 = Default[k][2]
    BY <1>3, DefaultIp DEF Byte
<1> HIDE DEF ip
<1> QED
    BY <1>1, <1>3, <1>5, <1>6 DEF IpHeaders, Blank

LEMMA TemplateIs ==
    ASSUME NEW mac, NEW ttl \in Byte, NEW k \in TemplateKinds, NEW t, t = template_packet_init(mac, ttl).pkts[k]
    PROVE  /\ t.tp = _template_init(k).tp /\ t.checksum_tcp = _template_init(k).checksum_tcp
           /\ t.ip \in IpHeaders /\ Blank(t.ip) /\ t.checksum_ip = Folded(SumOf(t.ip))
           /\ t.ip[2] = Default[k][1] /\ t.ip[5] % 256 = Default[k][2]
<1> DEFINE u == _template_init(k)
<1>1. /\ u.ip \in IpHeaders /\ Blank(u.ip) /\ u.ip[2] = Default[k][1] /\ u.ip[5] % 256 = Default[k][2]
    BY BlankIp
<1>2. u.checksum_ip = Folded(SumOf(u.ip))
    BY DEF _template_init, ip_header_checksum
<1>3. t = IF ttl = 0 THEN u ELSE template_set_ttl(u, ttl)
    BY DefaultIp DEF template_packet_init
<1>4. CASE ttl = 0
    BY <1>1, <1>2, <1>3, <1>4
<1>5. CASE ttl # 0
    <2> DEFINE w == ttl * 256 + (u.ip[5] % 256)
               ip == [u.ip EXCEPT ![5] = w]
    <2>1. t = [u EXCEPT !.ip = ip, !.checksum_ip = Folded(SumOf(ip))]
        BY <1>3, <1>5 DEF template_set_ttl, ip_header_checksum
    <2>2. t.tp = u.tp /\ t.checksum_tcp = u.checksum_tcp /\ t.ip = ip /\ t.checksum_ip = Folded(SumOf(ip))
        BY <2>1 DEF _template_init
    <2>3. w \in Word /\ w % 256 = Default[k][2]
        <3> DEFINE r == u.ip[5] % 256
        <3>1. r \in Byte
            BY <1>1, DefaultIp
        <3> HIDE DEF r
        <3>2. ttl * 256 + r \in Word /\ (ttl * 256 + r) % 256 = r
            BY <3>1, ByteOver
        <3> QED
            BY <1>1, <3>2 DEF r
    <2> HIDE DEF w
    <2>4. u.ip \in Seq(Word) /\ Len(u.ip) = 10 /\ u.ip[1] = 17664 /\ 5 \in 1 .. Len(u.ip)
        BY <1>1 DEF IpHeaders
    <2>5. /\ ip \in Seq(Word) /\ Len(ip) = Len(u.ip) /\ ip[5] = w
          /\ \A j \in 1 .. Len(u.ip) : j # 5 => ip[j] = u.ip[j]
        <3> HIDE DEF u
        <3> QED
            BY <2>3, <2>4, Replaced
    <2> HIDE DEF ip, u
    <2>6. ip \in IpHeaders /\ Blank(ip) /\ ip[2] = Default[k][1]
        BY <1>1, <2>4, <2>5 DEF IpHeaders, Blank
    <2> QED
        BY <2>2, <2>3, <2>5, <2>6 DEF u
<1> QED
    BY <1>4, <1>5

LEMMA Joined ==
    ASSUME NEW S, NEW s \in Seq(S), NEW t \in Seq(S)
    PROVE  /\ s \o t \in Seq(S) /\ Len(s \o t) = Len(s) + Len(t)
           /\ \A i \in 1 .. Len(s) : (s \o t)[i] = s[i]
           /\ \A i \in 1 .. Len(t) : (s \o t)[Len(s) + i] = t[i]
OBVIOUS

LEMMA TcpTemplate ==
    LET u == _template_init("tcp") IN
    /\ u.tp \in [1 .. 10 -> Nat] /\ u.tp[5] = 0 /\ u.tp[6] = 0 /\ u.tp[7] = 20482 /\ u.tp[8] = 1024 /\ u.tp[10] = 0
    /\ u.tp \in Seq(Word) /\ Len(u.tp) = 10
    /\ u.checksum_tcp = 21532
<1> DEFINE u == _template_init("tcp")
           d == <<0, 0, 0, 0, 0, 0, 20482, 1024, 65535, 0>>
           tp == [i \in 1 .. 10 |-> IF i \in {1, 2, 3, 4, 9} THEN 0 ELSE d[i]]
<1>1. u.tp = tp
    BY DEF _template_init, DefaultTemplates, default_tcp_template
<1>2. u.checksum_tcp = tcp_checksum2(u.ip, u.tp, 2 * Len(u.tp))
    BY DEF _template_init, DefaultTemplates, default_tcp_template
<1>3. /\ tp[1] = 0 /\ tp[2] = 0 /\ tp[3] = 0 /\ tp[4] = 0 /\ tp[5] = 0 /\ tp[6] = 0
      /\ tp[7] = 20482 /\ tp[8] = 1024 /\ tp[9] = 0 /\ tp[10] = 0
    OBVIOUS
<1>4. tp = [i \in 1 .. 10 |-> tp[i]]
    OBVIOUS
<1>5. 0 \in Word /\ 20482 \in Word /\ 1024 \in Word
    BY WordIs
<1> HIDE DEF tp, u
<1>6. \A i \in 1 .. 10 : tp[i] \in Word
    BY <1>3, <1>5
<1>7. tp \in Seq(Word) /\ Len(tp) = 10
    BY <1>4, <1>6
<1>8. SumOf(tp) = 21506
    <2>1. SumOf(tp) = tp[1] + tp[2] + tp[3] + tp[4] + tp[5] + tp[6] + tp[7] + tp[8] + tp[9] + tp[10]
        BY <1>7, SumOfTen
    <2> QED
        BY <1>3, <2>1
<1>9. u.ip[7] = 0 /\ u.ip[8] = 0 /\ u.ip[9] = 0 /\ u.ip[10] = 0
    BY BlankIp DEF u, TemplateKinds, Blank
<1>10. PseudoSum(6, u.ip, u.tp, 2 * Len(u.tp)) = 21532
    BY <1>1, <1>7, <1>8, <1>9 DEF PseudoSum
<1>11. Folded(21532) = 21532
    BY DEF Folded, Fold, W
<1>12. u.checksum_tcp = 21532
    BY <1>2, <1>10, <1>11 DEF tcp_checksum2
<1>13. tp \in [1 .. 10 -> Nat]
    BY <1>4, <1>6, WordType
<1> QED
    BY <1>1, <1>3, <1>7, <1>12, <1>13 DEF u

LEMMA IcmpTemplate ==
    ASSUME NEW k \in {"ping", "timestamp"}
    PROVE  LET u == _template_init(k) IN
           /\ u.tp \in Seq(Word) /\ Len(u.tp) \in Nat /\ 4 <= Len(u.tp) /\ Len(u.tp) <= 28
           /\ u.tp[1] # 0 /\ u.tp[2] = 0 /\ u.tp[3] = 0 /\ u.tp[4] = 0
           /\ u.checksum_tcp = Folded(SumOf(u.tp))
<1> DEFINE u == _template_init(k)
<1>1. u.tp = DefaultTemplates[k].tp /\ u.checksum_tcp = Folded(SumOf(u.tp))
    BY DEF _template_init, icmp_checksum2
<1>2. 0 \in Word /\ 2048 \in Word /\ 3328 \in Word
    BY WordIs
<1>3. CASE k = "ping"
    <2> DEFINE a == <<2048, 0, 0, 0>>
               b == [i \in 1 .. 24 |-> 257 * (6 + 2*i) + 1]
    <2>1. u.tp = a \o b
        BY <1>1, <1>3 DEF DefaultTemplates, default_icmp_ping_template
    <2>2. a \in Seq(Word) /\ Len(a) = 4 /\ a[1] = 2048 /\ a[2] = 0 /\ a[3] = 0 /\ a[4] = 0
        BY <1>2
    <2>3. ASSUME NEW i \in 1 .. 24 PROVE 257 * (6 + 2*i) + 1 \in Word
        <3>1. i \in Int /\ 1 <= i /\ i <= 24
            OBVIOUS
        <3>2. 257 * (6 + 2*i) + 1 \in Int /\ 0 <= 257 * (6 + 2*i) + 1 /\ 257 * (6 + 2*i) + 1 <= 65535
            BY <3>1
        <3> QED
            BY <3>2, WordIs
    <2>4. b \in Seq(Word) /\ Len(b) = 24
        BY <2>3
    <2> HIDE DEF a, b, u
    <2>5. u.tp \in Seq(Word) /\ Len(u.tp) = 28 /\ \A i \in 1 .. 4 : u.tp[i] = a[i]
        <3>1. a \in Seq(Word) /\ b \in Seq(Word)
            BY <2>2, <2>4
        <3>2. /\ a \o b \in Seq(Word) /\ Len(a \o b) = Len(a) + Len(b)
              /\ \A i \in 1 .. Len(a) : (a \o b)[i] = a[i]
            BY <3>1, Joined
        <3> DEFINE c == a \o b
                   l == Len(a)
                   m == Len(b)
                   n == Len(c)
        <3>3. l = 4 /\ m = 24 /\ n = l + m
            BY <2>2, <2>4, <3>2
        <3>4. c \in Seq(Word) /\ u.tp = c /\ \A i \in 1 .. l : c[i] = a[i]
            BY <2>1, <3>2
        <3> HIDE DEF c, l, m, n
        <3>5. n = 28
            BY <3>3
        <3>6. u.tp \in Seq(Word) /\ \A i \in 1 .. 4 : u.tp[i] = a[i]
            BY <3>3, <3>4
        <3>7. Len(u.tp) = n
            BY <3>4 DEF n
        <3> QED
            BY <3>5, <3>6, <3>7
    <2>7. u.tp[1] = 2048 /\ u.tp[2] = 0 /\ u.tp[3] = 0 /\ u.tp[4] = 0
        BY <2>2, <2>5
    <2> QED
        BY <1>1, <2>5, <2>7 DEF u
<1>4. CASE k = "timestamp"
    <2> DEFINE a == <<3328, 0, 0, 0, 0, 0, 0, 0, 0, 0>>
    <2>1. u.tp = a
        BY <1>1, <1>4 DEF DefaultTemplates, default_icmp_timestamp_template
    <2>2. a \in Seq(Word) /\ Len(a) = 10 /\ a[1] = 3328 /\ a[2] = 0 /\ a[3] = 0 /\ a[4] = 0
        BY <1>2
    <2> HIDE DEF a, u
    <2> QED
        BY <1>1, <2>1, <2>2 DEF u
<1> QED
    BY <1>3, <1>4

LEMMA UdpTemplate ==
    LET u == _template_init("udp") IN u.tp \in Seq(Word) /\ Len(u.tp) = 4
<1>1. _template_init("udp").tp = <<65244, 0, 8, 0>>
    BY DEF _template_init, DefaultTemplates, default_udp_template
<1>2. 0 \in Word /\ 65244 \in Word /\ 8 \in Word
    BY WordIs
<1> DEFINE a == <<65244, 0, 8, 0>>
<1>3. a \in Seq(Word) /\ Len(a) = 4
    BY <1>2
<1> HIDE DEF a
<1>4. _template_init("udp").tp = a
    BY <1>1 DEF a
<1> QED
    BY <1>3, <1>4

LEMMA SctpTemplate ==
    LET u == _template_init("sctp") IN u.tp \in Seq(Word) /\ Len(u.tp) = 16
<1> DEFINE a == <<0, 0, 0, 0, 22756, 23862, 256, 20, 40589, 21029, 0, 32768, 10, 2048, 17946, 57151>>
<1>1. _template_init("sctp").tp = a
    BY DEF _template_init, DefaultTemplates, default_sctp_template
<1>2. a \in Seq(Word) /\ Len(a) = 16
    BY DEF Word, W
<1> HIDE DEF a
<1> QED
    BY <1>1, <1>2

(* Sums of numbers *)

LEMMA FewSums ==
    /\ \A x \in Word : SumOf(<<x>>) = x
    /\ \A x, y \in Word : SumOf(<<x, y>>) = x + y
    /\ \A x, y, z \in Word : SumOf(<<x, y, z>>) = x + y + z
<1>1. ASSUME NEW x \in Word PROVE SumOf(<<x>>) = x
    <2>1. <<x>> \in Seq(Word) /\ Len(<<x>>) = 1 /\ <<x>>[1] = x
        OBVIOUS
    <2> QED
        BY <2>1, SumOfFew
<1>2. ASSUME NEW x \in Word, NEW y \in Word PROVE SumOf(<<x, y>>) = x + y
    <2> DEFINE v == <<x, y>>
    <2>1. v \in Seq(Word) /\ Len(v) = 2 /\ v[1] = x /\ v[2] = y
        OBVIOUS
    <2> HIDE DEF v
    <2>2. SumOf(v) = v[1] + v[2]
        BY <2>1, SumOfFew
    <2> QED
        BY <2>1, <2>2 DEF v
<1>3. ASSUME NEW x \in Word, NEW y \in Word, NEW z \in Word PROVE SumOf(<<x, y, z>>) = x + y + z
    <2> DEFINE v == <<x, y, z>>
    <2>1. v \in Seq(Word) /\ Len(v) = 3 /\ v[1] = x /\ v[2] = y /\ v[3] = z
        OBVIOUS
    <2> HIDE DEF v
    <2>2. SumOf(v) = v[1] + v[2] + v[3]
        BY <2>1, SumOfFew
    <2> QED
        BY <2>1, <2>2 DEF v
<1> QED
    BY <1>1, <1>2, <1>3

LEMMA WideSum ==
    ASSUME NEW w, NEW v, NEW h \in Nat, NEW l \in Nat, NEW m \in Nat,
           SumOf([i \in 1 .. Len(w) |-> w[i][1]]) = h, SumOf([i \in 1 .. Len(w) |-> w[i][2]]) = l, SumOf(v) = m
    PROVE  FoldWide(w, v) = h + Fold(l + m)
<1>1. FoldWide(w, v) = h + ((l + m) \div W) + ((l + m) % W)
    BY DEF FoldWide
<1>2. l + m \in Nat
    OBVIOUS
<1> DEFINE x == (l + m) \div W
           y == (l + m) % W
<1>3. Fold(l + m) = x + y /\ x \in Nat /\ y \in Nat
    BY <1>2 DEF Fold, W
<1> HIDE DEF x, y
<1>4. h + (x + y) = h + x + y
    BY <1>3
<1> QED
    BY <1>1, <1>3, <1>4 DEF x, y

LEMMA NumberType ==
    ASSUME NEW a \in Number
    PROVE  /\ a[1] \in Word /\ a[2] \in Word /\ a[1] \in Nat /\ a[2] \in Nat /\ a[1] < W /\ a[2] < W
BY WordType DEF Number

LEMMA WideOfOne ==
    ASSUME NEW a \in Number, NEW d \in Word
    PROVE  FoldWide(<<a>>, <<d>>) = a[1] + Fold(a[2] + d)
<1> DEFINE w == <<a>>
           v == <<d>>
<1>1. [i \in 1 .. Len(w) |-> w[i][1]] = <<a[1]>> /\ [i \in 1 .. Len(w) |-> w[i][2]] = <<a[2]>>
    OBVIOUS
<1>2. a[1] \in Nat /\ a[2] \in Nat /\ d \in Nat
    BY NumberType, WordType
<1>3. SumOf([i \in 1 .. Len(w) |-> w[i][1]]) = a[1] /\ SumOf([i \in 1 .. Len(w) |-> w[i][2]]) = a[2]
    BY <1>1, NumberType, FewSums
<1>4. SumOf(v) = d
    BY FewSums
<1> HIDE DEF w, v
<1>5. FoldWide(w, v) = a[1] + Fold(a[2] + d)
    BY <1>2, <1>3, <1>4, WideSum
<1> QED
    BY <1>5 DEF w, v

LEMMA WideOfTwo ==
    ASSUME NEW a \in Number, NEW b \in Number, NEW d \in Word, NEW e \in Word, NEW f \in Word
    PROVE  FoldWide(<<a, b>>, <<d, e, f>>) = (a[1] + b[1]) + Fold(a[2] + b[2] + (d + e + f))
<1> DEFINE w == <<a, b>>
           v == <<d, e, f>>
<1>1. /\ [i \in 1 .. Len(w) |-> w[i][1]] = <<a[1], b[1]>>
      /\ [i \in 1 .. Len(w) |-> w[i][2]] = <<a[2], b[2]>>
    OBVIOUS
<1>2. a[1] + b[1] \in Nat /\ a[2] + b[2] \in Nat /\ d + e + f \in Nat
    BY NumberType, WordType
<1>3. /\ SumOf([i \in 1 .. Len(w) |-> w[i][1]]) = a[1] + b[1]
      /\ SumOf([i \in 1 .. Len(w) |-> w[i][2]]) = a[2] + b[2]
    BY <1>1, NumberType, FewSums
<1>4. SumOf(v) = d + e + f
    BY FewSums
<1> HIDE DEF w, v
<1>5. FoldWide(w, v) = (a[1] + b[1]) + Fold(a[2] + b[2] + (d + e + f))
    BY <1>2, <1>3, <1>4, WideSum
<1> QED
    BY <1>5 DEF w, v

LEMMA WideOfThree ==
    ASSUME NEW a \in Number, NEW b \in Number, NEW c \in Number, NEW d \in Word, NEW e \in Word, NEW f \in Word
    PROVE  FoldWide(<<a, b, c>>, <<d, e, f>>) = (a[1] + b[1] + c[1]) + Fold(a[2] + b[2] + c[2] + (d + e + f))
<1> DEFINE w == <<a, b, c>>
           v == <<d, e, f>>
<1>1. /\ [i \in 1 .. Len(w) |-> w[i][1]] = <<a[1], b[1], c[1]>>
      /\ [i \in 1 .. Len(w) |-> w[i][2]] = <<a[2], b[2], c[2]>>
    OBVIOUS
<1>2. a[1] + b[1] + c[1] \in Nat /\ a[2] + b[2] + c[2] \in Nat /\ d + e + f \in Nat
    BY NumberType, WordType
<1>3. /\ SumOf([i \in 1 .. Len(w) |-> w[i][1]]) = a[1] + b[1] + c[1]
      /\ SumOf([i \in 1 .. Len(w) |-> w[i][2]]) = a[2] + b[2] + c[2]
    BY <1>1, NumberType, FewSums
<1>4. SumOf(v) = d + e + f
    BY FewSums
<1> HIDE DEF w, v
<1>5. FoldWide(w, v) = (a[1] + b[1] + c[1]) + Fold(a[2] + b[2] + c[2] + (d + e + f))
    BY <1>2, <1>3, <1>4, WideSum
<1> QED
    BY <1>5 DEF w, v

(* The complement of numbers added up and folded, in a sum s of as much. *)
LEMMA PartialVerifies ==
    ASSUME NEW high \in Nat, NEW low \in Nat, high < 4 * W, low < 16 * W, high + low # 0,
           NEW s \in Nat, s # 0, (high + low) % (W - 1) = s % (W - 1),
           NEW x, x = high + Fold(low)
    PROVE  /\ Verifies(s + Complement(Fold(Fold(x))))
           /\ Verifies(s + Complement(Fold(x))) <=> Fold(x) < W
<1>1. x \in Nat /\ x < 16 * W /\ x # 0
    BY DEF Fold, W
<1>2. x % (W - 1) = s % (W - 1)
    BY DEF Fold, W
<1> DEFINE f == Fold(x)
<1>3. f \in Nat /\ f # 0 /\ f % (W - 1) = s % (W - 1) /\ f < W + 16
    <2>1. f < W + 16
        BY <1>1 DEF Fold, W
    <2> QED
        BY <1>1, <1>2, <2>1, FoldType, FoldKeeps
<1> HIDE DEF f
<1>4. Fold(f) \in Nat /\ Fold(f) < W /\ Fold(f) % (W - 1) = s % (W - 1)
    <2>1. Fold(f) < W
        BY <1>3 DEF Fold, W
    <2> QED
        BY <1>3, <2>1, FoldType, FoldKeeps
<1>5. Verifies(s + Complement(Fold(f)))
    BY <1>4, ComplementVerifies
<1>6. CASE f < W
    BY <1>3, <1>5, <1>6, ComplementVerifies DEF f
<1>7. CASE f >= W
    <2>1. f = W + (f % W) /\ (f % W) \in 0 .. 15
        BY <1>3, <1>7 DEF W
    <2>2. s % (W - 1) = 1 + (f % W)
        BY <1>3, <2>1 DEF W
    <2>3. (s + Complement(f)) % (W - 1) = 1
        BY <2>1, <2>2 DEF Complement, W
    <2>4. ~ Verifies(s + Complement(f))
        BY <2>3 DEF Verifies
    <2>5. ~ (f < W)
        BY <1>3, <1>7 DEF W
    <2> QED
        BY <1>5, <2>4, <2>5 DEF f
<1> QED
    BY <1>3, <1>6, <1>7 DEF W

LEMMA NoData ==
    ASSUME NEW tp \in Seq(Word)
    PROVE  tp \o WordsOf(<<>>) = tp /\ Len(<<>>) = 0
<1> DEFINE none == WordsOf(<<>>)
<1>1. none \in Seq(Word) /\ Len(none) = 0
    BY DEF WordsOf
<1> HIDE DEF none
<1>2. /\ tp \o none \in Seq(Word) /\ Len(tp \o none) = Len(tp) + Len(none)
      /\ \A i \in 1 .. Len(tp) : (tp \o none)[i] = tp[i]
    BY <1>1, Joined
<1> DEFINE u == tp \o none
<1>3. u \in Seq(Word) /\ Len(u) = Len(tp) /\ \A i \in 1 .. Len(tp) : u[i] = tp[i]
    BY <1>1, <1>2
<1> HIDE DEF u
<1>4. u = tp
    BY <1>3
<1> QED
    BY <1>4 DEF u, none

(* The checksum of a TCP probe goes on from the template's. *)
LEMMA TcpProbeVerifies ==
    ASSUME NEW t, t.tp = _template_init("tcp").tp, t.checksum_tcp = _template_init("tcp").checksum_tcp,
           NEW them \in Number, NEW port \in Word, NEW me \in Number, NEW sport \in Word, NEW seqno \in Number,
           NEW ip, NEW length, NEW v5, Headed(ip, length, v5, me, them),
           NEW tp, tp = TcpProbe(t, them, port, me, sport, seqno)
    PROVE  tp \in Seq(Word) /\ Len(tp) = 10 /\ Verifies(PseudoSum(6, ip, tp, 20))
<1> DEFINE high == me[1] + them[1] + seqno[1]
           low == me[2] + them[2] + seqno[2] + (21532 + sport + port)
           x == high + Fold(low)
           c == Complement(Fold(Fold(x)))
           v == _template_init("tcp").tp
<1>1. /\ v \in [1 .. 10 -> Nat] /\ v[5] = 0 /\ v[6] = 0 /\ v[7] = 20482 /\ v[8] = 1024 /\ v[10] = 0
      /\ t.tp = v /\ t.checksum_tcp = 21532
    BY TcpTemplate
<1>2. /\ them[1] \in Word /\ them[2] \in Word /\ me[1] \in Word /\ me[2] \in Word
      /\ seqno[1] \in Word /\ seqno[2] \in Word /\ 21532 \in Word
    BY WordIs DEF Number
<1>3. FoldWide(<<me, them, seqno>>, <<t.checksum_tcp, sport, port>>) = x
    <2> DEFINE n == 21532
    <2>1. n \in Word
        BY <1>2
    <2> HIDE DEF n
    <2>2. FoldWide(<<me, them, seqno>>, <<n, sport, port>>)
            = (me[1] + them[1] + seqno[1]) + Fold(me[2] + them[2] + seqno[2] + (n + sport + port))
        BY <2>1, WideOfThree
    <2> QED
        BY <1>1, <2>2 DEF n
<1>4. tp = [v EXCEPT ![1] = sport, ![2] = port, ![3] = seqno[1], ![4] = seqno[2], ![9] = c]
    BY <1>1, <1>3 DEF TcpProbe
<1>5. /\ them[1] \in Nat /\ them[2] \in Nat /\ me[1] \in Nat /\ me[2] \in Nat
      /\ seqno[1] \in Nat /\ seqno[2] \in Nat /\ sport \in Nat /\ port \in Nat
      /\ them[1] < W /\ them[2] < W /\ me[1] < W /\ me[2] < W
      /\ seqno[1] < W /\ seqno[2] < W /\ sport < W /\ port < W
    BY <1>2, WordType
<1>6. high \in Nat /\ low \in Nat /\ high < 4 * W /\ low < 16 * W /\ high + low # 0 /\ high + low \in Nat
    BY <1>5 DEF W
<1>7. c \in Word
    <2> HIDE DEF high, low
    <2>1. Fold(Fold(x)) \in Nat
        BY <1>6, FoldType
    <2> QED
        BY <2>1, ComplementType
<1>8. Verifies((high + low) + c)
    <2> HIDE DEF high, low, x
    <2>1. x = high + Fold(low)
        BY DEF x
    <2>2. Verifies((high + low) + Complement(Fold(Fold(x))))
        BY <1>6, <2>1, PartialVerifies
    <2> QED
        BY <2>2
<1> HIDE DEF c
<1>9. /\ tp[1] = sport /\ tp[2] = port /\ tp[3] = seqno[1] /\ tp[4] = seqno[2] /\ tp[5] = 0 /\ tp[6] = 0
      /\ tp[7] = 20482 /\ tp[8] = 1024 /\ tp[9] = c /\ tp[10] = 0
      /\ tp = [i \in 1 .. 10 |-> tp[i]]
    <2> HIDE DEF v, high, low, x
    <2>1. v \in [1 .. 10 -> Nat]
        BY <1>1
    <2>2. /\ tp[1] = sport /\ tp[2] = port /\ tp[3] = seqno[1] /\ tp[4] = seqno[2] /\ tp[9] = c
          /\ tp[5] = v[5] /\ tp[6] = v[6] /\ tp[7] = v[7] /\ tp[8] = v[8] /\ tp[10] = v[10]
        BY <1>4, <2>1
    <2>3. tp = [i \in 1 .. 10 |-> tp[i]]
        BY <1>4, <2>1
    <2> QED
        BY <1>1, <2>2, <2>3
<1>10. tp \in Seq(Word) /\ Len(tp) = 10
    <2>1. 0 \in Word /\ 20482 \in Word /\ 1024 \in Word
        BY WordIs
    <2>2. \A i \in 1 .. 10 : tp[i] \in Word
        BY <1>2, <1>7, <1>9, <2>1
    <2> QED
        BY <1>9, <2>2
<1>11. SumOf(tp) = sport + port + seqno[1] + seqno[2] + 21506 + c
    <2>1. SumOf(tp) = tp[1] + tp[2] + tp[3] + tp[4] + tp[5] + tp[6] + tp[7] + tp[8] + tp[9] + tp[10]
        BY <1>10, SumOfTen
    <2>2. c \in Nat
        BY <1>7, WordType
    <2> QED
        BY <1>5, <1>9, <2>1, <2>2
<1>12. PseudoSum(6, ip, tp, 20) = (high + low) + c
    <2>1. PseudoSum(6, ip, tp, 20) = 6 + 20 + me[1] + me[2] + them[1] + them[2] + SumOf(tp)
        BY DEF PseudoSum, Headed
    <2>2. c \in Nat
        BY <1>7, WordType
    <2> DEFINE y == SumOf(tp)
               z == PseudoSum(6, ip, tp, 20)
    <2>3. /\ z = 6 + 20 + me[1] + me[2] + them[1] + them[2] + y
          /\ y = sport + port + seqno[1] + seqno[2] + 21506 + c
        BY <1>11, <2>1
    <2> HIDE DEF y, z
    <2>4. z = (high + low) + c
        BY <1>5, <2>2, <2>3
    <2> QED
        BY <2>4 DEF z
<1> QED
    BY <1>8, <1>10, <1>12

LEMMA IcmpProbeVerifies ==
    ASSUME NEW k \in {"ping", "timestamp"}, NEW t, t.tp = _template_init(k).tp,
           t.checksum_tcp = _template_init(k).checksum_tcp, NEW number \in Number,
           NEW tp, tp = IcmpProbe(t, number)
    PROVE  tp \in Seq(Word) /\ Len(tp) = Len(t.tp) /\ Verifies(SumOf(tp))
<1> DEFINE v == _template_init(k).tp
           d == Folded(SumOf(v))
           x == number[1] + Fold(number[2] + d)
           c == Complement(Fold(Fold(x)))
           v3 == [v EXCEPT ![3] = number[1]]
           v4 == [v3 EXCEPT ![4] = number[2]]
           s == SumOf(v) + number[1] + number[2]
<1>1. /\ v \in Seq(Word) /\ Len(v) \in Nat /\ 4 <= Len(v) /\ Len(v) <= 28
      /\ v[1] # 0 /\ v[2] = 0 /\ v[3] = 0 /\ v[4] = 0
      /\ t.tp = v /\ t.checksum_tcp = d
    BY IcmpTemplate
<1>2. number[1] \in Word /\ number[2] \in Word
    BY DEF Number
<1>3. tp = [v EXCEPT ![3] = number[1], ![4] = number[2], ![2] = Complement(Fold(Fold(FoldWide(<<number>>, <<d>>))))]
    BY <1>1 DEF IcmpProbe
<1> HIDE DEF v
<1>4. SumOf(v) \in Nat /\ SumOf(v) # 0 /\ SumOf(v) < Wide
    <2>1. v \in Seq(Word) /\ 1 \in 1 .. Len(v) /\ Len(v) \in Nat /\ Len(v) <= 28
        <3>1. Len(v) \in Nat /\ 4 <= Len(v)
            BY <1>1
        <3>2. 1 \in 1 .. Len(v)
            BY <3>1
        <3> QED
            BY <1>1, <3>2
    <2>2. v[1] \in Nat /\ SumOf(v) >= v[1] /\ SumOf(v) \in Nat /\ SumOf(v) <= Len(v) * (W - 1)
        BY <2>1, SumAtLeast, SumBound
    <2> QED
        BY <1>1, <2>1, <2>2 DEF W, Wide
<1>5. d \in Word /\ d \in Nat /\ d % (W - 1) = SumOf(v) % (W - 1)
    BY <1>4, FoldedKeeps, FoldBounds DEF Word
<1> HIDE DEF d
<1>6. FoldWide(<<number>>, <<d>>) = x
    BY <1>5, WideOfOne
<1>7. number[1] \in Nat /\ number[1] < W /\ number[2] \in Nat /\ number[2] < W /\ d < W
    BY <1>2, <1>5, WordType
<1>8. c \in Word /\ Verifies(s + c)
    <2> DEFINE high == number[1]
               low == number[2] + d
    <2>1. high \in Nat /\ low \in Nat /\ high < 4 * W /\ low < 16 * W
        BY <1>5, <1>7 DEF W
    <2>2. s \in Nat /\ s # 0
        BY <1>4, <1>7
    <2>3. (high + low) % (W - 1) = s % (W - 1)
        <3> DEFINE y == SumOf(v)
        <3>1. y \in Nat /\ d % (W - 1) = y % (W - 1) /\ s = y + number[1] + number[2]
            BY <1>4, <1>5
        <3> HIDE DEF y, s
        <3> QED
            BY <1>5, <1>7, <3>1, AlsoCongruent
    <2>4. high + low # 0
        <3>1. d # 0
            BY <1>4, FoldedNot0 DEF d
        <3> QED
            BY <1>5, <1>7, <3>1
    <2>5. x = high + Fold(low)
        OBVIOUS
    <2> HIDE DEF high, low, s, x
    <2>6. Verifies(s + Complement(Fold(Fold(x))))
        BY <2>1, <2>2, <2>3, <2>4, <2>5, PartialVerifies
    <2>7. Fold(Fold(x)) \in Nat
        BY <2>1, <2>5, FoldType
    <2> QED
        BY <2>6, <2>7, ComplementType
<1>9. tp = [v4 EXCEPT ![2] = c]
    BY <1>3, <1>6
<1> HIDE DEF c
<1>10. 3 \in 1 .. Len(v) /\ 4 \in 1 .. Len(v) /\ 2 \in 1 .. Len(v) /\ v \in Seq(Word)
    BY <1>1
<1>11. /\ v3 \in Seq(Word) /\ Len(v3) = Len(v) /\ v3[3] = number[1]
       /\ \A j \in 1 .. Len(v) : j # 3 => v3[j] = v[j]
    BY <1>2, <1>10, Replaced
<1> HIDE DEF v3
<1>12. SumOf(v3) + v[3] = SumOf(v) + v3[3]
    BY <1>10, <1>11, SumChanged
<1>13. /\ v4 \in Seq(Word) /\ Len(v4) = Len(v) /\ v4[4] = number[2]
       /\ \A j \in 1 .. Len(v3) : j # 4 => v4[j] = v3[j]
    <2>1. 4 \in 1 .. Len(v3) /\ v3 \in Seq(Word)
        BY <1>10, <1>11
    <2> QED
        BY <1>2, <1>11, <2>1, Replaced
<1> HIDE DEF v4
<1>14. SumOf(v4) + v3[4] = SumOf(v3) + v4[4]
    BY <1>10, <1>11, <1>13, SumChanged
<1>15. /\ tp \in Seq(Word) /\ Len(tp) = Len(v) /\ tp[2] = c
       /\ \A j \in 1 .. Len(v4) : j # 2 => tp[j] = v4[j]
    <2>1. 2 \in 1 .. Len(v4) /\ v4 \in Seq(Word)
        BY <1>10, <1>13
    <2> QED
        BY <1>8, <1>9, <1>13, <2>1, Replaced
<1>16. SumOf(tp) + v4[2] = SumOf(v4) + tp[2]
    BY <1>10, <1>13, <1>15, SumChanged
<1>17. v3[4] = 0 /\ v4[2] = 0
    BY <1>1, <1>10, <1>11, <1>13
<1>18. SumOf(tp) = s + c
    <2>1. SumOf(tp) \in Nat /\ SumOf(v4) \in Nat /\ SumOf(v3) \in Nat /\ SumOf(v) \in Nat
        BY <1>10, <1>11, <1>13, <1>15, SumBound
    <2>2. c \in Nat
        BY <1>8, WordType
    <2>3. SumOf(v3) = SumOf(v) + number[1]
        BY <1>1, <1>7, <1>11, <1>12, <2>1
    <2>4. SumOf(v4) = SumOf(v3) + number[2]
        BY <1>7, <1>13, <1>14, <1>17, <2>1
    <2>5. SumOf(tp) = SumOf(v4) + c
        BY <1>15, <1>16, <1>17, <2>1, <2>2
    <2> QED
        BY <1>7, <2>1, <2>2, <2>3, <2>4, <2>5
<1> QED
    BY <1>1, <1>8, <1>15, <1>18

LEMMA BaseType ==
    ASSUME NEW proto \in Nat, proto # 0, proto < 256, NEW length \in Word,
           NEW ip \in Seq(Word), Len(ip) = 10, NEW base, base = proto + length + ip[7] + ip[8] + ip[9] + ip[10]
    PROVE  base \in Nat /\ base # 0 /\ base < 256 + 5 * W
<1> DEFINE a == ip[7]
           b == ip[8]
           d == ip[9]
           e == ip[10]
<1>1. 7 \in 1 .. Len(ip) /\ 8 \in 1 .. Len(ip) /\ 9 \in 1 .. Len(ip) /\ 10 \in 1 .. Len(ip)
    OBVIOUS
<1>2. /\ a \in Nat /\ b \in Nat /\ d \in Nat /\ e \in Nat /\ length \in Nat
      /\ a <= W - 1 /\ b <= W - 1 /\ d <= W - 1 /\ e <= W - 1 /\ length <= W - 1
    BY <1>1, WordsType, WordType
<1>3. base = proto + length + a + b + d + e
    OBVIOUS
<1> HIDE DEF a, b, d, e
<1> QED
    BY <1>2, <1>3 DEF W

\* Word i of a header made the complement of the sum, and what comes of it.
Summed(proto, ip, tp, i, data, length) ==
    [tp EXCEPT ![i] = Complement(Folded(PseudoSum(proto, ip, tp \o WordsOf(data), length)))]
Summable(proto, tp, i, data, length) ==
    /\ proto \in Nat /\ proto # 0 /\ proto < 256 /\ length \in Word
    /\ tp \in Seq(Word) /\ Len(tp) <= 10 /\ i \in 1 .. Len(tp) /\ tp[i] = 0
    /\ data \in Seq(Byte) /\ Len(data) < W
Segment(proto, ip, tp, data, length, n) ==
    /\ tp \in Seq(Word) /\ Len(tp) = n
    /\ Verifies(PseudoSum(proto, ip, tp \o WordsOf(data), length))

(* The checksum over a pseudo header, a header and what follows it. *)
LEMMA SegmentVerifies ==
    ASSUME NEW proto, NEW ip \in IpHeaders, NEW tp0, NEW i, NEW data, NEW length, Summable(proto, tp0, i, data, length)
    PROVE  Segment(proto, ip, Summed(proto, ip, tp0, i, data, length), data, length, Len(tp0))
<1>0. /\ proto \in Nat /\ proto # 0 /\ proto < 256 /\ length \in Word
      /\ tp0 \in Seq(Word) /\ Len(tp0) <= 10 /\ i \in 1 .. Len(tp0) /\ tp0[i] = 0
      /\ data \in Seq(Byte) /\ Len(data) < W
    BY DEF Summable
<1> DEFINE tp == Summed(proto, ip, tp0, i, data, length)
<1> DEFINE more == WordsOf(data)
           s == tp0 \o more
           u == tp \o more
           base == proto + length + ip[7] + ip[8] + ip[9] + ip[10]
           c == Complement(Folded(base + SumOf(s)))
<1>1. more \in Seq(Word) /\ Len(more) <= Len(data) /\ Len(more) \in Nat /\ Len(data) \in Nat
    BY <1>0, WordsOfType
<1> HIDE DEF more
<1>2. /\ s \in Seq(Word) /\ Len(s) = Len(tp0) + Len(more)
      /\ \A j \in 1 .. Len(tp0) : s[j] = tp0[j]
      /\ \A j \in 1 .. Len(more) : s[Len(tp0) + j] = more[j]
    BY <1>0, <1>1, Joined
<1> HIDE DEF s
<1>3. SumOf(s) \in Nat /\ SumOf(s) <= Len(s) * (W - 1)
    BY <1>2, SumBound
<1>4. base \in Nat /\ base # 0 /\ base < 256 + 5 * W
    BY <1>0, BaseType DEF IpHeaders
<1> HIDE DEF base
<1>5. base + SumOf(s) \in Nat /\ base + SumOf(s) # 0 /\ base + SumOf(s) < Wide
    <2> DEFINE x == SumOf(s)
               n == Len(s)
    <2>1. n \in Nat /\ n < 10 + W
        <3>1. Len(tp0) \in Nat
            BY <1>0, WordsType
        <3> DEFINE a == Len(tp0)
                   b == Len(more)
                   d == Len(data)
        <3>2. a \in Nat /\ a <= 10 /\ b \in Nat /\ b <= d /\ d \in Nat /\ d < W /\ n = a + b
            BY <1>0, <1>1, <1>2, <3>1
        <3> HIDE DEF a, b, d, n
        <3> QED
            BY <3>2 DEF W
    <2>2. x \in Nat /\ x <= n * (W - 1)
        BY <1>3
    <2> HIDE DEF x, n
    <2>3. base + x \in Nat /\ base + x # 0 /\ base + x < Wide
        BY <1>4, <2>1, <2>2 DEF W, Wide
    <2> QED
        BY <2>3 DEF x
<1>6. c \in Word
    BY <1>5, FoldedType, ComplementType
<1>7. tp = [tp0 EXCEPT ![i] = c]
    BY DEF PseudoSum, Summed, base, s, more
<1> HIDE DEF c, tp
<1>8. /\ tp \in Seq(Word) /\ Len(tp) = Len(tp0) /\ tp[i] = c
      /\ \A j \in 1 .. Len(tp0) : j # i => tp[j] = tp0[j]
    BY <1>0, <1>6, <1>7, Replaced
<1>9. /\ u \in Seq(Word) /\ Len(u) = Len(tp) + Len(more)
      /\ \A j \in 1 .. Len(tp) : u[j] = tp[j]
      /\ \A j \in 1 .. Len(more) : u[Len(tp) + j] = more[j]
    <2>1. tp \in Seq(Word) /\ more \in Seq(Word)
        BY <1>1, <1>8
    <2> QED
        BY <2>1, Joined
<1> HIDE DEF u
<1>10. i \in 1 .. Len(s) /\ s[i] = 0 /\ u[i] = c /\ Len(u) = Len(s)
    <2>1. Len(tp0) \in Nat /\ Len(more) \in Nat
        BY <1>0, <1>1, WordsType
    <2>2. i \in 1 .. Len(s)
        BY <1>0, <1>2, <2>1
    <2> QED
        BY <1>0, <1>2, <1>8, <1>9, <2>2
<1>11. \A j \in 1 .. Len(s) : j # i => u[j] = s[j]
    <2> SUFFICES ASSUME NEW j \in 1 .. Len(s), j # i PROVE u[j] = s[j]
        OBVIOUS
    <2>1. CASE j <= Len(tp0)
        <3>1. j \in 1 .. Len(tp0)
            BY <2>1
        <3> QED
            BY <1>2, <1>8, <1>9, <3>1
    <2>2. CASE ~ (j <= Len(tp0))
        <3> DEFINE m == j - Len(tp0)
        <3>1. Len(tp0) \in Nat /\ Len(more) \in Nat /\ Len(s) = Len(tp0) + Len(more)
            BY <1>0, <1>1, <1>2, WordsType
        <3>2. m \in 1 .. Len(more) /\ j = Len(tp0) + m
            BY <2>2, <3>1
        <3> HIDE DEF m
        <3> QED
            BY <1>2, <1>8, <1>9, <3>2
    <2> QED
        BY <2>1, <2>2
<1>12. u[i] = Complement(Folded(base + SumOf(s)))
    BY <1>10 DEF c
<1>13. Verifies(base + SumOf(u))
    BY <1>2, <1>4, <1>5, <1>9, <1>10, <1>11, <1>12, OwnSum
<1> QED
    BY <1>8, <1>13 DEF base, u, more, tp, PseudoSum, Segment

LEMMA UdpProbeVerifies ==
    ASSUME NEW t, t.tp \in Seq(Word), Len(t.tp) = 4, NEW ip \in IpHeaders,
           NEW port \in Word, NEW sport \in Word, NEW data \in Seq(Byte), Len(data) < 1000,
           NEW tp, tp = UdpProbe(ip, t, port, sport, data)
    PROVE  tp \in Seq(Word) /\ Len(tp) = 4 /\ Verifies(PseudoSum(17, ip, tp \o WordsOf(data), 8 + Len(data)))
<1> DEFINE length == 8 + Len(data)
           v == t.tp
           v1 == [v EXCEPT ![1] = sport]
           v2 == [v1 EXCEPT ![2] = port]
           v3 == [v2 EXCEPT ![3] = length]
           v4 == [v3 EXCEPT ![4] = 0]
<1>1. Len(data) \in Nat /\ Len(data) < 1000
    OBVIOUS
<1>2. length \in Nat /\ length < 65536 /\ Len(data) < W
    BY <1>1 DEF W
<1>3. length \in Word /\ 0 \in Word
    BY <1>2, WordIs
<1>4. tp = WithUdpSum(ip, v4, data)
    BY DEF UdpProbe
<1>5. tp = Summed(17, ip, v4, 4, data, length)
    BY <1>4 DEF WithUdpSum, udp_checksum2, Summed
<1>6. v \in Seq(Word) /\ Len(v) = 4
    OBVIOUS
<1> HIDE DEF v, length
<1>7. v1 \in Seq(Word) /\ Len(v1) = 4
    <2>1. 1 \in 1 .. Len(v) /\ v \in Seq(Word)
        BY <1>6
    <2>2. sport \in Word
        BY <1>3
    <2>3. v1 \in Seq(Word) /\ Len(v1) = Len(v) /\ v1[1] = sport
        BY <2>1, <2>2, Replaced
    <2> QED
        BY <1>6, <2>3
<1> HIDE DEF v1
<1>8. v2 \in Seq(Word) /\ Len(v2) = 4
    <2>1. 2 \in 1 .. Len(v1) /\ v1 \in Seq(Word)
        BY <1>7
    <2>2. port \in Word
        BY <1>3
    <2>3. v2 \in Seq(Word) /\ Len(v2) = Len(v1) /\ v2[2] = port
        BY <2>1, <2>2, Replaced
    <2> QED
        BY <1>7, <2>3
<1> HIDE DEF v2
<1>9. v3 \in Seq(Word) /\ Len(v3) = 4
    <2>1. 3 \in 1 .. Len(v2) /\ v2 \in Seq(Word)
        BY <1>8
    <2>2. length \in Word
        BY <1>3
    <2>3. v3 \in Seq(Word) /\ Len(v3) = Len(v2) /\ v3[3] = length
        BY <2>1, <2>2, Replaced
    <2> QED
        BY <1>8, <2>3
<1> HIDE DEF v3
<1>10. v4 \in Seq(Word) /\ Len(v4) = 4 /\ v4[4] = 0
    <2>1. 4 \in 1 .. Len(v3) /\ v3 \in Seq(Word)
        BY <1>9
    <2>2. 0 \in Word
        BY <1>3
    <2>3. v4 \in Seq(Word) /\ Len(v4) = Len(v3) /\ v4[4] = 0
        BY <2>1, <2>2, Replaced
    <2> QED
        BY <1>9, <2>3
<1> HIDE DEF v4
<1>12. 17 \in Nat /\ 17 # 0 /\ 17 < 256 /\ Len(v4) <= 10 /\ 4 \in 1 .. Len(v4)
    BY <1>10
<1>13. Summable(17, v4, 4, data, length)
    BY <1>2, <1>3, <1>10, <1>12 DEF Summable
<1>14. Segment(17, ip, tp, data, length, Len(v4))
    BY <1>5, <1>13, SegmentVerifies
<1> QED
    BY <1>10, <1>14 DEF length, Segment

(* The payloads *)

Payloads == {px \in Seq(Byte) : Len(px) < 1000}

LEMMA ByteIs ==
    \A n \in Nat : n < 256 => n \in Byte
BY DEF Byte

LEMMA LettersType ==
    ASSUME NEW n \in Nat
    PROVE  Letters(n) \in Seq(Byte) /\ Len(Letters(n)) = n
BY DEF Letters, Byte

LEMMA CookieType ==
    ASSUME NEW c \in Number
    PROVE  /\ CookieBytes(c) \in Seq(Byte) /\ Len(CookieBytes(c)) = 4
           /\ \A i \in 1 .. 4 : CookieBytes(c)[i] \in Byte
<1>1. \A w \in Word : w \div 256 \in Byte /\ w % 256 \in Byte
    BY DEF Word, Byte, W
<1>2. /\ c[1] \div 256 \in Byte /\ c[1] % 256 \in Byte
      /\ c[2] \div 256 \in Byte /\ c[2] % 256 \in Byte
    BY <1>1, NumberType
<1> QED
    BY <1>2 DEF CookieBytes

LEMMA OverwriteType ==
    ASSUME NEW px \in Payloads, NEW at \in Nat, NEW bytes \in Seq(Byte)
    PROVE  Overwrite(px, at, bytes) \in Payloads
<1>1. px \in Seq(Byte) /\ Len(px) < 1000
    BY DEF Payloads
<1>2. ASSUME NEW i \in 1 .. Len(px)
      PROVE  (IF i > at /\ i <= at + Len(bytes) THEN bytes[i - at] ELSE px[i]) \in Byte
    <2>1. CASE i > at /\ i <= at + Len(bytes)
        <3>1. i - at \in 1 .. Len(bytes)
            BY <2>1
        <3>2. bytes[i - at] \in Byte
            BY <3>1
        <3> QED
            BY <2>1, <3>2
    <2>2. CASE ~ (i > at /\ i <= at + Len(bytes))
        BY <1>1, <2>2
    <2> QED
        BY <2>1, <2>2
<1> DEFINE r == [i \in 1 .. Len(px) |-> IF i > at /\ i <= at + Len(bytes) THEN bytes[i - at] ELSE px[i]]
<1>3. r \in Seq(Byte) /\ Len(r) = Len(px)
    BY <1>1, <1>2
<1> HIDE DEF r
<1>4. r \in Payloads
    BY <1>1, <1>3 DEF Payloads
<1> QED
    BY <1>4 DEF Overwrite, r

LEMMA PayloadsJoined ==
    ASSUME NEW s \in Seq(Byte), NEW t \in Seq(Byte), NEW m \in Nat, NEW n \in Nat, Len(s) <= m, Len(t) <= n
    PROVE  s \o t \in Seq(Byte) /\ Len(s \o t) <= m + n
<1>1. s \o t \in Seq(Byte) /\ Len(s \o t) = Len(s) + Len(t)
    BY Joined
<1>2. Len(s) \in Nat /\ Len(t) \in Nat
    OBVIOUS
<1> DEFINE a == Len(s)
           b == Len(t)
<1>3. a <= m /\ b <= n /\ a \in Nat /\ b \in Nat
    BY <1>2
<1> HIDE DEF a, b
<1>4. a + b <= m + n
    BY <1>3
<1> QED
    BY <1>1, <1>4 DEF a, b

\* Seq(Byte) of at most n.
Upto(n) == {s \in Seq(Byte) : Len(s) <= n}

LEMMA UptoJoined ==
    \A m, n \in Nat : \A s \in Upto(m), t \in Upto(n) : s \o t \in Upto(m + n)
BY PayloadsJoined DEF Upto

LEMMA LettersUpto ==
    \A n \in Nat : Letters(n) \in Upto(n)
BY LettersType DEF Upto

LEMMA QueriesAre ==
    /\ DnsQuery \in Payloads /\ NtpQuery \in Payloads /\ NbtQuery \in Payloads
    /\ SnmpQuery \in Payloads /\ CoapQuery \in Payloads /\ MemcachedQuery \in Payloads
<1>1. ASSUME NEW n \in Nat, n < 1000, NEW s \in Upto(n) PROVE s \in Payloads
    <2>1. s \in Seq(Byte) /\ Len(s) <= n /\ Len(s) \in Nat
        BY DEF Upto
    <2>2. Len(s) < 1000
        BY <1>1, <2>1
    <2> QED
        BY <2>1, <2>2 DEF Payloads
<1>2. DnsQuery \in Payloads
    <2> DEFINE a == <<80, 182, 1, 32, 0, 1, 0, 0, 0, 0, 0, 0, 7>>
               b == <<4>>
               d == <<0, 0, 16, 0, 3>>
    <2>1. a \in Upto(13) /\ b \in Upto(1) /\ d \in Upto(5)
        BY DEF Upto, Byte
    <2> HIDE DEF a, b, d
    <2>2. a \o Letters(7) \in Upto(13 + 7)
        BY <2>1, UptoJoined, LettersUpto
    <2>3. a \o Letters(7) \o b \in Upto(13 + 7 + 1)
        BY <2>1, <2>2, UptoJoined
    <2>4. a \o Letters(7) \o b \o Letters(4) \in Upto(13 + 7 + 1 + 4)
        BY <2>1, <2>3, UptoJoined, LettersUpto
    <2>5. a \o Letters(7) \o b \o Letters(4) \o d \in Upto(13 + 7 + 1 + 4 + 5)
        BY <2>1, <2>4, UptoJoined
    <2> QED
        BY <1>1, <2>5 DEF DnsQuery, a, b, d
<1>3. NbtQuery \in Payloads
    <2> DEFINE a == <<171, 18, 0, 0, 0, 1, 0, 0, 0, 0, 0, 0, 32>>
               d == <<0, 0, 33, 0, 1>>
    <2>1. a \in Upto(13) /\ d \in Upto(5)
        BY DEF Upto, Byte
    <2> HIDE DEF a, d
    <2>2. a \o Letters(32) \in Upto(13 + 32)
        BY <2>1, UptoJoined, LettersUpto
    <2>3. a \o Letters(32) \o d \in Upto(13 + 32 + 5)
        BY <2>1, <2>2, UptoJoined
    <2> QED
        BY <1>1, <2>3 DEF NbtQuery, a, d
<1>4. NtpQuery \in Payloads
    <2> DEFINE a == <<23, 0, 3, 42>>
               d == [i \in 1 .. 44 |-> 0]
    <2>1. a \in Upto(4) /\ d \in Upto(44)
        BY DEF Upto, Byte
    <2> HIDE DEF a, d
    <2>2. a \o d \in Upto(4 + 44)
        BY <2>1, UptoJoined
    <2> QED
        BY <1>1, <2>2 DEF NtpQuery, a, d
<1>5. SnmpQuery \in Payloads
    <2> DEFINE a == <<48, 57, 2, 1, 0, 4, 6>>
               b == <<160, 44, 2, 4>>
               d == <<0, 0, 0, 0, 2, 1, 0, 2, 1, 0, 48, 30>>
    <2>1. a \in Upto(7) /\ b \in Upto(4) /\ d \in Upto(12) /\ SnmpVariable \in Upto(15)
        BY DEF Upto, Byte, SnmpVariable
    <2> HIDE DEF a, b, d
    <2>2. a \o Letters(6) \in Upto(7 + 6)
        BY <2>1, UptoJoined, LettersUpto
    <2>3. a \o Letters(6) \o b \in Upto(7 + 6 + 4)
        BY <2>1, <2>2, UptoJoined
    <2>4. SnmpHeader \in Upto(7 + 6 + 4)
        BY <2>3 DEF SnmpHeader, a, b
    <2>5. SnmpHeader \o d \in Upto(7 + 6 + 4 + 12)
        BY <2>1, <2>4, UptoJoined
    <2>6. SnmpHeader \o d \o SnmpVariable \in Upto(7 + 6 + 4 + 12 + 15)
        BY <2>1, <2>5, UptoJoined
    <2>7. SnmpHeader \o d \o SnmpVariable \o SnmpVariable \in Upto(7 + 6 + 4 + 12 + 15 + 15)
        BY <2>1, <2>6, UptoJoined
    <2> QED
        BY <1>1, <2>7 DEF SnmpQuery, d
<1>6. CoapQuery \in Payloads
    <2> DEFINE a == <<64, 1, 1, 206, 187>>
               b == <<4>>
    <2>1. a \in Upto(5) /\ b \in Upto(1)
        BY DEF Upto, Byte
    <2> HIDE DEF a, b
    <2>2. a \o Letters(11) \in Upto(5 + 11)
        BY <2>1, UptoJoined, LettersUpto
    <2>3. a \o Letters(11) \o b \in Upto(5 + 11 + 1)
        BY <2>1, <2>2, UptoJoined
    <2>4. a \o Letters(11) \o b \o Letters(4) \in Upto(5 + 11 + 1 + 4)
        BY <2>3, UptoJoined, LettersUpto
    <2> QED
        BY <1>1, <2>4 DEF CoapQuery, a, b
<1>7. MemcachedQuery \in Payloads
    <2> DEFINE a == <<0, 0, 0, 0, 0, 1, 0, 0>>
    <2>1. a \in Upto(8)
        BY DEF Upto, Byte
    <2> HIDE DEF a
    <2>2. a \o Letters(7) \in Upto(8 + 7)
        BY <2>1, UptoJoined, LettersUpto
    <2> QED
        BY <1>1, <2>2 DEF MemcachedQuery, a
<1> QED
    BY <1>2, <1>3, <1>4, <1>5, <1>6, <1>7

LEMMA LookupType ==
    ASSUME NEW port
    PROVE  payloads_udp_lookup(port) \in Payloads
<1>1. <<>> \in Payloads
    BY DEF Payloads
<1>2. ASSUME port \in DOMAIN hard_coded_udp_payloads PROVE hard_coded_udp_payloads[port] \in Payloads
    BY <1>2, QueriesAre DEF hard_coded_udp_payloads
<1> QED
    BY <1>1, <1>2 DEF payloads_udp_lookup

(* What is written into a payload stays within it. *)
LEMMA PayloadIs ==
    ASSUME NEW port, NEW c \in Number
    PROVE  udp_payload_fixup(port, c) \in Payloads
<1> DEFINE px == payloads_udp_lookup(port)
           b == CookieBytes(c)
<1>1. px \in Payloads
    BY LookupType
<1>2. b \in Seq(Byte) /\ Len(b) = 4 /\ \A i \in 1 .. 4 : b[i] \in Byte
    BY CookieType
<1> DEFINE low == SubSeq(b, 3, 4)
<1>3. low \in Seq(Byte)
    BY <1>2
<1> HIDE DEF px, b, low
<1>4. Overwrite(px, 0, low) \in Payloads /\ Overwrite(px, 2, low) \in Payloads
    BY <1>1, <1>3, OverwriteType
<1>5. dns_set_cookie(px, c) \in Payloads
    BY <1>1, <1>4 DEF dns_set_cookie, low, b
<1>6. ntp_set_cookie(px, c) \in Payloads
    BY <1>1 DEF ntp_set_cookie
<1>7. coap_udp_set_cookie(px, c) \in Payloads
    BY <1>1, <1>4 DEF coap_udp_set_cookie, low, b
<1>8. memcached_udp_set_cookie(px, c) \in Payloads
    BY <1>1, <1>4 DEF memcached_udp_set_cookie, low, b
<1>9. ASSUME NEW at \in Nat PROVE snmp_set_cookie(px, c, at) \in Payloads
    <2> DEFINE n == px[at]
               q == [i \in 1 .. n |-> IF i = 1 THEN b[4 - n + i] % 128 ELSE b[4 - n + i]]
               r == <<0>> \o b
    <2>1. CASE n \in 1 .. 4
        <3>1. ASSUME NEW i \in 1 .. n PROVE b[4 - n + i] \in Byte /\ b[4 - n + i] % 128 \in Byte
            <4> DEFINE m == 4 - n + i
            <4>1. m \in 1 .. 4
                BY <2>1
            <4> HIDE DEF m
            <4>2. b[m] \in Byte
                BY <1>2, <4>1
            <4>3. \A x \in Byte : x % 128 \in Byte
                BY DEF Byte
            <4> QED
                BY <4>2, <4>3 DEF m
        <3>2. q \in Seq(Byte)
            BY <2>1, <3>1
        <3> HIDE DEF q
        <3>3. Overwrite(px, at, q) \in Payloads
            BY <1>1, <3>2, OverwriteType
        <3>4. snmp_set_cookie(px, c, at) = Overwrite(px, at, q)
            BY <2>1 DEF snmp_set_cookie, q, b
        <3> QED
            BY <3>3, <3>4
    <2>2. CASE n = 5
        <3>1. <<0>> \in Seq(Byte)
            BY DEF Byte
        <3>2. r \in Seq(Byte)
            BY <1>2, <3>1, Joined
        <3> HIDE DEF r
        <3>3. Overwrite(px, at, r) \in Payloads
            BY <1>1, <3>2, OverwriteType
        <3>4. snmp_set_cookie(px, c, at) = Overwrite(px, at, r)
            BY <2>2 DEF snmp_set_cookie, r, b
        <3> QED
            BY <3>3, <3>4
    <2>3. CASE n \notin 1 .. 4 /\ n # 5
        BY <1>1, <2>3 DEF snmp_set_cookie
    <2> QED
        BY <2>1, <2>2, <2>3
<1>10. Len(SnmpHeader) \in Nat
    <2> DEFINE a == <<48, 57, 2, 1, 0, 4, 6>>
               d == <<160, 44, 2, 4>>
    <2>1. a \in Seq(Byte) /\ d \in Seq(Byte)
        BY DEF Byte
    <2> HIDE DEF a, d
    <2>2. a \o Letters(6) \in Seq(Byte)
        BY <2>1, LettersType, Joined
    <2>3. a \o Letters(6) \o d \in Seq(Byte)
        BY <2>1, <2>2, Joined
    <2>4. Len(a \o Letters(6) \o d) \in Nat
        BY <2>3
    <2> QED
        BY <2>4 DEF SnmpHeader, a, d
<1>11. snmp_set_cookie(px, c, Len(SnmpHeader)) \in Payloads
    BY <1>9, <1>10
<1> QED
    BY <1>1, <1>5, <1>6, <1>7, <1>8, <1>11 DEF udp_payload_fixup, px

(* The probes *)

\* What is the same in every probe.
\* ^ of two words is a word.
XorOfWords == \A a, b \in Word : XorOf(a, b) \in Word

LEMMA AddressedIs ==
    ASSUME XorOfWords,
           NEW t, t.ip \in IpHeaders, NEW them \in Number, NEW port \in Word, NEW me \in Number, NEW seqno \in Number,
           NEW data \in Payloads, NEW n \in Nat, n = Len(t.tp), n < 100,
           NEW p, p = Addressed(t, them, port, me, seqno, data)
    PROVE  p.data = data /\ Headed(p.ip, 20 + (2 * n + Len(data)), t.ip[5], me, them)
<1> DEFINE length == 20 + 2 * n + Len(data)
           id == Xor3(them[2], port, seqno[2])
<1>1. Len(data) \in Nat /\ Len(data) < 1000
    BY DEF Payloads
<1>2. length \in Nat /\ length < 65536 /\ length = 20 + (2 * n + Len(data))
    BY <1>1
<1>3. length \in Word
    BY <1>2, WordIs
<1>4. id \in Word
    BY NumberType DEF Xor3, XorOfWords
<1>5. p.data = data /\ p.ip = SetIp(t.ip, length, id, me, them)
    BY DEF Addressed
<1> DEFINE ip == t.ip
           h == p.ip
<1>6. ip \in IpHeaders /\ h = SetIp(ip, length, id, me, them)
    BY <1>5
<1> HIDE DEF length, id, ip, h
<1>7. Headed(h, length, ip[5], me, them)
    BY <1>3, <1>4, <1>6, IpVerifies
<1> QED
    BY <1>2, <1>5, <1>7 DEF ip, h

\* A probe for a template of this kind.
ProbeOf(k, templates, them, target, me, sport, seqno) ==
    LET port == target % 65536
        t == templates.pkts[k]
        p == Addressed(t, them, port, me, seqno, IF k = "udp" THEN udp_payload_fixup(port, seqno) ELSE <<>>)
    IN [ip |-> p.ip, data |-> p.data,
        tp |-> CASE k = "tcp" -> TcpProbe(t, them, port, me, sport, seqno)
                 [] k = "udp" -> UdpProbe(p.ip, t, port, sport, p.data)
                 [] k = "sctp" -> SctpProbe(t, port, sport, seqno)
                 [] OTHER -> IcmpProbe(t, SynCookie(them, target, me, 0))]

LEMMA ProbeIs ==
    ASSUME NEW templates, NEW them, NEW target, NEW me, NEW sport, NEW seqno, Kind(target) \in TemplateKinds
    PROVE  template_set_target(templates, them, target, me, sport, seqno)
             = ProbeOf(Kind(target), templates, them, target, me, sport, seqno)
BY DEF template_set_target, ProbeOf, TemplateKinds

\* What it takes to be genuine.
Checked(q, words, length) ==
    /\ Verifies(SumOf(q.ip)) /\ q.ip[2] = 20 + length
    /\ \/ ProtoOf(q) = 6 /\ Verifies(PseudoSum(6, q.ip, words, length))
       \/ ProtoOf(q) = 17 /\ Verifies(PseudoSum(17, q.ip, words, length))
       \/ ProtoOf(q) = 1 /\ Verifies(SumOf(words))
       \/ ProtoOf(q) = 132

LEMMA GenuineIs ==
    ASSUME NEW q, Checked(q, q.tp \o WordsOf(q.data), 2 * Len(q.tp) + Len(q.data))
    PROVE  Genuine(q)
<1> DEFINE words == q.tp \o WordsOf(q.data)
           length == 2 * Len(q.tp) + Len(q.data)
           ipOk == Verifies(SumOf(q.ip))
           lengthOk == q.ip[2] = 20 + length
           six == Verifies(PseudoSum(6, q.ip, words, length))
           seventeen == Verifies(PseudoSum(17, q.ip, words, length))
           one == Verifies(SumOf(words))
           none == q.tp[4] = 0
           n == ProtoOf(q)
<1>1. Genuine(q) <=> /\ ipOk /\ lengthOk
                     /\ CASE n = 6 -> six [] n = 17 -> none \/ seventeen [] n = 1 -> one [] OTHER -> TRUE
    BY DEF Genuine
<1>2. ipOk /\ lengthOk /\ ((n = 6 /\ six) \/ (n = 17 /\ seventeen) \/ (n = 1 /\ one) \/ n = 132)
    <2>1. Checked(q, words, length)
        OBVIOUS
    <2> HIDE DEF words, length
    <2> QED
        BY <2>1 DEF Checked
<1> HIDE DEF words, length, ipOk, lengthOk, six, seventeen, one, none, n
<1> QED
    BY <1>1, <1>2

(* Every probe has a header whose checksum its receiver finds right, with    *)
(* the length of what follows, and a TCP, UDP or ICMP checksum that the      *)
(* receiver finds right too: whatever address and port is probed, whatever   *)
(* the source, the TTL, the sequence number and the cookie, and although     *)
(* the sums are never made from the beginning but go on from the template's. *)
THEOREM ProbesVerify ==
    ASSUME XorOfWords,
           NEW mac, NEW ttl \in Byte, NEW them \in Number, NEW target \in Nat, Kind(target) \in TemplateKinds,
           NEW me \in Number, NEW sport \in Word, NEW seqno \in Number,
           SynCookie(them, target, me, 0) \in Number
    PROVE  Genuine(template_set_target(template_packet_init(mac, ttl), them, target, me, sport, seqno))
<1> DEFINE templates == template_packet_init(mac, ttl)
           k == Kind(target)
           port == target % 65536
           t == templates.pkts[k]
           data == IF k = "udp" THEN udp_payload_fixup(port, seqno) ELSE <<>>
           a == Addressed(t, them, port, me, seqno, data)
           p == ProbeOf(k, templates, them, target, me, sport, seqno)
<1>1. template_set_target(templates, them, target, me, sport, seqno) = p
    BY ProbeIs
<1>2. port \in Word
    BY WordIs
<1>3. /\ t.tp = _template_init(k).tp /\ t.checksum_tcp = _template_init(k).checksum_tcp
      /\ t.ip \in IpHeaders /\ t.ip[5] % 256 = Default[k][2]
    BY TemplateIs
<1>4. data \in Payloads
    <2>1. <<>> \in Payloads
        BY DEF Payloads
    <2> QED
        BY <2>1, PayloadIs
<1> DEFINE n == Len(t.tp)
<1>5. /\ n \in Nat /\ n < 100
      /\ k = "tcp" => n = 10
      /\ k = "udp" => n = 4
    <2> HIDE DEF templates
    <2>1. CASE k = "tcp"
        <3> DEFINE m == Len(_template_init("tcp").tp)
        <3>1. m = 10
            BY TcpTemplate
        <3>2. n = m
            BY <1>3, <2>1
        <3> HIDE DEF k, n, m
        <3> QED
            BY <2>1, <3>1, <3>2
    <2>2. CASE k = "udp"
        <3> DEFINE m == Len(_template_init("udp").tp)
        <3>1. m = 4
            BY UdpTemplate
        <3>2. n = m
            BY <1>3, <2>2
        <3> HIDE DEF k, n, m
        <3> QED
            BY <2>2, <3>1, <3>2
    <2>3. CASE k = "sctp"
        <3> DEFINE m == Len(_template_init("sctp").tp)
        <3>1. m = 16
            BY SctpTemplate
        <3>2. n = m
            BY <1>3, <2>3
        <3> HIDE DEF k, n, m
        <3> QED
            BY <2>3, <3>1, <3>2
    <2>4. CASE k \in {"ping", "timestamp"}
        <3>1. n = Len(_template_init(k).tp)
            BY <1>3
        <3>2. Len(_template_init(k).tp) \in Nat /\ Len(_template_init(k).tp) <= 28
            BY <2>4, IcmpTemplate
        <3> QED
            BY <2>4, <3>1, <3>2
    <2> QED
        BY <2>1, <2>2, <2>3, <2>4 DEF TemplateKinds
<1> HIDE DEF templates, k, port, data
<1>6. a.data = data /\ Headed(a.ip, 20 + (2 * n + Len(data)), t.ip[5], me, them)
    <2> HIDE DEF t, n, a
    <2>1. t.ip \in IpHeaders /\ n = Len(t.tp) /\ n \in Nat /\ n < 100
        BY <1>3, <1>5 DEF n
    <2>2. a = Addressed(t, them, port, me, seqno, data)
        BY DEF a
    <2> QED
        BY SMTT(30), <1>2, <1>4, <2>1, <2>2, AddressedIs
<1>7. /\ p.ip = a.ip /\ p.data = data
      /\ k = "tcp" => p.tp = TcpProbe(t, them, port, me, sport, seqno)
      /\ k = "udp" => p.tp = UdpProbe(a.ip, t, port, sport, data)
      /\ k = "sctp" => p.tp = SctpProbe(t, port, sport, seqno)
      /\ k \in {"ping", "timestamp"} => p.tp = IcmpProbe(t, SynCookie(them, target, me, 0))
    BY <1>6 DEF ProbeOf, port, data
<1> HIDE DEF a, p, t
<1>8. /\ Verifies(SumOf(p.ip)) /\ p.ip[2] = 20 + (2 * n + Len(data))
      /\ p.ip[7] = me[1] /\ p.ip[8] = me[2] /\ p.ip[9] = them[1] /\ p.ip[10] = them[2]
      /\ p.ip \in IpHeaders
    BY <1>6, <1>7 DEF Headed
<1>9. ProtoOf(p) = Default[k][2]
    BY <1>3, <1>6, <1>7 DEF Headed, ProtoOf
<1> DEFINE words == p.tp \o WordsOf(p.data)
           length == 2 * Len(p.tp) + Len(p.data)
<1>10. Len(data) \in Nat /\ Len(data) < 1000 /\ data \in Seq(Byte)
    BY <1>4 DEF Payloads
<1>11. CASE k = "tcp"
    <2>1. data = <<>>
        BY <1>11 DEF data
    <2>2. p.tp \in Seq(Word) /\ Len(p.tp) = 10 /\ Verifies(PseudoSum(6, p.ip, p.tp, 20))
        <3> DEFINE ip == p.ip
                   tp == p.tp
        <3>1. t.tp = _template_init("tcp").tp /\ t.checksum_tcp = _template_init("tcp").checksum_tcp
            BY <1>3, <1>11
        <3>2. tp = TcpProbe(t, them, port, me, sport, seqno)
            BY <1>7, <1>11
        <3>3. Headed(ip, 20 + (2 * n + Len(data)), t.ip[5], me, them)
            BY <1>6, <1>7
        <3> HIDE DEF n, ip, tp
        <3>4. tp \in Seq(Word) /\ Len(tp) = 10 /\ Verifies(PseudoSum(6, ip, tp, 20))
            BY <1>2, <3>1, <3>2, <3>3, TcpProbeVerifies
        <3> QED
            BY <3>4 DEF ip, tp
    <2>3. words = p.tp /\ length = 20 /\ 2 * n + Len(data) = 20
        <3>1. Len(data) = 0 /\ words = p.tp
            BY <1>7, <2>1, <2>2, NoData
        <3> DEFINE m == Len(p.tp)
                   l == Len(data)
        <3>2. m = 10 /\ l = 0 /\ n = 10 /\ length = 2 * m + l
            BY <1>5, <1>7, <1>11, <2>2, <3>1
        <3> HIDE DEF words, length, n, m, l
        <3>3. length = 20 /\ 2 * n + l = 20
            BY <3>2
        <3> QED
            BY <3>1, <3>3 DEF l
    <2>4. ProtoOf(p) = 6
        BY <1>9, <1>11 DEF Default
    <2> HIDE DEF words, length
    <2>5. Verifies(PseudoSum(6, p.ip, words, length)) /\ Verifies(SumOf(p.ip)) /\ p.ip[2] = 20 + length
        BY <1>8, <2>2, <2>3
    <2>6. Checked(p, words, length)
        BY <2>4, <2>5 DEF Checked
    <2>7. Genuine(p)
        BY <2>6, GenuineIs DEF words, length
    <2> QED
        BY <1>1, <2>7 DEF templates
<1>12. CASE k = "udp"
    <2>1. p.tp \in Seq(Word) /\ Len(p.tp) = 4 /\ Verifies(PseudoSum(17, p.ip, p.tp \o WordsOf(data), 8 + Len(data)))
        <3> DEFINE ip == p.ip
                   tp == p.tp
        <3>1. t.tp \in Seq(Word) /\ Len(t.tp) = 4
            BY <1>3, <1>12, UdpTemplate
        <3>2. tp = UdpProbe(ip, t, port, sport, data)
            BY <1>7, <1>12
        <3>3. ip \in IpHeaders
            BY <1>8
        <3> HIDE DEF ip, tp
        <3>4. tp \in Seq(Word) /\ Len(tp) = 4 /\ Verifies(PseudoSum(17, ip, tp \o WordsOf(data), 8 + Len(data)))
            BY <1>2, <1>10, <3>1, <3>2, <3>3, UdpProbeVerifies
        <3> QED
            BY <3>4 DEF ip, tp
    <2>2. words = p.tp \o WordsOf(data)
        BY <1>7
    <2>3. length = 8 + Len(data) /\ 2 * n + Len(data) = 8 + Len(data)
        <3> DEFINE m == Len(p.tp)
                   l == Len(data)
        <3>1. m = 4 /\ n = 4 /\ l \in Nat /\ length = 2 * m + l
            BY <1>5, <1>7, <1>10, <1>12, <2>1
        <3> HIDE DEF words, length, n, m, l
        <3>2. length = 8 + l /\ 2 * n + l = 8 + l
            BY <3>1
        <3> QED
            BY <3>2 DEF l
    <2>4. ProtoOf(p) = 17
        BY <1>9, <1>12 DEF Default
    <2> HIDE DEF words, length
    <2>5. Verifies(PseudoSum(17, p.ip, words, length)) /\ Verifies(SumOf(p.ip)) /\ p.ip[2] = 20 + length
        BY <1>8, <2>1, <2>2, <2>3
    <2>6. Checked(p, words, length)
        BY <2>4, <2>5 DEF Checked
    <2>7. Genuine(p)
        BY <2>6, GenuineIs DEF words, length
    <2> QED
        BY <1>1, <2>7 DEF templates
<1>13. CASE k = "sctp"
    <2>1. Len(p.tp) = n
        <3> DEFINE v == t.tp
                   one == seqno[1]
                   two == seqno[2]
                   v1 == [v EXCEPT ![1] = sport]
                   v2 == [v1 EXCEPT ![2] = port]
                   v3 == [v2 EXCEPT ![9] = one]
                   v4 == [v3 EXCEPT ![10] = two]
        <3>1. p.tp = v4
            BY <1>7, <1>13 DEF SctpProbe
        <3>2. n = Len(v)
            OBVIOUS
        <3>3. v \in Seq(Word)
            BY <1>3, <1>13, SctpTemplate
        <3>4. seqno[1] \in Word /\ seqno[2] \in Word /\ Len(v) = 16
            BY <1>3, <1>13, NumberType, SctpTemplate
        <3> HIDE DEF v, n
        <3>5. one \in Word /\ two \in Word
            BY <3>4
        <3>6. 1 \in 1 .. Len(v) /\ 2 \in 1 .. Len(v) /\ 9 \in 1 .. Len(v) /\ 10 \in 1 .. Len(v)
            BY <3>4
        <3> HIDE DEF one, two
        <3>7. v1 \in Seq(Word) /\ Len(v1) = Len(v)
            BY <3>3, <3>6, Replaced
        <3> HIDE DEF v1
        <3>8. v2 \in Seq(Word) /\ Len(v2) = Len(v)
            BY <1>2, <3>6, <3>7, Replaced
        <3> HIDE DEF v2
        <3>9. v3 \in Seq(Word) /\ Len(v3) = Len(v)
            BY <3>5, <3>6, <3>8, Replaced
        <3> HIDE DEF v3
        <3>10. Len(v4) = Len(v)
            BY <3>5, <3>6, <3>9, Replaced
        <3> HIDE DEF v4
        <3> QED
            BY <3>1, <3>2, <3>10
    <2>2. data = <<>> /\ Len(data) = 0
        BY <1>13 DEF data
    <2>3. length = 2 * n + Len(data)
        BY <1>7, <2>1
    <2>4. ProtoOf(p) = 132
        BY <1>9, <1>13 DEF Default
    <2> HIDE DEF words, length, n
    <2>5. Verifies(SumOf(p.ip)) /\ p.ip[2] = 20 + length
        BY <1>8, <2>3
    <2>6. Checked(p, words, length)
        BY <2>4, <2>5 DEF Checked
    <2>7. Genuine(p)
        BY <2>6, GenuineIs DEF words, length
    <2> QED
        BY <1>1, <2>7 DEF templates
<1>14. CASE k \in {"ping", "timestamp"}
    <2>1. data = <<>>
        BY <1>14 DEF data
    <2>2. p.tp \in Seq(Word) /\ Len(p.tp) = n /\ Verifies(SumOf(p.tp))
        <3> DEFINE tp == p.tp
                   number == SynCookie(them, target, me, 0)
        <3>1. t.tp = _template_init(k).tp /\ t.checksum_tcp = _template_init(k).checksum_tcp
            BY <1>3
        <3>2. tp = IcmpProbe(t, number) /\ number \in Number
            BY <1>7, <1>14
        <3> HIDE DEF tp, number
        <3>3. tp \in Seq(Word) /\ Len(tp) = Len(t.tp) /\ Verifies(SumOf(tp))
            BY <1>14, <3>1, <3>2, IcmpProbeVerifies
        <3> QED
            BY <3>3 DEF tp
    <2>3. words = p.tp /\ length = 2 * n + Len(data)
        <3>1. Len(data) = 0 /\ words = p.tp
            BY <1>7, <2>1, <2>2, NoData
        <3> QED
            BY <1>7, <2>2, <3>1
    <2>4. ProtoOf(p) = 1
        BY <1>9, <1>14 DEF Default
    <2> HIDE DEF words, length, n
    <2>5. Verifies(SumOf(words)) /\ Verifies(SumOf(p.ip)) /\ p.ip[2] = 20 + length
        BY <1>8, <2>2, <2>3
    <2>6. Checked(p, words, length)
        BY <2>4, <2>5 DEF Checked
    <2>7. Genuine(p)
        BY <2>6, GenuineIs DEF words, length
    <2> QED
        BY <1>1, <2>7 DEF templates
<1>15. k \in TemplateKinds
    BY DEF k
<1> QED
    BY <1>11, <1>12, <1>13, <1>14, <1>15 DEF TemplateKinds

(* The segments of connections *)

\* The words that tcp_create_packet adds to the template's checksum.
HeaderSum(t, id, more, me, them) == Fold(FoldWide(<<me, them>>, <<t.checksum_ip, id, more>>))
SegmentIp(t, length, id, me, them) ==
    [t.ip EXCEPT ![2] = length, ![3] = id, ![7] = me[1], ![8] = me[2], ![9] = them[1], ![10] = them[2],
                 ![6] = Complement(HeaderSum(t, id, length - t.ip[2], me, them))]
\* What template_packet_init leaves of the header of a TCP template.
TcpBlank(t) ==
    /\ t.ip \in IpHeaders /\ Blank(t.ip) /\ t.checksum_ip = Folded(SumOf(t.ip)) /\ t.ip[2] = 40

LEMMA SegmentIpIs ==
    ASSUME NEW t, TcpBlank(t), NEW length \in Word, length >= 40, NEW id \in Word,
           NEW me \in Number, NEW them \in Number, NEW h, h = SegmentIp(t, length, id, me, them)
    PROVE  /\ h \in IpHeaders /\ h[2] = length /\ h[5] = t.ip[5]
           /\ Verifies(SumOf(h)) <=> HeaderSum(t, id, length - t.ip[2], me, them) < W
<1> DEFINE ip == t.ip
           more == length - 40
           y == SumOf(ip)
           d == Folded(y)
           high == me[1] + them[1]
           low == me[2] + them[2] + (d + id + more)
           x == high + Fold(low)
           c == Complement(Fold(x))
           s == y + more + id + me[1] + me[2] + them[1] + them[2]
<1>1. /\ me[1] \in Word /\ me[2] \in Word /\ them[1] \in Word /\ them[2] \in Word
      /\ ip \in Seq(Word) /\ Len(ip) = 10 /\ ip[1] = 17664 /\ ip[2] = 40
      /\ ip[3] = 0 /\ ip[6] = 0 /\ ip[7] = 0 /\ ip[8] = 0 /\ ip[9] = 0 /\ ip[10] = 0
    BY NumberType DEF IpHeaders, TcpBlank, Blank
<1>2. /\ me[1] \in Nat /\ me[2] \in Nat /\ them[1] \in Nat /\ them[2] \in Nat /\ id \in Nat /\ length \in Nat
      /\ me[1] < W /\ me[2] < W /\ them[1] < W /\ them[2] < W /\ id < W /\ length < W
    BY SMTT(30), <1>1, WordType
<1>3. more \in Nat /\ more < W /\ length = 40 + more
    BY <1>2 DEF W
<1>4. more \in Word
    BY <1>3 DEF Word
<1>5. /\ y = 17664 + 40 + ip[4] + ip[5] /\ ip[4] \in Word /\ ip[5] \in Word
    <2> HIDE DEF ip
    <2>1. y = ip[1] + ip[2] + ip[3] + ip[4] + ip[5] + ip[6] + ip[7] + ip[8] + ip[9] + ip[10]
        BY <1>1, SumOfTen
    <2>2. ip[4] \in Word /\ ip[5] \in Word
        <3>1. ip \in Seq(Word)
            BY <1>1
        <3>2. 4 \in 1 .. Len(ip) /\ 5 \in 1 .. Len(ip)
            BY <1>1
        <3> QED
            BY <3>1, <3>2
    <2>3. ip[4] \in Nat /\ ip[5] \in Nat
        BY <2>2, WordType
    <2> HIDE DEF y
    <2> QED
        BY <1>1, <2>1, <2>2, <2>3
<1>6. y \in Nat /\ y # 0 /\ y < 3 * W
    <2>1. ip[4] \in Nat /\ ip[5] \in Nat /\ ip[4] < W /\ ip[5] < W
        BY <1>5, WordType
    <2> HIDE DEF y, ip
    <2> QED
        BY <1>5, <2>1 DEF W
<1>7. d \in Word /\ d \in Nat /\ d < W /\ d # 0 /\ d % (W - 1) = y % (W - 1)
    <2> HIDE DEF y
    <2>1. y < Wide
        BY <1>6 DEF W, Wide
    <2>2. d \in Nat /\ d % (W - 1) = y % (W - 1)
        BY <1>6, FoldedKeeps
    <2>3. d < W
        BY <1>6, <2>1, FoldBounds
    <2>4. d # 0
        BY <1>6, FoldedNot0
    <2> QED
        BY <2>2, <2>3, <2>4 DEF Word
<1>8. HeaderSum(t, id, length - t.ip[2], me, them) = Fold(x)
    <2>1. t.checksum_ip = d /\ length - t.ip[2] = more
        BY <1>1 DEF TcpBlank
    <2> HIDE DEF d, more
    <2>2. FoldWide(<<me, them>>, <<d, id, more>>) = x
        BY <1>4, <1>7, WideOfTwo
    <2> QED
        BY <2>1, <2>2 DEF HeaderSum
<1> HIDE DEF more, y, d
<1>9. /\ high \in Nat /\ low \in Nat /\ high < 4 * W /\ low < 16 * W /\ high + low # 0 /\ s \in Nat /\ s # 0
    BY <1>2, <1>3, <1>6, <1>7 DEF W
<1>10. (high + low) % (W - 1) = s % (W - 1)
    <2> DEFINE a == me[1] + them[1] + me[2] + them[2] + id + more
    <2>1. a \in Nat /\ high + low = a + (0 + d) /\ s = y + a + 0
        BY <1>2, <1>3, <1>6, <1>7
    <2> HIDE DEF a, high, low, s
    <2>2. (a + (0 + d)) % (W - 1) = (y + a + 0) % (W - 1)
        BY ZenonT(40), <1>6, <1>7, <2>1, AlsoCongruent
    <2> QED
        BY <2>1, <2>2
<1>11. Verifies(s + c) <=> Fold(x) < W
    <2> HIDE DEF high, low, s, x
    <2>1. x = high + Fold(low)
        BY DEF x
    <2>2. Verifies(s + Complement(Fold(x))) <=> Fold(x) < W
        BY <1>9, <1>10, <2>1, PartialVerifies
    <2> QED
        BY <2>2
<1>12. c \in Word
    <2> HIDE DEF high, low
    <2>1. x \in Nat
        BY <1>9, FoldType
    <2> HIDE DEF x
    <2>2. Fold(x) \in Nat
        BY <2>1, FoldType
    <2> QED
        BY <2>2, ComplementType
<1>13. h = [ip EXCEPT ![2] = length, ![3] = id, ![7] = me[1], ![8] = me[2], ![9] = them[1], ![10] = them[2],
                      ![6] = c]
    BY <1>8 DEF SegmentIp
<1> HIDE DEF ip, c
<1>14. /\ h[1] = ip[1] /\ h[2] = length /\ h[3] = id /\ h[4] = ip[4] /\ h[5] = ip[5] /\ h[6] = c
       /\ h[7] = me[1] /\ h[8] = me[2] /\ h[9] = them[1] /\ h[10] = them[2]
       /\ h = [i \in 1 .. 10 |-> h[i]]
    <2> HIDE DEF high, low, x, s
    <2>1. ip \in [1 .. 10 -> Word]
        <3>1. ip \in [1 .. Len(ip) -> Word]
            <4>1. ip \in Seq(Word)
                BY <1>1
            <4> QED
                BY <4>1, WordsType
        <3> QED
            BY <1>1, <3>1
    <2>2. /\ h[1] = ip[1] /\ h[2] = length /\ h[3] = id /\ h[4] = ip[4] /\ h[5] = ip[5] /\ h[6] = c
          /\ h[7] = me[1] /\ h[8] = me[2] /\ h[9] = them[1] /\ h[10] = them[2]
        BY <1>13, <2>1
    <2>3. h = [i \in 1 .. 10 |-> h[i]]
        BY <1>13, <2>1
    <2> QED
        BY <2>2, <2>3
<1>15. h \in Seq(Word) /\ Len(h) = 10
    <2>1. ip[1] \in Word
        BY <1>1, WordIs
    <2>2. \A i \in 1 .. 10 : h[i] \in Word
        BY <1>1, <1>5, <1>12, <1>14, <2>1
    <2> QED
        BY <1>14, <2>2
<1>16. SumOf(h) = s + c
    <2> DEFINE z == SumOf(h)
    <2>1. z = h[1] + h[2] + h[3] + h[4] + h[5] + h[6] + h[7] + h[8] + h[9] + h[10]
        BY <1>15, SumOfTen
    <2>2. c \in Nat /\ ip[4] \in Nat /\ ip[5] \in Nat
        BY <1>5, <1>12, WordType
    <2> HIDE DEF z
    <2>3. z = 17664 + length + id + ip[4] + ip[5] + c + me[1] + me[2] + them[1] + them[2]
        BY <1>1, <1>14, <2>1
    <2>4. z = s + c
        BY <1>2, <1>3, <1>5, <1>6, <2>2, <2>3
    <2> QED
        BY <2>4 DEF z
<1>17. Verifies(SumOf(h)) <=> Fold(x) < W
    BY <1>11, <1>16
<1>18. h \in IpHeaders /\ h[2] = length /\ h[5] = t.ip[5]
    BY <1>1, <1>14, <1>15 DEF IpHeaders, ip
<1> QED
    BY <1>8, <1>17, <1>18

\* The header that tcp_create_packet makes, with its checksum still zero.
SegmentTcp(t, port, sport, seqno, ackno, bits) ==
    [t.tp EXCEPT ![1] = sport, ![2] = port, ![3] = seqno[1], ![4] = seqno[2], ![5] = ackno[1], ![6] = ackno[2],
                 ![7] = (@ \div 256) * 256 + bits, ![8] = 1200, ![9] = 0]

Unsummed(tp) == tp \in Seq(Word) /\ Len(tp) = 10 /\ tp[9] = 0
LEMMA Listed ==
    ASSUME NEW S, NEW n \in Nat, NEW s \in [1 .. n -> S]
    PROVE  s \in Seq(S) /\ Len(s) = n
OBVIOUS

LEMMA SegmentTcpIs ==
    ASSUME NEW t, t.tp = _template_init("tcp").tp, NEW port \in Word, NEW sport \in Word,
           NEW seqno \in Number, NEW ackno \in Number, NEW bits \in Byte,
           NEW tp, tp = SegmentTcp(t, port, sport, seqno, ackno, bits)
    PROVE  Unsummed(tp)
<1> DEFINE v == t.tp
<1>1. v \in [1 .. 10 -> Nat] /\ v[7] = 20482 /\ v[10] = 0
    BY TcpTemplate
<1>2. /\ seqno[1] \in Word /\ seqno[2] \in Word /\ ackno[1] \in Word /\ ackno[2] \in Word
    BY NumberType
<1> DEFINE f == (v[7] \div 256) * 256 + bits
<1>3. f \in Word
    <2>1. (20482 \div 256) * 256 = 20480
        OBVIOUS
    <2>2. bits \in Nat /\ bits < 256
        BY DEF Byte
    <2> HIDE DEF v
    <2>3. f = 20480 + bits
        BY <1>1, <2>1
    <2> HIDE DEF f
    <2> QED
        BY <2>2, <2>3, WordIs DEF Word, W
<1> HIDE DEF v
<1>4. tp \in [1 .. 10 -> Word] /\ tp[9] = 0
    <2> DEFINE g == [v EXCEPT ![1] = sport, ![2] = port, ![3] = seqno[1], ![4] = seqno[2]]
    <2>1. tp = [g EXCEPT ![5] = ackno[1], ![6] = ackno[2], ![7] = f, ![8] = 1200, ![9] = 0]
        BY <1>1 DEF SegmentTcp, v
    <2>2. v \in [1 .. 10 -> Word]
        <3> DEFINE d == _template_init("tcp").tp
        <3>1. d \in Seq(Word) /\ Len(d) = 10 /\ v = d
            BY TcpTemplate DEF v
        <3> HIDE DEF d
        <3>2. d \in [1 .. Len(d) -> Word]
            BY <3>1, WordsType
        <3> QED
            BY <3>1, <3>2
    <2>3. g \in [1 .. 10 -> Word]
        BY <1>2, <2>2
    <2> HIDE DEF f, g, v
    <2>4. 0 \in Word /\ 1200 \in Word
        BY WordIs
    <2>5. tp \in [1 .. 10 -> Word]
        BY <1>2, <1>3, <2>1, <2>3, <2>4
    <2>6. tp[9] = 0
        BY <2>1, <2>3
    <2> QED
        BY <2>5, <2>6
<1>5. tp \in Seq(Word) /\ Len(tp) = 10
    <2> DEFINE n == 10
    <2>1. n \in Nat
        OBVIOUS
    <2>2. tp \in [1 .. n -> Word]
        BY <1>4, Zenon
    <2> HIDE DEF n
    <2>3. tp \in Seq(Word) /\ Len(tp) = n
        BY <2>1, <2>2, Listed
    <2> QED
        BY <2>3 DEF n
<1> QED
    BY <1>4, <1>5 DEF Unsummed

(* p is the segment that is made of the template t.                          *)
SegmentOf(t, p, mac, ttl, them, port, me, sport, seqno, ackno, bits, data) ==
    /\ t = template_packet_init(mac, ttl).pkts["tcp"]
    /\ p = tcp_create_packet(t, them, port, me, sport, seqno, ackno, bits, data)

(* The length and the TCP checksum of a segment are right.                   *)
RightTcp(p, data) ==
    /\ p.ip[2] = 40 + Len(data)
    /\ Verifies(PseudoSum(6, p.ip, p.tp \o WordsOf(data), 20 + Len(data)))

(* Its receiver finds all of it right exactly when what was added to the     *)
(* template's sum of the header left no carry after two folds.               *)
RightIfTwoFoldsDo(t, p, me, them) ==
    Genuine(p) <=> Fold(FoldWide(<<me, them>>, <<t.checksum_ip, p.ip[3], p.ip[2] - t.ip[2]>>)) < W

(* Of a segment of a connection the TCP checksum and the length are always   *)
(* right.  The header's checksum is the template's with what was filled in   *)
(* added and folded twice, and its receiver finds it right exactly when the  *)
(* second fold left no carry: the rare packet whose sum does carry is one    *)
(* that every router on the way drops.                                       *)
THEOREM SegmentsVerify ==
    ASSUME XorOfWords,
           NEW mac, NEW ttl \in Byte, NEW them \in Number, NEW port \in Word, NEW me \in Number, NEW sport \in Word,
           NEW seqno \in Number, NEW ackno \in Number, NEW bits \in Byte,
           NEW data \in Seq(Byte), Len(data) <= 65495,
           NEW t, NEW p, SegmentOf(t, p, mac, ttl, them, port, me, sport, seqno, ackno, bits, data)
    PROVE  RightTcp(p, data) /\ RightIfTwoFoldsDo(t, p, me, them)
<1>a. t = template_packet_init(mac, ttl).pkts["tcp"]
    BY DEF SegmentOf
<1>b. p = tcp_create_packet(t, them, port, me, sport, seqno, ackno, bits, data)
    BY DEF SegmentOf
<1> DEFINE length == 40 + Len(data)
           id == Xor3(them[2], port, seqno[2])
           ip == p.ip
           tp == p.tp
           tp0 == SegmentTcp(t, port, sport, seqno, ackno, bits)
           rest == 20 + Len(data)
           sum == HeaderSum(t, id, length - t.ip[2], me, them)
<1>1. /\ TcpBlank(t) /\ t.ip[5] % 256 = 6 /\ t.tp = _template_init("tcp").tp
    <2>1. "tcp" \in TemplateKinds
        BY DEF TemplateKinds
    <2> QED
        BY <1>a, <2>1, TemplateIs DEF TcpBlank, Default
<1>2. Len(data) \in Nat /\ length \in Word /\ rest \in Word /\ length >= 40 /\ length = 20 + rest
    <2>1. Len(data) \in Nat
        OBVIOUS
    <2> DEFINE n == Len(data)
    <2>2. n \in Nat /\ n <= 65495 /\ length = 40 + n /\ rest = 20 + n
        BY <2>1
    <2> HIDE DEF n, length, rest
    <2>3. length \in Nat /\ length < 65536 /\ rest \in Nat /\ rest < 65536 /\ length >= 40 /\ length = 20 + rest
        BY <2>2
    <2> QED
        BY <2>1, <2>3, WordIs
<1>3. id \in Word
    BY NumberType DEF Xor3, XorOfWords
<1>4. /\ p.data = data
      /\ ip = [[t.ip EXCEPT ![2] = length, ![3] = id, ![7] = me[1], ![8] = me[2], ![9] = them[1], ![10] = them[2]]
                 EXCEPT ![6] = Complement(sum)]
      /\ tp = [tp0 EXCEPT ![9] = Complement(tcp_checksum2(ip, tp0 \o WordsOf(data), rest))]
    BY <1>b DEF tcp_create_packet, HeaderSum, SegmentTcp
<1>5. ip = SegmentIp(t, length, id, me, them)
    BY <1>4 DEF SegmentIp
<1>6. tp = Summed(6, ip, tp0, 9, data, rest)
    BY <1>4 DEF Summed, tcp_checksum2
<1> HIDE DEF length, id, ip, tp, tp0, rest
<1>7. ip \in IpHeaders /\ ip[2] = length /\ ip[5] = t.ip[5] /\ (Verifies(SumOf(ip)) <=> sum < W)
    BY <1>1, <1>2, <1>3, <1>5, SegmentIpIs
<1>8. tp0 \in Seq(Word) /\ Len(tp0) = 10 /\ tp0[9] = 0
    <2>1. t.tp = _template_init("tcp").tp /\ tp0 = SegmentTcp(t, port, sport, seqno, ackno, bits)
        BY <1>1 DEF tp0
    <2>2. Unsummed(tp0)
        BY <2>1, SegmentTcpIs
    <2> QED
        BY <2>2 DEF Unsummed
<1>9. Segment(6, ip, tp, data, rest, 10)
    <2>1. Len(data) < W
        BY <1>2 DEF W
    <2>2. Summable(6, tp0, 9, data, rest)
        BY <1>2, <1>8, <2>1 DEF Summable
    <2>3. Segment(6, ip, Summed(6, ip, tp0, 9, data, rest), data, rest, Len(tp0))
        BY <1>7, <2>2, SegmentVerifies
    <2> QED
        BY <1>6, <1>8, <2>3
<1>10. ip[3] = id
    <2> DEFINE v == t.ip
    <2>1. v \in Seq(Word) /\ Len(v) = 10
        BY <1>1 DEF TcpBlank, IpHeaders
    <2> HIDE DEF v
    <2>2. v \in [1 .. 10 -> Word]
        <3>1. v \in [1 .. Len(v) -> Word]
            <4>1. v \in Seq(Word)
                BY <2>1
            <4> QED
                BY <4>1, WordsType
        <3> QED
            BY <2>1, <3>1
    <2> HIDE DEF sum
    <2>3. ip = [[v EXCEPT ![2] = length, ![3] = id, ![7] = me[1], ![8] = me[2], ![9] = them[1], ![10] = them[2]]
                 EXCEPT ![6] = Complement(sum)]
        BY <1>4 DEF v
    <2> QED
        BY <2>2, <2>3
<1> DEFINE words == tp \o WordsOf(data)
           ipOk == Verifies(SumOf(ip))
           lengthOk == ip[2] = 20 + (2 * Len(tp) + Len(data))
           six == Verifies(PseudoSum(6, ip, words, 2 * Len(tp) + Len(data)))
           seventeen == Verifies(PseudoSum(17, ip, words, 2 * Len(tp) + Len(data)))
           one == Verifies(SumOf(words))
           none == tp[4] = 0
           k == ip[5] % 256
<1>11. Genuine(p) <=> /\ ipOk /\ lengthOk
                      /\ CASE k = 6 -> six [] k = 17 -> none \/ seventeen [] k = 1 -> one [] OTHER -> TRUE
    BY <1>4 DEF Genuine, ProtoOf, ip, tp
<1>12. 2 * Len(tp) + Len(data) = rest /\ Verifies(PseudoSum(6, ip, words, rest)) /\ k = 6
    <2> DEFINE m == Len(tp)
               l == Len(data)
    <2>1. m = 10 /\ l \in Nat /\ rest = 20 + l
        BY <1>2, <1>9 DEF Segment, rest
    <2> HIDE DEF m, l
    <2>2. 2 * m + l = rest
        BY <2>1
    <2> QED
        BY <1>1, <1>7, <1>9, <2>2 DEF Segment, m, l
<1>13. lengthOk /\ six
    BY <1>2, <1>7, <1>12
<1>14. Genuine(p) <=> ipOk
    <2> HIDE DEF words, ipOk, lengthOk, six, seventeen, one, none, k
    <2> QED
        BY <1>11, <1>12, <1>13
<1>15. Genuine(p) <=> sum < W
    BY <1>7, <1>14
<1>16. sum = Fold(FoldWide(<<me, them>>, <<t.checksum_ip, p.ip[3], p.ip[2] - t.ip[2]>>))
    BY <1>7, <1>10 DEF ip, HeaderSum
<1>17. RightTcp(p, data)
    BY <1>7, <1>12 DEF RightTcp, ip, tp, length, rest
<1>18. RightIfTwoFoldsDo(t, p, me, them)
    <2> HIDE DEF sum
    <2> QED
        BY <1>15, <1>16 DEF RightIfTwoFoldsDo
<1> QED
    BY <1>17, <1>18

----------------------------------------------------------------------------
(* What becomes of a frame *)

\* The parser's state after the first headers.
Down1(hs, s) == F!Below(hs[1], s)
Down2(hs, s) == F!Below(hs[2], Down1(hs, s))
Down3(hs, s) == F!Below(hs[3], Down2(hs, s))
Down4(hs, s) == F!Below(hs[4], Down3(hs, s))
Down5(hs, s) == F!Below(hs[5], Down4(hs, s))

LEMMA DescendIs ==
    ASSUME NEW hs, NEW n \in 1 .. 5, n = Len(hs), NEW s
    PROVE  /\ n = 1 => F!Descend(hs, s) = Down1(hs, s)
           /\ n = 2 => F!Descend(hs, s) = Down2(hs, s)
           /\ n = 3 => F!Descend(hs, s) = Down3(hs, s)
           /\ n = 4 => F!Descend(hs, s) = Down4(hs, s)
           /\ n = 5 => F!Descend(hs, s) = Down5(hs, s)
<1> DEFINE Defined(f) == f = [k \in 0 .. n |-> IF k = 0 THEN s ELSE F!Below(hs[k], f[k - 1])]
           g == [k \in 0 .. n |-> IF k = 0 THEN s ELSE IF k = 1 THEN Down1(hs, s) ELSE IF k = 2 THEN Down2(hs, s)
                                  ELSE IF k = 3 THEN Down3(hs, s) ELSE IF k = 4 THEN Down4(hs, s) ELSE Down5(hs, s)]
           v == CHOOSE f : Defined(f)
<1>1. \A k \in 0 .. n : g[k] = IF k = 0 THEN s ELSE F!Below(hs[k], g[k - 1])
    <2>1. ASSUME NEW k \in 0 .. n PROVE k \in {0, 1, 2, 3, 4, 5} /\ (k # 0 => k - 1 \in 0 .. n)
        OBVIOUS
    <2> QED
        BY <2>1 DEF Down1, Down2, Down3, Down4, Down5
<1>2. Defined(g)
    <2> DEFINE h == [k \in 0 .. n |-> IF k = 0 THEN s ELSE F!Below(hs[k], g[k - 1])]
    <2>1. g = [k \in 0 .. n |-> g[k]]
        OBVIOUS
    <2> HIDE DEF g
    <2> QED
        BY <1>1, <2>1
<1>3. Defined(v)
    <2> HIDE DEF Defined, g
    <2> QED
        BY <1>2
<1>4. F!Descend(hs, s) = v[n]
    BY DEF F!Descend
<1> HIDE DEF v
<1>5. v[0] = s /\ \A k \in 1 .. n : v[k] = F!Below(hs[k], v[k - 1])
    BY <1>3
<1>6. v[1] = Down1(hs, s)
    BY <1>5 DEF Down1
<1>7. n >= 2 => v[2] = Down2(hs, s)
    BY <1>5, <1>6 DEF Down2
<1>8. n >= 3 => v[3] = Down3(hs, s)
    BY <1>5, <1>7 DEF Down3
<1>9. n >= 4 => v[4] = Down4(hs, s)
    BY <1>5, <1>8 DEF Down4
<1>10. n >= 5 => v[5] = Down5(hs, s)
    BY <1>5, <1>9 DEF Down5
<1> DEFINE result == F!Descend(hs, s)
<1> HIDE DEF result
<1>11. result = v[n]
    BY <1>4 DEF result
<1>12. n = 1 => result = Down1(hs, s)
    BY <1>6, <1>11
<1>13. n = 2 => result = Down2(hs, s)
    BY <1>7, <1>11
<1>14. n = 3 => result = Down3(hs, s)
    BY <1>8, <1>11
<1>15. n = 4 => result = Down4(hs, s)
    BY <1>9, <1>11
<1>16. n = 5 => result = Down5(hs, s)
    BY <1>10, <1>11
<1> QED
    BY <1>12, <1>13, <1>14, <1>15, <1>16 DEF result

\* What a header makes of the parser's state, by the label it stands at.
LEMMA LinkLayers ==
    ASSUME NEW h, NEW at, NEW len, NEW ip
    PROVE  /\ F!Below(h, F!At("eth", at, len, ip))
                = IF at + 14 <= len THEN F!At(F!parse_ethertype(h.next), at + 14, len, ip) ELSE F!Bad
           /\ F!Below(h, F!At("vlan", at, len, ip))
                = IF at + 4 <= len THEN F!At(F!parse_ethertype(h.next), at + 4, len, ip) ELSE F!Bad
           /\ F!Below(h, F!At("mpls", at, len, ip))
                = IF at + 4 <= len THEN F!At(IF h.bottom THEN "ipv4" ELSE "mpls", at + 4, len, ip) ELSE F!Bad
           /\ F!Below(h, F!At("sll", at, len, ip))
                = IF at + 16 <= len THEN F!At(F!parse_ethertype(h.next), at + 16, len, ip) ELSE F!Bad
           /\ F!Below(h, F!At("llc", at, len, ip))
                = IF at + 8 <= len /\ h.snap /\ h.oui = 0 THEN F!At(F!parse_ethertype(h.next), at + 8, len, ip) ELSE F!Bad
           /\ F!Below(h, F!Bad) = F!Bad
<1>1. \A l \in {"eth", "vlan", "mpls", "sll", "llc"} :
         LET s == F!At(l, at, len, ip) IN
         /\ s.to = l /\ s.at = at /\ s.len = len /\ s.ip = ip
         /\ F!Below(h, s) = F!Layer(h, s)
         /\ \A n : F!VERIFY_REMAINING(s, n) <=> at + n <= len
         /\ \A n, k : F!Skip(s, k, n) = F!At(k, at + n, len, ip)
    BY DEF F!At, F!Below, F!Skip, F!VERIFY_REMAINING
<1>2. F!Below(h, F!Bad) = F!Bad
    BY DEF F!Below, F!Bad
<1>3. F!Layer(h, F!At("eth", at, len, ip)) = F!parse_ethernet(h, F!At("eth", at, len, ip))
    BY <1>1 DEF F!Layer
<1>4. F!Layer(h, F!At("vlan", at, len, ip)) = F!parse_vlan8021q(h, F!At("vlan", at, len, ip))
    BY <1>1 DEF F!Layer
<1>5. F!Layer(h, F!At("mpls", at, len, ip)) = F!parse_vlanmpls(h, F!At("mpls", at, len, ip))
    BY <1>1 DEF F!Layer
<1>6. F!Layer(h, F!At("sll", at, len, ip)) = F!parse_linux_sll(h, F!At("sll", at, len, ip))
    BY <1>1 DEF F!Layer
<1>7. F!Layer(h, F!At("llc", at, len, ip)) = F!parse_llc(h, F!At("llc", at, len, ip))
    BY <1>1 DEF F!Layer
<1>8. F!parse_ethernet(h, F!At("eth", at, len, ip))
        = IF at + 14 <= len THEN F!At(F!parse_ethertype(h.next), at + 14, len, ip) ELSE F!Bad
    BY <1>1 DEF F!parse_ethernet
<1>9. F!parse_vlan8021q(h, F!At("vlan", at, len, ip))
        = IF at + 4 <= len THEN F!At(F!parse_ethertype(h.next), at + 4, len, ip) ELSE F!Bad
    BY <1>1 DEF F!parse_vlan8021q
<1>10. F!parse_vlanmpls(h, F!At("mpls", at, len, ip))
        = IF at + 4 <= len THEN F!At(IF h.bottom THEN "ipv4" ELSE "mpls", at + 4, len, ip) ELSE F!Bad
    BY <1>1 DEF F!parse_vlanmpls
<1>11. F!parse_linux_sll(h, F!At("sll", at, len, ip))
        = IF at + 16 <= len THEN F!At(F!parse_ethertype(h.next), at + 16, len, ip) ELSE F!Bad
    BY <1>1 DEF F!parse_linux_sll
<1>12. F!parse_llc(h, F!At("llc", at, len, ip))
        = IF at + 8 <= len /\ h.snap /\ h.oui = 0 THEN F!At(F!parse_ethertype(h.next), at + 8, len, ip) ELSE F!Bad
    BY <1>1 DEF F!parse_llc
<1> QED
    BY <1>1, <1>2, <1>3, <1>4, <1>5, <1>6, <1>7, <1>8, <1>9, <1>10, <1>11, <1>12

LEMMA RadioLayers ==
    ASSUME NEW h, NEW at \in Nat, NEW len, NEW ip
    PROVE  /\ h.size = 8 /\ ~h.fcs => F!Below(h, F!At("radiotap", at, len, ip)) \in {F!Bad, F!At("wifi", at + 8, len, ip)}
           /\ ~h.wds /\ h.qos => F!Below(h, F!At("wifi", at, len, ip)) \in {F!Bad, F!At("llc", at + 26, len, ip)}
<1>1. \A l \in {"radiotap", "wifi"} :
         LET s == F!At(l, at, len, ip) IN
         /\ s.to = l /\ s.at = at /\ s.len = len /\ s.ip = ip
         /\ F!Below(h, s) = F!Layer(h, s)
         /\ \A n, k : F!Skip(s, k, n) = F!At(k, at + n, len, ip)
    BY DEF F!At, F!Below, F!Skip
<1>2. F!Layer(h, F!At("radiotap", at, len, ip)) = F!parse_radiotap_header(h, F!At("radiotap", at, len, ip))
    BY <1>1 DEF F!Layer
<1>3. F!Layer(h, F!At("wifi", at, len, ip)) = F!parse_wifi(h, F!At("wifi", at, len, ip))
    BY <1>1 DEF F!Layer
<1>4. h.size = 8 /\ ~h.fcs => F!parse_radiotap_header(h, F!At("radiotap", at, len, ip)) \in {F!Bad, F!At("wifi", at + 8, len, ip)}
    BY <1>1 DEF F!parse_radiotap_header
<1>5. ~h.wds /\ h.qos => F!parse_wifi(h, F!At("wifi", at, len, ip)) \in {F!Bad, F!At("llc", at + 26, len, ip)}
    <2>1. 24 + 0 + 2 = 26
        OBVIOUS
    <2> QED
        BY <1>1, <2>1 DEF F!parse_wifi, F!Protected
<1> QED
    BY <1>1, <1>2, <1>3, <1>4, <1>5

LEMMA IpLayer ==
    ASSUME NEW h, NEW at, NEW len, NEW ip, NEW s, s = F!Below(h, F!At("ipv4", at, len, ip))
    PROVE  /\ s.to \in {"bad", "icmp", "tcp", "udp", "sctp"}
           /\ s.to # "bad" => /\ h.next = s.to /\ ~h.fragment
                              /\ s = F!At(h.next, at + h.size, at + h.total, [src |-> h.src, dst |-> h.dst])
<1> DEFINE u == F!At("ipv4", at, len, ip)
           label == IF h.next \in {"icmp", "tcp", "udp", "sctp"} THEN h.next ELSE "bad"
           v == F!At(label, at + h.size, at + h.total, [src |-> h.src, dst |-> h.dst])
<1>1. u.to = "ipv4" /\ u.at = at /\ F!Below(h, u) = F!Layer(h, u)
    BY DEF F!At, F!Below
<1>2. F!Layer(h, u) = F!parse_ipv4(h, u)
    BY <1>1 DEF F!Layer
<1>3. s = F!Bad \/ (s = v /\ ~h.fragment)
    BY <1>1, <1>2 DEF F!parse_ipv4
<1>4. v.to = label /\ F!Bad.to = "bad"
    BY DEF F!At, F!Bad
<1> QED
    BY <1>3, <1>4

\* What is found in a frame: of whom, for whom, and where the transport header is.
Finds(s, what, u, sport, dport) ==
    /\ s.to = "done" /\ s.found \in what /\ s.them = u.ip.src /\ s.me = u.ip.dst
    /\ s.transport = u.at /\ s.sport = sport /\ s.dport = dport

LEMMA TransportLayers ==
    ASSUME NEW h, NEW at, NEW len, NEW ip, NEW to \in {"icmp", "tcp", "udp", "sctp", "arp"},
           NEW u, u = F!At(to, at, len, ip), NEW s, s = F!Below(h, u), s.to = "done"
    PROVE  /\ to = "tcp" => Finds(s, {"tcp"}, u, h.sport, h.dport)
           /\ to = "sctp" => Finds(s, {"sctp"}, u, h.sport, h.dport)
           /\ to = "udp" => Finds(s, {"udp", "dns"}, u, h.sport, h.dport)
           /\ to = "icmp" => Finds(s, {"icmp"}, u, h.type, h.code) /\ s.at = at
           /\ to = "arp" => s.found = "arp" /\ s.them = h.src /\ s.me = h.dst
<1>1. u.to = to /\ u.at = at /\ u.ip = ip /\ F!Below(h, u) = F!Layer(h, u) /\ F!Bad.to # "done"
    BY DEF F!At, F!Below, F!Bad
<1>2. CASE to = "tcp"
    <2>1. s = F!parse_tcp(h, u)
        BY <1>1, <1>2 DEF F!Layer
    <2>2. s = F!Found("tcp", u, h.sport, h.dport, u.at + h.size)
        BY <1>1, <2>1 DEF F!parse_tcp
    <2> QED
        BY <1>1, <1>2, <2>2 DEF F!Found, Finds
<1>3. CASE to = "sctp"
    <2>1. s = F!parse_sctp(h, u)
        BY <1>1, <1>3 DEF F!Layer
    <2>2. s = F!Found("sctp", u, h.sport, h.dport, u.at + 12)
        BY <1>1, <2>1 DEF F!parse_sctp
    <2> QED
        BY <1>1, <1>3, <2>2 DEF F!Found, Finds
<1>4. CASE to = "udp"
    <2>1. s = F!parse_udp(h, u)
        BY <1>1, <1>4 DEF F!Layer
    <2>2. \E what \in {"udp", "dns"} : s = F!Found(what, u, h.sport, h.dport, u.at + 8)
        BY <1>1, <2>1 DEF F!parse_udp
    <2> QED
        BY <1>1, <1>4, <2>2 DEF F!Found, Finds
<1>5. CASE to = "icmp"
    <2>1. s = F!parse_icmp(h, u)
        BY <1>1, <1>5 DEF F!Layer
    <2>2. s = F!Found("icmp", u, h.type, h.code, u.at)
        BY <1>1, <2>1 DEF F!parse_icmp
    <2> QED
        BY <1>1, <1>5, <2>2 DEF F!Found, Finds
<1>6. CASE to = "arp"
    <2>1. s = F!parse_arp(h, u)
        BY <1>1, <1>6 DEF F!Layer
    <2> DEFINE w == [u EXCEPT !.ip = [src |-> h.src, dst |-> h.dst]]
    <2>2. s = F!Found("arp", w, h.op, 0, u.at)
        BY <1>1, <2>1 DEF F!parse_arp
    <2>3. w.ip.src = h.src /\ w.ip.dst = h.dst
        BY DEF F!At
    <2> HIDE DEF w
    <2> QED
        BY <1>1, <1>6, <2>2, <2>3 DEF F!Found
<1> QED
    BY <1>2, <1>3, <1>4, <1>5, <1>6

\* Nothing is known yet.
Start(l, len) == F!At(F!parse_linktype[Link(l).type], 0, len, [src |-> "none", dst |-> "none"])
Reached(s, l, label, len) == s \in {F!Bad, F!At(label, Link(l).size, len, [src |-> "none", dst |-> "none"])}
Plain == {"ethernet", "vlan", "sll", "wifi"}
LinkNames == Plain \cup {"mpls", "raw"}

LEMMA LinksAre ==
    /\ Link("ethernet").type = 1 /\ Link("ethernet").size = 14 /\ Link("ethernet").hs = <<[next |-> "ipv4"]>>
    /\ Link("vlan").type = 1 /\ Link("vlan").size = 18 /\ Link("vlan").hs = <<[next |-> "vlan"], [next |-> "ipv4"]>>
    /\ Link("mpls").type = 1 /\ Link("mpls").size = 18 /\ Link("mpls").hs = <<[next |-> "mpls"], [bottom |-> TRUE]>>
    /\ Link("raw").type = 12 /\ Link("raw").size = 0 /\ Link("raw").hs = <<>>
    /\ Link("sll").type = 113 /\ Link("sll").size = 16 /\ Link("sll").hs = <<[next |-> "ipv4"]>>
    /\ Link("wifi").type = 127 /\ Link("wifi").size = 42
    /\ Link("wifi").hs = <<[size |-> 8, fcs |-> FALSE], [protected |-> FALSE, fragment |-> FALSE, wds |-> FALSE, qos |-> TRUE],
                           [snap |-> TRUE, oui |-> 0, next |-> "ipv4"]>>
BY DEF Link

LEMMA StartsAre ==
    /\ F!parse_linktype[1] = "eth" /\ F!parse_linktype[12] = "ipv4"
    /\ F!parse_linktype[113] = "sll" /\ F!parse_linktype[127] = "radiotap"
    /\ {1, 12, 113, 127} \subseteq DOMAIN F!parse_linktype
    /\ \A t \in {"ipv4", "arp", "vlan", "mpls"} : F!parse_ethertype(t) = t
BY DEF F!parse_linktype, F!parse_ethertype

LEMMA Prefixes ==
    ASSUME NEW hs, NEW label \in {"ipv4", "arp"}, NEW len
    PROVE  /\ hs[1].next = label =>
                /\ Reached(Down1(hs, Start("ethernet", len)), "ethernet", label, len)
                /\ Reached(Down1(hs, Start("sll", len)), "sll", label, len)
           /\ hs[1].next = "vlan" /\ hs[2].next = label => Reached(Down2(hs, Start("vlan", len)), "vlan", label, len)
           /\ hs[1].next = "mpls" /\ hs[2].bottom => Reached(Down2(hs, Start("mpls", len)), "mpls", "ipv4", len)
           /\ /\ hs[1].size = 8 /\ ~hs[1].fcs /\ ~hs[2].wds /\ hs[2].qos /\ hs[3].next = label
              => Reached(Down3(hs, Start("wifi", len)), "wifi", label, len)
<1> DEFINE ip == [src |-> "none", dst |-> "none"]
<1>1. /\ Start("ethernet", len) = F!At("eth", 0, len, ip) /\ Start("vlan", len) = F!At("eth", 0, len, ip)
      /\ Start("mpls", len) = F!At("eth", 0, len, ip) /\ Start("sll", len) = F!At("sll", 0, len, ip)
      /\ Start("wifi", len) = F!At("radiotap", 0, len, ip)
    BY LinksAre, StartsAre DEF Start
<1> HIDE DEF ip
<1>2. 0 + 14 = 14 /\ 0 + 16 = 16 /\ 14 + 4 = 18 /\ 0 + 8 = 8 /\ 8 + 26 = 34 /\ 34 + 8 = 42
    OBVIOUS
<1>3. \A k : F!Below(k, F!Bad) = F!Bad
    BY LinkLayers
<1>4. ASSUME hs[1].next = label
      PROVE  /\ Reached(Down1(hs, Start("ethernet", len)), "ethernet", label, len)
             /\ Reached(Down1(hs, Start("sll", len)), "sll", label, len)
    <2>1. Down1(hs, F!At("eth", 0, len, ip)) \in {F!Bad, F!At(label, 14, len, ip)}
        BY <1>2, <1>4, LinkLayers, StartsAre DEF Down1
    <2>2. Down1(hs, F!At("sll", 0, len, ip)) \in {F!Bad, F!At(label, 16, len, ip)}
        BY <1>2, <1>4, LinkLayers, StartsAre DEF Down1
    <2> QED
        BY <1>1, <2>1, <2>2, LinksAre DEF Reached, ip
<1>5. ASSUME hs[1].next = "vlan", hs[2].next = label PROVE Reached(Down2(hs, Start("vlan", len)), "vlan", label, len)
    <2>1. Down1(hs, F!At("eth", 0, len, ip)) \in {F!Bad, F!At("vlan", 14, len, ip)}
        BY <1>2, <1>5, LinkLayers, StartsAre DEF Down1
    <2>2. F!Below(hs[2], F!At("vlan", 14, len, ip)) \in {F!Bad, F!At(label, 18, len, ip)}
        BY <1>2, <1>5, LinkLayers, StartsAre
    <2>3. Down2(hs, F!At("eth", 0, len, ip)) \in {F!Bad, F!At(label, 18, len, ip)}
        BY <1>3, <2>1, <2>2 DEF Down2
    <2> QED
        BY <1>1, <2>3, LinksAre DEF Reached, ip
<1>6. ASSUME hs[1].next = "mpls", hs[2].bottom PROVE Reached(Down2(hs, Start("mpls", len)), "mpls", "ipv4", len)
    <2>1. Down1(hs, F!At("eth", 0, len, ip)) \in {F!Bad, F!At("mpls", 14, len, ip)}
        BY <1>2, <1>6, LinkLayers, StartsAre DEF Down1
    <2>2. F!Below(hs[2], F!At("mpls", 14, len, ip)) \in {F!Bad, F!At("ipv4", 18, len, ip)}
        BY <1>2, <1>6, LinkLayers, StartsAre
    <2>3. Down2(hs, F!At("eth", 0, len, ip)) \in {F!Bad, F!At("ipv4", 18, len, ip)}
        BY <1>3, <2>1, <2>2 DEF Down2
    <2> QED
        BY <1>1, <2>3, LinksAre DEF Reached, ip
<1>7. ASSUME hs[1].size = 8, ~hs[1].fcs, ~hs[2].wds, hs[2].qos, hs[3].next = label
      PROVE  Reached(Down3(hs, Start("wifi", len)), "wifi", label, len)
    <2>1. Down1(hs, F!At("radiotap", 0, len, ip)) \in {F!Bad, F!At("wifi", 8, len, ip)}
        BY <1>2, <1>7, RadioLayers DEF Down1
    <2>2. F!Below(hs[2], F!At("wifi", 8, len, ip)) \in {F!Bad, F!At("llc", 34, len, ip)}
        BY <1>2, <1>7, RadioLayers
    <2>3. F!Below(hs[3], F!At("llc", 34, len, ip)) \in {F!Bad, F!At(label, 42, len, ip)}
        BY <1>2, <1>7, LinkLayers, StartsAre
    <2>4. Down3(hs, F!At("radiotap", 0, len, ip)) \in {F!Bad, F!At(label, 42, len, ip)}
        BY <1>3, <2>1, <2>2, <2>3 DEF Down2, Down3
    <2> QED
        BY <1>1, <2>4, LinksAre DEF Reached, ip
<1> QED
    BY <1>4, <1>5, <1>6, <1>7

\* One list of headers behind another.
Joins(q, p, t) == q = p \o t

\* What stands in front of the last two headers, or of the last one.
LEMMA Behind1 ==
    ASSUME NEW x, NEW a, NEW b, NEW q, Joins(q, <<x>>, <<a, b>>)
    PROVE  Len(q) = 3 /\ q[1] = x /\ q[2] = a /\ q[3] = b
<1> DEFINE S == {x, a, b}
           p == <<x>>
           t == <<a, b>>
<1>1. p \in Seq(S) /\ t \in Seq(S) /\ Len(p) = 1 /\ Len(t) = 2 /\ p[1] = x /\ Joins(q, p, t) /\ t[1] = a /\ t[2] = b
    OBVIOUS
<1> HIDE DEF S, p, t
<1>2. Len(q) = Len(p) + Len(t) /\ (\A i \in 1 .. Len(p) : q[i] = p[i]) /\ \A i \in 1 .. Len(t) : q[Len(p) + i] = t[i]
    BY <1>1, Joined DEF Joins
<1> QED
    BY <1>1, <1>2

LEMMA Before1 ==
    ASSUME NEW x, NEW a, NEW q, Joins(q, <<x>>, <<a>>)
    PROVE  Len(q) = 2 /\ q[1] = x /\ q[2] = a
<1> DEFINE S == {x, a}
           p == <<x>>
           t == <<a>>
<1>1. p \in Seq(S) /\ t \in Seq(S) /\ Len(p) = 1 /\ Len(t) = 1 /\ p[1] = x /\ Joins(q, p, t) /\ t[1] = a
    OBVIOUS
<1> HIDE DEF S, p, t
<1>2. Len(q) = Len(p) + Len(t) /\ (\A i \in 1 .. Len(p) : q[i] = p[i]) /\ \A i \in 1 .. Len(t) : q[Len(p) + i] = t[i]
    BY <1>1, Joined DEF Joins
<1> QED
    BY <1>1, <1>2

LEMMA Behind2 ==
    ASSUME NEW x, NEW y, NEW a, NEW b, NEW q, Joins(q, <<x, y>>, <<a, b>>)
    PROVE  Len(q) = 4 /\ q[1] = x /\ q[2] = y /\ q[3] = a /\ q[4] = b
<1> DEFINE S == {x, y, a, b}
           p == <<x, y>>
           t == <<a, b>>
<1>1. p \in Seq(S) /\ t \in Seq(S) /\ Len(p) = 2 /\ Len(t) = 2 /\ p[1] = x /\ p[2] = y /\ Joins(q, p, t) /\ t[1] = a /\ t[2] = b
    OBVIOUS
<1> HIDE DEF S, p, t
<1>2. Len(q) = Len(p) + Len(t) /\ (\A i \in 1 .. Len(p) : q[i] = p[i]) /\ \A i \in 1 .. Len(t) : q[Len(p) + i] = t[i]
    BY <1>1, Joined DEF Joins
<1> QED
    BY <1>1, <1>2

LEMMA Before2 ==
    ASSUME NEW x, NEW y, NEW a, NEW q, Joins(q, <<x, y>>, <<a>>)
    PROVE  Len(q) = 3 /\ q[1] = x /\ q[2] = y /\ q[3] = a
<1> DEFINE S == {x, y, a}
           p == <<x, y>>
           t == <<a>>
<1>1. p \in Seq(S) /\ t \in Seq(S) /\ Len(p) = 2 /\ Len(t) = 1 /\ p[1] = x /\ p[2] = y /\ Joins(q, p, t) /\ t[1] = a
    OBVIOUS
<1> HIDE DEF S, p, t
<1>2. Len(q) = Len(p) + Len(t) /\ (\A i \in 1 .. Len(p) : q[i] = p[i]) /\ \A i \in 1 .. Len(t) : q[Len(p) + i] = t[i]
    BY <1>1, Joined DEF Joins
<1> QED
    BY <1>1, <1>2

LEMMA Behind3 ==
    ASSUME NEW x, NEW y, NEW z, NEW a, NEW b, NEW q, Joins(q, <<x, y, z>>, <<a, b>>)
    PROVE  Len(q) = 5 /\ q[1] = x /\ q[2] = y /\ q[3] = z /\ q[4] = a /\ q[5] = b
<1> DEFINE S == {x, y, z, a, b}
           p == <<x, y, z>>
           t == <<a, b>>
<1>1. p \in Seq(S) /\ t \in Seq(S) /\ Len(p) = 3 /\ Len(t) = 2 /\ p[1] = x /\ p[2] = y /\ p[3] = z /\ Joins(q, p, t) /\ t[1] = a /\ t[2] = b
    OBVIOUS
<1> HIDE DEF S, p, t
<1>2. Len(q) = Len(p) + Len(t) /\ (\A i \in 1 .. Len(p) : q[i] = p[i]) /\ \A i \in 1 .. Len(t) : q[Len(p) + i] = t[i]
    BY <1>1, Joined DEF Joins
<1> QED
    BY <1>1, <1>2

LEMMA Before3 ==
    ASSUME NEW x, NEW y, NEW z, NEW a, NEW q, Joins(q, <<x, y, z>>, <<a>>)
    PROVE  Len(q) = 4 /\ q[1] = x /\ q[2] = y /\ q[3] = z /\ q[4] = a
<1> DEFINE S == {x, y, z, a}
           p == <<x, y, z>>
           t == <<a>>
<1>1. p \in Seq(S) /\ t \in Seq(S) /\ Len(p) = 3 /\ Len(t) = 1 /\ p[1] = x /\ p[2] = y /\ p[3] = z /\ Joins(q, p, t) /\ t[1] = a
    OBVIOUS
<1> HIDE DEF S, p, t
<1>2. Len(q) = Len(p) + Len(t) /\ (\A i \in 1 .. Len(p) : q[i] = p[i]) /\ \A i \in 1 .. Len(t) : q[Len(p) + i] = t[i]
    BY <1>1, Joined DEF Joins
<1> QED
    BY <1>1, <1>2

LEMMA Alone2 ==
    ASSUME NEW a, NEW b, NEW q, Joins(q, <<>>, <<a, b>>)
    PROVE  Len(q) = 2 /\ q[1] = a /\ q[2] = b
<1> DEFINE S == {a, b}
           p == <<>>
           t == <<a, b>>
<1>1. p \in Seq(S) /\ t \in Seq(S) /\ Len(p) = 0 /\ Len(t) = 2 /\ Joins(q, p, t) /\ t[1] = a /\ t[2] = b
    OBVIOUS
<1> HIDE DEF S, p, t
<1>2. Len(q) = Len(p) + Len(t) /\ \A i \in 1 .. Len(t) : q[Len(p) + i] = t[i]
    BY <1>1, Joined DEF Joins
<1> QED
    BY <1>1, <1>2

LEMMA Alone1 ==
    ASSUME NEW a, NEW q, Joins(q, <<>>, <<a>>)
    PROVE  Len(q) = 1 /\ q[1] = a
<1> DEFINE S == {a}
           p == <<>>
           t == <<a>>
<1>1. p \in Seq(S) /\ t \in Seq(S) /\ Len(p) = 0 /\ Len(t) = 1 /\ Joins(q, p, t) /\ t[1] = a
    OBVIOUS
<1> HIDE DEF S, p, t
<1>2. Len(q) = Len(p) + Len(t) /\ \A i \in 1 .. Len(t) : q[Len(p) + i] = t[i]
    BY <1>1, Joined DEF Joins
<1> QED
    BY <1>1, <1>2

\* What is found in a frame: of whom, for whom, and where the transport header is.
Seen(s, what, src, dst, at, sport, dport) ==
    /\ s.found \in what /\ s.them = src /\ s.me = dst /\ s.transport = at /\ s.sport = sport /\ s.dport = dport

\* A frame that is taken apart to the end.
Read(f, s) == s = F!preprocess_frame(f) /\ s.to = "done"

LEMMA ReadIs ==
    ASSUME NEW l \in LinkNames, NEW f, f.link = Link(l).type, NEW s, Read(f, s)
    PROVE  s = F!Descend(f.hs, Start(l, f.len))
<1>1. f.link \in DOMAIN F!parse_linktype
    BY LinksAre, StartsAre DEF LinkNames, Plain
<1>2. F!Bad.to # "done"
    BY DEF F!Bad
<1> QED
    BY <1>1, <1>2 DEF Read, F!preprocess_frame, Start

\* The headers of a frame with an IP packet, and of one with an ARP packet.
IpHeadersAre(l, hs, ip, tr) ==
    /\ l \in {"ethernet", "sll"} => Len(hs) = 3 /\ hs[1].next = "ipv4" /\ hs[2] = ip /\ hs[3] = tr
    /\ l = "vlan" => Len(hs) = 4 /\ hs[1].next = "vlan" /\ hs[2].next = "ipv4" /\ hs[3] = ip /\ hs[4] = tr
    /\ l = "mpls" => Len(hs) = 4 /\ hs[1].next = "mpls" /\ hs[2].bottom /\ hs[3] = ip /\ hs[4] = tr
    /\ l = "raw" => Len(hs) = 2 /\ hs[1] = ip /\ hs[2] = tr
    /\ l = "wifi" => /\ Len(hs) = 5 /\ hs[1].size = 8 /\ ~hs[1].fcs /\ ~hs[2].wds /\ hs[2].qos
                     /\ hs[3].next = "ipv4" /\ hs[4] = ip /\ hs[5] = tr
ArpHeadersAre(l, hs, h) ==
    /\ l \in {"ethernet", "sll"} => Len(hs) = 2 /\ hs[1].next = "arp" /\ hs[2] = h
    /\ l = "vlan" => Len(hs) = 3 /\ hs[1].next = "vlan" /\ hs[2].next = "arp" /\ hs[3] = h
    /\ l = "mpls" => Len(hs) = 3 /\ hs[1].next = "mpls" /\ hs[2].bottom /\ hs[3] = h
    /\ l = "raw" => Len(hs) = 1 /\ hs[1] = h
    /\ l = "wifi" => /\ Len(hs) = 4 /\ hs[1].size = 8 /\ ~hs[1].fcs /\ ~hs[2].wds /\ hs[2].qos
                     /\ hs[3].next = "arp" /\ hs[4] = h

LEMMA HeadersAre ==
    ASSUME NEW l \in LinkNames, NEW ip, NEW tr, NEW hs, Joins(hs, Link(l).hs, <<ip, tr>>)
    PROVE  IpHeadersAre(l, hs, ip, tr)
<1>1. CASE l = "ethernet"
    <2> DEFINE x1 == [next |-> "ipv4"]
    <2>1. Joins(hs, <<x1>>, <<ip, tr>>)
        BY <1>1, LinksAre
    <2>2. x1.next = "ipv4"
        OBVIOUS
    <2> HIDE DEF x1
    <2>3. Len(hs) = 3 /\ hs[1] = x1 /\ hs[2] = ip /\ hs[3] = tr
        BY <2>1, Behind1
    <2> QED
        BY <1>1, <2>2, <2>3 DEF IpHeadersAre
<1>2. CASE l = "sll"
    <2> DEFINE x1 == [next |-> "ipv4"]
    <2>1. Joins(hs, <<x1>>, <<ip, tr>>)
        BY <1>2, LinksAre
    <2>2. x1.next = "ipv4"
        OBVIOUS
    <2> HIDE DEF x1
    <2>3. Len(hs) = 3 /\ hs[1] = x1 /\ hs[2] = ip /\ hs[3] = tr
        BY <2>1, Behind1
    <2> QED
        BY <1>2, <2>2, <2>3 DEF IpHeadersAre
<1>3. CASE l = "vlan"
    <2> DEFINE x1 == [next |-> "vlan"]
               x2 == [next |-> "ipv4"]
    <2>1. Joins(hs, <<x1, x2>>, <<ip, tr>>)
        BY <1>3, LinksAre
    <2>2. x1.next = "vlan" /\ x2.next = "ipv4"
        OBVIOUS
    <2> HIDE DEF x1, x2
    <2>3. Len(hs) = 4 /\ hs[1] = x1 /\ hs[2] = x2 /\ hs[3] = ip /\ hs[4] = tr
        BY <2>1, Behind2
    <2> QED
        BY <1>3, <2>2, <2>3 DEF IpHeadersAre
<1>4. CASE l = "mpls"
    <2> DEFINE x1 == [next |-> "mpls"]
               x2 == [bottom |-> TRUE]
    <2>1. Joins(hs, <<x1, x2>>, <<ip, tr>>)
        BY <1>4, LinksAre
    <2>2. x1.next = "mpls" /\ x2.bottom
        OBVIOUS
    <2> HIDE DEF x1, x2
    <2>3. Len(hs) = 4 /\ hs[1] = x1 /\ hs[2] = x2 /\ hs[3] = ip /\ hs[4] = tr
        BY <2>1, Behind2
    <2> QED
        BY <1>4, <2>2, <2>3 DEF IpHeadersAre
<1>5. CASE l = "raw"
    <2>1. Joins(hs, <<>>, <<ip, tr>>)
        BY <1>5, LinksAre
    <2>2. Len(hs) = 2 /\ hs[1] = ip /\ hs[2] = tr
        BY <2>1, Alone2
    <2> QED
        BY <1>5, <2>2 DEF IpHeadersAre
<1>6. CASE l = "wifi"
    <2> DEFINE x1 == [size |-> 8, fcs |-> FALSE]
               x2 == [protected |-> FALSE, fragment |-> FALSE, wds |-> FALSE, qos |-> TRUE]
               x3 == [snap |-> TRUE, oui |-> 0, next |-> "ipv4"]
    <2>1. Joins(hs, <<x1, x2, x3>>, <<ip, tr>>)
        BY <1>6, LinksAre
    <2>2. x1.size = 8 /\ ~x1.fcs /\ ~x2.wds /\ x2.qos /\ x3.next = "ipv4"
        OBVIOUS
    <2> HIDE DEF x1, x2, x3
    <2>3. Len(hs) = 5 /\ hs[1] = x1 /\ hs[2] = x2 /\ hs[3] = x3 /\ hs[4] = ip /\ hs[5] = tr
        BY <2>1, Behind3
    <2> QED
        BY <1>6, <2>2, <2>3 DEF IpHeadersAre
<1> QED
    BY <1>1, <1>2, <1>3, <1>4, <1>5, <1>6 DEF LinkNames, Plain

LEMMA Downwards ==
    ASSUME NEW l \in LinkNames, NEW ip, NEW tr, NEW f, f.link = Link(l).type, Joins(f.hs, Link(l).hs, <<ip, tr>>),
           NEW s, Read(f, s)
    PROVE  \E t : Reached(t, l, "ipv4", f.len) /\ s = F!Below(tr, F!Below(ip, t))
<1> DEFINE hs == f.hs
           len == f.len
<1>1. s = F!Descend(hs, Start(l, len))
    BY ReadIs
<1>2. Joins(hs, Link(l).hs, <<ip, tr>>)
    OBVIOUS
<1> HIDE DEF hs
<1>h. IpHeadersAre(l, hs, ip, tr)
    BY <1>2, HeadersAre
<1>3. CASE l = "ethernet"
    <2>1. Len(hs) = 3 /\ hs[1].next = "ipv4" /\ hs[2] = ip /\ hs[3] = tr
        BY <1>h, <1>3 DEF IpHeadersAre
    <2>2. s = Down3(hs, Start(l, len))
        BY <1>1, <2>1, DescendIs
    <2>3. Reached(Down1(hs, Start(l, len)), l, "ipv4", len)
        BY <1>3, <2>1, Prefixes
    <2> QED
        BY <2>1, <2>2, <2>3 DEF Down2, Down3, len
<1>4. CASE l = "sll"
    <2>1. Len(hs) = 3 /\ hs[1].next = "ipv4" /\ hs[2] = ip /\ hs[3] = tr
        BY <1>h, <1>4 DEF IpHeadersAre
    <2>2. s = Down3(hs, Start(l, len))
        BY <1>1, <2>1, DescendIs
    <2>3. Reached(Down1(hs, Start(l, len)), l, "ipv4", len)
        BY <1>4, <2>1, Prefixes
    <2> QED
        BY <2>1, <2>2, <2>3 DEF Down2, Down3, len
<1>5. CASE l = "vlan"
    <2>1. Len(hs) = 4 /\ hs[1].next = "vlan" /\ hs[2].next = "ipv4" /\ hs[3] = ip /\ hs[4] = tr
        BY <1>h, <1>5 DEF IpHeadersAre
    <2>2. s = Down4(hs, Start(l, len))
        BY <1>1, <2>1, DescendIs
    <2>3. Reached(Down2(hs, Start(l, len)), l, "ipv4", len)
        BY <1>5, <2>1, Prefixes
    <2> QED
        BY <2>1, <2>2, <2>3 DEF Down3, Down4, len
<1>6. CASE l = "mpls"
    <2>1. Len(hs) = 4 /\ hs[1].next = "mpls" /\ hs[2].bottom /\ hs[3] = ip /\ hs[4] = tr
        BY <1>h, <1>6 DEF IpHeadersAre
    <2>2. s = Down4(hs, Start(l, len))
        BY <1>1, <2>1, DescendIs
    <2>3. Reached(Down2(hs, Start(l, len)), l, "ipv4", len)
        BY <1>6, <2>1, Prefixes
    <2> QED
        BY <2>1, <2>2, <2>3 DEF Down3, Down4, len
<1>7. CASE l = "wifi"
    <2>1. /\ Len(hs) = 5 /\ hs[1].size = 8 /\ ~hs[1].fcs /\ ~hs[2].wds /\ hs[2].qos
          /\ hs[3].next = "ipv4" /\ hs[4] = ip /\ hs[5] = tr
        BY <1>h, <1>7 DEF IpHeadersAre
    <2>2. s = Down5(hs, Start(l, len))
        BY <1>1, <2>1, DescendIs
    <2>3. Reached(Down3(hs, Start(l, len)), l, "ipv4", len)
        BY <1>7, <2>1, Prefixes
    <2> QED
        BY <2>1, <2>2, <2>3 DEF Down4, Down5, len
<1>8. CASE l = "raw"
    <2>1. Len(hs) = 2 /\ hs[1] = ip /\ hs[2] = tr
        BY <1>h, <1>8 DEF IpHeadersAre
    <2>2. s = Down2(hs, Start(l, len))
        BY <1>1, <2>1, DescendIs
    <2>3. Reached(Start(l, len), l, "ipv4", len)
        BY <1>8, LinksAre, StartsAre DEF Start, Reached
    <2> QED
        BY <2>1, <2>2, <2>3 DEF Down1, Down2, len
<1> QED
    BY <1>3, <1>4, <1>5, <1>6, <1>7, <1>8 DEF LinkNames, Plain

(* A frame with an IP packet in it is either thrown away or found to be what *)
(* its headers say, whatever the link: preprocess_frame. *)
LEMMA IpFrameRead ==
    ASSUME NEW l \in LinkNames, NEW ip, NEW tr, NEW f, f.link = Link(l).type, Joins(f.hs, Link(l).hs, <<ip, tr>>),
           NEW s, Read(f, s)
    PROVE  LET at == Link(l).size + ip.size IN
           /\ ip.next \in {"tcp", "sctp", "udp", "icmp"} /\ ~ip.fragment
           /\ ip.next = "tcp" => Seen(s, {"tcp"}, ip.src, ip.dst, at, tr.sport, tr.dport)
           /\ ip.next = "sctp" => Seen(s, {"sctp"}, ip.src, ip.dst, at, tr.sport, tr.dport)
           /\ ip.next = "udp" => Seen(s, {"udp", "dns"}, ip.src, ip.dst, at, tr.sport, tr.dport)
           /\ ip.next = "icmp" => Seen(s, {"icmp"}, ip.src, ip.dst, at, tr.type, tr.code) /\ s.at = at
<1> DEFINE at == Link(l).size + ip.size
           pair == [src |-> ip.src, dst |-> ip.dst]
<1>1. PICK t : Reached(t, l, "ipv4", f.len) /\ s = F!Below(tr, F!Below(ip, t))
    BY Downwards
<1> DEFINE u == F!Below(ip, t)
<1>2. s = F!Below(tr, u) /\ s.to = "done"
    BY <1>1 DEF Read
<1>3. F!Bad.to = "bad" /\ F!Below(ip, F!Bad) = F!Bad /\ F!Below(tr, F!Bad) = F!Bad
    BY LinkLayers DEF F!Bad
<1>4. t = F!At("ipv4", Link(l).size, f.len, [src |-> "none", dst |-> "none"])
    BY <1>1, <1>2, <1>3 DEF Reached
<1>5. /\ u.to \in {"bad", "icmp", "tcp", "udp", "sctp"}
      /\ u.to # "bad" => ip.next = u.to /\ ~ip.fragment /\ u = F!At(ip.next, at, Link(l).size + ip.total, pair)
    BY <1>4, IpLayer
<1>6. u.to # "bad"
    BY <1>2 DEF F!Below
<1> HIDE DEF u
<1>7. ip.next \in {"icmp", "tcp", "udp", "sctp"} /\ ~ip.fragment
    BY <1>5, <1>6
<1>8. /\ ip.next = "tcp" => Finds(s, {"tcp"}, u, tr.sport, tr.dport)
      /\ ip.next = "sctp" => Finds(s, {"sctp"}, u, tr.sport, tr.dport)
      /\ ip.next = "udp" => Finds(s, {"udp", "dns"}, u, tr.sport, tr.dport)
      /\ ip.next = "icmp" => Finds(s, {"icmp"}, u, tr.type, tr.code) /\ s.at = at
    BY <1>2, <1>5, <1>6, <1>7, TransportLayers
<1>9. u.at = at /\ u.ip.src = ip.src /\ u.ip.dst = ip.dst
    BY <1>5, <1>6 DEF F!At
<1> QED
    BY <1>7, <1>8, <1>9 DEF Finds, Seen

\* The headers that announce an ARP packet.
ArpHeaders(l) == [Link(l).hs EXCEPT ![Len(Link(l).hs)].next = "arp"]

LEMMA LastOf2 ==
    ASSUME NEW x, NEW y, NEW a
    PROVE  [<<x, y>> EXCEPT ![2].next = a] = <<x, [y EXCEPT !.next = a]>>
<1> DEFINE q == <<x, y>>
           r == <<x, [y EXCEPT !.next = a]>>
           e == [q EXCEPT ![2].next = a]
<1>1. e = [i \in 1 .. 2 |-> IF i = 2 THEN [q[2] EXCEPT !.next = a] ELSE q[i]]
    OBVIOUS
<1>2. r = [i \in 1 .. 2 |-> r[i]]
    OBVIOUS
<1>3. ASSUME NEW i \in 1 .. 2 PROVE (IF i = 2 THEN [q[2] EXCEPT !.next = a] ELSE q[i]) = r[i]
    OBVIOUS
<1> HIDE DEF q, r
<1> QED
    BY <1>1, <1>2, <1>3

LEMMA LastOf3 ==
    ASSUME NEW x, NEW y, NEW z, NEW a
    PROVE  [<<x, y, z>> EXCEPT ![3].next = a] = <<x, y, [z EXCEPT !.next = a]>>
<1> DEFINE q == <<x, y, z>>
           r == <<x, y, [z EXCEPT !.next = a]>>
           e == [q EXCEPT ![3].next = a]
<1>1. e = [i \in 1 .. 3 |-> IF i = 3 THEN [q[3] EXCEPT !.next = a] ELSE q[i]]
    OBVIOUS
<1>2. r = [i \in 1 .. 3 |-> r[i]]
    OBVIOUS
<1>3. ASSUME NEW i \in 1 .. 3 PROVE (IF i = 3 THEN [q[3] EXCEPT !.next = a] ELSE q[i]) = r[i]
    OBVIOUS
<1> HIDE DEF q, r
<1> QED
    BY <1>1, <1>2, <1>3

LEMMA ArpHeadersRead ==
    ASSUME NEW l \in LinkNames, NEW h, NEW hs, Joins(hs, ArpHeaders(l), <<h>>)
    PROVE  ArpHeadersAre(l, hs, h)
<1>1. CASE l = "ethernet"
    <2> DEFINE x1 == [next |-> "arp"]
    <2>1. Joins(hs, <<x1>>, <<h>>)
        BY <1>1, LinksAre DEF ArpHeaders
    <2>2. x1.next = "arp"
        OBVIOUS
    <2> HIDE DEF x1
    <2>3. Len(hs) = 2 /\ hs[1] = x1 /\ hs[2] = h
        BY <2>1, Before1
    <2> QED
        BY <1>1, <2>2, <2>3 DEF ArpHeadersAre
<1>2. CASE l = "sll"
    <2> DEFINE x1 == [next |-> "arp"]
    <2>1. Joins(hs, <<x1>>, <<h>>)
        BY <1>2, LinksAre DEF ArpHeaders
    <2>2. x1.next = "arp"
        OBVIOUS
    <2> HIDE DEF x1
    <2>3. Len(hs) = 2 /\ hs[1] = x1 /\ hs[2] = h
        BY <2>1, Before1
    <2> QED
        BY <1>2, <2>2, <2>3 DEF ArpHeadersAre
<1>3. CASE l = "vlan"
    <2> DEFINE x1 == [next |-> "vlan"]
               x2 == [next |-> "arp"]
    <2> DEFINE y == [next |-> "ipv4"]
    <2>a. Link(l).hs = <<x1, y>> /\ Len(<<x1, y>>) = 2 /\ [y EXCEPT !.next = "arp"] = x2
        BY <1>3, LinksAre
    <2>0. ArpHeaders(l) = <<x1, x2>> /\ Joins(hs, ArpHeaders(l), <<h>>)
        <3> HIDE DEF x1, x2, y
        <3>1. ArpHeaders(l) = <<x1, x2>>
            BY <2>a, LastOf2 DEF ArpHeaders
        <3> QED
            BY <3>1
    <2>1. Joins(hs, <<x1, x2>>, <<h>>)
        BY <2>0
    <2>2. x1.next = "vlan" /\ x2.next = "arp"
        OBVIOUS
    <2> HIDE DEF x1, x2
    <2>3. Len(hs) = 3 /\ hs[1] = x1 /\ hs[2] = x2 /\ hs[3] = h
        BY <2>1, Before2
    <2> QED
        BY <1>3, <2>2, <2>3 DEF ArpHeadersAre
<1>4. CASE l = "mpls"
    <2> DEFINE x1 == [next |-> "mpls"]
               x2 == [[bottom |-> TRUE] EXCEPT !.next = "arp"]
    <2> DEFINE y == [bottom |-> TRUE]
    <2>a. Link(l).hs = <<x1, y>> /\ Len(<<x1, y>>) = 2 /\ [y EXCEPT !.next = "arp"] = x2
        BY <1>4, LinksAre
    <2>0. ArpHeaders(l) = <<x1, x2>> /\ Joins(hs, ArpHeaders(l), <<h>>)
        <3> HIDE DEF x1, x2, y
        <3>1. ArpHeaders(l) = <<x1, x2>>
            BY <2>a, LastOf2 DEF ArpHeaders
        <3> QED
            BY <3>1
    <2>1. Joins(hs, <<x1, x2>>, <<h>>)
        BY <2>0
    <2>2. x1.next = "mpls" /\ x2.bottom
        OBVIOUS
    <2> HIDE DEF x1, x2
    <2>3. Len(hs) = 3 /\ hs[1] = x1 /\ hs[2] = x2 /\ hs[3] = h
        BY <2>1, Before2
    <2> QED
        BY <1>4, <2>2, <2>3 DEF ArpHeadersAre
<1>5. CASE l = "raw"
    <2>1. Joins(hs, <<>>, <<h>>)
        BY <1>5, LinksAre DEF ArpHeaders
    <2>2. Len(hs) = 1 /\ hs[1] = h
        BY <2>1, Alone1
    <2> QED
        BY <1>5, <2>2 DEF ArpHeadersAre
<1>6. CASE l = "wifi"
    <2> DEFINE x1 == [size |-> 8, fcs |-> FALSE]
               x2 == [protected |-> FALSE, fragment |-> FALSE, wds |-> FALSE, qos |-> TRUE]
               y == [snap |-> TRUE, oui |-> 0, next |-> "ipv4"]
               x3 == [y EXCEPT !.next = "arp"]
    <2>a. Link(l).hs = <<x1, x2, y>> /\ Len(<<x1, x2, y>>) = 3 /\ [y EXCEPT !.next = "arp"] = x3
        BY <1>6, LinksAre
    <2>0. ArpHeaders(l) = <<x1, x2, x3>> /\ Joins(hs, ArpHeaders(l), <<h>>)
        <3> HIDE DEF x1, x2, x3, y
        <3>1. ArpHeaders(l) = <<x1, x2, x3>>
            BY <2>a, LastOf3 DEF ArpHeaders
        <3> QED
            BY <3>1
    <2>1. Joins(hs, <<x1, x2, x3>>, <<h>>)
        BY <2>0
    <2>2. x1.size = 8 /\ ~x1.fcs /\ ~x2.wds /\ x2.qos /\ x3.next = "arp"
        OBVIOUS
    <2> HIDE DEF x1, x2, x3
    <2>3. Len(hs) = 4 /\ hs[1] = x1 /\ hs[2] = x2 /\ hs[3] = x3 /\ hs[4] = h
        BY <2>1, Before3
    <2> QED
        BY <1>6, <2>2, <2>3 DEF ArpHeadersAre
<1> QED
    BY <1>1, <1>2, <1>3, <1>4, <1>5, <1>6 DEF LinkNames, Plain

(* And so is one with an ARP packet, if the link is one that says so. *)
LEMMA ArpFrameRead ==
    ASSUME NEW l \in LinkNames, NEW h, NEW f, f.link = Link(l).type,
           Joins(f.hs, ArpHeaders(l), <<h>>), NEW s, Read(f, s)
    PROVE  s.found = "arp" /\ s.them = h.src /\ s.me = h.dst
<1> DEFINE hs == f.hs
           len == f.len
           ip == [src |-> "none", dst |-> "none"]
<1>1. s = F!Descend(hs, Start(l, len)) /\ s.to = "done"
    BY ReadIs DEF Read
<1>2. Joins(hs, ArpHeaders(l), <<h>>)
    OBVIOUS
<1>3. F!Below(h, F!Bad) = F!Bad /\ F!Bad.to # "done"
    BY LinkLayers DEF F!Bad
<1>4. ASSUME NEW t, Reached(t, l, "arp", len), s = F!Below(h, t)
      PROVE  s.found = "arp" /\ s.them = h.src /\ s.me = h.dst
    <2>1. t = F!At("arp", Link(l).size, len, ip)
        BY <1>1, <1>3, <1>4 DEF Reached
    <2> QED
        BY <1>1, <1>4, <2>1, TransportLayers
<1>5. ASSUME NEW t, Reached(t, l, "ipv4", len), s = F!Below(h, t)
      PROVE  FALSE
    <2>1. t = F!At("ipv4", Link(l).size, len, ip)
        BY <1>1, <1>3, <1>5 DEF Reached
    <2>2. s.to \in {"bad", "icmp", "tcp", "udp", "sctp"}
        BY <1>5, <2>1, IpLayer
    <2> QED
        BY <1>1, <2>2
<1> HIDE DEF hs
<1>h. ArpHeadersAre(l, hs, h)
    BY <1>2, ArpHeadersRead
<1>6. CASE l = "ethernet"
    <2>1. Len(hs) = 2 /\ hs[1].next = "arp" /\ hs[2] = h
        BY <1>h, <1>6 DEF ArpHeadersAre
    <2>2. s = Down2(hs, Start(l, len))
        BY <1>1, <2>1, DescendIs
    <2>3. Reached(Down1(hs, Start(l, len)), l, "arp", len)
        BY <1>6, <2>1, Prefixes
    <2> QED
        BY <1>4, <2>1, <2>2, <2>3 DEF Down2
<1>7. CASE l = "sll"
    <2>1. Len(hs) = 2 /\ hs[1].next = "arp" /\ hs[2] = h
        BY <1>h, <1>7 DEF ArpHeadersAre
    <2>2. s = Down2(hs, Start(l, len))
        BY <1>1, <2>1, DescendIs
    <2>3. Reached(Down1(hs, Start(l, len)), l, "arp", len)
        BY <1>7, <2>1, Prefixes
    <2> QED
        BY <1>4, <2>1, <2>2, <2>3 DEF Down2
<1>8. CASE l = "vlan"
    <2>1. Len(hs) = 3 /\ hs[1].next = "vlan" /\ hs[2].next = "arp" /\ hs[3] = h
        BY <1>h, <1>8 DEF ArpHeadersAre
    <2>2. s = Down3(hs, Start(l, len))
        BY <1>1, <2>1, DescendIs
    <2>3. Reached(Down2(hs, Start(l, len)), l, "arp", len)
        BY <1>8, <2>1, Prefixes
    <2> QED
        BY <1>4, <2>1, <2>2, <2>3 DEF Down3
<1>9. CASE l = "wifi"
    <2>1. /\ Len(hs) = 4 /\ hs[1].size = 8 /\ ~hs[1].fcs /\ ~hs[2].wds /\ hs[2].qos
          /\ hs[3].next = "arp" /\ hs[4] = h
        BY <1>h, <1>9 DEF ArpHeadersAre
    <2>2. s = Down4(hs, Start(l, len))
        BY <1>1, <2>1, DescendIs
    <2>3. Reached(Down3(hs, Start(l, len)), l, "arp", len)
        BY <1>9, <2>1, Prefixes
    <2> QED
        BY <1>4, <2>1, <2>2, <2>3 DEF Down4
<1>10. CASE l = "mpls"
    <2>1. Len(hs) = 3 /\ hs[1].next = "mpls" /\ hs[2].bottom /\ hs[3] = h
        BY <1>h, <1>10 DEF ArpHeadersAre
    <2>2. s = Down3(hs, Start(l, len))
        BY <1>1, <2>1, DescendIs
    <2>3. Reached(Down2(hs, Start(l, len)), l, "ipv4", len)
        BY <1>10, <2>1, Prefixes
    <2> QED
        BY <1>5, <2>1, <2>2, <2>3 DEF Down3
<1>11. CASE l = "raw"
    <2>1. Len(hs) = 1 /\ hs[1] = h
        BY <1>h, <1>11 DEF ArpHeadersAre
    <2>2. s = Down1(hs, Start(l, len))
        BY <1>1, <2>1, DescendIs
    <2>3. Reached(Start(l, len), l, "ipv4", len)
        BY <1>11, LinksAre, StartsAre DEF Start, Reached
    <2> QED
        BY <1>5, <2>1, <2>2, <2>3 DEF Down1
<1> QED
    BY <1>6, <1>7, <1>8, <1>9, <1>10, <1>11 DEF LinkNames, Plain

(* What answers a probe, and what nobody asked for, once it has been read *)

LEMMA WordsAre == Words = Word
<1>1. W \in Nat
    BY DEF W
<1> QED
    BY <1>1 DEF Words, Word

LEMMA IpFrameIs ==
    ASSUME NEW l \in LinkNames, NEW src, NEW dst, NEW next, NEW tr, NEW payload, NEW more,
           NEW f, f = IpFrame(l, src, dst, next, tr, payload, more), NEW s, Read(f, s)
    PROVE  /\ next \in {"tcp", "sctp", "udp", "icmp"} /\ f.more = more
           /\ next = "tcp" => Seen(s, {"tcp"}, src, dst, Link(l).size + 20, tr.sport, tr.dport)
           /\ next = "sctp" => Seen(s, {"sctp"}, src, dst, Link(l).size + 20, tr.sport, tr.dport)
           /\ next = "udp" => Seen(s, {"udp", "dns"}, src, dst, Link(l).size + 20, tr.sport, tr.dport)
           /\ next = "icmp" => Seen(s, {"icmp"}, src, dst, Link(l).size + 20, tr.type, tr.code) /\ s.at = Link(l).size + 20
<1> DEFINE ip == [version |-> 4, size |-> 20, total |-> 20 + tr.size + Len(payload), fragment |-> FALSE,
                  next |-> next, src |-> src, dst |-> dst]
<1>1. f.link = Link(l).type /\ f.more = more /\ Joins(f.hs, Link(l).hs, <<ip, tr>>)
    BY DEF IpFrame, Joins
<1>2. ip.size = 20 /\ ip.next = next /\ ip.src = src /\ ip.dst = dst
    OBVIOUS
<1> HIDE DEF ip
<1>3. LET at == Link(l).size + ip.size IN
      /\ ip.next \in {"tcp", "sctp", "udp", "icmp"} /\ ~ip.fragment
      /\ ip.next = "tcp" => Seen(s, {"tcp"}, ip.src, ip.dst, at, tr.sport, tr.dport)
      /\ ip.next = "sctp" => Seen(s, {"sctp"}, ip.src, ip.dst, at, tr.sport, tr.dport)
      /\ ip.next = "udp" => Seen(s, {"udp", "dns"}, ip.src, ip.dst, at, tr.sport, tr.dport)
      /\ ip.next = "icmp" => Seen(s, {"icmp"}, ip.src, ip.dst, at, tr.type, tr.code) /\ s.at = at
    BY <1>1, IpFrameRead
<1> QED
    BY <1>1, <1>2, <1>3

LEMMA IpFrameLength ==
    ASSUME NEW l \in LinkNames, NEW src, NEW dst, NEW next, NEW tr, NEW size \in Nat, tr.size = size,
           NEW payload, NEW n \in Nat, n = Len(payload), NEW more, NEW f, f = IpFrame(l, src, dst, next, tr, payload, more)
    PROVE  f.len \in Nat /\ f.len >= Link(l).size + 20 + size + n
<1> DEFINE k == Link(l).size
           total == 20 + size + n
<1>1. k \in Nat
    BY LinksAre DEF LinkNames, Plain
<1>2. f.len = Padded(l, k + total)
    BY DEF IpFrame
<1> HIDE DEF k
<1>3. Padded(l, k + total) \in Nat /\ Padded(l, k + total) >= k + total
    BY <1>1 DEF Padded
<1> QED
    BY <1>1, <1>2, <1>3 DEF k

LEMMA ArpFrameIs ==
    ASSUME NEW l \in LinkNames, NEW op, NEW src, NEW dst, NEW f, f = ArpFrame(l, op, src, dst), NEW s, Read(f, s)
    PROVE  s.found = "arp" /\ s.them = src /\ s.me = dst /\ f.more.op = op
<1> DEFINE h == [op |-> op, src |-> src, dst |-> dst]
<1>1. f.link = Link(l).type /\ f.more.op = op /\ Joins(f.hs, ArpHeaders(l), <<h>>)
    BY DEF ArpFrame, ArpHeaders, Joins
<1>2. h.src = src /\ h.dst = dst
    OBVIOUS
<1> HIDE DEF h
<1> QED
    BY <1>1, <1>2, ArpFrameRead

\* A setting that makes sense, in the terms of these proofs.
LEMMA SensibleIs ==
    ASSUME NEW c, Sensible(c)
    PROVE  /\ c.nics \in Nat /\ c.nics > 0 /\ c.ttl \in Byte /\ c.link \in LinkNames
           /\ \A n \in 1 .. c.nics : c.src[n].ip \in Number /\ c.src[n].ip # <<0, 0>> /\ c.src[n].port \in Word
           /\ \A t \in c.targets : t.them \in Number /\ t.target \in Nat
           /\ \A t \in c.targets, n \in 1 .. c.nics :
                 /\ SynCookie(t.them, t.target, c.src[n].ip, 0) \in Number
                 /\ SynCookie(t.them, t.target, c.src[n].ip, c.src[n].port) \in Number
           /\ \A x \in c.strays : x.them \in Number /\ x.me \in Number /\ x.port \in Word /\ x.mine \in Word
<1>1. Words \X Words = Number
    BY WordsAre DEF Number
<1>2. c.ttl \in Byte
    <2>1. c.ttl \in 0 .. 255
        BY Zenon DEF Sensible
    <2> QED
        BY <2>1 DEF Byte
<1>3. c.link \in LinkNames
    BY DEF Sensible, LinkNames, Plain
<1>4. c.nics \in Nat /\ c.nics > 0
    <2>1. c.nics \in Nat \ {0}
        BY Zenon DEF Sensible
    <2> QED
        BY <2>1
<1>5. \A n \in 1 .. c.nics : c.src[n].ip \in Number /\ c.src[n].ip # <<0, 0>> /\ c.src[n].port \in Word
    BY <1>1, WordsAre DEF Sensible, Address
<1>6. \A t \in c.targets : t.them \in Number /\ t.target \in Nat
    BY <1>1 DEF Sensible
<1>7. \A t \in c.targets, n \in 1 .. c.nics :
         /\ SynCookie(t.them, t.target, c.src[n].ip, 0) \in Number
         /\ SynCookie(t.them, t.target, c.src[n].ip, c.src[n].port) \in Number
    BY <1>1 DEF Sensible
<1>8. \A x \in c.strays : x.them \in Number /\ x.me \in Number /\ x.port \in Word /\ x.mine \in Word
    BY <1>1, WordsAre DEF Sensible
<1> QED
    BY <1>2, <1>3, <1>4, <1>5, <1>6, <1>7, <1>8

\* Only that results are appended changes, when the program is run again.
LEMMA StaysSensible ==
    ASSUME NEW c, Sensible(c), NEW d, d = [c EXCEPT !.append = TRUE]
    PROVE  /\ Sensible(d)
           /\ d.nics = c.nics /\ d.ttl = c.ttl /\ d.link = c.link /\ d.src = c.src /\ d.targets = c.targets
           /\ d.strays = c.strays /\ d.arp = c.arp /\ d.tcb = c.tcb
<1>1. /\ d.nics = c.nics /\ d.ttl = c.ttl /\ d.link = c.link /\ d.src = c.src /\ d.targets = c.targets
      /\ d.strays = c.strays /\ d.arp = c.arp /\ d.tcb = c.tcb /\ DOMAIN d = DOMAIN c
    BY DEF Sensible
<1>2. /\ {"nics", "ttl", "link", "src", "targets", "strays", "arp", "tcb", "append"} \subseteq DOMAIN c
      /\ c.nics \in Nat \ {0} /\ c.ttl \in 0 .. 255
      /\ c.link \in {"ethernet", "vlan", "mpls", "raw", "sll", "wifi"}
    BY Zenon DEF Sensible
<1>3. \A n \in 1 .. c.nics :
         /\ c.src[n].ip \in Address /\ c.src[n].port \in Words \ {0}
         /\ \A m \in 1 .. c.nics : c.src[n].ip = c.src[m].ip => n = m
    BY Zenon DEF Sensible
<1>4. \A t \in c.targets : t.them \in Words \X Words /\ t.target \in Nat /\ (Kind(t.target) = "arp" => c.arp)
    BY Zenon DEF Sensible
<1>5. \A t \in c.targets, n \in 1 .. c.nics : \A mine \in {0, c.src[n].port} :
         SynCookie(t.them, t.target, c.src[n].ip, mine) \in Words \X Words
    BY Zenon DEF Sensible
<1>6. \A x \in c.strays :
         /\ x.what \in Strays /\ x.them \in Words \X Words /\ x.me \in Words \X Words
         /\ x.port \in Words /\ x.mine \in Words
         /\ SynCookie(x.them, x.port, x.me, x.mine) # <<7, 6>>
         /\ x.what = "arp reply" => \A t \in c.targets : t.them # x.them
    BY Zenon DEF Sensible
<1> DEFINE number == d.nics
           own == d.src
           aims == d.targets
           unasked == d.strays
           asksArp == d.arp
<1>7. /\ {"nics", "ttl", "link", "src", "targets", "strays", "arp", "tcb", "append"} \subseteq DOMAIN d
      /\ number \in Nat \ {0} /\ d.ttl \in 0 .. 255
      /\ d.link \in {"ethernet", "vlan", "mpls", "raw", "sll", "wifi"}
    BY Zenon, <1>1, <1>2
<1>8. number = c.nics /\ own = c.src /\ aims = c.targets /\ unasked = c.strays /\ asksArp = c.arp
    BY <1>1
<1> HIDE DEF number, own, aims, unasked, asksArp
<1>9. \A n \in 1 .. number :
         /\ own[n].ip \in Address /\ own[n].port \in Words \ {0}
         /\ \A m \in 1 .. number : own[n].ip = own[m].ip => n = m
    BY <1>3, <1>8
<1>10. \A t \in aims : t.them \in Words \X Words /\ t.target \in Nat /\ (Kind(t.target) = "arp" => asksArp)
    BY <1>4, <1>8
<1>11. \A t \in aims, n \in 1 .. number : \A mine \in {0, own[n].port} :
          SynCookie(t.them, t.target, own[n].ip, mine) \in Words \X Words
    BY <1>5, <1>8
<1>12. \A x \in unasked :
          /\ x.what \in Strays /\ x.them \in Words \X Words /\ x.me \in Words \X Words
          /\ x.port \in Words /\ x.mine \in Words
          /\ SynCookie(x.them, x.port, x.me, x.mine) # <<7, 6>>
          /\ x.what = "arp reply" => \A t \in aims : t.them # x.them
    BY <1>6, <1>8
<1>13. Sensible(d)
    BY Zenon, <1>7, <1>9, <1>10, <1>11, <1>12 DEF Sensible, number, own, aims, unasked, asksArp
<1> QED
    BY <1>1, <1>13

----------------------------------------------------------------------------
(* The words of a probe that its answer repeats *)

LEMMA NumberIs ==
    ASSUME NEW c \in Number
    PROVE  c = <<c[1], c[2]>> /\ c[1] \in Word /\ c[2] \in Word
BY DEF Number

LEMMA ProbeRepeats ==
    ASSUME XorOfWords,
           NEW mac, NEW ttl \in Byte, NEW them \in Number, NEW target \in Nat, NEW k, k = Kind(target), k \in TemplateKinds,
           NEW me \in Number, NEW sport \in Word, NEW seqno \in Number,
           SynCookie(them, target, me, 0) \in Number,
           NEW p, p = template_set_target(template_packet_init(mac, ttl), them, target, me, sport, seqno)
    PROVE  /\ Source(p) = me /\ Target(p) = them
           /\ k \in {"tcp", "udp", "sctp"} => p.tp[1] = sport /\ p.tp[2] = target % 65536
           /\ k = "tcp" => <<p.tp[3], p.tp[4]>> = seqno
           /\ k = "sctp" => <<p.tp[9], p.tp[10]>> = seqno
           /\ k = "ping" => <<p.tp[3], p.tp[4]>> = SynCookie(them, target, me, 0)
<1> DEFINE templates == template_packet_init(mac, ttl)
           port == target % 65536
           t == templates.pkts[k]
           data == IF k = "udp" THEN udp_payload_fixup(port, seqno) ELSE <<>>
           a == Addressed(t, them, port, me, seqno, data)
           q == ProbeOf(k, templates, them, target, me, sport, seqno)
<1>1. p = q
    BY ProbeIs
<1>2. port \in Word
    BY WordIs
<1>3. t.tp = _template_init(k).tp /\ t.ip \in IpHeaders
    BY TemplateIs
<1>4. data \in Payloads
    <2>1. <<>> \in Payloads
        BY DEF Payloads
    <2> QED
        BY <2>1, PayloadIs
<1> DEFINE n == Len(t.tp)
<1>5. /\ t.tp \in Seq(Word) /\ n \in Nat /\ n < 100
      /\ k = "tcp" => n = 10
      /\ k = "udp" => n = 4
      /\ k = "sctp" => n = 16
      /\ k = "ping" => n >= 4
    <2> DEFINE u == _template_init(k)
               m == Len(u.tp)
    <2>1. k = "tcp" => u.tp \in Seq(Word) /\ m = 10
        BY TcpTemplate
    <2>2. k = "udp" => u.tp \in Seq(Word) /\ m = 4
        BY UdpTemplate
    <2>3. k = "sctp" => u.tp \in Seq(Word) /\ m = 16
        BY SctpTemplate
    <2>4. k \in {"ping", "timestamp"} => u.tp \in Seq(Word) /\ m \in Nat /\ 4 <= m /\ m <= 28
        BY IcmpTemplate
    <2>5. n = m /\ t.tp = u.tp
        BY <1>3
    <2> HIDE DEF u, m, n, t
    <2> QED
        BY <2>1, <2>2, <2>3, <2>4, <2>5 DEF TemplateKinds
<1>6. p.ip = a.ip /\ p.tp = CASE k = "tcp" -> TcpProbe(t, them, port, me, sport, seqno)
                              [] k = "udp" -> UdpProbe(a.ip, t, port, sport, a.data)
                              [] k = "sctp" -> SctpProbe(t, port, sport, seqno)
                              [] OTHER -> IcmpProbe(t, SynCookie(them, target, me, 0))
    BY <1>1 DEF ProbeOf
<1>7. Headed(a.ip, 20 + (2 * n + Len(data)), t.ip[5], me, them)
    <2> HIDE DEF t, n, a, data, port
    <2>1. t.ip \in IpHeaders /\ n = Len(t.tp) /\ n \in Nat /\ n < 100
        BY <1>3, <1>5 DEF n
    <2>2. a = Addressed(t, them, port, me, seqno, data)
        BY DEF a
    <2> QED
        BY ZenonT(40), <1>2, <1>4, <2>1, <2>2, AddressedIs
<1>8. Source(p) = me /\ Target(p) = them
    <2>1. p.ip[7] = me[1] /\ p.ip[8] = me[2] /\ p.ip[9] = them[1] /\ p.ip[10] = them[2]
        <3> HIDE DEF a, t, n, data
        <3> QED
            BY <1>6, <1>7 DEF Headed
    <2> QED
        BY <2>1, NumberIs DEF Source, Target
<1> HIDE DEF t, a, data, templates, n, q
<1> DEFINE v == t.tp
<1>9. v \in Seq(Word) /\ Len(v) = n
    BY <1>5 DEF n
<1>10. port = target % 65536
    OBVIOUS
<1> HIDE DEF port
<1>11. CASE k = "tcp"
    <2> DEFINE c == Complement(Fold(Fold(FoldWide(<<me, them, seqno>>, <<t.checksum_tcp, sport, port>>))))
    <2>1. p.tp = [v EXCEPT ![1] = sport, ![2] = port, ![3] = seqno[1], ![4] = seqno[2], ![9] = c]
        BY <1>6, <1>11 DEF TcpProbe
    <2> HIDE DEF v, c
    <2>2. p.tp[1] = sport /\ p.tp[2] = port /\ p.tp[3] = seqno[1] /\ p.tp[4] = seqno[2]
        BY <1>5, <1>9, <1>11, <2>1
    <2> QED
        BY <1>8, <1>10, <1>11, <2>2, NumberIs
<1>12. CASE k = "udp"
    <2> DEFINE z == [v EXCEPT ![1] = sport, ![2] = port, ![3] = 8 + Len(a.data), ![4] = 0]
               c == Complement(udp_checksum2(a.ip, z \o WordsOf(a.data), 8 + Len(a.data)))
    <2>1. p.tp = [z EXCEPT ![4] = c]
        BY <1>6, <1>12 DEF UdpProbe, WithUdpSum
    <2>2. z[1] = sport /\ z[2] = port /\ DOMAIN z = 1 .. 4
        <3> DEFINE w == 8 + Len(a.data)
        <3> HIDE DEF v, w
        <3> QED
            BY <1>5, <1>9, <1>12
    <2> HIDE DEF z, c, v
    <2>3. p.tp[1] = sport /\ p.tp[2] = port
        BY <2>1, <2>2
    <2> QED
        BY <1>8, <1>10, <1>12, <2>3
<1>13. CASE k = "sctp"
    <2>1. p.tp = [v EXCEPT ![1] = sport, ![2] = port, ![9] = seqno[1], ![10] = seqno[2]]
        BY <1>6, <1>13 DEF SctpProbe
    <2> HIDE DEF v
    <2>2. p.tp[1] = sport /\ p.tp[2] = port /\ p.tp[9] = seqno[1] /\ p.tp[10] = seqno[2]
        BY <1>5, <1>9, <1>13, <2>1
    <2> QED
        BY <1>8, <1>10, <1>13, <2>2, NumberIs
<1>14. CASE k = "ping"
    <2> DEFINE number == SynCookie(them, target, me, 0)
               c == Complement(Fold(Fold(FoldWide(<<number>>, <<t.checksum_tcp>>))))
    <2>1. p.tp = [v EXCEPT ![3] = number[1], ![4] = number[2], ![2] = c]
        BY <1>6, <1>14 DEF IcmpProbe
    <2>2. number \in Number
        OBVIOUS
    <2> HIDE DEF v, c, number
    <2>3. p.tp[3] = number[1] /\ p.tp[4] = number[2]
        BY <1>5, <1>9, <1>14, <2>1
    <2> QED
        BY <1>8, <1>14, <2>2, <2>3, NumberIs DEF number
<1>15. CASE k = "timestamp"
    BY <1>8, <1>15
<1> QED
    BY <1>11, <1>12, <1>13, <1>14, <1>15 DEF TemplateKinds

LEMMA NextType ==
    ASSUME NEW c \in Number
    PROVE  /\ Next32(c) \in Number /\ Previous32(c) \in Number
           /\ Previous32(Next32(c)) = c /\ Next32(Previous32(c)) = c
<1>1. PICK a \in Word, b \in Word : c = <<a, b>>
    BY NumberIs
<1>2. CASE b < W - 1
    BY <1>1, <1>2 DEF Next32, Previous32, Number, Word, W
<1>3. CASE b = W - 1
    BY <1>1, <1>3 DEF Next32, Previous32, Number, Word, W
<1> QED
    BY <1>1, <1>2, <1>3 DEF Word, W

LEMMA NumberOf ==
    ASSUME NEW c \in Number, NEW a, NEW b, <<a, b>> = c
    PROVE  a \in Word /\ b \in Word
BY NumberIs

LEMMA SevenType == <<7, 7>> \in Number /\ <<0, 0>> \in Number /\ 0 \in Word
BY DEF Number, Word, W

\* Which template a target asks for.
LEMMA KindIs ==
    ASSUME NEW target \in Nat
    PROVE  /\ Kind(target) = "tcp" <=> target < W
           /\ Kind(target) = "udp" <=> target >= W /\ target < 2 * W
           /\ Kind(target) = "sctp" <=> target >= 2 * W /\ target < 3 * W
           /\ Kind(target) = "ping" <=> target = Templ_ICMP_echo
           /\ Kind(target) \in TemplateKinds \cup {"arp", "none"}
           /\ Kind(target) = "tcp" => target % W = target
           /\ Kind(target) = "udp" => (target % W) + Templ_UDP = target
           /\ Kind(target) = "sctp" => (target % W) + Templ_SCTP = target
<1> USE DEF Kind, Templ_UDP, Templ_SCTP, Templ_ICMP_echo, Templ_ICMP_timestamp, Templ_ARP, W, TemplateKinds
<1>1. CASE target < W
    BY <1>1
<1>2. CASE target >= W /\ target < 2 * W
    BY <1>2
<1>3. CASE target >= 2 * W /\ target < 3 * W
    BY <1>3
<1>4. CASE target >= 3 * W
    BY <1>4
<1> QED
    BY <1>1, <1>2, <1>3, <1>4

Flows == [them : Number, port : Word, me : Number, mine : Word]
Ports(s, p) == s.sport = p.port /\ s.dport = p.mine
FlagsOf(kind) ==
    CASE kind = "open" -> {"SYN", "ACK"} [] kind = "closed" -> {"RST", "ACK"} [] OTHER -> {"SYN", "ACK", "RST"}

\* A probe and what it carries.
LEMMA ProbeCarries ==
    ASSUME XorOfWords, Sensible(conf), NEW t \in conf.targets, NEW n \in 1 .. conf.nics, NEW p, p = Probe(t, conf.src[n])
    PROVE  /\ p.k = Kind(t.target) /\ p.them = t.them /\ p.me = conf.src[n].ip
           /\ p.them \in Number /\ p.me \in Number
           /\ p.k \in TemplateKinds => Source(p.pkt) = p.me /\ Target(p.pkt) = p.them
           /\ p.k \in {"tcp", "udp", "sctp"} =>
                 /\ p.port = t.target % W /\ p.mine = conf.src[n].port /\ p.port \in Word /\ p.mine \in Word
                 /\ p.pkt.tp[1] = p.mine /\ p.pkt.tp[2] = p.port
           /\ p.k \in {"ping", "arp"} => p.port = 0 /\ p.mine = 0
           /\ p.k = "tcp" => <<p.pkt.tp[3], p.pkt.tp[4]>> = SynCookie(p.them, p.port, p.me, p.mine)
           /\ p.k = "sctp" => <<p.pkt.tp[9], p.pkt.tp[10]>> = SynCookie(p.them, p.port + Templ_SCTP, p.me, p.mine)
           /\ p.k = "ping" => <<p.pkt.tp[3], p.pkt.tp[4]>> = SynCookie(p.them, Templ_ICMP_echo, p.me, 0)
           /\ p.k = "arp" => p.pkt.arp.tpa = p.them /\ p.pkt.arp.spa = p.me
<1> DEFINE k == Kind(t.target)
           ip == conf.src[n].ip
           port == conf.src[n].port
           cookie == SynCookie(t.them, t.target, ip, port)
           ttl == conf.ttl
           mac == <<2, 0, 0, 0, 0, 1>>
           templates == template_packet_init(mac, ttl)
           pkt == template_set_target(templates, t.them, t.target, ip, port, cookie)
<1>1. /\ t.them \in Number /\ t.target \in Nat /\ ip \in Number /\ port \in Word /\ ttl \in Byte
      /\ cookie \in Number /\ SynCookie(t.them, t.target, ip, 0) \in Number
    BY SensibleIs
<1>2. p.k = k /\ p.them = t.them /\ p.me = ip /\ p.pkt = pkt
    BY DEF Probe, set
<1>3. k \in {"tcp", "udp", "sctp"} => p.port = t.target % W /\ p.mine = port
    BY DEF Probe
<1>4. k \in {"ping", "arp"} => p.port = 0 /\ p.mine = 0
    BY DEF Probe
<1>5. t.target % W \in Word /\ W = 65536
    BY <1>1 DEF Word, W
<1>6. k = "arp" => pkt = [arp |-> [templates.arp EXCEPT !.spa = ip, !.tpa = t.them]]
    BY DEF template_set_target
<1>7. {"spa", "tpa"} \subseteq DOMAIN templates.arp
    BY DEF template_packet_init, default_arp_template, ArpTemplateSetTtl
<1> DEFINE them == t.them
           target == t.target
<1>8. them \in Number /\ target \in Nat /\ k = Kind(target) /\ SynCookie(them, target, ip, 0) \in Number
    BY <1>1
<1>9. templates = template_packet_init(mac, ttl) /\ pkt = template_set_target(templates, them, target, ip, port, cookie)
    OBVIOUS
<1>10. cookie = SynCookie(them, target, ip, port) /\ p.them = them /\ target = t.target
    BY <1>2
<1> HIDE DEF k, ip, port, cookie, ttl, mac, templates, pkt, them, target
<1>11. k \in TemplateKinds =>
           /\ Source(pkt) = ip /\ Target(pkt) = them
           /\ k \in {"tcp", "udp", "sctp"} => pkt.tp[1] = port /\ pkt.tp[2] = target % 65536
           /\ k = "tcp" => <<pkt.tp[3], pkt.tp[4]>> = cookie
           /\ k = "sctp" => <<pkt.tp[9], pkt.tp[10]>> = cookie
           /\ k = "ping" => <<pkt.tp[3], pkt.tp[4]>> = SynCookie(them, target, ip, 0)
    <2> SUFFICES ASSUME k \in TemplateKinds
                 PROVE  /\ Source(pkt) = ip /\ Target(pkt) = them
                        /\ k \in {"tcp", "udp", "sctp"} => pkt.tp[1] = port /\ pkt.tp[2] = target % 65536
                        /\ k = "tcp" => <<pkt.tp[3], pkt.tp[4]>> = cookie
                        /\ k = "sctp" => <<pkt.tp[9], pkt.tp[10]>> = cookie
                        /\ k = "ping" => <<pkt.tp[3], pkt.tp[4]>> = SynCookie(them, target, ip, 0)
        OBVIOUS
    <2>1. pkt = template_set_target(template_packet_init(mac, ttl), them, target, ip, port, cookie)
        BY <1>9
    <2> QED
        BY <1>1, <1>8, <2>1, ProbeRepeats
<1>12. k \in {"tcp", "udp", "sctp", "ping"} => k \in TemplateKinds
    BY DEF TemplateKinds
<1>13. k = "arp" => p.pkt.arp.tpa = p.them /\ p.pkt.arp.spa = p.me
    <2> DEFINE a == templates.arp
               b == [a EXCEPT !.spa = ip, !.tpa = t.them]
    <2>1. {"spa", "tpa"} \subseteq DOMAIN a
        BY <1>7
    <2> HIDE DEF a
    <2>2. b.spa = ip /\ b.tpa = t.them
        BY <2>1
    <2>3. k = "arp" => pkt = [arp |-> b]
        BY <1>6 DEF a
    <2> HIDE DEF b
    <2> QED
        BY <1>2, <2>2, <2>3
<1>14. k \in {"tcp", "udp", "sctp"} =>
          /\ p.port = t.target % W /\ p.mine = port /\ p.port \in Word /\ p.mine \in Word
          /\ p.pkt.tp[1] = p.mine /\ p.pkt.tp[2] = p.port
    BY <1>1, <1>2, <1>3, <1>5, <1>10, <1>11, <1>12
<1>15. /\ k = "tcp" => target % W = target
       /\ k = "sctp" => (target % W) + Templ_SCTP = target
       /\ k = "ping" => target = Templ_ICMP_echo
    BY <1>8, KindIs
<1>16. /\ k = "tcp" => <<p.pkt.tp[3], p.pkt.tp[4]>> = SynCookie(p.them, p.port, p.me, p.mine)
       /\ k = "sctp" => <<p.pkt.tp[9], p.pkt.tp[10]>> = SynCookie(p.them, p.port + Templ_SCTP, p.me, p.mine)
       /\ k = "ping" => <<p.pkt.tp[3], p.pkt.tp[4]>> = SynCookie(p.them, Templ_ICMP_echo, p.me, 0)
    BY <1>2, <1>10, <1>11, <1>12, <1>14, <1>15
<1>17. p.them \in Number /\ p.me \in Number /\ (k \in TemplateKinds => Source(p.pkt) = p.me /\ Target(p.pkt) = p.them)
    BY <1>1, <1>2, <1>8, <1>10, <1>11
<1>18. p.k = k /\ p.me = ip /\ (k \in {"ping", "arp"} => p.port = 0 /\ p.mine = 0)
    BY <1>2, <1>4
<1> QED
    BY <1>10, <1>13, <1>14, <1>16, <1>17, <1>18 DEF k, ip, port, them

\* What a frame that answers a probe is read as.
Echoes(p, kind, f, s) ==
    /\ p.k \in {"tcp", "sctp", "udp", "ping", "arp"} /\ s.them = p.them /\ s.me = p.me
    /\ p.k = "tcp" => /\ s.found = "tcp" /\ Ports(s, p) /\ f.more.flags = FlagsOf(kind)
                      /\ f.more.ack = Next32(SynCookie(p.them, p.port, p.me, p.mine))
    /\ p.k = "sctp" => /\ s.found = "sctp" /\ Ports(s, p)
                       /\ f.more.tag = SynCookie(p.them, p.port + Templ_SCTP, p.me, p.mine)
                       /\ f.more.chunk = (IF kind = "open" THEN 2 ELSE 6)
                       /\ f.more.flags = (IF kind = "open" THEN {} ELSE {"FIN"})
                       /\ f.more.ack = <<0, 0>> /\ s.transport + 16 <= f.len
    /\ p.k = "udp" /\ kind = "open" => s.found \in {"udp", "dns"} /\ Ports(s, p)
    /\ p.k = "udp" /\ kind # "open" => s.found = "icmp" /\ s.sport = 3 /\ s.dport = 3 /\ f.more.inner.proto = 17
    /\ p.k = "ping" => /\ s.found = "icmp" /\ s.sport = 0 /\ s.dport = 0
                       /\ f.more.number = SynCookie(p.them, Templ_ICMP_echo, p.me, 0)
    /\ p.k = "arp" => s.found = "arp" /\ f.more.op = 2

LEMMA KindsAre ==
    \A k, kind : kind \in Kinds(k) => k \in {"tcp", "sctp", "udp", "ping", "arp"}
BY DEF Kinds

LEMMA AnswerRead ==
    ASSUME XorOfWords, Sensible(conf), NEW t \in conf.targets, NEW n \in 1 .. conf.nics, NEW p, p = Probe(t, conf.src[n]),
           NEW kind \in Kinds(p.k), NEW f, f = Reply(conf.link, p.pkt, p.k, kind), NEW s, Read(f, s)
    PROVE  Echoes(p, kind, f, s)
<1> DEFINE l == conf.link
           k == p.k
           pkt == p.pkt
           them == p.them
           me == p.me
<1>1. l \in LinkNames
    BY SensibleIs
<1>2. k \in {"tcp", "sctp", "udp", "ping", "arp"}
    BY KindsAre
<1>3. /\ k \in TemplateKinds => Source(pkt) = me /\ Target(pkt) = them
      /\ k \in {"tcp", "udp", "sctp"} => pkt.tp[1] = p.mine /\ pkt.tp[2] = p.port
      /\ k = "tcp" => <<pkt.tp[3], pkt.tp[4]>> = SynCookie(them, p.port, me, p.mine)
      /\ k = "sctp" => <<pkt.tp[9], pkt.tp[10]>> = SynCookie(them, p.port + Templ_SCTP, me, p.mine)
      /\ k = "ping" => <<pkt.tp[3], pkt.tp[4]>> = SynCookie(them, Templ_ICMP_echo, me, 0)
      /\ k = "arp" => pkt.arp.tpa = them /\ pkt.arp.spa = me
    BY ProbeCarries
<1>4. f = Reply(l, pkt, k, kind) /\ Read(f, s)
    OBVIOUS
<1> HIDE DEF l, k, pkt, them, me
<1>5. CASE k = "tcp"
    <2> DEFINE tr == [sport |-> pkt.tp[2], dport |-> pkt.tp[1], size |-> 20]
               more == [flags |-> FlagsOf(kind), ack |-> Next32(<<pkt.tp[3], pkt.tp[4]>>)]
    <2>1. f = IpFrame(l, Target(pkt), Source(pkt), "tcp", tr, <<>>, more)
        BY <1>4, <1>5 DEF Reply, TcpAnswer, FlagsOf
    <2>2. /\ tr.sport = p.port /\ tr.dport = p.mine /\ Source(pkt) = me /\ Target(pkt) = them
          /\ more.flags = FlagsOf(kind) /\ more.ack = Next32(SynCookie(them, p.port, me, p.mine))
        BY <1>3, <1>5 DEF TemplateKinds
    <2> HIDE DEF tr, more
    <2>3. f.more = more /\ Seen(s, {"tcp"}, Target(pkt), Source(pkt), Link(l).size + 20, tr.sport, tr.dport)
        BY <1>1, <1>4, <2>1, IpFrameIs
    <2> QED
        BY <1>5, <2>2, <2>3 DEF Echoes, Seen, Ports, k, them, me
<1>6. CASE k = "sctp"
    <2> DEFINE tr == [sport |-> pkt.tp[2], dport |-> pkt.tp[1], size |-> 12]
               chunk == IF kind = "open" THEN 2 ELSE 6
               flags == IF kind = "open" THEN {} ELSE {"FIN"}
               more == [tag |-> <<pkt.tp[9], pkt.tp[10]>>, chunk |-> chunk, flags |-> flags, ack |-> <<0, 0>>]
               zeros == Zeros(4)
               size == Link(l).size
    <2>1. f = IpFrame(l, Target(pkt), Source(pkt), "sctp", tr, zeros, more)
        BY <1>4, <1>6 DEF Reply, SctpAnswer
    <2>2. /\ tr.sport = p.port /\ tr.dport = p.mine /\ tr.size = 12 /\ Source(pkt) = me /\ Target(pkt) = them
          /\ more.tag = SynCookie(them, p.port + Templ_SCTP, me, p.mine) /\ more.ack = <<0, 0>>
          /\ more.chunk = chunk /\ more.flags = flags
        BY <1>3, <1>6 DEF TemplateKinds
    <2>3. 4 = Len(zeros)
        BY DEF Zeros
    <2>4. size \in Nat
        BY <1>1, LinksAre DEF LinkNames, Plain
    <2> HIDE DEF tr, more, zeros, size
    <2>5. f.more = more /\ Seen(s, {"sctp"}, Target(pkt), Source(pkt), Link(l).size + 20, tr.sport, tr.dport)
        BY <1>1, <1>4, <2>1, IpFrameIs
    <2>6. f.len \in Nat /\ f.len >= Link(l).size + 20 + 12 + 4
        BY ZenonT(30), <1>1, <2>1, <2>2, <2>3, IpFrameLength
    <2>7. s.transport + 16 <= f.len
        BY <2>4, <2>5, <2>6 DEF Seen, size
    <2> QED
        BY <1>6, <2>2, <2>5, <2>7 DEF Echoes, Seen, Ports, k, them, me
<1>7. CASE k = "udp" /\ kind = "open"
    <2> DEFINE tr == [sport |-> pkt.tp[2], dport |-> pkt.tp[1], size |-> 8]
               more == [crc |-> FALSE]
               payload == Answered(pkt.tp[2], pkt.data)
    <2>1. f = IpFrame(l, Target(pkt), Source(pkt), "udp", tr, payload, more)
        BY <1>4, <1>7 DEF Reply, UdpAnswer
    <2>2. tr.sport = p.port /\ tr.dport = p.mine /\ Source(pkt) = me /\ Target(pkt) = them
        BY <1>3, <1>7 DEF TemplateKinds
    <2> HIDE DEF tr, more, payload
    <2>3. Seen(s, {"udp", "dns"}, Target(pkt), Source(pkt), Link(l).size + 20, tr.sport, tr.dport)
        BY <1>1, <1>4, <2>1, IpFrameIs
    <2> QED
        BY <1>7, <2>2, <2>3 DEF Echoes, Seen, Ports, k, them, me
<1>8. CASE k = "udp" /\ kind # "open"
    <2> DEFINE tr == [type |-> 3, code |-> 3, size |-> 8]
               inner == [me |-> Source(pkt), pme |-> pkt.tp[1], them |-> Target(pkt), pthem |-> pkt.tp[2], proto |-> 17]
               more == [number |-> <<0, 0>>, inner |-> inner]
               zeros == Zeros(28)
    <2>1. f = IpFrame(l, Target(pkt), Source(pkt), "icmp", tr, zeros, more)
        BY <1>4, <1>8 DEF Reply, Unreachable
    <2>2. tr.type = 3 /\ tr.code = 3 /\ Source(pkt) = me /\ Target(pkt) = them /\ more.inner.proto = 17
        BY <1>3, <1>8 DEF TemplateKinds
    <2> HIDE DEF tr, more, inner, zeros
    <2>3. f.more = more /\ Seen(s, {"icmp"}, Target(pkt), Source(pkt), Link(l).size + 20, tr.type, tr.code)
        BY <1>1, <1>4, <2>1, IpFrameIs
    <2> QED
        BY <1>8, <2>2, <2>3 DEF Echoes, Seen, k, them, me
<1>9. CASE k = "ping"
    <2> DEFINE tr == [type |-> 0, code |-> 0, size |-> 8]
               more == [number |-> <<pkt.tp[3], pkt.tp[4]>>]
               zeros == Zeros(48)
    <2>1. f = IpFrame(l, Target(pkt), Source(pkt), "icmp", tr, zeros, more)
        BY <1>4, <1>9 DEF Reply
    <2>2. tr.type = 0 /\ tr.code = 0 /\ Source(pkt) = me /\ Target(pkt) = them
          /\ more.number = SynCookie(them, Templ_ICMP_echo, me, 0)
        BY <1>3, <1>9 DEF TemplateKinds
    <2> HIDE DEF tr, more, zeros
    <2>3. f.more = more /\ Seen(s, {"icmp"}, Target(pkt), Source(pkt), Link(l).size + 20, tr.type, tr.code)
        BY <1>1, <1>4, <2>1, IpFrameIs
    <2> QED
        BY <1>9, <2>2, <2>3 DEF Echoes, Seen, k, them, me
<1>10. CASE k = "arp"
    <2>1. f = ArpFrame(l, 2, pkt.arp.tpa, pkt.arp.spa)
        BY <1>4, <1>10 DEF Reply
    <2>2. s.found = "arp" /\ s.them = pkt.arp.tpa /\ s.me = pkt.arp.spa /\ f.more.op = 2
        BY <1>1, <1>4, <2>1, ArpFrameIs
    <2> QED
        BY <1>3, <1>10, <2>2 DEF Echoes, k, them, me
<1> QED
    BY <1>2, <1>5, <1>6, <1>7, <1>8, <1>9, <1>10

LEMMA JoinsAre ==
    ASSUME NEW T, NEW p \in Seq(T), NEW t \in Seq(T), NEW q, Joins(q, p, t)
    PROVE  /\ q \in Seq(T) /\ Len(q) = Len(p) + Len(t)
           /\ \A i \in 1 .. Len(p) : q[i] = p[i]
           /\ \A i \in 1 .. Len(t) : q[Len(p) + i] = t[i]
BY Joined DEF Joins

\* A frame whose headers are these with one of them changed.
LEMMA JoinsTwo ==
    ASSUME NEW T, NEW p \in Seq(T), NEW t \in Seq(T), NEW q, Joins(q, p, t)
    PROVE  Len(t) = 2 => /\ q \in Seq(T) /\ Len(q) = Len(p) + 2
                         /\ \A i \in 1 .. Len(p) : q[i] = p[i]
                         /\ q[Len(p) + 1] = t[1] /\ q[Len(p) + 2] = t[2]
<1>1. q \in Seq(T)
    BY JoinsAre
<1>2. Len(q) = Len(p) + Len(t)
    BY JoinsAre
<1>3. \A i \in 1 .. Len(p) : q[i] = p[i]
    BY JoinsAre
<1>4. \A i \in 1 .. Len(t) : q[Len(p) + i] = t[i]
    BY JoinsAre
<1> QED
    BY <1>1, <1>2, <1>3, <1>4

Edited(q, hs, i, c) == q = [hs EXCEPT ![i] = c]

LEMMA HeaderChanged ==
    ASSUME NEW T, NEW p \in Seq(T), NEW t \in Seq(T), Len(t) = 2, NEW u \in Seq(T), Len(u) = 2, t[2] = u[2],
           NEW hs, Joins(hs, p, t), NEW q, Edited(q, hs, Len(p) + 1, u[1])
    PROVE  hs[Len(p) + 1] = t[1] /\ Joins(q, p, u)
<1> DEFINE n == Len(p)
           r == p \o u
<1>1. Joins(r, p, u) /\ n = Len(p) /\ n \in Nat
    BY DEF Joins
<1> HIDE DEF r, n
<1>2. /\ hs \in Seq(T) /\ Len(hs) = n + 2
      /\ \A i \in 1 .. n : hs[i] = p[i]
      /\ hs[n + 1] = t[1] /\ hs[n + 2] = t[2]
    BY <1>1, JoinsTwo
<1>3. /\ r \in Seq(T) /\ Len(r) = n + 2
      /\ \A i \in 1 .. n : r[i] = p[i]
      /\ r[n + 1] = u[1] /\ r[n + 2] = u[2]
    BY <1>1, JoinsTwo
<1>4. q \in Seq(T) /\ Len(q) = n + 2 /\ (\A i \in 1 .. (n + 2) : q[i] = IF i = n + 1 THEN u[1] ELSE hs[i])
    BY <1>1, <1>2 DEF Edited
<1>5. ASSUME NEW i \in 1 .. (n + 2) PROVE q[i] = r[i]
    <2>1. CASE i \in 1 .. n
        BY <1>1, <1>2, <1>3, <1>4, <2>1
    <2>2. CASE i \in {n + 1, n + 2}
        BY <1>1, <1>2, <1>3, <1>4, <2>2
    <2> QED
        BY <1>1, <2>1, <2>2
<1>6. q = r
    BY <1>1, <1>3, <1>4, <1>5
<1> QED
    BY <1>1, <1>2, <1>6

LEMMA HeaderCut ==
    ASSUME NEW S, NEW k \in Seq(S), NEW ip, NEW tr, NEW hs, Joins(hs, k, <<ip, tr>>), NEW cut,
           NEW q, Edited(q, hs, Len(k) + 1, cut)
    PROVE  hs[Len(k) + 1] = ip /\ Joins(q, k, <<cut, tr>>)
<1> DEFINE T == S \cup {ip, tr, cut}
           t == <<ip, tr>>
           u == <<cut, tr>>
<1>1. /\ k \in Seq(T) /\ t \in Seq(T) /\ Len(t) = 2 /\ t[1] = ip /\ t[2] = tr
      /\ u \in Seq(T) /\ Len(u) = 2 /\ u[1] = cut /\ u[2] = tr
    OBVIOUS
<1>2. Joins(hs, k, t)
    OBVIOUS
<1> HIDE DEF T, t, u
<1>3. k \in Seq(T) /\ t \in Seq(T) /\ u \in Seq(T) /\ Len(t) = 2 /\ Len(u) = 2 /\ t[2] = u[2] /\ cut = u[1]
    BY <1>1
<1>5. Edited(q, hs, Len(k) + 1, u[1])
    BY <1>1
<1>4. hs[Len(k) + 1] = t[1] /\ Joins(q, k, u)
    BY Zenon, <1>2, <1>3, <1>5, HeaderChanged
<1> QED
    BY <1>1, <1>4 DEF u

LEMMA LinkHeaders ==
    ASSUME NEW l \in LinkNames
    PROVE  \E S : Link(l).hs \in Seq(S)
<1> DEFINE hs == Link(l).hs
           a == [next |-> "ipv4"]
           v == [next |-> "vlan"]
           m == [next |-> "mpls"]
           o == [bottom |-> TRUE]
           x == [size |-> 8, fcs |-> FALSE]
           y == [protected |-> FALSE, fragment |-> FALSE, wds |-> FALSE, qos |-> TRUE]
           z == [snap |-> TRUE, oui |-> 0, next |-> "ipv4"]
<1>1. /\ l = "ethernet" => hs = <<a>>
      /\ l = "sll" => hs = <<a>>
      /\ l = "vlan" => hs = <<v, a>>
      /\ l = "mpls" => hs = <<m, o>>
      /\ l = "raw" => hs = <<>>
      /\ l = "wifi" => hs = <<x, y, z>>
    BY Zenon, LinksAre
<1> HIDE DEF hs, a, v, m, o, x, y, z
<1> DEFINE S == {a, v, m, o, x, y, z}
<1>2. <<a>> \in Seq(S) /\ <<v, a>> \in Seq(S) /\ <<m, o>> \in Seq(S) /\ <<>> \in Seq(S) /\ <<x, y, z>> \in Seq(S)
    OBVIOUS
<1> HIDE DEF S
<1>3. hs \in Seq(S)
    BY <1>1, <1>2 DEF LinkNames, Plain
<1> QED
    BY <1>3 DEF hs

\* A later fragment is thrown away.
Cut(f, e, n) == f = [e EXCEPT !.hs[n].fragment = TRUE]

LEMMA FragmentUnread ==
    ASSUME NEW l \in LinkNames, NEW src, NEW dst, NEW next, NEW tr, NEW payload, NEW more,
           NEW f, Cut(f, IpFrame(l, src, dst, next, tr, payload, more), Len(Link(l).hs) + 1),
           NEW s, Read(f, s)
    PROVE  FALSE
<1> DEFINE e == IpFrame(l, src, dst, next, tr, payload, more)
           ip == [version |-> 4, size |-> 20, total |-> 20 + tr.size + Len(payload), fragment |-> FALSE,
                  next |-> next, src |-> src, dst |-> dst]
           k == Link(l).hs
           n == Len(k) + 1
           cut == [e.hs[n] EXCEPT !.fragment = TRUE]
           q == [e.hs EXCEPT ![n] = cut]
<1>1. e.link = Link(l).type /\ Joins(e.hs, k, <<ip, tr>>) /\ {"hs", "link"} \subseteq DOMAIN e
    BY DEF IpFrame, Joins
<1>2. f = [e EXCEPT !.hs[n].fragment = TRUE]
    BY DEF Cut
<1> HIDE DEF e, k
<1>3. f.hs = [e.hs EXCEPT ![n].fragment = TRUE] /\ f.link = e.link
    BY <1>1, <1>2
<1>4. f.hs = q
    BY <1>3
<1>5. PICK S : k \in Seq(S)
    BY LinkHeaders DEF k
<1> HIDE DEF cut, q, ip
<1>6. Edited(q, e.hs, Len(k) + 1, cut)
    BY DEF q, Edited
<1>8. e.hs[n] = ip /\ Joins(q, k, <<cut, tr>>)
    BY ZenonT(30), <1>1, <1>5, <1>6, HeaderCut
<1>10. cut.fragment = TRUE
    BY <1>8 DEF cut, ip
<1>11. ~ cut.fragment
    BY <1>1, <1>3, <1>4, <1>8, IpFrameRead DEF k
<1> QED
    BY <1>10, <1>11

\* What a frame that nobody asked for is read as.
Intrudes(x, f, s) ==
    /\ s.found \in {"tcp", "udp", "dns", "icmp", "arp"} /\ s.them = x.them /\ s.me = x.me
    /\ s.found = "tcp" => s.sport = x.port /\ s.dport = x.mine /\ f.more.ack = <<7, 7>>
    /\ s.found = "icmp" => /\ x.what = "unreachable" /\ s.sport = 3 /\ s.dport = 3
                           /\ f.more.inner.them = x.them /\ f.more.inner.pthem = x.port /\ f.more.inner.proto = 6
    /\ s.found = "arp" => x.what \in {"arp request", "arp reply"} /\ f.more.op = (IF x.what = "arp reply" THEN 2 ELSE 1)

\* As long as it is, or cut off.
LEMMA TcpStrayRead ==
    ASSUME NEW l \in LinkNames, NEW src, NEW dst, NEW tr, NEW more,
           NEW f, NEW e, e = IpFrame(l, src, dst, "tcp", tr, <<>>, more), f.link = e.link, f.hs = e.hs, f.more = e.more,
           NEW s, Read(f, s)
    PROVE  f.more = more /\ s.found = "tcp" /\ s.them = src /\ s.me = dst /\ s.sport = tr.sport /\ s.dport = tr.dport
<1> DEFINE ip == [version |-> 4, size |-> 20, total |-> 20 + tr.size + Len(<<>>), fragment |-> FALSE,
                  next |-> "tcp", src |-> src, dst |-> dst]
<1>1. f.link = Link(l).type /\ f.more = more /\ Joins(f.hs, Link(l).hs, <<ip, tr>>)
    <2>1. e.link = Link(l).type /\ e.more = more /\ Joins(e.hs, Link(l).hs, <<ip, tr>>)
        BY DEF IpFrame, Joins
    <2> QED
        BY <2>1
<1>2. ip.size = 20 /\ ip.next = "tcp" /\ ip.src = src /\ ip.dst = dst
    OBVIOUS
<1> HIDE DEF ip
<1>3. Seen(s, {"tcp"}, ip.src, ip.dst, Link(l).size + ip.size, tr.sport, tr.dport)
    BY <1>1, <1>2, IpFrameRead
<1> QED
    BY <1>1, <1>2, <1>3 DEF Seen

Resized(f, e, n) == f = [e EXCEPT !.len = n]
StrayTcp(l, them, port, me, mine, flags) ==
    IpFrame(l, them, me, "tcp", [sport |-> port, dport |-> mine, size |-> 20], <<>>, [flags |-> flags, ack |-> <<7, 7>>])

LEMMA TcpStrays ==
    ASSUME NEW l, NEW what, NEW them, NEW port, NEW me, NEW mine, NEW f, f = Stray(l, what, them, port, me, mine)
    PROVE  /\ what \in {"synack", "rst", "fin", "syn"} => \E flags : f = StrayTcp(l, them, port, me, mine, flags)
           /\ what = "long" => Resized(f, StrayTcp(l, them, port, me, mine, {"SYN", "ACK"}), 1600)
           /\ what = "cut" => Resized(f, StrayTcp(l, them, port, me, mine, {"SYN", "ACK"}), 40)
           /\ what = "fragment" => Cut(f, StrayTcp(l, them, port, me, mine, {"SYN", "ACK"}), Len(Link(l).hs) + 1)
<1> DEFINE e(flags) == StrayTcp(l, them, port, me, mine, flags)
           Is(a, flags) == what = a => f = e(flags)
<1> USE DEF StrayTcp
<1>1. Is("synack", {"SYN", "ACK"})
    BY DEF Stray
<1>2. Is("rst", {"RST"})
    BY DEF Stray
<1>3. Is("fin", {"FIN", "ACK"})
    BY DEF Stray
<1>4. Is("syn", {"SYN"})
    BY DEF Stray
<1>5. what = "long" => Resized(f, e({"SYN", "ACK"}), 1600)
    BY DEF Stray, Resized
<1>6. what = "cut" => Resized(f, e({"SYN", "ACK"}), 40)
    BY DEF Stray, Resized
<1>7. what = "fragment" => Cut(f, e({"SYN", "ACK"}), Len(Link(l).hs) + 1)
    BY DEF Stray, Cut
<1> HIDE DEF StrayTcp
<1>8. what \in {"synack", "rst", "fin", "syn"} => \E flags : f = e(flags)
    BY <1>1, <1>2, <1>3, <1>4
<1> QED
    BY <1>5, <1>6, <1>7, <1>8

UdpStray(l, f, them, port, me, mine) ==
    \E payload, more : f = IpFrame(l, them, me, "udp", [sport |-> port, dport |-> mine, size |-> 8], payload, more)

LEMMA CutDnsStray ==
    ASSUME NEW l, NEW them, NEW port, NEW me, NEW mine
    PROVE  UdpStray(l, Stray(l, "short dns", them, port, me, mine), them, port, me, mine)
<1>1. Stray(l, "short dns", them, port, me, mine)
      = IpFrame(l, them, me, "udp", [sport |-> port, dport |-> mine, size |-> 8], Zeros(9), [crc |-> FALSE])
    BY DEF Stray
<1> QED
    BY Zenon, <1>1 DEF UdpStray

LEMMA DnsStray ==
    ASSUME NEW l, NEW them, NEW port, NEW me, NEW mine
    PROVE  UdpStray(l, Stray(l, "dns", them, port, me, mine), them, port, me, mine)
<1>1. Stray(l, "dns", them, port, me, mine)
      = IpFrame(l, them, me, "udp", [sport |-> port, dport |-> mine, size |-> 8],
                <<1, 2, 129, 128>> \o Zeros(8), [crc |-> FALSE])
    BY DEF Stray
<1> QED
    BY Zenon, <1>1 DEF UdpStray

LEMMA ZeroAccessStray ==
    ASSUME NEW l, NEW them, NEW port, NEW me, NEW mine
    PROVE  UdpStray(l, Stray(l, "zeroaccess", them, port, me, mine), them, port, me, mine)
<1>1. Stray(l, "zeroaccess", them, port, me, mine)
      = IpFrame(l, them, me, "udp", [sport |-> port, dport |-> mine, size |-> 8],
                Zeros(4) \o <<76, 116, 101, 114>> \o Zeros(4) \o <<1, 0, 0, 0>> \o Zeros(8), [crc |-> TRUE])
    BY DEF Stray
<1> QED
    BY Zenon, <1>1 DEF UdpStray

LEMMA ArpStrays ==
    ASSUME NEW l, NEW them, NEW port, NEW me, NEW mine
    PROVE  /\ Stray(l, "arp request", them, port, me, mine) = ArpFrame(l, 1, them, me)
           /\ Stray(l, "arp reply", them, port, me, mine) = ArpFrame(l, 2, them, me)
BY DEF Stray

LEMMA UdpStrays ==
    ASSUME NEW l, NEW what, NEW them, NEW port, NEW me, NEW mine,
           NEW f, f = Stray(l, what, them, port, me, mine)
    PROVE  what \in {"short dns", "dns", "zeroaccess"} =>
           UdpStray(l, f, them, port, me, mine)
<1>1. CASE what = "short dns"
    BY Zenon, <1>1, CutDnsStray
<1>2. CASE what = "dns"
    BY Zenon, <1>2, DnsStray
<1>3. CASE what = "zeroaccess"
    BY Zenon, <1>3, ZeroAccessStray
<1> QED
    BY <1>1, <1>2, <1>3

LEMMA UnaskedRead ==
    ASSUME NEW l \in LinkNames, NEW x, x.what \in Strays,
           NEW f, f = Stray(l, x.what, x.them, x.port, x.me, x.mine), NEW s, Read(f, s)
    PROVE  Intrudes(x, f, s)
<1> DEFINE what == x.what
           them == x.them
           me == x.me
           tcp == [sport |-> x.port, dport |-> x.mine, size |-> 20]
           udp == [sport |-> x.port, dport |-> x.mine, size |-> 8]
           More(flags) == [flags |-> flags, ack |-> <<7, 7>>]
<1>1. CASE what \in {"synack", "rst", "fin", "syn", "long", "cut"}
    <2>1. \E flags : LET e == StrayTcp(l, them, x.port, me, x.mine, flags) IN
             f.link = e.link /\ f.hs = e.hs /\ f.more = e.more
        <3> DEFINE e == StrayTcp(l, them, x.port, me, x.mine, {"SYN", "ACK"})
        <3>1. {"link", "hs", "more", "len"} \subseteq DOMAIN e
            BY DEF StrayTcp, IpFrame
        <3> HIDE DEF e
        <3>2. what = "long" => Resized(f, e, 1600)
            BY TcpStrays DEF e
        <3>3. what = "cut" => Resized(f, e, 40)
            BY TcpStrays DEF e
        <3>4. what \in {"synack", "rst", "fin", "syn"} => \E flags : f = StrayTcp(l, them, x.port, me, x.mine, flags)
            BY TcpStrays
        <3>5. what \in {"long", "cut"} => f.link = e.link /\ f.hs = e.hs /\ f.more = e.more
            BY <3>1, <3>2, <3>3 DEF Resized
        <3> HIDE DEF what, them, me
        <3> QED
            BY <1>1, <3>4, <3>5 DEF e
    <2>2. PICK flags : LET e == StrayTcp(l, them, x.port, me, x.mine, flags) IN
             f.link = e.link /\ f.hs = e.hs /\ f.more = e.more
        BY <2>1
    <2> DEFINE e == StrayTcp(l, them, x.port, me, x.mine, flags)
               more == More(flags)
    <2>3. e = IpFrame(l, them, me, "tcp", tcp, <<>>, more)
        BY DEF StrayTcp
    <2>4. more.ack = <<7, 7>> /\ tcp.sport = x.port /\ tcp.dport = x.mine
        OBVIOUS
    <2>5. f.link = e.link /\ f.hs = e.hs /\ f.more = e.more
        BY <2>2
    <2> HIDE DEF e, more, tcp
    <2>6. f.more = more /\ s.found = "tcp" /\ s.them = them /\ s.me = me /\ s.sport = tcp.sport /\ s.dport = tcp.dport
        BY <2>3, <2>5, TcpStrayRead
    <2> QED
        BY <2>4, <2>6 DEF Intrudes
<1>2. CASE what = "fragment"
    <2>1. Cut(f, StrayTcp(l, them, x.port, me, x.mine, {"SYN", "ACK"}), Len(Link(l).hs) + 1)
        BY <1>2, TcpStrays
    <2> DEFINE more == More({"SYN", "ACK"})
    <2>2. Cut(f, IpFrame(l, them, me, "tcp", tcp, <<>>, more), Len(Link(l).hs) + 1)
        BY <2>1 DEF StrayTcp
    <2> HIDE DEF more, tcp, them, me
    <2> QED
        BY <2>2, FragmentUnread
<1>3. CASE what \in {"short dns", "dns", "zeroaccess"}
    <2>1. UdpStray(l, f, them, x.port, me, x.mine)
        BY <1>3, UdpStrays
    <2>2. PICK payload, more : f = IpFrame(l, them, me, "udp", udp, payload, more)
        BY <2>1 DEF UdpStray
    <2> HIDE DEF udp
    <2>3. Seen(s, {"udp", "dns"}, them, me, Link(l).size + 20, udp.sport, udp.dport)
        BY <2>2, IpFrameIs
    <2> QED
        BY <2>3 DEF Seen, Intrudes
<1>4. CASE what = "unreachable"
    <2> DEFINE tr == [type |-> 3, code |-> 3, size |-> 8]
               inner == [me |-> me, pme |-> x.mine, them |-> them, pthem |-> x.port, proto |-> 6]
               more == [number |-> <<0, 0>>, inner |-> inner]
               zeros == Zeros(28)
    <2>1. f = IpFrame(l, them, me, "icmp", tr, zeros, more)
        BY <1>4 DEF Stray, Unreachable
    <2>2. tr.type = 3 /\ tr.code = 3 /\ more.inner.them = them /\ more.inner.pthem = x.port /\ more.inner.proto = 6
        OBVIOUS
    <2> HIDE DEF tr, more, inner, zeros
    <2>3. f.more = more /\ Seen(s, {"icmp"}, them, me, Link(l).size + 20, tr.type, tr.code)
        BY <2>1, IpFrameIs
    <2> QED
        BY <1>4, <2>2, <2>3 DEF Seen, Intrudes
<1>5. CASE what \in {"arp request", "arp reply"}
    <2> DEFINE op == IF what = "arp reply" THEN 2 ELSE 1
    <2>1. f = ArpFrame(l, op, them, me)
        <3>1. CASE what = "arp request"
            <4>1. f = Stray(l, "arp request", them, x.port, me, x.mine)
                BY Zenon, <3>1
            <4>2. op = 1
                BY <3>1
            <4>3. Stray(l, "arp request", them, x.port, me, x.mine) = ArpFrame(l, 1, them, me)
                BY Zenon, ArpStrays
            <4> HIDE DEF op
            <4> QED
                BY Zenon, <4>1, <4>2, <4>3
        <3>2. CASE what = "arp reply"
            <4>1. f = Stray(l, "arp reply", them, x.port, me, x.mine)
                BY Zenon, <3>2
            <4>2. op = 2
                BY <3>2
            <4>3. Stray(l, "arp reply", them, x.port, me, x.mine) = ArpFrame(l, 2, them, me)
                BY Zenon, ArpStrays
            <4> HIDE DEF op
            <4> QED
                BY Zenon, <4>1, <4>2, <4>3
        <3> QED
            BY <1>5, <3>1, <3>2
    <2> HIDE DEF op
    <2>2. s.found = "arp" /\ s.them = them /\ s.me = me /\ f.more.op = op
        BY <2>1, ArpFrameIs
    <2> QED
        BY <1>5, <2>2 DEF Intrudes, op
<1> QED
    BY <1>1, <1>2, <1>3, <1>4, <1>5 DEF Strays

----------------------------------------------------------------------------
(* What is on the wire, and what therefore arrives *)

ProbesSent == \A p \in sent : \/ \E t \in conf.targets, n \in 1 .. conf.nics : p = Probe(t, conf.src[n])
                              \/ \E flow \in Flows, seqno \in Number, ackno \in Number : p = Reset(flow, seqno, ackno)

\* Every frame is somebody's answer to one of the probes, or a stray.
LEMMA ArrivesFrom ==
    ASSUME XorOfWords, Sensible(conf), ProbesSent, NEW f \in Arriving, NEW s, Read(f.frame, s)
    PROVE  \/ \E p \in Probes : \E t \in conf.targets, n \in 1 .. conf.nics : \E kind \in Kinds(p.k) :
                 p = Probe(t, conf.src[n]) /\ f = Answer(p, kind) /\ Echoes(p, kind, f.frame, s)
           \/ \E x \in conf.strays : f = Unasked(x) /\ Intrudes(x, f.frame, s)
<1>1. CASE \E x \in conf.strays : f = Unasked(x)
    <2>1. PICK x \in conf.strays : f = Unasked(x)
        BY <1>1
    <2> DEFINE l == conf.link
               frame == f.frame
    <2>2. frame = Stray(l, x.what, x.them, x.port, x.me, x.mine) /\ l \in LinkNames /\ Read(frame, s)
        BY <2>1, SensibleIs DEF Unasked
    <2>3. x.what \in Strays
        BY DEF Sensible
    <2> HIDE DEF l, frame
    <2>4. Intrudes(x, frame, s)
        BY <2>2, <2>3, UnaskedRead
    <2> QED
        BY <2>1, <2>4 DEF frame
<1>2. CASE \E p \in Probes : \E kind \in Kinds(p.k) : f = Answer(p, kind)
    <2>1. PICK p \in Probes : \E kind \in Kinds(p.k) : f = Answer(p, kind)
        BY <1>2
    <2>2. PICK kind \in Kinds(p.k) : f = Answer(p, kind)
        BY <2>1
    <2>3. p \in sent /\ p.k # "reset"
        BY DEF Probes
    <2>4. \A flow, seqno, ackno : p # Reset(flow, seqno, ackno)
        BY <2>3 DEF Reset
    <2>5. PICK t \in conf.targets, n \in 1 .. conf.nics : p = Probe(t, conf.src[n])
        BY <2>3, <2>4 DEF ProbesSent
    <2> DEFINE frame == f.frame
    <2>6. frame = Reply(conf.link, p.pkt, p.k, kind) /\ Read(frame, s)
        BY <2>2 DEF Answer
    <2> HIDE DEF frame
    <2>7. Echoes(p, kind, frame, s)
        BY <2>5, <2>6, AnswerRead
    <2> QED
        BY <2>2, <2>5, <2>7 DEF frame
<1> DEFINE A == UNION {{Answer(p, kind) : kind \in Kinds(p.k) \cap conf.kinds} : p \in Probes}
           B == {Unasked(x) : x \in conf.strays}
<1>3. f \in A \/ f \in B
    <2>1. Arriving = A \cup B
        BY Zenon DEF Arriving
    <2> HIDE DEF A, B
    <2> QED
        BY <2>1
<1>4. CASE f \in A
    <2>1. \E p \in Probes : f \in {Answer(p, kind) : kind \in Kinds(p.k) \cap conf.kinds}
        BY Zenon, <1>4
    <2> QED
        BY Zenon, <1>2, <2>1
<1>5. CASE f \in B
    BY Zenon, <1>1, <1>5
<1> QED
    BY <1>3, <1>4, <1>5

----------------------------------------------------------------------------
(* misc-rstfilter.c: two counters to a byte *)

Level == {n \in Nat : n < 16}
Buckets == 0 .. (BucketCount - 1)
Rows == 0 .. (BucketCount \div 2 - 1)

LEMMA BucketCountIs ==
    /\ BucketCount \in Nat /\ BucketCount > 0 /\ BucketCount % 2 = 0 /\ 0 \in Buckets
    /\ \A i \in Buckets : i \in Nat /\ i \div 2 \in Rows
BY BucketCountAssumption DEF Buckets, Rows

LEMMA NibbleIs ==
    ASSUME NEW b \in Byte, NEW i \in Nat, NEW j \in Nat
    PROVE  /\ Nibble(b, i) \in Level
           /\ Nibble(b, i) # 15 =>
                /\ b + Unit(i) \in Byte /\ Nibble(b + Unit(i), i) = Nibble(b, i) + 1
                /\ i % 2 # j % 2 => Nibble(b + Unit(i), j) = Nibble(b, j)
           /\ Nibble(b, i) # 0 =>
                /\ b - Unit(i) \in Byte /\ Nibble(b - Unit(i), i) = Nibble(b, i) - 1
                /\ i % 2 # j % 2 => Nibble(b - Unit(i), j) = Nibble(b, j)
<1>1. i % 2 \in {0, 1} /\ j % 2 \in {0, 1}
    OBVIOUS
<1>2. PICK h \in Nat, l \in Nat : b = 16 * h + l /\ h < 16 /\ l < 16
    <2>1. b = 16 * (b \div 16) + (b % 16) /\ b \div 16 \in Nat /\ b % 16 \in Nat /\ b \div 16 < 16 /\ b % 16 < 16
        BY DEF Byte
    <2> QED
        BY <2>1
<1>3. b % 16 = l /\ b \div 16 = h /\ h \in Level /\ l \in Level
    BY <1>2 DEF Byte, Level
<1>4. CASE i % 2 = 1
    <2>1. l # 15 => b + 1 \in Byte /\ (b + 1) % 16 = l + 1 /\ (b + 1) \div 16 = h
        BY <1>2 DEF Byte
    <2>2. l # 0 => b - 1 \in Byte /\ (b - 1) % 16 = l - 1 /\ (b - 1) \div 16 = h
        BY <1>2 DEF Byte
    <2> QED
        BY <1>1, <1>3, <1>4, <2>1, <2>2 DEF Nibble, Unit
<1>5. CASE i % 2 = 0
    <2>1. h # 15 => b + 16 \in Byte /\ (b + 16) % 16 = l /\ (b + 16) \div 16 = h + 1
        BY <1>2 DEF Byte
    <2>2. h # 0 => b - 16 \in Byte /\ (b - 16) % 16 = l /\ (b - 16) \div 16 = h - 1
        BY <1>2 DEF Byte
    <2> QED
        BY <1>1, <1>3, <1>5, <2>1, <2>2 DEF Nibble, Unit
<1> QED
    BY <1>1, <1>4, <1>5

\* The bytes hold what the counters are at.
Counts(rf, c) ==
    /\ rf \in [Rows -> Byte] /\ c \in [Buckets -> Level]
    /\ \A i \in Buckets : Nibble(rf[i \div 2], i) = c[i]
Counter(c, i, v) == [c EXCEPT ![i] = v]

\* To change one counter leaves its neighbour alone.
LEMMA CounterChanged ==
    ASSUME NEW rf, NEW c, Counts(rf, c), NEW i \in Buckets, NEW b \in Byte, NEW v \in Level,
           Nibble(b, i) = v, \A j \in Buckets : i % 2 # j % 2 => Nibble(b, j) = Nibble(rf[i \div 2], j),
           NEW q, q = Counter(rf, i \div 2, b), NEW d, d = Counter(c, i, v)
    PROVE  Counts(q, d)
<1>1. rf \in [Rows -> Byte] /\ c \in [Buckets -> Level] /\ \A j \in Buckets : Nibble(rf[j \div 2], j) = c[j]
    BY DEF Counts
<1>2. q \in [Rows -> Byte] /\ q[i \div 2] = b /\ \A r \in Rows : r # i \div 2 => q[r] = rf[r]
    BY <1>1, BucketCountIs DEF Counter
<1>3. d \in [Buckets -> Level] /\ d[i] = v /\ \A j \in Buckets : j # i => d[j] = c[j]
    BY <1>1 DEF Counter
<1>4. ASSUME NEW j \in Buckets PROVE Nibble(q[j \div 2], j) = d[j]
    <2>1. CASE j = i
        BY <1>2, <1>3, <2>1
    <2>2. CASE j # i /\ j \div 2 = i \div 2
        <3>1. i % 2 # j % 2
            <4>1. i \in Nat /\ j \in Nat
                BY BucketCountIs
            <4>2. i = 2 * (i \div 2) + (i % 2) /\ j = 2 * (j \div 2) + (j % 2)
                BY <4>1
            <4> QED
                BY <4>1, <4>2, <2>2
        <3> QED
            BY <1>1, <1>2, <1>3, <2>2, <3>1
    <2>3. CASE j # i /\ j \div 2 # i \div 2
        BY <1>1, <1>2, <1>3, <2>3, BucketCountIs
    <2> QED
        BY <2>1, <2>2, <2>3
<1> QED
    BY <1>2, <1>3, <1>4 DEF Counts

LEMMA CounterUnchanged ==
    ASSUME NEW rf, NEW c, Counts(rf, c), NEW i \in Buckets
    PROVE  Counter(c, i, c[i]) = c
BY DEF Counts, Counter

LEMMA AddCounts ==
    ASSUME NEW rf, NEW c, Counts(rf, c), NEW i \in Buckets
    PROVE  Counts(Add(rf, i), Counter(c, i, IF c[i] < 15 THEN c[i] + 1 ELSE c[i]))
<1> DEFINE b == rf[i \div 2]
<1>1. b \in Byte /\ i \in Nat /\ Nibble(b, i) = c[i] /\ c[i] \in Level /\ \A j \in Buckets : j \in Nat
    BY BucketCountIs DEF Counts
<1>2. CASE c[i] = 15
    <2>1. Add(rf, i) = rf
        BY <1>1, <1>2 DEF Add
    <2>2. (IF c[i] < 15 THEN c[i] + 1 ELSE c[i]) = c[i]
        BY <1>2
    <2> QED
        BY <2>1, <2>2, CounterUnchanged
<1>3. CASE c[i] # 15
    <2>1. c[i] < 15 /\ c[i] + 1 \in Level
        BY <1>1, <1>3 DEF Level
    <2>2. Add(rf, i) = Counter(rf, i \div 2, b + Unit(i))
        BY <1>1, <1>3 DEF Add, Counter
    <2>3. b + Unit(i) \in Byte /\ Nibble(b + Unit(i), i) = c[i] + 1
        BY <1>1, <1>3, NibbleIs
    <2>4. \A j \in Buckets : i % 2 # j % 2 => Nibble(b + Unit(i), j) = Nibble(b, j)
        BY <1>1, <1>3, NibbleIs
    <2> HIDE DEF b
    <2>5. Counts(Add(rf, i), Counter(c, i, c[i] + 1))
        <3> DEFINE x == b + Unit(i)
                   v == c[i] + 1
        <3>1. x \in Byte /\ v \in Level /\ Nibble(x, i) = v /\ Add(rf, i) = Counter(rf, i \div 2, x)
              /\ \A j \in Buckets : i % 2 # j % 2 => Nibble(x, j) = Nibble(rf[i \div 2], j)
            BY <2>1, <2>2, <2>3, <2>4 DEF b
        <3> HIDE DEF x, v
        <3>2. Counts(Add(rf, i), Counter(c, i, v))
            BY <3>1, CounterChanged
        <3> QED
            BY <3>2 DEF v
    <2> QED
        BY <2>1, <2>5
<1> QED
    BY <1>2, <1>3

LEMMA DrainCounts ==
    ASSUME NEW rf, NEW c, Counts(rf, c), NEW i \in Buckets
    PROVE  Counts(Drain(rf, i), Counter(c, i, IF c[i] > 0 THEN c[i] - 1 ELSE c[i]))
<1> DEFINE b == rf[i \div 2]
<1>1. b \in Byte /\ i \in Nat /\ Nibble(b, i) = c[i] /\ c[i] \in Level /\ \A j \in Buckets : j \in Nat
    BY BucketCountIs DEF Counts
<1>2. CASE c[i] = 0
    <2>1. Drain(rf, i) = rf
        BY <1>1, <1>2 DEF Drain
    <2>2. (IF c[i] > 0 THEN c[i] - 1 ELSE c[i]) = c[i]
        BY <1>2
    <2> QED
        BY <2>1, <2>2, CounterUnchanged
<1>3. CASE c[i] # 0
    <2>1. c[i] > 0 /\ c[i] - 1 \in Level
        BY <1>1, <1>3 DEF Level
    <2>2. Drain(rf, i) = Counter(rf, i \div 2, b - Unit(i))
        BY <1>1, <1>3 DEF Drain, Counter
    <2>3. b - Unit(i) \in Byte /\ Nibble(b - Unit(i), i) = c[i] - 1
        BY <1>1, <1>3, NibbleIs
    <2>4. \A j \in Buckets : i % 2 # j % 2 => Nibble(b - Unit(i), j) = Nibble(b, j)
        BY <1>1, <1>3, NibbleIs
    <2> HIDE DEF b
    <2>5. Counts(Drain(rf, i), Counter(c, i, c[i] - 1))
        <3> DEFINE x == b - Unit(i)
                   v == c[i] - 1
        <3>1. x \in Byte /\ v \in Level /\ Nibble(x, i) = v /\ Drain(rf, i) = Counter(rf, i \div 2, x)
              /\ \A j \in Buckets : i % 2 # j % 2 => Nibble(x, j) = Nibble(rf[i \div 2], j)
            BY <2>1, <2>2, <2>3, <2>4 DEF b
        <3> HIDE DEF x, v
        <3>2. Counts(Drain(rf, i), Counter(c, i, v))
            BY <3>1, CounterChanged
        <3> QED
            BY <3>2 DEF v
    <2> QED
        BY <2>1, <2>5
<1> QED
    BY <1>2, <1>3

\* rstfilter_is_filter does what counters of their own would do.
LEMMA FilterCounts ==
    ASSUME NEW rf, NEW c, Counts(rf, c), NEW i \in Buckets, NEW drained \in Buckets,
           NEW out, out = rstfilter_is_filter(rf, i, drained)
    PROVE  Counts(out.rf, Counted(c, i, drained)) /\ (out.suppress <=> c[i] = 15)
<1> DEFINE up == Counter(c, i, IF c[i] < 15 THEN c[i] + 1 ELSE c[i])
           rf1 == Add(rf, i)
<1>1. Counts(rf1, up)
    BY AddCounts
<1>2. Nibble(rf[i \div 2], i) = c[i]
    BY DEF Counts
<1>3. out.suppress <=> c[i] = 15
    BY <1>2 DEF rstfilter_is_filter
<1>4. out.rf = Drain(rf1, drained)
    BY DEF rstfilter_is_filter
<1>5. Counted(c, i, drained) = Counter(up, drained, IF up[drained] > 0 THEN up[drained] - 1 ELSE up[drained])
    BY DEF Counted, Counter
<1> HIDE DEF up, rf1
<1>6. Counts(Drain(rf1, drained), Counter(up, drained, IF up[drained] > 0 THEN up[drained] - 1 ELSE up[drained]))
    BY <1>1, DrainCounts
<1> QED
    BY <1>3, <1>4, <1>5, <1>6

----------------------------------------------------------------------------
(* The receive threads *)

\* The hash of a flow, masked, is one of the filter's buckets.
RstIndexInRange == \A flow \in Flows : RstIndex(flow) \in Buckets

Thread(x) == x = [pc |-> x.pc, o |-> x.o, dedup |-> x.dedup, tcbs |-> x.tcbs, rf |-> x.rf]
Threads ==
    /\ nics = [n \in 1 .. conf.nics |-> nics[n]]
    /\ \A n \in 1 .. conf.nics : Thread(nics[n])
Filters ==
    /\ counts = [n \in 1 .. conf.nics |-> counts[n]]
    /\ \A n \in 1 .. conf.nics : nics[n].pc # "done" => Counts(nics[n].rf, counts[n])
    /\ last.suppressed <=> last.full
\* What the filter holds and what was sent need each other: the resets that
\* the filter let through are on the wire, and the flows it is asked about
\* come from frames that answer what is on the wire.
WireInv == Sensible(conf) /\ Threads /\ ProbesSent /\ Filters

LEMMA NewCounts == Counts(rstfilter_create, [i \in 0 .. (BucketCount - 1) |-> 0])
<1>1. 0 \in Byte /\ 0 \in Level
    BY DEF Byte, Level
<1>2. \A i \in Buckets : i \in Nat /\ i \div 2 \in Rows /\ Nibble(0, i) = 0
    BY BucketCountIs DEF Nibble
<1> QED
    BY <1>1, <1>2 DEF Counts, rstfilter_create, Rows, Buckets

LEMMA NewThread ==
    /\ Thread(New) /\ New.pc = "new" /\ New.rf = rstfilter_create /\ New.dedup = dedup_create /\ New.tcbs = {}
    /\ LET done == [New EXCEPT !.pc = "done"] IN Thread(done) /\ done.pc = "done"
BY DEF Thread, New

\* A probe and a reset depend on the settings by the TTL alone.
LEMMA WireSame ==
    ASSUME conf'.ttl = conf.ttl
    PROVE  /\ \A t, me : Probe(t, me)' = Probe(t, me)
           /\ \A flow, seqno, ackno : Reset(flow, seqno, ackno)' = Reset(flow, seqno, ackno)
<1>1. set' = set
    BY DEF set
<1>2. \A t, me : Probe(t, me)' = Probe(t, me)
    BY <1>1 DEF Probe
<1>3. \A flow, seqno, ackno : Reset(flow, seqno, ackno)' = Reset(flow, seqno, ackno)
    BY <1>1 DEF Reset
<1> QED
    BY <1>2, <1>3

LEMMA SentSame ==
    ASSUME ProbesSent, sent' = sent, conf'.ttl = conf.ttl, conf'.targets = conf.targets, conf'.nics = conf.nics,
           conf'.src = conf.src
    PROVE  ProbesSent'
<1>1. /\ \A t, me : Probe(t, me)' = Probe(t, me)
      /\ \A flow, seqno, ackno : Reset(flow, seqno, ackno)' = Reset(flow, seqno, ackno)
    BY WireSame
<1> QED
    BY <1>1 DEF ProbesSent

\* A thread goes on as x.
LEMMA ThreadGoesOn ==
    ASSUME Threads, conf' = conf, NEW n \in 1 .. conf.nics, NEW x, Thread(x), NEW w, GoesOn(n, x, w)
    PROVE  /\ Threads'
           /\ nics'[n].pc = x.pc /\ nics'[n].dedup = x.dedup /\ nics'[n].tcbs = x.tcbs /\ nics'[n].rf = x.rf
           /\ \A m \in 1 .. conf.nics : m # n => nics'[m] = nics[m]
<1> DEFINE y == [x EXCEPT !.o = w.o]
<1>1. y = [pc |-> x.pc, o |-> w.o, dedup |-> x.dedup, tcbs |-> x.tcbs, rf |-> x.rf]
    BY DEF Thread
<1>2. nics' = [nics EXCEPT ![n] = y]
    BY DEF GoesOn
<1> HIDE DEF y
<1>3. nics' = [m \in 1 .. conf.nics |-> IF m = n THEN y ELSE nics[m]]
    BY <1>2 DEF Threads
<1>4. Thread(y) /\ y.pc = x.pc /\ y.dedup = x.dedup /\ y.tcbs = x.tcbs /\ y.rf = x.rf
    BY <1>1 DEF Thread
<1> QED
    BY <1>3, <1>4 DEF Threads

LEMMA ThreadReports ==
    ASSUME Threads, conf' = conf, NEW n \in 1 .. conf.nics, NEW x, Thread(x), NEW rs, NEW of, NEW ok, Report(n, x, rs, of, ok)
    PROVE  /\ Threads'
           /\ nics'[n].pc = x.pc /\ nics'[n].dedup = x.dedup /\ nics'[n].tcbs = x.tcbs /\ nics'[n].rf = x.rf
           /\ \A m \in 1 .. conf.nics : m # n => nics'[m] = nics[m]
<1>1. PICK w : GoesOn(n, x, w)
    BY DEF Report
<1> QED
    BY <1>1, ThreadGoesOn

LEMMA FiltersKept ==
    ASSUME Filters, conf'.nics = conf.nics, UNCHANGED <<counts, last>>,
           \A n \in 1 .. conf.nics : nics[n].pc = "done" => nics'[n].pc = "done",
           \A n \in 1 .. conf.nics : nics'[n].pc # "done" => nics'[n].rf = nics[n].rf
    PROVE  Filters'
BY DEF Filters

\* What is reported without the filter being asked leaves it as it is.
LEMMA ReportKeeps ==
    ASSUME WireInv, NEW n \in 1 .. conf.nics, NEW x, Thread(x), x.pc = nics[n].pc, x.rf = nics[n].rf,
           NEW rs, NEW of, NEW ok, Report(n, x, rs, of, ok), UNCHANGED <<conf, sent, counts, last>>
    PROVE  WireInv'
<1>1. Threads /\ Filters /\ ProbesSent /\ Sensible(conf)
    BY DEF WireInv
<1>2. /\ Threads' /\ nics'[n].pc = x.pc /\ nics'[n].rf = x.rf
      /\ \A m \in 1 .. conf.nics : m # n => nics'[m] = nics[m]
    BY <1>1, ThreadReports
<1>3. Filters'
    BY <1>1, <1>2, FiltersKept
<1>4. ProbesSent' /\ Sensible(conf)'
    BY <1>1, SentSame
<1> QED
    BY <1>2, <1>3, <1>4 DEF WireInv

LEMMA NothingKeeps ==
    ASSUME WireInv, UNCHANGED <<conf, sent, nics, counts, last>>
    PROVE  WireInv'
<1>1. Threads /\ Filters /\ ProbesSent /\ Sensible(conf)
    BY DEF WireInv
<1>2. Threads' /\ Filters' /\ Sensible(conf)'
    BY <1>1 DEF Threads, Filters
<1>3. ProbesSent'
    BY <1>1, SentSame
<1> QED
    BY <1>2, <1>3 DEF WireInv

LEMMA WireInit == Init => WireInv
<1> SUFFICES ASSUME Init PROVE WireInv
    OBVIOUS
<1>1. Sensible(conf)
    BY ScenariosAssumption DEF Init
<1>2. nics = [n \in 1 .. conf.nics |-> New] /\ counts = [n \in 1 .. conf.nics |-> [i \in 0 .. (BucketCount - 1) |-> 0]]
    BY DEF Init, NoCounts
<1>3. Threads
    BY <1>2, NewThread DEF Threads
<1>4. last.suppressed <=> last.full
    BY DEF Init
<1>5. Filters
    BY <1>2, <1>4, NewThread, NewCounts DEF Filters
<1>6. ProbesSent
    BY DEF Init, ProbesSent
<1> QED
    BY <1>1, <1>3, <1>5, <1>6 DEF WireInv

\* What a segment tells is told of a flow, and acknowledges a number.
LEMMA FlowRead ==
    ASSUME XorOfWords, WireInv, NEW f \in Arriving, NEW s, Read(f.frame, s), s.found \in {"tcp", "sctp"}
    PROVE  Flow(s) \in Flows /\ f.frame.more.ack \in Number
<1> DEFINE frame == f.frame
           more == frame.more
<1>1. Sensible(conf) /\ ProbesSent
    BY DEF WireInv
<1> SUFFICES s.them \in Number /\ s.sport \in Word /\ s.me \in Number /\ s.dport \in Word /\ more.ack \in Number
    BY DEF Flow, Flows
<1>2. CASE \E p \in Probes : \E t \in conf.targets, n \in 1 .. conf.nics : \E kind \in Kinds(p.k) :
              p = Probe(t, conf.src[n]) /\ f = Answer(p, kind) /\ Echoes(p, kind, frame, s)
    <2>1. PICK p \in Probes, t \in conf.targets, n \in 1 .. conf.nics : \E kind \in Kinds(p.k) :
              p = Probe(t, conf.src[n]) /\ Echoes(p, kind, frame, s)
        BY <1>2
    <2> PICK kind \in Kinds(p.k) : p = Probe(t, conf.src[n]) /\ Echoes(p, kind, frame, s)
        BY <2>1
    <2>2. /\ p.k \in {"tcp", "sctp", "udp", "ping", "arp"} /\ s.them = p.them /\ s.me = p.me
          /\ p.k = "tcp" => Ports(s, p) /\ more.ack = Next32(SynCookie(p.them, p.port, p.me, p.mine))
          /\ p.k = "sctp" => Ports(s, p) /\ more.ack = <<0, 0>>
          /\ p.k \in {"tcp", "sctp"}
        BY <2>1 DEF Echoes
    <2>3. /\ p.k = Kind(t.target) /\ p.them = t.them /\ p.me = conf.src[n].ip /\ p.them \in Number /\ p.me \in Number
          /\ p.port = t.target % W /\ p.mine = conf.src[n].port /\ p.port \in Word /\ p.mine \in Word
        BY <1>1, <2>1, <2>2, ProbeCarries
    <2>4. p.k = "tcp" => SynCookie(p.them, p.port, p.me, p.mine) \in Number
        <3>1. SynCookie(t.them, t.target, conf.src[n].ip, conf.src[n].port) \in Number /\ t.target \in Nat
            BY <1>1, SensibleIs
        <3>2. p.k = "tcp" => t.target % W = t.target
            BY <2>3, <3>1, KindIs
        <3> QED
            BY <2>3, <3>1, <3>2
    <2> HIDE DEF frame, more
    <2> QED
        BY <2>2, <2>3, <2>4, NextType, SevenType DEF Ports
<1>3. CASE \E x \in conf.strays : f = Unasked(x) /\ Intrudes(x, frame, s)
    <2>1. PICK x \in conf.strays : Intrudes(x, frame, s)
        BY <1>3
    <2>2. /\ s.found \in {"tcp", "udp", "dns", "icmp", "arp"} /\ s.them = x.them /\ s.me = x.me
          /\ s.found = "tcp" => s.sport = x.port /\ s.dport = x.mine /\ more.ack = <<7, 7>>
        BY <2>1 DEF Intrudes
    <2>3. x.them \in Number /\ x.me \in Number /\ x.port \in Word /\ x.mine \in Word
        BY <1>1, SensibleIs
    <2> HIDE DEF frame, more
    <2> QED
        BY <2>2, <2>3, SevenType
<1> QED
    BY <1>1, <1>2, <1>3, ArrivesFrom

LEMMA TcpKeeps ==
    ASSUME XorOfWords, RstIndexInRange, WireInv, NEW n \in 1 .. conf.nics, RxTcp(n)
    PROVE  WireInv'
<1>1. PICK f \in Arriving, ok \in Opens, drained \in 0 .. (BucketCount - 1) :
       LET s == F!preprocess_frame(f.frame)
           sctp == s.found = "sctp"
           flow == Flow(s)
           flags == f.frame.more.flags
           cookie == SynCookie(s.them, s.sport + (IF sctp THEN Templ_SCTP ELSE 0), s.me, s.dport)
           verified == cookie = Previous32(f.frame.more.ack)
           x == nics[n]
           asked == FilterAsked(x, flow, flags)
           filter == rstfilter_is_filter(x.rf, RstIndex(flow), drained)
           dup == dedup_is_duplicate(x.dedup, flow)
           status == (({"SYN", "ACK"} \subseteq flags) \/ "RST" \in flags) /\ verified
           new == status /\ ~dup.known
           mine == is_my_port(n, s.dport)
       IN /\ Parsed(n, f.frame, s) /\ s.found \in {"tcp", "sctp"}
          /\ ~(mine /\ asked) => drained = 0
          /\ Report(n, IF ~mine THEN x
                       ELSE [x EXCEPT !.tcbs = Connections(x, flow, flags, verified),
                                      !.rf = IF asked THEN filter.rf ELSE @,
                                      !.dedup = IF status THEN dup.table ELSE @],
                    (IF sctp THEN SctpStatus(s, f.frame, cookie) ELSE <<>>)
                    \o (IF mine /\ new THEN <<O!Status(IF "RST" \in flags THEN "closed" ELSE "open", s.them, 6, s.sport)>>
                        ELSE <<>>), flow, ok)
          /\ sent' = sent \cup (IF mine /\ asked /\ ~filter.suppress THEN {Reset(flow, f.frame.more.ack, Next32(TheirSeqno))} ELSE {})
                    \cup (IF mine /\ new /\ ~conf.tcb /\ ~conf.noreset THEN {Reset(flow, f.frame.more.ack, <<0, 0>>)} ELSE {})
          /\ counts' = IF mine /\ asked THEN [counts EXCEPT ![n] = Counted(@, RstIndex(flow), drained)] ELSE counts
          /\ last' = IF mine /\ asked THEN [suppressed |-> filter.suppress, full |-> counts[n][RstIndex(flow)] = 15] ELSE last
          /\ Noted(f, TRUE)
    BY DEF RxTcp
<1>2. nics[n].pc = "run" /\ conf' = conf
    BY <1>1 DEF RxTcp, Running, Noted
<1> DEFINE s == F!preprocess_frame(f.frame)
           sctp == s.found = "sctp"
           flow == Flow(s)
           ack == f.frame.more.ack
           flags == f.frame.more.flags
           cookie == SynCookie(s.them, s.sport + (IF sctp THEN Templ_SCTP ELSE 0), s.me, s.dport)
           verified == cookie = Previous32(ack)
           x == nics[n]
           asked == FilterAsked(x, flow, flags)
           i == RstIndex(flow)
           filter == rstfilter_is_filter(x.rf, i, drained)
           dup == dedup_is_duplicate(x.dedup, flow)
           status == (({"SYN", "ACK"} \subseteq flags) \/ "RST" \in flags) /\ verified
           new == status /\ ~dup.known
           mine == is_my_port(n, s.dport)
           tcbs == Connections(x, flow, flags, verified)
           dedup == IF status THEN dup.table ELSE x.dedup
           y == IF ~mine THEN x
                ELSE [x EXCEPT !.tcbs = tcbs, !.rf = IF asked THEN filter.rf ELSE @, !.dedup = IF status THEN dup.table ELSE @]
           a == IF mine /\ asked /\ ~filter.suppress THEN {Reset(flow, ack, Next32(TheirSeqno))} ELSE {}
           b == IF mine /\ new /\ ~conf.tcb /\ ~conf.noreset THEN {Reset(flow, ack, <<0, 0>>)} ELSE {}
<1>3. Parsed(n, f.frame, s) /\ s.found \in {"tcp", "sctp"}
    BY <1>1
<1>4. PICK rs : Report(n, y, rs, flow, ok)
    BY Zenon, <1>1
<1>5. sent' = sent \cup a \cup b
    BY <1>1
<1>6. counts' = IF mine /\ asked THEN [counts EXCEPT ![n] = Counted(@, i, drained)] ELSE counts
    BY <1>1
<1>7. last' = IF mine /\ asked THEN [suppressed |-> filter.suppress, full |-> counts[n][i] = 15] ELSE last
    BY <1>1
<1>8. Sensible(conf) /\ Threads /\ ProbesSent /\ Filters
    BY DEF WireInv
<1>9. flow \in Flows /\ ack \in Number
    <2>1. Read(f.frame, s)
        BY <1>3 DEF Parsed, Read
    <2> QED
        BY <1>3, <2>1, FlowRead
<1>10. i \in Buckets /\ drained \in Buckets
    BY <1>9 DEF RstIndexInRange, Buckets
<1>11. Thread(x)
    BY <1>8 DEF Threads
<1>12. a \subseteq {Reset(flow, ack, m) : m \in Number} /\ b \subseteq {Reset(flow, ack, m) : m \in Number}
    BY SevenType, NextType DEF TheirSeqno
<1> HIDE DEF s, sctp, flow, ack, flags, cookie, verified, asked, i, filter, dup, status, new, mine, tcbs, dedup, a, b
<1>13. Thread(y) /\ y.pc = x.pc /\ y.rf = (IF mine /\ asked THEN filter.rf ELSE x.rf)
    <2> HIDE DEF x
    <2> QED
        BY <1>11 DEF Thread
<1> HIDE DEF y
<1>14. /\ Threads' /\ nics'[n].pc = "run" /\ nics'[n].rf = y.rf
       /\ \A m \in 1 .. conf.nics : m # n => nics'[m] = nics[m]
    BY <1>2, <1>4, <1>8, <1>13, ThreadReports
<1>15. ProbesSent'
    <2>1. /\ \A t, me : Probe(t, me)' = Probe(t, me)
          /\ \A g, seqno, ackno : Reset(g, seqno, ackno)' = Reset(g, seqno, ackno)
        BY <1>2, WireSame
    <2>2. ASSUME NEW p \in sent'
          PROVE  \/ \E t \in conf.targets, m \in 1 .. conf.nics : p = Probe(t, conf.src[m])
                 \/ \E g \in Flows, seqno \in Number, ackno \in Number : p = Reset(g, seqno, ackno)
        BY <1>5, <1>8, <1>9, <1>12 DEF ProbesSent
    <2> QED
        BY <1>2, <2>1, <2>2 DEF ProbesSent
<1>16. CASE ~ (mine /\ asked)
    <2>1. counts' = counts /\ last' = last /\ nics'[n].rf = nics[n].rf
        BY <1>6, <1>7, <1>13, <1>14, <1>16 DEF x
    <2>2. Filters'
        BY <1>2, <1>8, <1>14, <2>1, FiltersKept
    <2> QED
        BY <1>2, <1>8, <1>14, <1>15, <2>2 DEF WireInv
<1>17. CASE mine /\ asked
    <2> DEFINE c == Counted(counts[n], i, drained)
    <2>1. Counts(x.rf, counts[n]) /\ counts = [m \in 1 .. conf.nics |-> counts[m]]
        BY <1>2, <1>8 DEF Filters, x
    <2>2. Counts(filter.rf, c) /\ (filter.suppress <=> counts[n][i] = 15)
        BY <1>10, <2>1, FilterCounts DEF filter
    <2>3. counts' = [m \in 1 .. conf.nics |-> IF m = n THEN c ELSE counts[m]]
        BY <1>6, <1>17, <2>1
    <2>4. last'.suppressed <=> last'.full
        <3>1. last' = [suppressed |-> filter.suppress, full |-> counts[n][i] = 15]
            BY <1>7, <1>17
        <3>2. last'.suppressed = filter.suppress /\ last'.full = (counts[n][i] = 15)
            BY Zenon, <3>1
        <3> QED
            BY Zenon, <2>2, <3>2
    <2>5. nics'[n].rf = filter.rf
        BY <1>13, <1>14, <1>17
    <2> HIDE DEF c
    <2>6. \A m \in 1 .. conf.nics : nics'[m].pc # "done" => Counts(nics'[m].rf, counts'[m])
        BY <1>8, <1>14, <2>2, <2>3, <2>5 DEF Filters
    <2>7. Filters'
        BY <1>2, <2>3, <2>4, <2>6 DEF Filters
    <2> QED
        BY <1>2, <1>8, <1>14, <1>15, <2>7 DEF WireInv
<1> QED
    BY <1>16, <1>17

LEMMA TransmitKeeps == WireInv /\ Transmit => WireInv'
<1> SUFFICES ASSUME WireInv, Transmit PROVE WireInv'
    OBVIOUS
<1>1. PICK t \in conf.targets, n \in 1 .. conf.nics : sent' = sent \cup {Probe(t, conf.src[n])}
    BY DEF Transmit, SendsOnce
<1>2. UNCHANGED <<conf, nics, counts, last>>
    BY DEF Transmit
<1>3. Sensible(conf) /\ Threads /\ ProbesSent /\ Filters
    BY DEF WireInv
<1>4. /\ \A u, me : Probe(u, me)' = Probe(u, me)
      /\ \A g, seqno, ackno : Reset(g, seqno, ackno)' = Reset(g, seqno, ackno)
    BY <1>2, WireSame
<1>5. ASSUME NEW p \in sent'
      PROVE  \/ \E u \in conf.targets, m \in 1 .. conf.nics : p = Probe(u, conf.src[m])
             \/ \E g \in Flows, seqno \in Number, ackno \in Number : p = Reset(g, seqno, ackno)
    <2>1. CASE p \in sent
        BY <1>3, <2>1 DEF ProbesSent
    <2>2. CASE p = Probe(t, conf.src[n])
        BY <2>2
    <2> QED
        BY <1>1, <2>1, <2>2
<1>6. ProbesSent'
    BY <1>2, <1>4, <1>5 DEF ProbesSent
<1>7. Threads' /\ Filters'
    BY <1>2, <1>3 DEF Threads, Filters
<1> QED
    BY <1>2, <1>3, <1>6, <1>7 DEF WireInv

LEMMA OpenKeeps == ASSUME WireInv, NEW n \in 1 .. conf.nics, Open(n) PROVE WireInv'
<1> DEFINE w == O!output_create(fs, conf, n, now)
           x == nics[n]
           written == w.o
           y == [x EXCEPT !.pc = "run", !.o = written]
<1>1. nics' = [nics EXCEPT ![n] = y] /\ UNCHANGED <<conf, sent, counts, last>> /\ x.pc = "new"
    BY DEF Open
<1>2. Sensible(conf) /\ Threads /\ ProbesSent /\ Filters
    BY DEF WireInv
<1> HIDE DEF w, written
<1>3. Thread(y) /\ y.rf = x.rf
    <2>1. Thread(x)
        BY <1>2 DEF Threads
    <2> HIDE DEF x
    <2> DEFINE z == [x EXCEPT !.pc = "run"]
    <2>2. z = [pc |-> "run", o |-> x.o, dedup |-> x.dedup, tcbs |-> x.tcbs, rf |-> x.rf]
        BY <2>1 DEF Thread
    <2>3. y = [z EXCEPT !.o = written]
        OBVIOUS
    <2> HIDE DEF y, z
    <2>4. y = [pc |-> "run", o |-> written, dedup |-> x.dedup, tcbs |-> x.tcbs, rf |-> x.rf]
        BY <2>2, <2>3
    <2> QED
        BY <2>4 DEF Thread
<1> HIDE DEF x, y
<1>4. nics' = [m \in 1 .. conf.nics |-> IF m = n THEN y ELSE nics[m]]
    BY <1>1, <1>2 DEF Threads
<1>5. Threads'
    BY <1>1, <1>2, <1>3, <1>4 DEF Threads
<1>6. Filters'
    BY <1>1, <1>2, <1>3, <1>4 DEF Filters, x
<1>7. ProbesSent'
    BY <1>1, <1>2, SentSame
<1> QED
    BY <1>1, <1>2, <1>5, <1>6, <1>7 DEF WireInv

LEMMA FinishKeeps == ASSUME WireInv, NEW n \in 1 .. conf.nics, Finish(n) PROVE WireInv'
<1> DEFINE y == [New EXCEPT !.pc = "done"]
<1>1. nics' = [nics EXCEPT ![n] = y] /\ UNCHANGED <<conf, sent, counts, last>>
    BY DEF Finish
<1>2. Sensible(conf) /\ Threads /\ ProbesSent /\ Filters
    BY DEF WireInv
<1>3. Thread(y) /\ y.pc = "done"
    BY NewThread
<1> HIDE DEF y
<1>4. nics' = [m \in 1 .. conf.nics |-> IF m = n THEN y ELSE nics[m]]
    BY <1>1, <1>2 DEF Threads
<1>5. Threads'
    BY <1>1, <1>2, <1>3, <1>4 DEF Threads
<1>6. Filters'
    BY <1>1, <1>2, <1>3, <1>4 DEF Filters
<1>7. ProbesSent'
    BY <1>1, <1>2, SentSame
<1> QED
    BY <1>1, <1>2, <1>5, <1>6, <1>7 DEF WireInv

LEMMA AgainKeeps == WireInv /\ Again => WireInv'
<1> SUFFICES ASSUME WireInv, Again PROVE WireInv'
    OBVIOUS
<1>1. /\ conf' = [conf EXCEPT !.append = TRUE] /\ nics' = [n \in 1 .. conf.nics |-> New]
      /\ counts' = [n \in 1 .. conf.nics |-> [i \in 0 .. (BucketCount - 1) |-> 0]] /\ sent' = sent /\ last' = last
    BY DEF Again, NoCounts
<1>2. Sensible(conf) /\ Threads /\ ProbesSent /\ Filters
    BY DEF WireInv
<1>3. /\ Sensible(conf') /\ conf'.nics = conf.nics /\ conf'.ttl = conf.ttl /\ conf'.src = conf.src
      /\ conf'.targets = conf.targets
    BY <1>1, <1>2, StaysSensible
<1>4. Threads'
    BY <1>1, <1>3, NewThread DEF Threads
<1>5. Filters'
    BY <1>1, <1>2, <1>3, NewThread, NewCounts DEF Filters
<1>6. ProbesSent'
    BY <1>1, <1>2, <1>3, SentSame
<1> QED
    BY <1>3, <1>4, <1>5, <1>6 DEF WireInv

LEMMA FramesKeep ==
    ASSUME WireInv, NEW n \in 1 .. conf.nics, RxIgnored(n) \/ RxArp(n) \/ RxUdp(n) \/ RxIcmp(n) \/ Conversation(n)
    PROVE  WireInv'
<1>1. Thread(nics[n]) /\ \A m \in 1 .. conf.nics : Thread(nics[m])
    BY DEF WireInv, Threads
<1>2. CASE RxIgnored(n)
    BY <1>2, NothingKeeps DEF RxIgnored, Noted
<1>3. CASE RxArp(n)
    <2>1. UNCHANGED <<conf, sent, counts, last>>
        BY <1>3 DEF RxArp, Noted
    <2>2. \E y, rs, of, ok : /\ Report(n, y, rs, of, ok)
                             /\ y = nics[n] \/ \E table : y = [nics[n] EXCEPT !.dedup = table]
        BY Zenon, <1>3 DEF RxArp
    <2>3. PICK y, rs, of, ok : /\ Report(n, y, rs, of, ok)
                               /\ y = nics[n] \/ \E table : y = [nics[n] EXCEPT !.dedup = table]
        BY <2>2
    <2> DEFINE x == nics[n]
    <2>4. Thread(x) /\ (y = x \/ \E table : y = [x EXCEPT !.dedup = table])
        BY <1>1, <2>3
    <2> HIDE DEF x
    <2>5. Thread(y) /\ y.pc = x.pc /\ y.rf = x.rf
        BY <2>4 DEF Thread
    <2> QED
        BY <2>1, <2>3, <2>5, ReportKeeps DEF x
<1>4. CASE RxUdp(n)
    <2>1. UNCHANGED <<conf, sent, counts, last>>
        BY <1>4 DEF RxUdp, Noted
    <2>2. (\E rs, of, ok : Report(n, nics[n], rs, of, ok)) \/ nics' = nics
        BY Zenon, <1>4 DEF RxUdp
    <2> QED
        BY <1>1, <2>1, <2>2, ReportKeeps, NothingKeeps
<1>5. CASE RxIcmp(n)
    <2>1. UNCHANGED <<conf, sent, counts, last>>
        BY <1>5 DEF RxIcmp, Noted
    <2>2. \E rs, of, ok : Report(n, nics[n], rs, of, ok)
        BY Zenon, <1>5 DEF RxIcmp
    <2> QED
        BY <1>1, <2>1, <2>2, ReportKeeps
<1>6. CASE Conversation(n)
    <2>1. UNCHANGED <<conf, sent, counts, last>>
        BY <1>6 DEF Conversation
    <2>2. \E y, rs, of, ok : /\ Report(n, y, rs, of, ok)
                             /\ y = nics[n] \/ \E flow : y = [nics[n] EXCEPT !.tcbs = @ \ {flow}]
        BY Zenon, <1>6 DEF Conversation
    <2>3. PICK y, rs, of, ok : /\ Report(n, y, rs, of, ok)
                               /\ y = nics[n] \/ \E flow : y = [nics[n] EXCEPT !.tcbs = @ \ {flow}]
        BY <2>2
    <2> DEFINE x == nics[n]
    <2>4. Thread(x) /\ (y = x \/ \E flow : y = [x EXCEPT !.tcbs = @ \ {flow}])
        BY <1>1, <2>3
    <2> HIDE DEF x
    <2>5. Thread(y) /\ y.pc = x.pc /\ y.rf = x.rf
        BY <2>4 DEF Thread
    <2> QED
        BY <2>1, <2>3, <2>5, ReportKeeps DEF x
<1> QED
    BY <1>2, <1>3, <1>4, <1>5, <1>6

LEMMA WireStep ==
    ASSUME XorOfWords, RstIndexInRange, WireInv, [Next]_vars
    PROVE  WireInv'
<1>1. CASE vars' = vars
    <2>1. UNCHANGED <<conf, sent, nics, counts, last>>
        BY <1>1 DEF vars
    <2> QED
        BY <2>1, NothingKeeps
<1>2. CASE Tick \/ StatusUpdate \/ Stop
    <2>1. UNCHANGED <<conf, sent, nics, counts, last>>
        BY <1>2 DEF Tick, StatusUpdate, Stop
    <2> QED
        BY <2>1, NothingKeeps
<1>3. CASE Transmit \/ Again
    BY <1>3, TransmitKeeps, AgainKeeps
<1>4. ASSUME NEW n \in 1 .. conf.nics, Open(n) \/ Finish(n) \/ RxTcp(n)
      PROVE  WireInv'
    BY <1>4, OpenKeeps, FinishKeeps, TcpKeeps
<1>5. ASSUME NEW n \in 1 .. conf.nics, RxIgnored(n) \/ RxArp(n) \/ RxUdp(n) \/ RxIcmp(n) \/ Conversation(n)
      PROVE  WireInv'
    BY <1>5, FramesKeep
<1> QED
    BY <1>1, <1>2, <1>3, <1>4, <1>5 DEF Next

LEMMA WireAlways == ASSUME XorOfWords, RstIndexInRange PROVE Spec => []WireInv
<1>1. Init => WireInv
    BY WireInit
<1>2. WireInv /\ [Next]_vars => WireInv'
    BY WireStep
<1> QED
    BY <1>1, <1>2, PTL DEF Spec

(* The filter for resets: the two counters of a byte never touch each       *)
(* other, and a reset is held back exactly when its own counter is full.    *)
THEOREM FilterIsExact == ASSUME XorOfWords, RstIndexInRange PROVE Spec => []FilterExact
<1>1. ASSUME WireInv PROVE FilterExact
    <2>1. Sensible(conf) /\ Filters
        BY <1>1 DEF WireInv
    <2>2. ASSUME NEW n \in 1 .. conf.nics, NEW i \in 0 .. (BucketCount - 1), nics[n].pc = "run"
          PROVE  Nibble(nics[n].rf[i \div 2], i) = counts[n][i]
        <3>1. Counts(nics[n].rf, counts[n])
            BY <2>1, <2>2 DEF Filters
        <3> QED
            BY <3>1 DEF Counts, Buckets
    <2>3. last.suppressed <=> last.full
        BY <2>1 DEF Filters
    <2> QED
        BY <2>2, <2>3 DEF FilterExact
<1>2. Spec => []WireInv
    BY WireAlways
<1> QED
    BY <1>1, <1>2, PTL

----------------------------------------------------------------------------
(* What is sent *)

LEMMA SegmentAddressed ==
    ASSUME NEW mac, NEW ttl \in Byte, NEW them \in Number, NEW port, NEW me \in Number, NEW sport,
           NEW seqno, NEW ackno, NEW bits, NEW data,
           NEW t, NEW p, SegmentOf(t, p, mac, ttl, them, port, me, sport, seqno, ackno, bits, data)
    PROVE  Source(p) = me /\ Target(p) = them
<1> DEFINE ip == t.ip
           length == 40 + Len(data)
           id == Xor3(them[2], port, seqno[2])
           h == [ip EXCEPT ![2] = length, ![3] = id, ![7] = me[1], ![8] = me[2], ![9] = them[1], ![10] = them[2]]
           c == Complement(Fold(FoldWide(<<me, them>>, <<t.checksum_ip, id, length - ip[2]>>)))
<1>1. ip \in Seq(Word) /\ Len(ip) = 10
    <2>1. "tcp" \in TemplateKinds
        BY DEF TemplateKinds
    <2> QED
        BY <2>1, TemplateIs DEF IpHeaders, SegmentOf
<1>2. p.ip = [h EXCEPT ![6] = c]
    BY DEF tcp_create_packet, SegmentOf
<1> HIDE DEF ip, length, id, c
<1>3. DOMAIN h = 1 .. 10 /\ h[7] = me[1] /\ h[8] = me[2] /\ h[9] = them[1] /\ h[10] = them[2]
    BY <1>1
<1> HIDE DEF h
<1>4. p.ip[7] = me[1] /\ p.ip[8] = me[2] /\ p.ip[9] = them[1] /\ p.ip[10] = them[2]
    BY <1>2, <1>3
<1> QED
    BY <1>4, NumberIs DEF Source, Target

LEMMA ResetVerifies ==
    ASSUME XorOfWords, Sensible(conf), NEW flow \in Flows, NEW seqno \in Number, NEW ackno \in Number,
           NEW p, p = Reset(flow, seqno, ackno)
    PROVE  p.k = "reset" /\ (Genuine(p.pkt) <=> TwoFoldsDo(p.pkt))
<1> DEFINE mac == <<2, 0, 0, 0, 0, 1>>
           ttl == conf.ttl
           t == template_packet_init(mac, ttl).pkts["tcp"]
           them == flow.them
           port == flow.port
           me == flow.me
           sport == flow.mine
           pkt == tcp_create_packet(t, them, port, me, sport, seqno, ackno, 4, <<>>)
<1>1. p.k = "reset" /\ p.pkt = pkt /\ t = set.pkts.tcp
    BY DEF Reset, set
<1>2. ttl \in Byte
    BY SensibleIs
<1>3. them \in Number /\ port \in Word /\ me \in Number /\ sport \in Word
    BY DEF Flows
<1>4. 4 \in Byte /\ <<>> \in Seq(Byte) /\ Len(<<>>) = 0
    BY DEF Byte
<1>5. TwoFoldsDo(pkt) <=> Fold(FoldWide(<<Source(pkt), Target(pkt)>>, <<t.checksum_ip, pkt.ip[3], pkt.ip[2] - t.ip[2]>>)) < W
    BY <1>1 DEF TwoFoldsDo
<1> DEFINE empty == <<>>
           bits == 4
<1>6. SegmentOf(t, pkt, mac, ttl, them, port, me, sport, seqno, ackno, bits, empty)
    BY DEF SegmentOf
<1>6a. bits \in Byte /\ empty \in Seq(Byte) /\ Len(empty) <= 65495
    BY <1>4
<1> HIDE DEF mac, ttl, t, them, port, me, sport, pkt, empty, bits
<1>7. Genuine(pkt) <=> Fold(FoldWide(<<me, them>>, <<t.checksum_ip, pkt.ip[3], pkt.ip[2] - t.ip[2]>>)) < W
    <2>1. RightIfTwoFoldsDo(t, pkt, me, them)
        BY SMTT(60), <1>2, <1>3, <1>6, <1>6a, SegmentsVerify
    <2> QED
        BY <2>1 DEF RightIfTwoFoldsDo
<1>8. Source(pkt) = me /\ Target(pkt) = them
    BY SMTT(60), <1>2, <1>3, <1>6, <1>6a, SegmentAddressed
<1> QED
    BY <1>1, <1>5, <1>7, <1>8

LEMMA ProbeVerifies ==
    ASSUME XorOfWords, Sensible(conf), NEW t \in conf.targets, NEW n \in 1 .. conf.nics, NEW p, p = Probe(t, conf.src[n])
    PROVE  p.k # "reset" /\ (p.k \in {"arp", "none"} \/ Genuine(p.pkt))
<1> DEFINE mac == <<2, 0, 0, 0, 0, 1>>
           ttl == conf.ttl
           them == t.them
           target == t.target
           me == conf.src[n].ip
           sport == conf.src[n].port
           seqno == SynCookie(them, target, me, sport)
<1>1. p.k = Kind(target) /\ p.pkt = template_set_target(template_packet_init(mac, ttl), them, target, me, sport, seqno)
    BY DEF Probe, set
<1>2. /\ them \in Number /\ target \in Nat /\ me \in Number /\ sport \in Word /\ ttl \in Byte
      /\ seqno \in Number /\ SynCookie(them, target, me, 0) \in Number
    BY SensibleIs
<1> HIDE DEF mac, ttl, them, target, me, sport, seqno
<1>3. p.k \in TemplateKinds \cup {"arp", "none"}
    BY <1>1, <1>2, KindIs
<1>4. p.k \in TemplateKinds => Genuine(p.pkt)
    BY <1>1, <1>2, ProbesVerify
<1> QED
    BY <1>3, <1>4 DEF TemplateKinds

(* Whatever is sent bears sums that its receiver finds right; of a segment  *)
(* of a connection that is so exactly when folding twice was enough.        *)
THEOREM WhatIsSentVerifies == ASSUME XorOfWords, RstIndexInRange PROVE Spec => []SentVerify
<1>1. ASSUME WireInv PROVE SentVerify
    <2>1. Sensible(conf) /\ ProbesSent
        BY <1>1 DEF WireInv
    <2>2. ASSUME NEW p \in sent
          PROVE  p.k \in {"arp", "none"} \/ (Genuine(p.pkt) <=> (p.k = "reset" => TwoFoldsDo(p.pkt)))
        <3>1. CASE \E t \in conf.targets, n \in 1 .. conf.nics : p = Probe(t, conf.src[n])
            BY <2>1, <3>1, ProbeVerifies
        <3>2. CASE \E flow \in Flows, seqno \in Number, ackno \in Number : p = Reset(flow, seqno, ackno)
            BY <2>1, <3>2, ResetVerifies
        <3> QED
            BY <2>1, <2>2, <3>1, <3>2 DEF ProbesSent
    <2> QED
        BY <2>2 DEF SentVerify
<1>2. Spec => []WireInv
    BY WireAlways
<1> QED
    BY <1>1, <1>2, PTL

----------------------------------------------------------------------------
(* main-dedup.c: what a table of duplicates remembers *)

Row(b) == b = <<b[1], b[2], b[3], b[4]>>
Table(tb) == \A h \in DOMAIN tb : Row(tb[h])
InRow(b, e) == \E i \in 1 .. 4 : b[i] = e
Holds(tb, e) == Bucket(e) \in DOMAIN tb /\ InRow(tb[Bucket(e)], e)

LEMMA SwappedRow ==
    ASSUME NEW b, Row(b), NEW i \in 1 .. 4, NEW c, c = [b EXCEPT ![1] = b[i], ![i] = b[1]]
    PROVE  Row(c) /\ \A g : InRow(c, g) <=> InRow(b, g)
<1>1. b = [j \in 1 .. 4 |-> b[j]]
    BY DEF Row
<1>2. c = [j \in 1 .. 4 |-> IF j = i THEN b[1] ELSE IF j = 1 THEN b[i] ELSE b[j]]
    BY <1>1
<1>3. Row(c)
    BY <1>2 DEF Row
<1>4. ASSUME NEW g, InRow(c, g) PROVE InRow(b, g)
    BY <1>2, <1>4 DEF InRow
<1>5. ASSUME NEW g, InRow(b, g) PROVE InRow(c, g)
    <2>1. PICK j \in 1 .. 4 : b[j] = g
        BY <1>5 DEF InRow
    <2>2. \E k \in 1 .. 4 : c[k] = g
        BY <1>2, <2>1
    <2> QED
        BY <2>2 DEF InRow
<1> QED
    BY <1>3, <1>4, <1>5

LEMMA AddedRow ==
    ASSUME NEW b, Row(b), NEW e
    PROVE  /\ Row(Added(b, e)) /\ InRow(Added(b, e), e)
           /\ \A g : InRow(Added(b, e), g) => g = e \/ InRow(b, g)
BY DEF Row, Added, InRow

LEMMA StoredRow ==
    ASSUME NEW tb, Table(tb), NEW h, NEW b, Row(b), NEW tc, tc = Stored(tb, h, b)
    PROVE  /\ Table(tc)
           /\ \A g : Bucket(g) = h => (Holds(tc, g) <=> InRow(b, g))
           /\ \A g : Bucket(g) # h => (Holds(tc, g) <=> Holds(tb, g))
<1>1. tc = [k \in (DOMAIN tb) \cup {h} |-> IF k = h THEN b ELSE tb[k]]
    BY DEF Stored
<1> QED
    BY <1>1 DEF Table, Holds

\* What is looked up is found if it was kept, and is kept from now on; what
\* was kept still is, unless it is of the same bucket.
LEMMA Looked ==
    ASSUME NEW tb, Table(tb), NEW e, e.me # <<0, 0>>, NEW dup, dup = dedup_is_duplicate(tb, e)
    PROVE  /\ dup.known <=> Holds(tb, e)
           /\ Table(dup.table) /\ Holds(dup.table, e)
           /\ dup.known => \A g : Holds(dup.table, g) <=> Holds(tb, g)
           /\ \A g : Holds(dup.table, g) => g = e \/ Holds(tb, g) \/ g.me = <<0, 0>>
           /\ \A g : Holds(tb, g) /\ Bucket(g) # Bucket(e) => Holds(dup.table, g)
<1> DEFINE h == Bucket(e)
           b == IF h \in DOMAIN tb THEN tb[h] ELSE NoEntries
           at == {i \in 1 .. 4 : b[i] = e}
           i == CHOOSE j \in at : \A k \in at : j <= k
           swapped == [b EXCEPT ![1] = b[i], ![i] = b[1]]
<1>1. dup = IF at # {} THEN [known |-> TRUE, table |-> Stored(tb, h, swapped)]
            ELSE [known |-> FALSE, table |-> Stored(tb, h, Added(b, e))]
    BY DEF dedup_is_duplicate
<1>2. NoEntry.me = <<0, 0>> /\ Row(NoEntries) /\ \A g : InRow(NoEntries, g) => g = NoEntry
    BY DEF NoEntry, NoEntries, Row, InRow
<1>3. Row(b)
    BY <1>2 DEF Table
<1>4. at # {} <=> Holds(tb, e)
    <2>1. at # {} <=> InRow(b, e)
        BY DEF InRow
    <2>2. h \notin DOMAIN tb => ~ InRow(b, e)
        BY <1>2
    <2>3. h \in DOMAIN tb => (InRow(b, e) <=> Holds(tb, e))
        BY DEF Holds
    <2> HIDE DEF at, b, h
    <2>4. h \notin DOMAIN tb => ~ Holds(tb, e)
        BY DEF Holds, h
    <2> QED
        BY <2>1, <2>2, <2>3, <2>4
<1>5. \A g : Bucket(g) = h /\ InRow(b, g) => Holds(tb, g) \/ g.me = <<0, 0>>
    BY <1>2 DEF Holds
<1>6. \A g : Bucket(g) = h /\ Holds(tb, g) => InRow(b, g)
    BY DEF Holds
<1>7. CASE Holds(tb, e)
    <2>1. i \in 1 .. 4
        <3>1. \E j \in at : \A k \in at : j <= k
            <4>1. at # {} /\ at \subseteq 1 .. 4
                BY <1>4, <1>7
            <4> HIDE DEF at
            <4> QED
                BY <4>1, Least
        <3> HIDE DEF at
        <3>2. i \in at
            BY <3>1
        <3> QED
            BY <3>2 DEF at
    <2>2. dup.known /\ dup.table = Stored(tb, h, swapped)
        BY <1>1, <1>4, <1>7
    <2> HIDE DEF i, at
    <2>3. Row(swapped) /\ \A g : InRow(swapped, g) <=> InRow(b, g)
        BY <1>3, <2>1, SwappedRow
    <2> HIDE DEF swapped
    <2>4. /\ Table(dup.table)
          /\ \A g : Bucket(g) = h => (Holds(dup.table, g) <=> InRow(swapped, g))
          /\ \A g : Bucket(g) # h => (Holds(dup.table, g) <=> Holds(tb, g))
        BY <2>2, <2>3, StoredRow
    <2>5. h \in DOMAIN tb
        BY <1>7 DEF Holds
    <2>6. \A g : Bucket(g) = h => (InRow(b, g) <=> Holds(tb, g))
        BY <2>5 DEF Holds
    <2> HIDE DEF b, h
    <2>7. \A g : Holds(dup.table, g) <=> Holds(tb, g)
        BY <2>3, <2>4, <2>6
    <2> QED
        BY <1>7, <2>2, <2>4, <2>7
<1>8. CASE ~ Holds(tb, e)
    <2>1. ~ dup.known /\ dup.table = Stored(tb, h, Added(b, e))
        BY <1>1, <1>4, <1>8
    <2> DEFINE c == Added(b, e)
    <2>2. Row(c) /\ InRow(c, e) /\ \A g : InRow(c, g) => g = e \/ InRow(b, g)
        BY <1>3, AddedRow
    <2> HIDE DEF i, at, b, swapped
    <2>3. dup.table = Stored(tb, h, c)
        BY <2>1
    <2> HIDE DEF c
    <2>4. /\ Table(dup.table)
          /\ \A g : Bucket(g) = h => (Holds(dup.table, g) <=> InRow(c, g))
          /\ \A g : Bucket(g) # h => (Holds(dup.table, g) <=> Holds(tb, g))
        BY <2>2, <2>3, StoredRow
    <2>5. Holds(dup.table, e)
        BY <2>2, <2>4 DEF h
    <2>6. \A g : Holds(dup.table, g) => g = e \/ Holds(tb, g) \/ g.me = <<0, 0>>
        BY <1>5, <2>2, <2>4
    <2> QED
        BY <1>8, <2>1, <2>4, <2>5, <2>6 DEF h
<1> QED
    BY <1>7, <1>8

----------------------------------------------------------------------------
(* What the reports, the answers and the tables have to do with each other *)

\* The reports lh go on from lg.
Grown(lg, lh) ==
    /\ Len(lg) \in Nat /\ Len(lh) \in Nat /\ Len(lg) <= Len(lh)
    /\ DOMAIN lg = 1 .. Len(lg) /\ DOMAIN lh = 1 .. Len(lh)
    /\ \A i \in 1 .. Len(lg) : lh[i] = lg[i]
\* Run rn has reported the flow g in that protocol.
Told(lg, rn, g, proto) ==
    \E i \in DOMAIN lg : /\ lg[i].r.kind = "status" /\ lg[i].r.proto = proto /\ lg[i].run = rn
                         /\ lg[i].r.ip = g.them /\ lg[i].r.port = g.port
\* Another flow of the same bucket was reported after i and before j.
Between(lg, i, j) == \E m \in (i + 1) .. (j - 1) : Bucket(lg[m].of) = Bucket(lg[i].of) /\ lg[m].of # lg[i].of
\* The table of echo replies, or the one of a thread: ARP has no ports, TCP has.
TableProto(k, g) == IF k = "echo" THEN 1 ELSE IF g.mine = 0 THEN 0 ELSE 6
\* Record e was looked up in that table, and cannot come from what ICMP says
\* is unreachable.
LookedUp(e, rn, gone, k, n) ==
    /\ e.run = rn /\ Verified(e.r) /\ e.r.ip \notin gone
    /\ IF k = "echo" THEN e.r.proto = 1 ELSE e.r.proto \in {0, 6} /\ e.nic = n
\* What a table holds was reported; what was reported it holds, unless another
\* flow of the bucket was reported since.
TableTells(lg, rn, tb, k) == \A g : Holds(tb, g) => g.me = <<0, 0>> \/ Told(lg, rn, g, TableProto(k, g))
Remembers(lg, rn, gone, tb, k, n) ==
    \A i \in DOMAIN lg : LookedUp(lg[i], rn, gone, k, n) => Holds(tb, lg[i].of) \/ Between(lg, i, Len(lg) + 1)
Keeps(lg, rn, gone, tb, k, n) == Table(tb) /\ TableTells(lg, rn, tb, k) /\ Remembers(lg, rn, gone, tb, k, n)

LEMMA ToldStill ==
    ASSUME NEW lg, NEW lh, Grown(lg, lh), NEW rn, NEW g, NEW proto, Told(lg, rn, g, proto)
    PROVE  Told(lh, rn, g, proto)
<1>1. \A i \in DOMAIN lg : i \in DOMAIN lh /\ lh[i] = lg[i]
    BY DEF Grown
<1> QED
    BY <1>1 DEF Told

LEMMA BetweenStill ==
    ASSUME NEW lg, NEW lh, Grown(lg, lh), NEW i \in DOMAIN lg, Between(lg, i, Len(lg) + 1)
    PROVE  Between(lh, i, Len(lh) + 1)
<1>1. PICK m \in (i + 1) .. Len(lg) : Bucket(lg[m].of) = Bucket(lg[i].of) /\ lg[m].of # lg[i].of
    <2>1. Len(lg) \in Nat
        BY DEF Grown
    <2> QED
        BY <2>1 DEF Between
<1>2. i \in 1 .. Len(lg) /\ m \in 1 .. Len(lg) /\ m \in (i + 1) .. ((Len(lh) + 1) - 1)
    BY DEF Grown
<1>3. lh[i] = lg[i] /\ lh[m] = lg[m]
    BY <1>2 DEF Grown
<1> QED
    BY <1>1, <1>2, <1>3 DEF Between

\* A table in which nothing was looked up goes on as it was.
LEMMA NotLookedUp ==
    ASSUME NEW lg, NEW lh, Grown(lg, lh), NEW rn, NEW gone, NEW tb, NEW k, NEW n, Keeps(lg, rn, gone, tb, k, n),
           \A i \in (Len(lg) + 1) .. Len(lh) : ~ LookedUp(lh[i], rn, gone, k, n)
    PROVE  Keeps(lh, rn, gone, tb, k, n)
<1>1. Table(tb) /\ TableTells(lg, rn, tb, k) /\ Remembers(lg, rn, gone, tb, k, n)
    BY DEF Keeps
<1>2. TableTells(lh, rn, tb, k)
    BY <1>1, ToldStill DEF TableTells
<1>3. ASSUME NEW i \in DOMAIN lh, LookedUp(lh[i], rn, gone, k, n)
      PROVE  Holds(tb, lh[i].of) \/ Between(lh, i, Len(lh) + 1)
    <2>1. i \in DOMAIN lg /\ lh[i] = lg[i]
        BY <1>3 DEF Grown
    <2>2. Holds(tb, lg[i].of) \/ Between(lg, i, Len(lg) + 1)
        BY <1>1, <1>3, <2>1 DEF Remembers
    <2> QED
        BY <2>1, <2>2, BetweenStill
<1> QED
    BY <1>1, <1>2, <1>3 DEF Keeps, Remembers

\* What is found was reported, and nothing is reported.
LEMMA FoundAgain ==
    ASSUME NEW lg, NEW rn, NEW gone, NEW tb, NEW k, NEW n, Keeps(lg, rn, gone, tb, k, n),
           NEW e, e.me # <<0, 0>>, NEW dup, dup = dedup_is_duplicate(tb, e), dup.known
    PROVE  Keeps(lg, rn, gone, dup.table, k, n) /\ Told(lg, rn, e, TableProto(k, e))
<1>1. Table(tb) /\ TableTells(lg, rn, tb, k) /\ Remembers(lg, rn, gone, tb, k, n)
    BY DEF Keeps
<1>2. Holds(tb, e) /\ Table(dup.table) /\ \A g : Holds(dup.table, g) <=> Holds(tb, g)
    BY <1>1, Looked
<1>3. Told(lg, rn, e, TableProto(k, e))
    BY <1>1, <1>2 DEF TableTells
<1>4. TableTells(lg, rn, dup.table, k)
    BY <1>1, <1>2 DEF TableTells
<1>5. Remembers(lg, rn, gone, dup.table, k, n)
    BY <1>1, <1>2 DEF Remembers
<1> QED
    BY <1>2, <1>3, <1>4, <1>5 DEF Keeps

\* The report of the flow e, by thread n.
Reports(r, rn, e, k, n) ==
    /\ r.run = rn /\ r.nic = n /\ r.of = e
    /\ r.r.kind = "status" /\ r.r.proto = TableProto(k, e) /\ r.r.ip = e.them /\ r.r.port = e.port

\* What is not found is reported, and found from then on.
LEMMA FoundNew ==
    ASSUME NEW lg, NEW lh, Grown(lg, lh), Len(lh) = Len(lg) + 1,
           NEW rn, NEW gone, NEW tb, NEW k, NEW n, Keeps(lg, rn, gone, tb, k, n),
           NEW e, e.me # <<0, 0>>, NEW dup, dup = dedup_is_duplicate(tb, e), ~ dup.known,
           Reports(lh[Len(lh)], rn, e, k, n)
    PROVE  /\ Keeps(lh, rn, gone, dup.table, k, n) /\ Told(lh, rn, e, TableProto(k, e))
           /\ \A i \in DOMAIN lg : LookedUp(lg[i], rn, gone, k, n) /\ lg[i].of = e => Between(lh, i, Len(lh))
<1> DEFINE j == Len(lh)
<1>1. Table(tb) /\ TableTells(lg, rn, tb, k) /\ Remembers(lg, rn, gone, tb, k, n)
    BY DEF Keeps
<1>2. /\ ~ Holds(tb, e) /\ Table(dup.table) /\ Holds(dup.table, e)
      /\ \A g : Holds(dup.table, g) => g = e \/ Holds(tb, g) \/ g.me = <<0, 0>>
      /\ \A g : Holds(tb, g) /\ Bucket(g) # Bucket(e) => Holds(dup.table, g)
    BY <1>1, Looked
<1>3. j \in DOMAIN lh /\ j \in Nat /\ j = Len(lg) + 1 /\ Len(lg) \in Nat
    BY DEF Grown
<1>4. Told(lh, rn, e, TableProto(k, e))
    BY <1>3 DEF Reports, Told
<1>5. TableTells(lh, rn, dup.table, k)
    BY <1>1, <1>2, <1>4, ToldStill DEF TableTells
<1>6. ASSUME NEW i \in DOMAIN lg, LookedUp(lg[i], rn, gone, k, n), lg[i].of = e
      PROVE  Between(lh, i, j)
    <2>1. Between(lg, i, Len(lg) + 1)
        BY <1>1, <1>2, <1>6 DEF Remembers
    <2>2. PICK m \in (i + 1) .. ((Len(lg) + 1) - 1) : Bucket(lg[m].of) = Bucket(lg[i].of) /\ lg[m].of # lg[i].of
        BY <2>1 DEF Between
    <2>3. i \in 1 .. Len(lg) /\ m \in 1 .. Len(lg) /\ m \in (i + 1) .. (j - 1)
        BY <1>3 DEF Grown
    <2>4. lh[i] = lg[i] /\ lh[m] = lg[m]
        BY <2>3 DEF Grown
    <2> QED
        BY <2>2, <2>3, <2>4 DEF Between
<1>7. ASSUME NEW i \in DOMAIN lh, LookedUp(lh[i], rn, gone, k, n)
      PROVE  Holds(dup.table, lh[i].of) \/ Between(lh, i, j + 1)
    <2>1. CASE i = j
        BY <1>2, <2>1 DEF Reports
    <2>2. CASE i # j
        <3>1. i \in DOMAIN lg /\ lh[i] = lg[i] /\ i < j
            BY <1>3, <2>2 DEF Grown
        <3>2. CASE Between(lg, i, Len(lg) + 1)
            BY <3>1, <3>2, BetweenStill
        <3>3. CASE Holds(tb, lg[i].of)
            <4>1. CASE Bucket(lg[i].of) # Bucket(e)
                BY <1>2, <3>1, <3>3, <4>1
            <4>2. CASE Bucket(lg[i].of) = Bucket(e)
                <5>1. lg[i].of # e /\ lh[j].of = e
                    BY <1>2, <3>3 DEF Reports
                <5>2. j \in (i + 1) .. ((j + 1) - 1)
                    BY <1>3, <3>1 DEF Grown
                <5> HIDE DEF j
                <5> QED
                    BY <3>1, <4>2, <5>1, <5>2 DEF Between
            <4> QED
                BY <4>1, <4>2
        <3> QED
            BY <1>1, <1>7, <3>1, <3>2, <3>3 DEF Remembers
    <2> QED
        BY <2>1, <2>2
<1> QED
    BY <1>2, <1>4, <1>5, <1>6, <1>7 DEF Keeps, Remembers

\* The records are those of this run and of earlier ones.
Stamps ==
    /\ runs \in Nat
    /\ \E S : log \in Seq(S)
    /\ \A i \in DOMAIN log : log[i].run \in Nat /\ log[i].run <= runs
Gone == {x.them : x \in Unreachables}

LEMMA LogGrows ==
    ASSUME NEW S, NEW lg \in Seq(S), NEW U, NEW tail \in Seq(U), NEW lh, Joins(lh, lg, tail)
    PROVE  /\ Grown(lg, lh) /\ Len(lh) = Len(lg) + Len(tail)
           /\ \A i \in 1 .. Len(tail) : lh[Len(lg) + i] = tail[i]
           /\ \E V : lh \in Seq(V)
<1> DEFINE V == S \cup U
<1>1. lg \in Seq(V) /\ tail \in Seq(V)
    OBVIOUS
<1> HIDE DEF V
<1>2. /\ lh \in Seq(V) /\ Len(lh) = Len(lg) + Len(tail)
      /\ \A i \in 1 .. Len(lg) : lh[i] = lg[i]
      /\ \A i \in 1 .. Len(tail) : lh[Len(lg) + i] = tail[i]
    BY <1>1, JoinsAre
<1>3. /\ Len(lg) \in Nat /\ Len(tail) \in Nat /\ DOMAIN lg = 1 .. Len(lg) /\ DOMAIN lh = 1 .. Len(lh)
    BY <1>2
<1> QED
    BY <1>2, <1>3 DEF Grown

LEMMA LogStays ==
    ASSUME Stamps
    PROVE  Grown(log, log)
<1>1. PICK S : log \in Seq(S)
    BY DEF Stamps
<1> QED
    BY <1>1 DEF Grown

LEMMA SaidIs ==
    ASSUME NEW n, NEW r, NEW of, NEW e, e = Said(n, r, of)
    PROVE  e.r = r /\ e.nic = n /\ e.run = runs /\ e.of = of
BY DEF Said

\* The record e is r, with one stamp or another.
SaidOf(e, n, r, of) == \E at : e = Said(n, Stamped(r, at), of)

\* A report is the thread's, of this run, and of the flow.
LEMMA ReportGrows ==
    ASSUME Stamps, runs' = runs, NEW n, NEW x, NEW R, NEW rs \in Seq(R), NEW of, NEW ok, Report(n, x, rs, of, ok)
    PROVE  /\ Grown(log, log') /\ Len(log') = Len(log) + Len(rs) /\ Stamps'
           /\ \A i \in 1 .. Len(rs) : SaidOf(log'[Len(log) + i], n, rs[i], of)
<1>0. PICK secs \in (now - conf.lag) .. now :
         log' = log \o [i \in 1 .. Len(rs) |->
                           Said(n, [j \in 1 .. Len(rs) |-> Stamped(rs[j], Stamp(rs, j, of, secs))][i], of)]
    BY DEF Report
<1> DEFINE count == Len(rs)
           At(i) == Stamp(rs, i, of, secs)
           tail == [i \in 1 .. count |-> Said(n, [j \in 1 .. count |-> Stamped(rs[j], At(j))][i], of)]
           U == {tail[i] : i \in 1 .. count}
<1>1. log' = log \o tail
    BY <1>0
<1> HIDE DEF At
<1>2. count \in Nat
    OBVIOUS
<1> HIDE DEF count
<1>3. tail \in Seq(U) /\ Len(tail) = count
    <2>1. tail \in [1 .. count -> U]
        OBVIOUS
    <2> HIDE DEF tail, U
    <2> QED
        BY <1>2, <2>1, Listed
<1>4. PICK S : log \in Seq(S)
    BY DEF Stamps
<1>5. \A i \in 1 .. count : tail[i] = Said(n, Stamped(rs[i], At(i)), of)
    OBVIOUS
<1> HIDE DEF tail, U
<1>6. Joins(log', log, tail)
    BY <1>1 DEF Joins
<1>7. /\ Grown(log, log') /\ Len(log') = Len(log) + count
      /\ \A i \in 1 .. count : log'[Len(log) + i] = tail[i]
      /\ \E V : log' \in Seq(V)
    BY <1>3, <1>4, <1>6, LogGrows
<1>8. \A i \in 1 .. count : tail[i].run = runs
    BY <1>5, SaidIs
<1>9. ASSUME NEW i \in DOMAIN log' PROVE log'[i].run \in Nat /\ log'[i].run <= runs
    <2>1. CASE i <= Len(log)
        <3>1. i \in DOMAIN log /\ log'[i] = log[i]
            BY <1>7, <2>1 DEF Grown
        <3> QED
            BY <3>1 DEF Stamps
    <2>2. CASE i > Len(log)
        <3>1. i - Len(log) \in 1 .. count /\ Len(log) + (i - Len(log)) = i
            BY <1>2, <1>7, <2>2 DEF Grown
        <3>2. log'[i] = tail[i - Len(log)]
            BY <1>7, <3>1
        <3>3. log'[i].run = runs
            BY <1>8, <3>1, <3>2
        <3> QED
            BY <3>3 DEF Stamps
    <2> QED
        BY <1>7, <2>1, <2>2 DEF Grown
<1>10. Stamps'
    BY <1>7, <1>9 DEF Stamps
<1>11. \A i \in 1 .. count : SaidOf(log'[Len(log) + i], n, rs[i], of)
    BY <1>5, <1>7 DEF SaidOf
<1> QED
    BY <1>7, <1>10, <1>11 DEF count

LEMMA StampedStatus ==
    ASSUME NEW st, NEW ip, NEW proto, NEW port, NEW at, NEW r,
           r = Stamped(O!Status(st, ip, proto, port), at)
    PROVE  r.kind = "status" /\ r.status = st /\ r.ip = ip /\ r.proto = proto /\ r.port = port
BY DEF Stamped, O!Status

LEMMA StampedBanner ==
    ASSUME NEW app, NEW ip, NEW proto, NEW port, NEW length, NEW at, NEW r,
           r = Stamped(O!Banner(app, ip, proto, port, length), at)
    PROVE  r.kind = "banner"
BY DEF Stamped, O!Banner

LEMMA NothingReported ==
    ASSUME Stamps, runs' = runs, NEW n, NEW x, NEW of, NEW ok, Report(n, x, <<>>, of, ok)
    PROVE  Grown(log, log') /\ Len(log') = Len(log) /\ Stamps'
<1> DEFINE rs == <<>>
<1>1. rs \in Seq({}) /\ Len(rs) = 0 /\ Report(n, x, rs, of, ok)
    OBVIOUS
<1> HIDE DEF rs
<1>2. Grown(log, log') /\ Len(log') = Len(log) + Len(rs) /\ Stamps'
    BY <1>1, ReportGrows
<1> QED
    BY <1>1, <1>2 DEF Grown

\* The record e is that status.
Announces(e, n, of, st, ip, proto, port) ==
    /\ e.nic = n /\ e.of = of /\ e.run = runs
    /\ e.r.kind = "status" /\ e.r.status = st /\ e.r.ip = ip /\ e.r.proto = proto /\ e.r.port = port

LEMMA StatusReported ==
    ASSUME Stamps, runs' = runs, NEW n, NEW x, NEW of, NEW ok, NEW st, NEW ip, NEW proto, NEW port,
           Report(n, x, <<O!Status(st, ip, proto, port)>>, of, ok)
    PROVE  /\ Grown(log, log') /\ Len(log') = Len(log) + 1 /\ Stamps'
           /\ Announces(log'[Len(log')], n, of, st, ip, proto, port)
<1> DEFINE r == O!Status(st, ip, proto, port)
           rs == <<r>>
           R == {r}
<1>1. rs \in Seq(R) /\ Len(rs) = 1 /\ rs[1] = r
    OBVIOUS
<1>2. Report(n, x, rs, of, ok)
    OBVIOUS
<1> HIDE DEF rs, r, R
<1>3. /\ Grown(log, log') /\ Len(log') = Len(log) + Len(rs) /\ Stamps'
      /\ \A i \in 1 .. Len(rs) : SaidOf(log'[Len(log) + i], n, rs[i], of)
    BY SMTT(60), <1>1, <1>2, ReportGrows
<1>4. SaidOf(log'[Len(log')], n, r, of) /\ Len(log') = Len(log) + 1
    BY <1>1, <1>3 DEF Grown
<1>5. PICK at : log'[Len(log')] = Said(n, Stamped(r, at), of)
    BY <1>4 DEF SaidOf
<1> DEFINE t == Stamped(r, at)
<1> USE DEF r
<1>6. t.kind = "status" /\ t.status = st /\ t.ip = ip /\ t.proto = proto /\ t.port = port
    BY StampedStatus
<1> HIDE DEF r
<1>7. log'[Len(log')] = Said(n, t, of)
    BY <1>5
<1> HIDE DEF t
<1>8. Announces(Said(n, t, of), n, of, st, ip, proto, port)
    BY <1>6 DEF Announces, Said
<1> QED
    BY <1>3, <1>4, <1>7, <1>8

\* What the reports so far have to answer to, they still do.
LEMMA BelievedStill ==
    ASSUME Believed, Grown(log, log'), conf'.strays = conf.strays, arrived \subseteq arrived',
           \A i \in (Len(log) + 1) .. Len(log') : Verified(log'[i].r) =>
              \/ \E a \in arrived' : i \in Records(a)' /\ log'[i].r.status = StatusOf(a.kind)
              \/ \E x \in Unreachables : /\ log'[i].r.status = "closed" /\ log'[i].r.ip = x.them
                                         /\ log'[i].r.port = x.port
    PROVE  Believed'
<1>1. Unreachables' = Unreachables
    BY DEF Unreachables
<1>2. ASSUME NEW i \in DOMAIN log', Verified(log'[i].r)
      PROVE  \/ \E a \in arrived' : i \in Records(a)' /\ log'[i].r.status = StatusOf(a.kind)
             \/ \E x \in Unreachables : /\ log'[i].r.status = "closed" /\ log'[i].r.ip = x.them
                                        /\ log'[i].r.port = x.port
    <2>1. CASE i > Len(log)
        BY <1>2, <2>1 DEF Grown
    <2>2. CASE i <= Len(log)
        <3>1. i \in DOMAIN log /\ log'[i] = log[i]
            BY <2>2 DEF Grown
        <3>2. \A a : i \in Records(a) => i \in Records(a)'
            BY <3>1 DEF Records
        <3>3. \/ \E a \in arrived : i \in Records(a) /\ log[i].r.status = StatusOf(a.kind)
              \/ \E x \in Unreachables : log[i].r.status = "closed" /\ log[i].r.ip = x.them /\ log[i].r.port = x.port
            BY <1>2, <3>1 DEF Believed
        <3> QED
            BY <3>1, <3>2, <3>3
    <2> QED
        BY <2>1, <2>2 DEF Grown
<1> QED
    BY <1>1, <1>2 DEF Believed

LEMMA HeardStill ==
    ASSUME Heard, Grown(log, log'), \A a \in arrived' \ arrived : a.k # "udp" => Records(a)' # {}
    PROVE  Heard'
<1>1. \A a : Records(a) \subseteq Records(a)'
    <2>1. \A i \in DOMAIN log : i \in DOMAIN log' /\ log'[i] = log[i]
        BY DEF Grown
    <2> QED
        BY <2>1 DEF Records
<1> QED
    BY <1>1 DEF Heard

\* Record j says of the same flow what i said.
SameAgain(lg, i, j, gone) ==
    /\ lg[i].of = lg[j].of /\ lg[i].nic = lg[j].nic /\ lg[i].run = lg[j].run
    /\ Verified(lg[i].r) /\ Verified(lg[j].r) /\ lg[i].r.proto = lg[j].r.proto /\ lg[i].r.proto \in {0, 1, 6}
    /\ lg[i].r.ip \notin gone

LEMMA OnceIs == OnceInARow <=> \A i, j \in DOMAIN log : i < j /\ SameAgain(log, i, j, Gone) => Between(log, i, j)
<1>1. \A ip : ip \notin Gone <=> \A x \in Unreachables : x.them # ip
    BY DEF Gone
<1> HIDE DEF Gone
<1> QED
    BY <1>1 DEF OnceInARow, SameAgain, Between

LEMMA OnceStill ==
    ASSUME OnceInARow, Grown(log, log'), conf'.strays = conf.strays,
           \A j \in (Len(log) + 1) .. Len(log') : \A i \in 1 .. (j - 1) :
              SameAgain(log', i, j, Gone) => Between(log', i, j)
    PROVE  OnceInARow'
<1>1. Gone' = Gone
    BY DEF Gone, Unreachables
<1>2. \A i, j \in DOMAIN log : i < j /\ SameAgain(log, i, j, Gone) => Between(log, i, j)
    BY OnceIs
<1>3. ASSUME NEW i \in DOMAIN log', NEW j \in DOMAIN log', i < j, SameAgain(log', i, j, Gone)
      PROVE  Between(log', i, j)
    <2>1. CASE j > Len(log)
        BY <1>3, <2>1 DEF Grown
    <2>2. CASE j <= Len(log)
        <3>1. i \in DOMAIN log /\ j \in DOMAIN log /\ \A m \in i .. j : log'[m] = log[m]
            BY <1>3, <2>2 DEF Grown
        <3>2. log'[i] = log[i] /\ log'[j] = log[j] /\ i \in Nat /\ j \in Nat
            BY <1>3, <2>2 DEF Grown
        <3>3. SameAgain(log, i, j, Gone)
            BY <1>3, <3>2 DEF SameAgain
        <3>4. Between(log, i, j)
            BY <1>2, <1>3, <3>1, <3>3
        <3> QED
            BY <3>1, <3>2, <3>4 DEF Between
    <2> QED
        BY <2>1, <2>2 DEF Grown
<1>4. (OnceInARow <=> \A i, j \in DOMAIN log : i < j /\ SameAgain(log, i, j, Gone) => Between(log, i, j))'
    BY OnceIs, PTL
<1> QED
    BY <1>1, <1>3, <1>4

ThreadTables == \A m \in 1 .. conf.nics : nics[m].pc # "done" => Keeps(log, runs, Gone, nics[m].dedup, "thread", m)
EchoTable == \A m \in 1 .. conf.nics : Keeps(log, runs, Gone, echo, "echo", m)
\* A record names the host of its flow.
Names(e) == Verified(e.r) => e.r.ip = e.of.them
Named == \A i \in DOMAIN log : Names(log[i])
TellInv == Stamps /\ Named /\ ThreadTables /\ EchoTable /\ Believed /\ Heard /\ OnceInARow

LEMMA NamedStill ==
    ASSUME Named, Grown(log, log'), \A i \in (Len(log) + 1) .. Len(log') : Names(log'[i])
    PROVE  Named'
<1>1. ASSUME NEW i \in DOMAIN log' PROVE Names(log'[i])
    <2>1. CASE i > Len(log)
        BY <2>1 DEF Grown
    <2>2. CASE i <= Len(log)
        <3>1. i \in DOMAIN log /\ log'[i] = log[i]
            BY <2>2 DEF Grown
        <3> QED
            BY <3>1 DEF Named
    <2> QED
        BY <2>1, <2>2 DEF Grown
<1> QED
    BY <1>1 DEF Named

\* The answer a is an answer about the flow e.
About(a, e, k) == Protocol(a.k) = TableProto(k, e) /\ a.them = e.them /\ a.port = e.port /\ a.run = runs

LEMMA RecordOf ==
    ASSUME NEW lh, lh = log', runs' = runs, NEW a, NEW e, NEW k, About(a, e, k), Told(lh, runs, e, TableProto(k, e))
    PROVE  Records(a)' # {}
<1>1. PICK i \in DOMAIN lh : /\ lh[i].r.kind = "status" /\ lh[i].r.proto = TableProto(k, e) /\ lh[i].run = runs
                             /\ lh[i].r.ip = e.them /\ lh[i].r.port = e.port
    BY DEF Told
<1>2. i \in Records(a)'
    BY <1>1 DEF Records, About
<1> QED
    BY <1>2

\* Whoever answers is looked up in a table, and reported if it is not found.
LooksUp(tb, k, n, e, dup, st, a) ==
    /\ e.me # <<0, 0>> /\ dup = dedup_is_duplicate(tb, e)
    /\ Grown(log, log')
    /\ dup.known => Len(log') = Len(log)
    /\ ~ dup.known => /\ Len(log') = Len(log) + 1
                      /\ Announces(log'[Len(log')], n, e, st, e.them, TableProto(k, e), e.port)
    /\ a \in arrived' /\ arrived \subseteq arrived' /\ arrived' \subseteq arrived \cup {a}
    /\ About(a, e, k) /\ st = StatusOf(a.kind)

LEMMA FoundTells ==
    ASSUME Named, Believed, Heard, OnceInARow, runs' = runs, conf' = conf,
           NEW k, NEW n, NEW tb, Keeps(log, runs, Gone, tb, k, n),
           NEW e, NEW dup, NEW st, NEW a, LooksUp(tb, k, n, e, dup, st, a)
    PROVE  Named' /\ Believed' /\ Heard' /\ OnceInARow' /\ Keeps(log', runs, Gone, dup.table, k, n)
<1> DEFINE lh == log'
           j == Len(lh)
<1>1. /\ e.me # <<0, 0>> /\ dup = dedup_is_duplicate(tb, e) /\ Grown(log, lh)
      /\ a \in arrived' /\ arrived \subseteq arrived' /\ arrived' \subseteq arrived \cup {a}
      /\ About(a, e, k) /\ st = StatusOf(a.kind)
    BY DEF LooksUp
<1>2. CASE dup.known
    <2>1. Len(lh) = Len(log)
        BY <1>2 DEF LooksUp
    <2>2. Keeps(log, runs, Gone, dup.table, k, n) /\ Told(log, runs, e, TableProto(k, e))
        BY <1>1, <1>2, FoundAgain
    <2>3. (Len(log) + 1) .. Len(lh) = {}
        BY <1>1, <2>1 DEF Grown
    <2> HIDE DEF j
    <2>4. Told(lh, runs, e, TableProto(k, e))
        BY <1>1, <2>2, ToldStill
    <2>5. Keeps(lh, runs, Gone, dup.table, k, n)
        BY <1>1, <2>2, <2>3, NotLookedUp
    <2>6. Records(a)' # {}
        BY <1>1, <2>4, RecordOf
    <2>7. Believed'
        BY <1>1, <2>3, BelievedStill
    <2>8. Heard'
        BY <1>1, <2>6, HeardStill
    <2>9. OnceInARow'
        BY <1>1, <2>3, OnceStill
    <2>10. Named'
        BY <1>1, <2>3, NamedStill
    <2> QED
        BY <2>5, <2>7, <2>8, <2>9, <2>10
<1>3. CASE ~ dup.known
    <2>1. j = Len(log) + 1 /\ Announces(lh[j], n, e, st, e.them, TableProto(k, e), e.port)
        BY <1>3 DEF LooksUp
    <2>2. Reports(lh[j], runs, e, k, n)
        BY <2>1 DEF Announces, Reports
    <2>3. /\ Keeps(lh, runs, Gone, dup.table, k, n) /\ Told(lh, runs, e, TableProto(k, e))
          /\ \A i \in DOMAIN log : LookedUp(log[i], runs, Gone, k, n) /\ log[i].of = e => Between(lh, i, j)
        BY <1>1, <1>3, <2>1, <2>2, FoundNew
    <2>4. Records(a)' # {}
        BY <1>1, <2>3, RecordOf
    <2>5. (Len(log) + 1) .. Len(lh) = {j} /\ j \in DOMAIN lh /\ 1 .. (j - 1) = DOMAIN log
        BY <1>1, <2>1 DEF Grown
    <2>6. j \in Records(a)' /\ lh[j].r.status = StatusOf(a.kind)
        BY <1>1, <2>1, <2>5 DEF Records, About, Announces
    <2> HIDE DEF j
    <2>7. Believed'
        <3>1. \A i \in (Len(log) + 1) .. Len(lh) : i \in Records(a)' /\ lh[i].r.status = StatusOf(a.kind)
            BY <2>5, <2>6
        <3> QED
            BY <1>1, <3>1, BelievedStill
    <2>8. Heard'
        BY <1>1, <2>4, HeardStill
    <2>9. ASSUME NEW i \in DOMAIN log, SameAgain(lh, i, j, Gone) PROVE Between(lh, i, j)
        <3>1. lh[i] = log[i]
            BY <1>1 DEF Grown
        <3>2. TableProto(k, e) = 1 <=> k = "echo"
            BY DEF TableProto
        <3>3. LookedUp(log[i], runs, Gone, k, n) /\ log[i].of = e
            BY <2>2, <2>9, <3>1, <3>2 DEF SameAgain, Reports, LookedUp
        <3> QED
            BY <2>3, <3>3
    <2>10. OnceInARow'
        BY <1>1, <2>5, <2>9, OnceStill
    <2>11. Named'
        <3>1. Names(lh[j])
            BY <2>1 DEF Announces, Names
        <3> QED
            BY <1>1, <2>5, <3>1, NamedStill
    <2> QED
        BY <2>3, <2>7, <2>8, <2>10, <2>11
<1> QED
    BY <1>2, <1>3

\* A report that no table is asked for.
Aside(e) == ~ Verified(e.r) \/ e.r.ip \in Gone \/ e.r.proto \notin {0, 1, 6}
Honest(i) == Verified(log[i].r) =>
               \/ \E a \in arrived : i \in Records(a) /\ log[i].r.status = StatusOf(a.kind)
               \/ \E x \in Unreachables : log[i].r.status = "closed" /\ log[i].r.ip = x.them /\ log[i].r.port = x.port
AddedAt(i) == i \in (Len(log) + 1) .. Len(log')

LEMMA AsideAlone ==
    ASSUME NEW e, Aside(e), NEW rn, NEW k, NEW n
    PROVE  ~ LookedUp(e, rn, Gone, k, n)
BY DEF Aside, LookedUp

\* The tables that nothing was looked up in.
LEMMA TableStays ==
    ASSUME Grown(log, log'), runs' = runs, conf' = conf, NEW tb, NEW k, NEW n, Keeps(log, runs, Gone, tb, k, n),
           \A i : AddedAt(i) => ~ LookedUp(log'[i], runs, Gone, k, n)
    PROVE  Keeps(log', runs', Gone', tb, k, n)
<1>1. Gone' = Gone
    BY DEF Gone, Unreachables
<1>2. \A i \in (Len(log) + 1) .. Len(log') : ~ LookedUp(log'[i], runs, Gone, k, n)
    BY DEF AddedAt
<1>3. Keeps(log', runs, Gone, tb, k, n)
    BY <1>2, NotLookedUp
<1> QED
    BY <1>1, <1>3

\* A step whose reports are no table's.
LEMMA StepAside ==
    ASSUME TellInv, Stamps', Grown(log, log'), runs' = runs, conf' = conf, echo' = echo, arrived \subseteq arrived',
           \A m \in 1 .. conf.nics : nics'[m].pc # "done" => nics[m].pc # "done" /\ nics'[m].dedup = nics[m].dedup,
           \A i : AddedAt(i) => Aside(log'[i]) /\ Names(log'[i]) /\ Honest(i)',
           \A a \in arrived' \ arrived : a.k # "udp" => Records(a)' # {}
    PROVE  TellInv'
<1>1. Stamps /\ Named /\ ThreadTables /\ EchoTable /\ Believed /\ Heard /\ OnceInARow
    BY DEF TellInv
<1>2. \A i : AddedAt(i) => \A k, n : ~ LookedUp(log'[i], runs, Gone, k, n)
    BY AsideAlone
<1>3. ThreadTables'
    <2>1. ASSUME NEW m \in 1 .. conf.nics, nics'[m].pc # "done"
          PROVE  Keeps(log', runs', Gone', nics'[m].dedup, "thread", m)
        <3>1. Keeps(log, runs, Gone, nics[m].dedup, "thread", m) /\ nics'[m].dedup = nics[m].dedup
            BY <1>1, <2>1 DEF ThreadTables
        <3> QED
            BY <1>2, <3>1, TableStays
    <2> QED
        BY <2>1 DEF ThreadTables
<1>4. EchoTable'
    <2>1. ASSUME NEW m \in 1 .. conf.nics
          PROVE  Keeps(log', runs', Gone', echo', "echo", m)
        <3>1. Keeps(log, runs, Gone, echo, "echo", m)
            BY <1>1 DEF EchoTable
        <3> QED
            BY <1>2, <3>1, TableStays
    <2> QED
        BY <2>1 DEF EchoTable
<1>5. Unreachables' = Unreachables /\ conf'.strays = conf.strays /\ Gone' = Gone
    BY DEF Unreachables, Gone
<1>6. Believed'
    <2>1. \A i \in (Len(log) + 1) .. Len(log') : Verified(log'[i].r) =>
              \/ \E a \in arrived' : i \in Records(a)' /\ log'[i].r.status = StatusOf(a.kind)
              \/ \E x \in Unreachables : /\ log'[i].r.status = "closed" /\ log'[i].r.ip = x.them
                                         /\ log'[i].r.port = x.port
        BY <1>5 DEF AddedAt, Honest
    <2> QED
        BY <1>1, <1>5, <2>1, BelievedStill
<1>7. Heard'
    BY <1>1, HeardStill
<1>8. Named'
    BY <1>1, NamedStill DEF AddedAt
<1>9. OnceInARow'
    <2>1. ASSUME NEW j \in (Len(log) + 1) .. Len(log'), NEW i \in 1 .. (j - 1), SameAgain(log', i, j, Gone)
          PROVE  FALSE
        <3>1. Aside(log'[j])
            BY DEF AddedAt
        <3>2. i \in DOMAIN log' /\ j \in DOMAIN log'
            BY DEF Grown
        <3>3. Names(log'[i]) /\ Names(log'[j])
            BY <1>8, <3>2 DEF Named
        <3> QED
            BY <2>1, <3>1, <3>3 DEF SameAgain, Aside, Names
    <2> QED
        BY <1>1, <1>5, <2>1, OnceStill
<1> QED
    BY <1>1, <1>3, <1>4, <1>6, <1>7, <1>8, <1>9 DEF TellInv

\* What is looked up in one table is not in the others.
LEMMA OneTable ==
    ASSUME NEW tb, NEW k, NEW n, NEW e, NEW dup, NEW st, NEW a, LooksUp(tb, k, n, e, dup, st, a), NEW i, AddedAt(i)
    PROVE  /\ k = "thread" => ~ LookedUp(log'[i], runs, Gone, "echo", n)
           /\ k = "thread" => \A m : m # n => ~ LookedUp(log'[i], runs, Gone, "thread", m)
           /\ k = "echo" => \A m : ~ LookedUp(log'[i], runs, Gone, "thread", m)
<1>1. Grown(log, log') /\ (dup.known => Len(log') = Len(log))
    BY DEF LooksUp
<1>2. Len(log) \in Nat /\ Len(log') \in Nat /\ i \in (Len(log) + 1) .. Len(log')
    BY <1>1 DEF Grown, AddedAt
<1>3. ~ dup.known
    BY <1>1, <1>2
<1>4. Len(log') = Len(log) + 1 /\ Announces(log'[Len(log')], n, e, st, e.them, TableProto(k, e), e.port)
    BY <1>3 DEF LooksUp
<1>5. i = Len(log')
    BY <1>4, <1>2
<1>6. log'[i].nic = n /\ log'[i].r.proto = TableProto(k, e)
    BY <1>4, <1>5 DEF Announces
<1> QED
    BY <1>6 DEF LookedUp, TableProto

LEMMA EchoOfAll ==
    ASSUME NEW lg, NEW rn, NEW gone, NEW tb, NEW n, Keeps(lg, rn, gone, tb, "echo", n), NEW m
    PROVE  Keeps(lg, rn, gone, tb, "echo", m)
<1>1. \A e : LookedUp(e, rn, gone, "echo", m) <=> LookedUp(e, rn, gone, "echo", n)
    BY DEF LookedUp
<1> QED
    BY <1>1 DEF Keeps, Remembers

\* Thread n looks the flow e up in its table.
LEMMA StepThread ==
    ASSUME TellInv, Stamps', runs' = runs, conf' = conf, echo' = echo, NEW n \in 1 .. conf.nics, nics[n].pc # "done",
           NEW e, NEW dup, NEW st, NEW a, LooksUp(nics[n].dedup, "thread", n, e, dup, st, a),
           nics'[n].dedup = dup.table, \A m \in 1 .. conf.nics : m # n => nics'[m] = nics[m]
    PROVE  TellInv'
<1>1. Stamps /\ Named /\ ThreadTables /\ EchoTable /\ Believed /\ Heard /\ OnceInARow
    BY DEF TellInv
<1>2. Gone' = Gone
    BY DEF Gone, Unreachables
<1>3. Grown(log, log')
    BY DEF LooksUp
<1>4. Keeps(log, runs, Gone, nics[n].dedup, "thread", n)
    BY <1>1 DEF ThreadTables
<1>5. Named' /\ Believed' /\ Heard' /\ OnceInARow' /\ Keeps(log', runs, Gone, dup.table, "thread", n)
    BY SMTT(60), <1>1, <1>4, FoundTells
<1>6. ThreadTables'
    <2>1. ASSUME NEW m \in 1 .. conf.nics, nics'[m].pc # "done"
          PROVE  Keeps(log', runs', Gone', nics'[m].dedup, "thread", m)
        <3>1. CASE m = n
            BY <1>2, <1>5, <3>1
        <3>2. CASE m # n
            <4>1. nics'[m].dedup = nics[m].dedup /\ Keeps(log, runs, Gone, nics[m].dedup, "thread", m)
                BY <1>1, <2>1, <3>2 DEF ThreadTables
            <4>2. \A i : AddedAt(i) => ~ LookedUp(log'[i], runs, Gone, "thread", m)
                BY <3>2, OneTable
            <4> QED
                BY <1>3, <4>1, <4>2, TableStays
        <3> QED
            BY <3>1, <3>2
    <2> QED
        BY <2>1 DEF ThreadTables
<1>7. EchoTable'
    <2>1. ASSUME NEW m \in 1 .. conf.nics
          PROVE  Keeps(log', runs', Gone', echo', "echo", m)
        <3>1. Keeps(log, runs, Gone, echo, "echo", n)
            BY <1>1 DEF EchoTable
        <3>2. \A i : AddedAt(i) => ~ LookedUp(log'[i], runs, Gone, "echo", n)
            BY OneTable
        <3>3. Keeps(log', runs', Gone', echo, "echo", n)
            BY <1>3, <3>1, <3>2, TableStays
        <3> QED
            BY <3>3, EchoOfAll
    <2> QED
        BY <2>1 DEF EchoTable
<1> QED
    BY <1>5, <1>6, <1>7 DEF TellInv

\* It looks the flow e up in the table of echo replies.
LEMMA StepEcho ==
    ASSUME TellInv, Stamps', runs' = runs, conf' = conf, NEW n \in 1 .. conf.nics,
           NEW e, NEW dup, NEW st, NEW a, LooksUp(echo, "echo", n, e, dup, st, a), echo' = dup.table,
           \A m \in 1 .. conf.nics : nics'[m].pc # "done" => nics[m].pc # "done" /\ nics'[m].dedup = nics[m].dedup
    PROVE  TellInv'
<1>1. Stamps /\ Named /\ ThreadTables /\ EchoTable /\ Believed /\ Heard /\ OnceInARow
    BY DEF TellInv
<1>2. Gone' = Gone
    BY DEF Gone, Unreachables
<1>3. Grown(log, log')
    BY DEF LooksUp
<1>4. Keeps(log, runs, Gone, echo, "echo", n)
    BY <1>1 DEF EchoTable
<1>5. Named' /\ Believed' /\ Heard' /\ OnceInARow' /\ Keeps(log', runs, Gone, dup.table, "echo", n)
    BY SMTT(60), <1>1, <1>4, FoundTells
<1>6. ThreadTables'
    <2>1. ASSUME NEW m \in 1 .. conf.nics, nics'[m].pc # "done"
          PROVE  Keeps(log', runs', Gone', nics'[m].dedup, "thread", m)
        <3>1. nics'[m].dedup = nics[m].dedup /\ Keeps(log, runs, Gone, nics[m].dedup, "thread", m)
            BY <1>1, <2>1 DEF ThreadTables
        <3>2. \A i : AddedAt(i) => ~ LookedUp(log'[i], runs, Gone, "thread", m)
            BY OneTable
        <3> QED
            BY <1>3, <3>1, <3>2, TableStays
    <2> QED
        BY <2>1 DEF ThreadTables
<1>7. EchoTable'
    BY <1>2, <1>5, EchoOfAll DEF EchoTable
<1> QED
    BY <1>5, <1>6, <1>7 DEF TellInv

----------------------------------------------------------------------------
(* What a datagram is reported as: proto-udp.c and what it hands it to *)

\* An outcome has a banner or none.
Few(out) == out.banners = <<>> \/ \E b : out.banners = <<b>>
AllFew(S) == \A out \in S : Few(out)

LEMMA OutcomeFew ==
    /\ \A counted : Few(D!Outcome(counted, <<>>))
    /\ \A counted, b : Few(D!Outcome(counted, <<b>>))
BY DEF D!Outcome, Few

LEMMA PlainFew == Few(D!NotMine) /\ Few(D!Silent) /\ \A d : Few(D!default_udp_parse(d))
BY OutcomeFew DEF D!NotMine, D!Silent, D!default_udp_parse

LEMMA OneFew == \A x : Few(x) => AllFew({x})
BY DEF AllFew

LEMMA DnsFew == \A d : AllFew(D!handle_dns(d))
<1>1. ASSUME NEW d PROVE AllFew(D!DnsJunk \cup {D!Outcome(TRUE, <<D!Says("DNS", 9)>>)})
    BY OutcomeFew, PlainFew DEF D!DnsJunk, AllFew
<1>2. ASSUME NEW d, NEW dns PROVE AllFew(D!DnsAnswer(d, dns))
    BY OutcomeFew, PlainFew DEF D!DnsAnswer, D!AnswerAt, AllFew
<1> QED
    BY <1>1, <1>2 DEF D!handle_dns

LEMMA NbtFew == \A d : AllFew(D!handle_nbtstat(d))
<1>1. AllFew(D!DnsJunk)
    BY PlainFew DEF D!DnsJunk, AllFew
<1>2. ASSUME NEW d, NEW dns PROVE AllFew(D!NbtAnswer(d, dns))
    BY OutcomeFew, PlainFew DEF D!NbtAnswer, D!AnswerAt, AllFew
<1> QED
    BY <1>1, <1>2 DEF D!handle_nbtstat

LEMMA OthersFew ==
    ASSUME NEW d
    PROVE  /\ AllFew(D!handle_snmp(d)) /\ AllFew(D!coap_handle_response(d)) /\ AllFew(D!memcached_udp_parse(d))
           /\ AllFew(D!ntp_handle_response(d)) /\ AllFew(D!handle_zeroaccess(d))
<1>1. ASSUME NEW snmp PROVE AllFew(D!Answered(d, snmp))
    <2> DEFINE other == snmp.id # <<(d.cookie)[1] % 32768, (d.cookie)[2]>>
               said == {D!Outcome(TRUE, <<D!Says("SNMP", snmp.said)>>)}
    <2>1. AllFew({D!NotMine}) /\ AllFew(said)
        BY OutcomeFew, PlainFew, OneFew
    <2>2. D!Answered(d, snmp) = IF other THEN {D!NotMine} ELSE said
        BY DEF D!Answered
    <2> HIDE DEF other, said
    <2> QED
        BY <2>1, <2>2
<1>2. AllFew(D!handle_snmp(d))
    BY <1>1 DEF D!handle_snmp
<1>3. AllFew(D!coap_handle_response(d))
    BY OutcomeFew, PlainFew DEF D!coap_handle_response, AllFew
<1>4. AllFew(D!memcached_udp_parse(d))
    BY OutcomeFew, PlainFew DEF D!memcached_udp_parse, AllFew
<1>5. AllFew(D!ntp_handle_response(d))
    BY OutcomeFew, PlainFew DEF D!ntp_handle_response, AllFew
<1>6. AllFew(D!handle_zeroaccess(d))
    <2> DEFINE a == D!App(d)
               count == D!At(a, 12) + 256 * D!At(a, 13) + 65536 * (D!At(a, 14) + D!At(a, 15))
               size == 1 + count
               short == ~d.crc \/ d.n < 16
               wrong == SubSeq(a, 5, 8) # <<76, 116, 101, 114>> \/ count > 256 \/ 16 + 8 * count > d.n
               said == {D!Outcome(TRUE, <<D!Says("ZeroAccess", size)>>)}
    <2>1. AllFew({D!Silent}) /\ \A n : AllFew({D!Outcome(TRUE, <<D!Says("ZeroAccess", n)>>)})
        BY OutcomeFew, PlainFew, OneFew
    <2>2. AllFew(said)
        <3> HIDE DEF size
        <3> QED
            BY <2>1
    <2>3. D!handle_zeroaccess(d) = IF short THEN {D!Silent} ELSE IF wrong THEN {D!Silent} ELSE said
        BY DEF D!handle_zeroaccess
    <2> HIDE DEF short, wrong, said
    <2> QED
        BY <2>1, <2>2, <2>3
<1> QED
    BY <1>2, <1>3, <1>4, <1>5, <1>6

LEMMA DatagramFew ==
    ASSUME NEW d, NEW out \in D!handle_udp(d)
    PROVE  Few(out)
<1>1. AllFew({D!default_udp_parse(d)})
    BY PlainFew DEF AllFew
<1>2. AllFew(D!handle_udp(d))
    BY <1>1, DnsFew, NbtFew, OthersFew DEF D!handle_udp
<1> QED
    BY <1>2 DEF AllFew

\* Nothing is verified that a banner says, or a datagram.
Unsure(rs) ==
    /\ \E R : rs \in Seq(R)
    /\ \A i \in 1 .. Len(rs) : \A at : ~ Verified(Stamped(rs[i], at))
\* Only datagrams' answers are new.
OnlyUdp == arrived \subseteq arrived' /\ \A a \in arrived' \ arrived : a.k = "udp"

LEMMA UnsureOne ==
    /\ Unsure(<<>>)
    /\ \A app, ip, proto, port, length : Unsure(<<O!Banner(app, ip, proto, port, length)>>)
    /\ \A st, ip, port : Unsure(<<O!Status(st, ip, 17, port)>>)
<1>1. Unsure(<<>>)
    BY DEF Unsure
<1>2. ASSUME NEW r, \A at : ~ Verified(Stamped(r, at)) PROVE Unsure(<<r>>)
    <2>1. <<r>> \in Seq({r}) /\ Len(<<r>>) = 1 /\ <<r>>[1] = r
        OBVIOUS
    <2> DEFINE rs == <<r>>
    <2> HIDE DEF rs
    <2>2. rs \in Seq({r}) /\ Len(rs) = 1 /\ rs[1] = r
        BY <2>1 DEF rs
    <2>3. Unsure(rs)
        BY <1>2, <2>2 DEF Unsure
    <2> QED
        BY <2>3 DEF rs
<1>3. ASSUME NEW app, NEW ip, NEW proto, NEW port, NEW length
      PROVE  \A at : ~ Verified(Stamped(O!Banner(app, ip, proto, port, length), at))
    BY StampedBanner DEF Verified
<1>4. ASSUME NEW st, NEW ip, NEW port PROVE \A at : ~ Verified(Stamped(O!Status(st, ip, 17, port), at))
    BY StampedStatus DEF Verified
<1> QED
    BY <1>1, <1>2, <1>3, <1>4

LEMMA UnsureJoined ==
    ASSUME NEW p, NEW q, Unsure(p), Unsure(q), NEW rs, Joins(rs, p, q)
    PROVE  Unsure(rs)
<1>1. PICK R : p \in Seq(R)
    BY DEF Unsure
<1>2. PICK S : q \in Seq(S)
    BY DEF Unsure
<1> DEFINE T == R \cup S
<1>3. p \in Seq(T) /\ q \in Seq(T)
    BY <1>1, <1>2
<1> HIDE DEF T
<1>4. /\ rs \in Seq(T) /\ Len(rs) = Len(p) + Len(q)
      /\ \A i \in 1 .. Len(p) : rs[i] = p[i]
      /\ \A i \in 1 .. Len(q) : rs[Len(p) + i] = q[i]
    BY <1>3, JoinsAre
<1>5. Len(p) \in Nat /\ Len(q) \in Nat
    BY <1>3
<1>6. ASSUME NEW i \in 1 .. Len(rs) PROVE \A at : ~ Verified(Stamped(rs[i], at))
    <2>1. CASE i <= Len(p)
        <3>1. i \in 1 .. Len(p)
            BY <1>4, <1>5, <2>1
        <3>2. rs[i] = p[i]
            BY <1>4, <3>1
        <3> QED
            BY <3>1, <3>2 DEF Unsure
    <2>2. CASE i > Len(p)
        <3>1. i - Len(p) \in 1 .. Len(q) /\ Len(p) + (i - Len(p)) = i
            BY <1>4, <1>5, <2>2
        <3>2. rs[i] = q[i - Len(p)]
            BY <1>4, <3>1
        <3> QED
            BY <3>1, <3>2 DEF Unsure
    <2> QED
        BY <1>4, <1>5, <2>1, <2>2
<1> QED
    BY <1>4, <1>6 DEF Unsure

LEMMA UnsureReport ==
    ASSUME TellInv, Threads, conf' = conf, runs' = runs, echo' = echo, OnlyUdp, NEW n \in 1 .. conf.nics,
           NEW x, Thread(x), x.pc = nics[n].pc, x.dedup = nics[n].dedup,
           NEW rs, Unsure(rs), NEW of, NEW ok, Report(n, x, rs, of, ok)
    PROVE  TellInv'
<1>1. PICK R : rs \in Seq(R)
    BY DEF Unsure
<1>2. Stamps
    BY DEF TellInv
<1>3. /\ Grown(log, log') /\ Len(log') = Len(log) + Len(rs) /\ Stamps'
      /\ \A i \in 1 .. Len(rs) : SaidOf(log'[Len(log) + i], n, rs[i], of)
    BY SMTT(60), <1>1, <1>2, ReportGrows
<1>4. /\ nics'[n].pc = x.pc /\ nics'[n].dedup = x.dedup
      /\ \A m \in 1 .. conf.nics : m # n => nics'[m] = nics[m]
    BY SMTT(60), ThreadReports
<1>5. \A m \in 1 .. conf.nics : nics'[m].pc # "done" => nics[m].pc # "done" /\ nics'[m].dedup = nics[m].dedup
    BY <1>4
<1>6. ASSUME NEW i, AddedAt(i) PROVE ~ Verified(log'[i].r)
    <2>1. /\ Len(log) \in Nat /\ Len(rs) \in Nat /\ i \in Int /\ i >= Len(log) + 1 /\ i <= Len(log) + Len(rs)
        BY <1>1, <1>3, <1>6 DEF AddedAt, Grown
    <2>2. i - Len(log) \in 1 .. Len(rs) /\ Len(log) + (i - Len(log)) = i
        BY <2>1
    <2>3. SaidOf(log'[i], n, rs[i - Len(log)], of)
        BY <1>3, <2>2
    <2>4. PICK at : log'[i].r = Stamped(rs[i - Len(log)], at)
        BY <2>3, SaidIs DEF SaidOf
    <2> QED
        BY <2>2, <2>4 DEF Unsure
<1>7. \A i : AddedAt(i) => Aside(log'[i]) /\ Names(log'[i]) /\ Honest(i)'
    BY <1>6 DEF Aside, Names, Honest
<1>8. arrived \subseteq arrived' /\ \A a \in arrived' \ arrived : a.k # "udp" => Records(a)' # {}
    BY DEF OnlyUdp
<1> QED
    BY SMTT(60), <1>3, <1>5, <1>7, <1>8, StepAside

\* What is noted of an answer.
Arrival(f, rn) == [k |-> f.k, kind |-> f.kind, them |-> f.them, port |-> f.port, me |-> f.me, mine |-> f.mine, run |-> rn]

LEMMA NotedIs ==
    ASSUME NEW f, NEW counted, Noted(f, counted)
    PROVE  /\ conf' = conf /\ runs' = runs
           /\ arrived' = IF f.answer /\ counted THEN arrived \cup {Arrival(f, runs)} ELSE arrived
BY DEF Noted, Arrival

AnswersTo(f, p, kind) == f = Answer(p, kind)

LEMMA AnswerNoted ==
    ASSUME NEW p, NEW kind, NEW f, AnswersTo(f, p, kind), Noted(f, TRUE)
    PROVE  arrived' = arrived \cup {Arrival(f, runs)}
<1>1. f.answer = TRUE
    BY DEF Answer, AnswersTo
<1> QED
    BY <1>1, NotedIs

\* So it is what the probe was, and how it was answered.
Tells(a, p, kind, rn) ==
    /\ a.k = p.k /\ a.kind = kind /\ a.them = p.them /\ a.port = p.port /\ a.me = p.me /\ a.mine = p.mine /\ a.run = rn

LEMMA ArrivalIs ==
    ASSUME NEW p, NEW kind, NEW f, AnswersTo(f, p, kind), NEW rn
    PROVE  Tells(Arrival(f, rn), p, kind, rn)
<1>1. f.k = p.k /\ f.kind = kind /\ f.them = p.them /\ f.port = p.port /\ f.me = p.me /\ f.mine = p.mine
    BY DEF Answer, AnswersTo
<1> QED
    BY <1>1 DEF Arrival, Tells

LEMMA UnaskedNoted ==
    ASSUME NEW x, NEW f, f = Unasked(x), Noted(f, TRUE)
    PROVE  arrived' = arrived
<1>1. f.answer = FALSE
    BY DEF Unasked
<1> QED
    BY <1>1, NotedIs

\* A step that reports nothing, and takes in no answer.
LEMMA QuietStep ==
    ASSUME TellInv, log' = log, runs' = runs, conf' = conf, echo' = echo, OnlyUdp,
           \A m \in 1 .. conf.nics : nics'[m].pc # "done" => nics[m].pc # "done" /\ nics'[m].dedup = nics[m].dedup
    PROVE  TellInv'
<1>1. Stamps /\ Stamps' /\ Grown(log, log')
    <2>1. Stamps
        BY DEF TellInv
    <2>2. Grown(log, log)
        BY <2>1, LogStays
    <2> QED
        BY <2>1, <2>2 DEF Stamps
<1>2. \A i : ~ AddedAt(i)
    BY <1>1 DEF AddedAt, Grown
<1>3. \A i : AddedAt(i) => Aside(log'[i]) /\ Names(log'[i]) /\ Honest(i)'
    BY <1>2
<1>4. arrived \subseteq arrived' /\ \A a \in arrived' \ arrived : a.k # "udp" => Records(a)' # {}
    BY DEF OnlyUdp
<1> QED
    BY SMTT(60), <1>1, <1>3, <1>4, StepAside

LEMMA UdpTells ==
    ASSUME XorOfWords, WireInv, TellInv, NEW n \in 1 .. conf.nics, RxUdp(n)
    PROVE  TellInv'
<1>1. PICK f \in Arriving, ok \in Opens :
       LET s == F!preprocess_frame(f.frame)
           d == [px |-> f.frame.px, at |-> s.at, n |-> s.app, sport |-> s.sport,
                 cookie |-> SynCookie(s.them, s.sport + Templ_UDP, s.me, s.dport), crc |-> f.frame.more.crc]
       IN /\ Parsed(n, f.frame, s) /\ s.found \in {"udp", "dns"}
          /\ IF is_nic_port(s.dport)
             THEN \E out \in D!handle_udp(d) :
                     Report(n, nics[n],
                            [i \in 1..Len(out.banners) |-> O!Banner(out.banners[i].app, s.them, 17, s.sport, out.banners[i].length)]
                            \o (IF out.counted THEN <<O!Status("open", s.them, 17, s.sport)>> ELSE <<>>), Flow(s), ok)
             ELSE UNCHANGED <<nics, fs, log, global, stage>>
          /\ Noted(f, TRUE)
    BY DEF RxUdp
<1> DEFINE s == F!preprocess_frame(f.frame)
           d == [px |-> f.frame.px, at |-> s.at, n |-> s.app, sport |-> s.sport,
                 cookie |-> SynCookie(s.them, s.sport + Templ_UDP, s.me, s.dport), crc |-> f.frame.more.crc]
           of == Flow(s)
<1>2. Parsed(n, f.frame, s) /\ s.found \in {"udp", "dns"} /\ Noted(f, TRUE) /\ echo' = echo
    BY <1>1 DEF RxUdp
<1>3. conf' = conf /\ runs' = runs
    BY <1>2, NotedIs
<1>4. Sensible(conf) /\ Threads /\ ProbesSent
    BY DEF WireInv
<1>5. OnlyUdp
    <2>1. Read(f.frame, s)
        BY <1>2 DEF Parsed, Read
    <2> HIDE DEF s
    <2>2. CASE \E p \in Probes : \E t \in conf.targets, m \in 1 .. conf.nics : \E kind \in Kinds(p.k) :
                  p = Probe(t, conf.src[m]) /\ f = Answer(p, kind) /\ Echoes(p, kind, f.frame, s)
        <3>1. PICK p, kind : AnswersTo(f, p, kind) /\ Echoes(p, kind, f.frame, s)
            BY <2>2 DEF AnswersTo
        <3>2. p.k = "udp"
            BY <1>2, <3>1 DEF Echoes
        <3>3. arrived' = arrived \cup {Arrival(f, runs)}
            BY <1>2, <3>1, AnswerNoted
        <3>4. Tells(Arrival(f, runs), p, kind, runs)
            BY <3>1, ArrivalIs
        <3> QED
            BY <3>2, <3>3, <3>4 DEF OnlyUdp, Tells
    <2>3. CASE \E x \in conf.strays : f = Unasked(x) /\ Intrudes(x, f.frame, s)
        BY <1>2, <2>3, UnaskedNoted DEF OnlyUdp
    <2> QED
        BY <1>4, <2>1, <2>2, <2>3, ArrivesFrom
<1>6. CASE is_nic_port(s.dport)
    <2>1. PICK out \in D!handle_udp(d) :
             Report(n, nics[n],
                    [i \in 1..Len(out.banners) |-> O!Banner(out.banners[i].app, s.them, 17, s.sport, out.banners[i].length)]
                    \o (IF out.counted THEN <<O!Status("open", s.them, 17, s.sport)>> ELSE <<>>), of, ok)
        BY Zenon, <1>1, <1>6
    <2> DEFINE them == s.them
               port == s.sport
               said == [i \in 1..Len(out.banners) |-> O!Banner(out.banners[i].app, them, 17, port, out.banners[i].length)]
               open == IF out.counted THEN <<O!Status("open", them, 17, port)>> ELSE <<>>
               rs == said \o open
    <2>2. Report(n, nics[n], rs, of, ok)
        BY <2>1
    <2>3. Few(out)
        BY DatagramFew
    <2> HIDE DEF of, s, d, them, port
    <2>4. Unsure(said)
        <3>1. CASE out.banners = <<>>
            <4>1. said = <<>>
                BY <3>1
            <4> QED
                BY <4>1, UnsureOne
        <3>2. CASE \E b : out.banners = <<b>>
            <4>1. PICK b : out.banners = <<b>>
                BY <3>2
            <4>2. said = <<O!Banner(b.app, them, 17, port, b.length)>>
                BY <4>1
            <4> QED
                BY <4>2, UnsureOne
        <3> QED
            BY <2>3, <3>1, <3>2 DEF Few
    <2>5. Unsure(open)
        BY UnsureOne
    <2>6. Joins(rs, said, open)
        BY DEF Joins
    <2> HIDE DEF said, open, rs
    <2>7. Unsure(rs)
        BY <2>4, <2>5, <2>6, UnsureJoined
    <2>8. Thread(nics[n])
        BY <1>4 DEF Threads
    <2> QED
        BY SMTT(60), <1>2, <1>3, <1>4, <1>5, <2>2, <2>7, <2>8, UnsureReport
<1>7. CASE ~ is_nic_port(s.dport)
    <2>1. nics' = nics /\ log' = log
        BY <1>1, <1>7
    <2> QED
        BY SMTT(60), <1>2, <1>3, <1>5, <2>1, QuietStep
<1> QED
    BY <1>6, <1>7

Looking(dup, tb, e) == dup = dedup_is_duplicate(tb, e) /\ e.me # <<0, 0>>
UnlessKnown(rs, dup, st, e, proto) ==
    /\ dup.known => rs = <<>>
    /\ ~ dup.known => rs = <<O!Status(st, e.them, proto, e.port)>>
Concerns(a, e, k, st) == About(a, e, k) /\ st = StatusOf(a.kind)
OneMore(S, T, a) == T = S \cup {a}

\* Who is looked up in a table answers, and is reported if it is not found.
LEMMA FlowReported ==
    ASSUME Stamps, runs' = runs, NEW n, NEW x, NEW tb, NEW k, NEW e, NEW dup, Looking(dup, tb, e),
           NEW st, NEW rs, NEW ok, Report(n, x, rs, e, ok), UnlessKnown(rs, dup, st, e, TableProto(k, e)),
           NEW a, OneMore(arrived, arrived', a), Concerns(a, e, k, st)
    PROVE  LooksUp(tb, k, n, e, dup, st, a) /\ Stamps'
<1> USE DEF Looking, UnlessKnown, Concerns, OneMore
<1>1. CASE dup.known
    <2>1. Report(n, x, <<>>, e, ok)
        BY <1>1
    <2>2. Grown(log, log') /\ Len(log') = Len(log) /\ Stamps'
        BY <2>1, NothingReported
    <2> QED
        BY <1>1, <2>2 DEF LooksUp
<1>2. CASE ~ dup.known
    <2> DEFINE proto == TableProto(k, e)
               them == e.them
               port == e.port
    <2>1. Report(n, x, <<O!Status(st, them, proto, port)>>, e, ok)
        BY <1>2
    <2> HIDE DEF proto, them, port
    <2>2. /\ Grown(log, log') /\ Len(log') = Len(log) + 1 /\ Stamps'
          /\ Announces(log'[Len(log')], n, e, st, them, proto, port)
        BY <2>1, StatusReported
    <2> QED
        BY <1>2, <2>2 DEF LooksUp, proto, them, port
<1> QED
    BY <1>1, <1>2

\* What ICMP says is unreachable of itself.
LEMMA GoneReport ==
    ASSUME TellInv, Threads, conf' = conf, runs' = runs, echo' = echo, arrived' = arrived, NEW n \in 1 .. conf.nics,
           NEW y, Thread(y), y.pc = nics[n].pc, y.dedup = nics[n].dedup,
           NEW x \in Unreachables, NEW of, of.them = x.them, NEW proto, NEW ok,
           Report(n, y, <<O!Status("closed", x.them, proto, x.port)>>, of, ok)
    PROVE  TellInv'
<1>1. Stamps
    BY DEF TellInv
<1> DEFINE them == x.them
           port == x.port
<1>2. Report(n, y, <<O!Status("closed", them, proto, port)>>, of, ok)
    OBVIOUS
<1> HIDE DEF them, port
<1>3. /\ Grown(log, log') /\ Len(log') = Len(log) + 1 /\ Stamps'
      /\ Announces(log'[Len(log')], n, of, "closed", them, proto, port)
    BY <1>1, <1>2, StatusReported
<1>4. \E rs : Report(n, y, rs, of, ok)
    BY <1>2
<1>5. /\ nics'[n].pc = y.pc /\ nics'[n].dedup = y.dedup
      /\ \A m \in 1 .. conf.nics : m # n => nics'[m] = nics[m]
    BY SMTT(60), <1>4, ThreadReports
<1>6. \A m \in 1 .. conf.nics : nics'[m].pc # "done" => nics[m].pc # "done" /\ nics'[m].dedup = nics[m].dedup
    BY <1>5
<1>7. ASSUME NEW i, AddedAt(i) PROVE Aside(log'[i]) /\ Names(log'[i]) /\ Honest(i)'
    <2>1. Len(log) \in Nat /\ Len(log') \in Nat /\ i \in (Len(log) + 1) .. Len(log')
        BY <1>3, <1>7 DEF AddedAt, Grown
    <2>2. i = Len(log')
        BY <1>3, <2>1
    <2>3. log'[i].r.status = "closed" /\ log'[i].r.ip = x.them /\ log'[i].r.port = x.port /\ log'[i].of = of
        BY <1>3, <2>2 DEF Announces, them, port
    <2>4. x \in Unreachables' /\ x.them \in Gone
        BY DEF Gone, Unreachables
    <2>5. Aside(log'[i])
        BY <2>3, <2>4 DEF Aside
    <2>6. Names(log'[i])
        BY <2>3 DEF Names
    <2>7. Honest(i)'
        BY <2>3, <2>4 DEF Honest
    <2> QED
        BY <2>5, <2>6, <2>7
<1>8. arrived \subseteq arrived' /\ \A a \in arrived' \ arrived : a.k # "udp" => Records(a)' # {}
    OBVIOUS
<1> QED
    BY SMTT(60), <1>3, <1>6, <1>7, <1>8, StepAside

\* The frame that was read is addressed to the thread, and answers or not.
LEMMA FrameFrom ==
    ASSUME XorOfWords, WireInv, NEW n \in 1 .. conf.nics, NEW f \in Arriving, NEW s, s = F!preprocess_frame(f.frame),
           Parsed(n, f.frame, s)
    PROVE  /\ s.me = conf.src[n].ip /\ s.me # <<0, 0>> /\ Read(f.frame, s)
           /\ \/ \E p, kind : /\ \E t \in conf.targets, m \in 1 .. conf.nics : p = Probe(t, conf.src[m])
                              /\ kind \in Kinds(p.k) /\ AnswersTo(f, p, kind) /\ Echoes(p, kind, f.frame, s)
              \/ \E x \in conf.strays : f = Unasked(x) /\ Intrudes(x, f.frame, s)
<1>1. Sensible(conf) /\ ProbesSent
    BY DEF WireInv
<1>2. Read(f.frame, s) /\ s.me = conf.src[n].ip
    BY DEF Parsed, Read, is_my_ip
<1>3. s.me # <<0, 0>>
    BY <1>1, <1>2, SensibleIs
<1>4. \/ \E p \in Probes : \E t \in conf.targets, m \in 1 .. conf.nics : \E kind \in Kinds(p.k) :
            p = Probe(t, conf.src[m]) /\ f = Answer(p, kind) /\ Echoes(p, kind, f.frame, s)
      \/ \E x \in conf.strays : f = Unasked(x) /\ Intrudes(x, f.frame, s)
    BY <1>1, <1>2, ArrivesFrom
<1> QED
    BY <1>2, <1>3, <1>4 DEF AnswersTo

LEMMA KindsOf ==
    /\ \A kind : kind \in Kinds("tcp") => kind \in {"open", "closed", "both"}
    /\ \A kind : kind \in Kinds("sctp") => kind \in {"open", "closed"}
    /\ \A kind : kind \in Kinds("ping") => kind = "open"
    /\ \A kind : kind \in Kinds("arp") => kind = "up"
BY DEF Kinds

LEMMA IcmpTells ==
    ASSUME XorOfWords, WireInv, TellInv, NEW n \in 1 .. conf.nics, RxIcmp(n)
    PROVE  TellInv'
<1>1. PICK f \in Arriving, ok \in Opens :
       LET s == F!preprocess_frame(f.frame)
           of == [them |-> s.them, port |-> 0, me |-> s.me, mine |-> 0]
           dup == dedup_is_duplicate(echo, of)
           inner == f.frame.more.inner
       IN /\ Parsed(n, f.frame, s) /\ s.found = "icmp"
          /\ echo' = IF EchoReply(s, f.frame) THEN dup.table ELSE echo
          /\ Report(n, nics[n],
                    IF EchoReply(s, f.frame) THEN IF dup.known THEN <<>> ELSE <<O!Status("open", s.them, 1, 0)>>
                    ELSE IF PortUnreachable(s, f.frame)
                    THEN <<O!Status("closed", inner.them, inner.proto, inner.pthem)>> ELSE <<>>, of, ok)
          /\ Noted(f, TRUE)
    BY DEF RxIcmp
<1> DEFINE s == F!preprocess_frame(f.frame)
           of == [them |-> s.them, port |-> 0, me |-> s.me, mine |-> 0]
           dup == dedup_is_duplicate(echo, of)
           inner == f.frame.more.inner
           reply == EchoReply(s, f.frame)
           rs == IF reply THEN IF dup.known THEN <<>> ELSE <<O!Status("open", s.them, 1, 0)>>
                 ELSE IF PortUnreachable(s, f.frame)
                 THEN <<O!Status("closed", inner.them, inner.proto, inner.pthem)>> ELSE <<>>
<1>2. /\ Parsed(n, f.frame, s) /\ s.found = "icmp" /\ Noted(f, TRUE)
      /\ echo' = (IF reply THEN dup.table ELSE echo) /\ Report(n, nics[n], rs, of, ok)
    BY <1>1
<1>3. conf' = conf /\ runs' = runs
    BY <1>2, NotedIs
<1>4. Sensible(conf) /\ Threads /\ ProbesSent /\ Thread(nics[n]) /\ nics[n].pc = "run"
    BY <1>1 DEF WireInv, Threads, RxIcmp, Running
<1>5. Stamps
    BY DEF TellInv
<1>6. of.them = s.them /\ of.port = 0 /\ of.me = s.me /\ of.mine = 0
    OBVIOUS
<1>7. /\ nics'[n].pc = nics[n].pc /\ nics'[n].dedup = nics[n].dedup
      /\ \A m \in 1 .. conf.nics : m # n => nics'[m] = nics[m]
    <2> HIDE DEF rs, of
    <2> QED
        BY SMTT(60), <1>2, <1>3, <1>4, ThreadReports
<1>8. /\ s.me # <<0, 0>>
      /\ \/ \E p, kind : /\ \E t \in conf.targets, m \in 1 .. conf.nics : p = Probe(t, conf.src[m])
                         /\ kind \in Kinds(p.k) /\ AnswersTo(f, p, kind) /\ Echoes(p, kind, f.frame, s)
         \/ \E x \in conf.strays : f = Unasked(x) /\ Intrudes(x, f.frame, s)
    BY <1>2, FrameFrom
<1>9. ASSUME NEW p, NEW kind, \E t \in conf.targets, m \in 1 .. conf.nics : p = Probe(t, conf.src[m]),
             kind \in Kinds(p.k), AnswersTo(f, p, kind), Echoes(p, kind, f.frame, s)
      PROVE  TellInv'
    <2> DEFINE a == Arrival(f, runs)
    <2>1. arrived' = arrived \cup {a}
        BY <1>2, <1>9, AnswerNoted
    <2>2. Tells(a, p, kind, runs)
        BY <1>9, ArrivalIs
    <2> HIDE DEF a, s
    <2>3. CASE p.k = "ping"
        <3>1. /\ p.port = 0 /\ p.mine = 0 /\ s.them = p.them /\ s.me = p.me
              /\ s.sport = 0 /\ f.frame.more.number = SynCookie(p.them, Templ_ICMP_echo, p.me, 0)
            <4>1. p.port = 0 /\ p.mine = 0
                BY <1>4, <1>9, <2>3, ProbeCarries
            <4> QED
                BY <1>9, <2>3, <4>1 DEF Echoes
        <3>2. reply
            BY <3>1 DEF EchoReply
        <3>3. kind = "open" /\ StatusOf(kind) = "open"
            BY <1>9, <2>3, KindsOf DEF StatusOf
        <3>4. TableProto("echo", of) = 1 /\ Protocol("ping") = 1
            BY DEF TableProto, Protocol
        <3>5. Concerns(a, of, "echo", "open")
            BY <1>6, <2>2, <2>3, <3>1, <3>3, <3>4 DEF About, Tells, Concerns
        <3>6. echo' = dup.table
            BY <1>2, <3>2
        <3>7. UnlessKnown(rs, dup, "open", of, TableProto("echo", of))
            BY <1>6, <3>2, <3>4 DEF UnlessKnown
        <3>8. Looking(dup, echo, of)
            BY <1>6, <1>8 DEF Looking
        <3>9. OneMore(arrived, arrived', a)
            BY <2>1 DEF OneMore
        <3> HIDE DEF of, dup, rs, reply
        <3>10. LooksUp(echo, "echo", n, of, dup, "open", a) /\ Stamps'
            BY SMTT(60), <1>2, <1>3, <1>5, <3>5, <3>7, <3>8, <3>9, FlowReported
        <3>11. \A m \in 1 .. conf.nics : nics'[m].pc # "done" => nics[m].pc # "done" /\ nics'[m].dedup = nics[m].dedup
            BY <1>7
        <3> QED
            BY SMTT(60), <1>3, <3>6, <3>10, <3>11, StepEcho
    <2>4. CASE p.k # "ping"
        <3>1. p.k = "udp" /\ s.sport = 3 /\ inner.proto = 17
            BY <1>2, <1>9, <2>4 DEF Echoes
        <3>2. ~ reply
            BY <3>1 DEF EchoReply
        <3>3. echo' = echo
            BY <1>2, <3>2
        <3>4. OnlyUdp
            BY <2>1, <2>2, <3>1 DEF OnlyUdp, Tells
        <3>5. Unsure(rs)
            <4>1. rs = <<>> \/ rs = <<O!Status("closed", inner.them, 17, inner.pthem)>>
                BY <3>1, <3>2
            <4> QED
                BY <4>1, UnsureOne
        <3> HIDE DEF of, rs
        <3> QED
            BY SMTT(60), <1>2, <1>3, <1>4, <3>3, <3>4, <3>5, UnsureReport
    <2> QED
        BY <2>3, <2>4
<1>10. ASSUME NEW x \in conf.strays, f = Unasked(x), Intrudes(x, f.frame, s)
       PROVE  TellInv'
    <2>1. arrived' = arrived
        BY <1>2, <1>10, UnaskedNoted
    <2> HIDE DEF s
    <2>2. /\ s.them = x.them /\ s.sport = 3 /\ x.what = "unreachable"
          /\ inner.them = x.them /\ inner.pthem = x.port
        BY <1>2, <1>10 DEF Intrudes
    <2>3. ~ reply
        BY <2>2 DEF EchoReply
    <2>4. echo' = echo
        BY <1>2, <2>3
    <2>5. CASE rs = <<>>
        <3>1. OnlyUdp /\ Unsure(rs)
            BY <2>1, <2>5, UnsureOne DEF OnlyUdp
        <3> HIDE DEF of, rs
        <3> QED
            BY SMTT(60), <1>2, <1>3, <1>4, <2>4, <3>1, UnsureReport
    <2>6. CASE rs # <<>>
        <3>1. rs = <<O!Status("closed", x.them, inner.proto, x.port)>>
            BY <2>2, <2>3, <2>6
        <3>2. x \in Unreachables
            BY <2>2 DEF Unreachables
        <3>3. of.them = x.them
            BY <1>6, <2>2
        <3> HIDE DEF of
        <3>4. Report(n, nics[n], <<O!Status("closed", x.them, inner.proto, x.port)>>, of, ok)
            BY <1>2, <3>1
        <3> HIDE DEF inner
        <3> QED
            BY SMTT(60), <1>3, <1>4, <2>1, <2>4, <3>2, <3>3, <3>4, GoneReport
    <2> QED
        BY <2>5, <2>6
<1> QED
    BY <1>8, <1>9, <1>10

LEMMA ArpTells ==
    ASSUME XorOfWords, WireInv, TellInv, NEW n \in 1 .. conf.nics, RxArp(n)
    PROVE  TellInv'
<1>1. PICK f \in Arriving, ok \in Opens :
       LET s == F!preprocess_frame(f.frame)
           of == [them |-> s.them, port |-> 0, me |-> s.me, mine |-> 0]
           dup == dedup_is_duplicate(nics[n].dedup, of)
           wanted == f.frame.more.op = 2 /\ conf.arp /\ \E t \in conf.targets : t.them = s.them
       IN /\ Parsed(n, f.frame, s) /\ s.found = "arp"
          /\ Report(n, IF wanted THEN [nics[n] EXCEPT !.dedup = dup.table] ELSE nics[n],
                    IF wanted /\ ~dup.known THEN <<O!Status("up", s.them, 0, 0)>> ELSE <<>>, of, ok)
          /\ Noted(f, TRUE)
    BY DEF RxArp
<1> DEFINE s == F!preprocess_frame(f.frame)
           of == [them |-> s.them, port |-> 0, me |-> s.me, mine |-> 0]
           x == nics[n]
           dup == dedup_is_duplicate(x.dedup, of)
           wanted == f.frame.more.op = 2 /\ conf.arp /\ \E t \in conf.targets : t.them = s.them
           y == IF wanted THEN [x EXCEPT !.dedup = dup.table] ELSE x
           rs == IF wanted /\ ~dup.known THEN <<O!Status("up", s.them, 0, 0)>> ELSE <<>>
<1>2. Parsed(n, f.frame, s) /\ s.found = "arp" /\ Noted(f, TRUE) /\ Report(n, y, rs, of, ok)
    BY <1>1
<1>3. conf' = conf /\ runs' = runs /\ echo' = echo
    BY <1>1, NotedIs DEF RxArp
<1>4. Sensible(conf) /\ Threads /\ ProbesSent /\ Thread(x) /\ x.pc = "run"
    BY <1>1 DEF WireInv, Threads, RxArp, Running
<1>5. Stamps
    BY DEF TellInv
<1>6. of.them = s.them /\ of.port = 0 /\ of.me = s.me /\ of.mine = 0
    OBVIOUS
<1>7. /\ s.me # <<0, 0>>
      /\ \/ \E p, kind : /\ \E t \in conf.targets, m \in 1 .. conf.nics : p = Probe(t, conf.src[m])
                         /\ kind \in Kinds(p.k) /\ AnswersTo(f, p, kind) /\ Echoes(p, kind, f.frame, s)
         \/ \E z \in conf.strays : f = Unasked(z) /\ Intrudes(z, f.frame, s)
    BY <1>2, FrameFrom
<1> HIDE DEF x, s
<1>8. ASSUME NEW p, NEW kind, \E t \in conf.targets, m \in 1 .. conf.nics : p = Probe(t, conf.src[m]),
             kind \in Kinds(p.k), AnswersTo(f, p, kind), Echoes(p, kind, f.frame, s)
      PROVE  TellInv'
    <2> DEFINE a == Arrival(f, runs)
    <2>1. OneMore(arrived, arrived', a)
        BY <1>2, <1>8, AnswerNoted DEF OneMore
    <2>2. Tells(a, p, kind, runs)
        BY <1>8, ArrivalIs
    <2> HIDE DEF a
    <2>3. p.k = "arp" /\ s.them = p.them /\ f.frame.more.op = 2
        BY <1>2, <1>8 DEF Echoes
    <2>4. PICK t \in conf.targets, m \in 1 .. conf.nics : p = Probe(t, conf.src[m])
        BY <1>8
    <2>5. Kind(t.target) = "arp" /\ p.them = t.them /\ p.port = 0 /\ p.mine = 0
        BY <1>4, <2>3, <2>4, ProbeCarries
    <2>6. wanted
        <3>1. conf.arp
            BY <1>4, <2>5 DEF Sensible
        <3> QED
            BY <2>3, <2>5, <3>1
    <2>7. kind = "up" /\ StatusOf(kind) = "up"
        BY <1>8, <2>3, KindsOf DEF StatusOf
    <2>8. TableProto("thread", of) = 0 /\ Protocol("arp") = 0
        BY <1>6 DEF TableProto, Protocol
    <2>9. Concerns(a, of, "thread", "up")
        BY <1>6, <2>2, <2>3, <2>5, <2>7, <2>8 DEF About, Tells, Concerns
    <2>10. UnlessKnown(rs, dup, "up", of, TableProto("thread", of))
        BY <1>6, <2>6, <2>8 DEF UnlessKnown
    <2>11. Looking(dup, x.dedup, of)
        BY <1>6, <1>7 DEF Looking
    <2>12. Thread(y) /\ y.pc = x.pc /\ y.dedup = dup.table
        <3> HIDE DEF dup
        <3> QED
            BY <1>4, <2>6 DEF Thread
    <2> HIDE DEF of, dup, rs, y, wanted
    <2>13. LooksUp(x.dedup, "thread", n, of, dup, "up", a) /\ Stamps'
        BY SMTT(60), <1>2, <1>3, <1>5, <2>1, <2>9, <2>10, <2>11, FlowReported
    <2>14. nics'[n].dedup = dup.table /\ \A i \in 1 .. conf.nics : i # n => nics'[i] = nics[i]
        BY SMTT(60), <1>2, <1>3, <1>4, <2>12, ThreadReports
    <2>15. LooksUp(nics[n].dedup, "thread", n, of, dup, "up", a) /\ nics[n].pc # "done"
        BY <1>4, <2>13 DEF x
    <2> QED
        BY SMTT(60), <1>3, <2>13, <2>14, <2>15, StepThread
<1>9. ASSUME NEW z \in conf.strays, f = Unasked(z), Intrudes(z, f.frame, s)
      PROVE  TellInv'
    <2>1. arrived' = arrived
        BY <1>2, <1>9, UnaskedNoted
    <2>2. /\ s.them = z.them /\ z.what \in {"arp request", "arp reply"}
          /\ f.frame.more.op = (IF z.what = "arp reply" THEN 2 ELSE 1)
        BY <1>2, <1>9 DEF Intrudes
    <2>3. z.what = "arp reply" => \A t \in conf.targets : t.them # z.them
        BY <1>4 DEF Sensible
    <2>4. ~ wanted
        <3> DEFINE op == f.frame.more.op
        <3>1. s.them = z.them /\ (z.what = "arp reply" \/ op = 1)
            BY <2>2
        <3> HIDE DEF op
        <3>2. wanted => op = 2 /\ \E t \in conf.targets : t.them = s.them
            BY DEF op
        <3>3. op = 1 => op # 2
            OBVIOUS
        <3> HIDE DEF wanted
        <3> QED
            BY <2>3, <3>1, <3>2, <3>3
    <2>5. rs = <<>> /\ y = x
        BY <2>4
    <2>6. OnlyUdp /\ Unsure(rs)
        BY <2>1, <2>5, UnsureOne DEF OnlyUdp
    <2> HIDE DEF of, rs
    <2>7. Report(n, x, rs, of, ok) /\ x.pc = nics[n].pc /\ x.dedup = nics[n].dedup
        BY <1>2, <2>5 DEF x
    <2> QED
        BY SMTT(60), <1>3, <1>4, <2>6, <2>7, UnsureReport
<1> QED
    BY <1>7, <1>8, <1>9

\* What is said of an SCTP port is looked up nowhere.
LEMMA SctpReport ==
    ASSUME TellInv, Threads, conf' = conf, runs' = runs, echo' = echo, NEW n \in 1 .. conf.nics,
           NEW y, Thread(y), y.pc = nics[n].pc, y.dedup = nics[n].dedup, NEW a, OneMore(arrived, arrived', a),
           NEW of, a.k = "sctp" /\ a.them = of.them /\ a.port = of.port /\ a.run = runs,
           NEW st, st = StatusOf(a.kind), NEW ok, Report(n, y, <<O!Status(st, of.them, 132, of.port)>>, of, ok)
    PROVE  TellInv'
<1>1. Stamps
    BY DEF TellInv
<1> DEFINE them == of.them
           port == of.port
<1>2. Report(n, y, <<O!Status(st, them, 132, port)>>, of, ok)
    OBVIOUS
<1> HIDE DEF them, port
<1>3. /\ Grown(log, log') /\ Len(log') = Len(log) + 1 /\ Stamps'
      /\ Announces(log'[Len(log')], n, of, st, them, 132, port)
    BY <1>1, <1>2, StatusReported
<1>4. \E rs : Report(n, y, rs, of, ok)
    BY <1>2
<1>5. /\ nics'[n].pc = y.pc /\ nics'[n].dedup = y.dedup
      /\ \A m \in 1 .. conf.nics : m # n => nics'[m] = nics[m]
    BY SMTT(60), <1>4, ThreadReports
<1>6. \A m \in 1 .. conf.nics : nics'[m].pc # "done" => nics[m].pc # "done" /\ nics'[m].dedup = nics[m].dedup
    BY <1>5
<1>7. arrived' = arrived \cup {a} /\ Protocol(a.k) = 132
    BY DEF OneMore, Protocol
<1> DEFINE j == Len(log')
<1>8. j \in Records(a)' /\ log'[j].r.status = st
    <2>1. j \in DOMAIN log'
        BY <1>3 DEF Grown
    <2> HIDE DEF j
    <2>2. /\ log'[j].r.kind = "status" /\ log'[j].r.proto = 132 /\ log'[j].r.ip = a.them
          /\ log'[j].r.port = a.port /\ log'[j].run = a.run /\ log'[j].r.status = st
        BY <1>3 DEF Announces, them, port, j
    <2> QED
        BY <1>7, <2>1, <2>2 DEF Records
<1>9. ASSUME NEW i, AddedAt(i) PROVE Aside(log'[i]) /\ Names(log'[i]) /\ Honest(i)'
    <2>1. Len(log) \in Nat /\ Len(log') \in Nat /\ i \in (Len(log) + 1) .. Len(log')
        BY <1>3, <1>9 DEF AddedAt, Grown
    <2>2. i = j
        BY <1>3, <2>1
    <2> HIDE DEF j
    <2>3. log'[j].r.proto = 132 /\ log'[j].r.ip = of.them /\ log'[j].of = of
        BY <1>3 DEF Announces, them, j
    <2>4. Aside(log'[i]) /\ Names(log'[i])
        BY <2>2, <2>3 DEF Aside, Names
    <2>5. Honest(i)'
        BY <1>7, <1>8, <2>2 DEF Honest
    <2> QED
        BY <2>4, <2>5
<1>10. arrived \subseteq arrived' /\ \A b \in arrived' \ arrived : b.k # "udp" => Records(b)' # {}
    BY <1>7, <1>8
<1> QED
    BY SMTT(60), <1>3, <1>6, <1>9, <1>10, StepAside

\* The cookie of a stray is never what it acknowledges.
LEMMA SevenBefore == Previous32(<<7, 7>>) = <<7, 6>>
BY DEF Previous32

\* How it was answered, and what the flags of the answer say.
LEMMA FlagsSay ==
    ASSUME NEW kind \in {"open", "closed", "both"}, NEW flags, flags = FlagsOf(kind)
    PROVE  /\ {"SYN", "ACK"} \subseteq flags \/ "RST" \in flags
           /\ "RST" \in flags => StatusOf(kind) = "closed"
           /\ "RST" \notin flags => StatusOf(kind) = "open"
BY DEF FlagsOf, StatusOf

LEMMA TcpAnswered ==
    ASSUME XorOfWords, WireInv, NEW n \in 1 .. conf.nics, NEW p, NEW kind, NEW frame, NEW s,
           \E t \in conf.targets, m \in 1 .. conf.nics : p = Probe(t, conf.src[m]),
           kind \in Kinds(p.k), Echoes(p, kind, frame, s), s.me = conf.src[n].ip, s.found = "tcp"
    PROVE  /\ p.k = "tcp" /\ s.them = p.them /\ s.sport = p.port /\ s.dport = p.mine
           /\ s.sport \in Nat /\ is_my_port(n, s.dport) /\ s.dport # 0
           /\ SynCookie(s.them, s.sport, s.me, s.dport) = Previous32(frame.more.ack)
           /\ kind \in {"open", "closed", "both"} /\ frame.more.flags = FlagsOf(kind)
<1> DEFINE more == frame.more
           ack == more.ack
           flags == more.flags
<1>1. Sensible(conf)
    BY DEF WireInv
<1>2. PICK t \in conf.targets, m \in 1 .. conf.nics : p = Probe(t, conf.src[m])
    OBVIOUS
<1>3. /\ p.k = "tcp" /\ s.them = p.them /\ s.me = p.me /\ s.sport = p.port /\ s.dport = p.mine
      /\ flags = FlagsOf(kind) /\ ack = Next32(SynCookie(p.them, p.port, p.me, p.mine))
    BY DEF Echoes, Ports
<1>4. /\ p.k = Kind(t.target) /\ p.them = t.them /\ p.me = conf.src[m].ip
      /\ p.port = t.target % W /\ p.mine = conf.src[m].port /\ p.port \in Word
    BY <1>1, <1>2, <1>3, ProbeCarries
<1>5. SynCookie(t.them, t.target, conf.src[m].ip, conf.src[m].port) \in Number /\ t.target \in Nat
    BY <1>1, SensibleIs
<1>6. t.target % W = t.target
    BY <1>3, <1>4, <1>5, KindIs
<1>7. SynCookie(p.them, p.port, p.me, p.mine) \in Number
    BY <1>4, <1>5, <1>6
<1>8. Previous32(Next32(SynCookie(p.them, p.port, p.me, p.mine))) = SynCookie(p.them, p.port, p.me, p.mine)
    BY <1>7, NextType
<1>9. n = m
    <2>1. \A i \in 1 .. conf.nics : \A j \in 1 .. conf.nics : conf.src[i].ip = conf.src[j].ip => i = j
        BY <1>1, Zenon DEF Sensible
    <2>2. conf.src[n].ip = conf.src[m].ip
        BY <1>3, <1>4
    <2> QED
        BY Zenon, <2>1, <2>2
<1>10. conf.src[m].port # 0
    <2>1. conf.src[m].port \in Words \ {0}
        BY <1>1, Zenon DEF Sensible
    <2> QED
        BY <2>1
<1>11. is_my_port(n, s.dport) /\ s.dport # 0
    BY <1>3, <1>4, <1>9, <1>10 DEF is_my_port
<1>12. p.port \in Nat
    BY <1>4 DEF Word
<1>13. kind \in {"open", "closed", "both"}
    BY <1>3, KindsOf
<1> HIDE DEF ack, flags
<1>14. SynCookie(s.them, s.sport, s.me, s.dport) = Previous32(ack)
    BY <1>3, <1>8
<1> QED
    BY <1>3, <1>11, <1>12, <1>13, <1>14 DEF ack, flags

LEMMA TcpTells ==
    ASSUME XorOfWords, WireInv, TellInv, NEW n \in 1 .. conf.nics, RxTcp(n)
    PROVE  TellInv'
<1>1. PICK f \in Arriving, ok \in Opens, drained \in 0 .. (BucketCount - 1) :
       LET s == F!preprocess_frame(f.frame)
           sctp == s.found = "sctp"
           flow == Flow(s)
           flags == f.frame.more.flags
           cookie == SynCookie(s.them, s.sport + (IF sctp THEN Templ_SCTP ELSE 0), s.me, s.dport)
           verified == cookie = Previous32(f.frame.more.ack)
           x == nics[n]
           asked == FilterAsked(x, flow, flags)
           filter == rstfilter_is_filter(x.rf, RstIndex(flow), drained)
           dup == dedup_is_duplicate(x.dedup, flow)
           status == (({"SYN", "ACK"} \subseteq flags) \/ "RST" \in flags) /\ verified
           new == status /\ ~dup.known
           mine == is_my_port(n, s.dport)
       IN /\ Parsed(n, f.frame, s) /\ s.found \in {"tcp", "sctp"}
          /\ Report(n, IF ~mine THEN x
                       ELSE [x EXCEPT !.tcbs = Connections(x, flow, flags, verified),
                                      !.rf = IF asked THEN filter.rf ELSE @,
                                      !.dedup = IF status THEN dup.table ELSE @],
                    (IF sctp THEN SctpStatus(s, f.frame, cookie) ELSE <<>>)
                    \o (IF mine /\ new THEN <<O!Status(IF "RST" \in flags THEN "closed" ELSE "open", s.them, 6, s.sport)>>
                        ELSE <<>>), flow, ok)
          /\ Noted(f, TRUE)
    BY DEF RxTcp
<1> DEFINE s == F!preprocess_frame(f.frame)
           sctp == s.found = "sctp"
           flow == Flow(s)
           ack == f.frame.more.ack
           flags == f.frame.more.flags
           cookie == SynCookie(s.them, s.sport + (IF sctp THEN Templ_SCTP ELSE 0), s.me, s.dport)
           verified == cookie = Previous32(ack)
           x == nics[n]
           asked == FilterAsked(x, flow, flags)
           filter == rstfilter_is_filter(x.rf, RstIndex(flow), drained)
           dup == dedup_is_duplicate(x.dedup, flow)
           status == (({"SYN", "ACK"} \subseteq flags) \/ "RST" \in flags) /\ verified
           new == status /\ ~dup.known
           mine == is_my_port(n, s.dport)
           tcbs == Connections(x, flow, flags, verified)
           rf == IF asked THEN filter.rf ELSE x.rf
           dedup == IF status THEN dup.table ELSE x.dedup
           y == IF ~mine THEN x
                ELSE [x EXCEPT !.tcbs = tcbs, !.rf = IF asked THEN filter.rf ELSE @, !.dedup = IF status THEN dup.table ELSE @]
           ofSctp == IF sctp THEN SctpStatus(s, f.frame, cookie) ELSE <<>>
           st == IF "RST" \in flags THEN "closed" ELSE "open"
           ofTcp == IF mine /\ new THEN <<O!Status(st, s.them, 6, s.sport)>> ELSE <<>>
           rs == ofSctp \o ofTcp
<1>2. Parsed(n, f.frame, s) /\ s.found \in {"tcp", "sctp"} /\ Noted(f, TRUE)
    BY <1>1
<1>3. Report(n, y, rs, flow, ok)
    BY Zenon, <1>1
<1>4. conf' = conf /\ runs' = runs /\ echo' = echo
    BY <1>1, NotedIs DEF RxTcp
<1>5. Sensible(conf) /\ Threads /\ ProbesSent /\ Thread(x) /\ x.pc = "run"
    BY <1>1 DEF WireInv, Threads, RxTcp, Running
<1>6. Stamps
    BY DEF TellInv
<1>7. flow.them = s.them /\ flow.port = s.sport /\ flow.me = s.me /\ flow.mine = s.dport
    BY DEF Flow
<1>8. /\ s.me = conf.src[n].ip /\ s.me # <<0, 0>>
      /\ \/ \E p, kind : /\ \E t \in conf.targets, m \in 1 .. conf.nics : p = Probe(t, conf.src[m])
                         /\ kind \in Kinds(p.k) /\ AnswersTo(f, p, kind) /\ Echoes(p, kind, f.frame, s)
         \/ \E z \in conf.strays : f = Unasked(z) /\ Intrudes(z, f.frame, s)
    BY <1>2, FrameFrom
<1> HIDE DEF x, s, flow, flags, ack, dup, asked, filter, tcbs, cookie
<1>9. Thread(y) /\ y.pc = x.pc /\ y.dedup = (IF mine /\ status THEN dup.table ELSE x.dedup)
    <2> HIDE DEF mine, status
    <2> QED
        BY <1>5 DEF Thread
<1>10. ~ sctp => ofSctp = <<>> /\ rs = ofTcp
    <2>1. ~ sctp => ofSctp = <<>>
        OBVIOUS
    <2>2. ofTcp = <<>> \/ ofTcp = <<O!Status(st, s.them, 6, s.sport)>>
        OBVIOUS
    <2> HIDE DEF ofTcp, ofSctp, sctp
    <2>3. <<>> \o ofTcp = ofTcp
        BY <2>2
    <2> QED
        BY <2>1, <2>3
<1>11. ASSUME ~ status, rs = <<>>, OnlyUdp
       PROVE  TellInv'
    <2>1. y.dedup = x.dedup
        BY <1>9, <1>11
    <2>2. Unsure(rs)
        BY <1>11, UnsureOne
    <2> HIDE DEF y, rs
    <2>3. y.pc = nics[n].pc /\ y.dedup = nics[n].dedup
        BY <1>9, <2>1 DEF x
    <2> QED
        BY SMTT(60), <1>3, <1>4, <1>5, <1>9, <1>11, <2>2, <2>3, UnsureReport
<1>12. ASSUME NEW p, NEW kind, \E t \in conf.targets, m \in 1 .. conf.nics : p = Probe(t, conf.src[m]),
              kind \in Kinds(p.k), AnswersTo(f, p, kind), Echoes(p, kind, f.frame, s)
      PROVE  TellInv'
    <2> DEFINE a == Arrival(f, runs)
    <2>1. OneMore(arrived, arrived', a)
        BY <1>2, <1>12, AnswerNoted DEF OneMore
    <2>2. Tells(a, p, kind, runs)
        BY <1>12, ArrivalIs
    <2> HIDE DEF a
    <2>3. CASE s.found = "tcp"
        <3>1. /\ p.k = "tcp" /\ s.them = p.them /\ s.sport = p.port /\ s.dport = p.mine
              /\ s.sport \in Nat /\ is_my_port(n, s.dport) /\ s.dport # 0
              /\ SynCookie(s.them, s.sport, s.me, s.dport) = Previous32(ack)
              /\ kind \in {"open", "closed", "both"} /\ flags = FlagsOf(kind)
            BY <1>8, <1>12, <2>3, TcpAnswered DEF flags, ack
        <3>2. ~ sctp
            BY <2>3
        <3>3. cookie = SynCookie(s.them, s.sport, s.me, s.dport)
            <4>1. s.sport + 0 = s.sport
                BY <3>1
            <4>2. cookie = SynCookie(s.them, s.sport + 0, s.me, s.dport)
                BY <3>2 DEF cookie
            <4> QED
                BY <4>1, <4>2
        <3>4. mine /\ verified
            BY <3>1, <3>3
        <3>5. /\ {"SYN", "ACK"} \subseteq flags \/ "RST" \in flags
              /\ "RST" \in flags => StatusOf(kind) = "closed"
              /\ "RST" \notin flags => StatusOf(kind) = "open"
            BY <3>1, FlagsSay
        <3>6. status /\ st = StatusOf(kind)
            <4> HIDE DEF verified
            <4> QED
                BY <3>4, <3>5
        <3>7. TableProto("thread", flow) = 6 /\ Protocol("tcp") = 6
            BY <1>7, <3>1 DEF TableProto, Protocol
        <3>8. Concerns(a, flow, "thread", st)
            BY <1>7, <2>2, <3>1, <3>6, <3>7 DEF About, Tells, Concerns
        <3>9. rs = IF dup.known THEN <<>> ELSE <<O!Status(st, s.them, 6, s.sport)>>
            <4>1. rs = ofTcp
                BY <1>10, <3>2
            <4> HIDE DEF status, mine, rs, st
            <4> QED
                BY <3>4, <3>6, <4>1
        <3> HIDE DEF rs, st
        <3>10. UnlessKnown(rs, dup, st, flow, TableProto("thread", flow))
            BY <1>7, <3>7, <3>9 DEF UnlessKnown
        <3>11. Looking(dup, x.dedup, flow)
            BY <1>7, <1>8 DEF Looking, dup
        <3>12. y.dedup = dup.table
            BY <1>9, <3>4, <3>6
        <3> HIDE DEF y
        <3>13. LooksUp(x.dedup, "thread", n, flow, dup, st, a) /\ Stamps'
            BY SMTT(60), <1>3, <1>4, <1>6, <2>1, <3>8, <3>10, <3>11, FlowReported
        <3>14. nics'[n].dedup = dup.table /\ \A i \in 1 .. conf.nics : i # n => nics'[i] = nics[i]
            BY SMTT(60), <1>3, <1>4, <1>5, <1>9, <3>12, ThreadReports
        <3>15. LooksUp(nics[n].dedup, "thread", n, flow, dup, st, a) /\ nics[n].pc # "done"
            BY <1>5, <3>13 DEF x
        <3> QED
            BY SMTT(60), <1>4, <3>13, <3>14, <3>15, StepThread
    <2>4. CASE s.found = "sctp"
        <3>1. /\ p.k = "sctp" /\ s.them = p.them /\ s.sport = p.port /\ s.dport = p.mine /\ s.me = p.me
              /\ f.frame.more.tag = SynCookie(p.them, p.port + Templ_SCTP, p.me, p.mine)
              /\ f.frame.more.chunk = (IF kind = "open" THEN 2 ELSE 6)
              /\ flags = (IF kind = "open" THEN {} ELSE {"FIN"})
              /\ s.transport + 16 <= f.frame.len
            BY <1>12, <2>4 DEF Echoes, Ports, flags
        <3>2. ~ status
            <4>1. "SYN" \notin flags /\ "RST" \notin flags
                BY <3>1
            <4> HIDE DEF verified
            <4> QED
                BY <4>1
        <3>3. kind \in {"open", "closed"} /\ StatusOf(kind) = kind
            BY <1>12, <3>1, KindsOf DEF StatusOf
        <3>4. f.frame.more.tag = cookie
            BY <2>4, <3>1 DEF cookie
        <3>5. SctpStatus(s, f.frame, cookie) = <<O!Status(kind, s.them, 132, s.sport)>>
            BY <3>1, <3>3, <3>4 DEF SctpStatus
        <3>6. ofSctp = <<O!Status(kind, s.them, 132, s.sport)>> /\ ofTcp = <<>>
            BY <2>4, <3>2, <3>5
        <3>7. rs = <<O!Status(kind, s.them, 132, s.sport)>>
            <4> HIDE DEF ofSctp, ofTcp
            <4> QED
                BY <3>6
        <3>8. y.dedup = x.dedup
            BY <1>9, <3>2
        <3> HIDE DEF y, rs
        <3>9. Report(n, y, <<O!Status(kind, flow.them, 132, flow.port)>>, flow, ok)
            BY <1>3, <1>7, <3>7
        <3>10. /\ a.k = "sctp" /\ a.them = flow.them /\ a.port = flow.port /\ a.run = runs
               /\ kind = StatusOf(a.kind)
            BY <1>7, <2>2, <3>1, <3>3 DEF Tells
        <3>11. y.pc = nics[n].pc /\ y.dedup = nics[n].dedup
            BY <1>9, <3>8 DEF x
        <3> QED
            BY SMTT(60), <1>4, <1>5, <1>9, <2>1, <3>9, <3>10, <3>11, SctpReport
    <2> QED
        BY <1>2, <2>3, <2>4
<1>13. ASSUME NEW z \in conf.strays, f = Unasked(z), Intrudes(z, f.frame, s)
       PROVE  TellInv'
    <2>1. arrived' = arrived
        BY <1>2, <1>13, UnaskedNoted
    <2>2. /\ s.them = z.them /\ s.me = z.me /\ s.sport = z.port /\ s.dport = z.mine /\ ack = <<7, 7>> /\ ~ sctp
        BY <1>2, <1>13 DEF Intrudes, ack
    <2>3. SynCookie(z.them, z.port, z.me, z.mine) # <<7, 6>> /\ z.port \in Words
        BY <1>5, <1>13 DEF Sensible
    <2>4. cookie = SynCookie(z.them, z.port, z.me, z.mine)
        <3>1. z.port + 0 = z.port
            <4>1. Words \subseteq Nat
                BY DEF Words
            <4>2. z.port \in Nat
                BY <2>3, <4>1
            <4> QED
                BY <4>2
        <3>2. cookie = SynCookie(s.them, s.sport + 0, s.me, s.dport)
            BY <2>2 DEF cookie
        <3> QED
            BY <2>2, <3>1, <3>2
    <2>5. ~ verified
        BY <2>2, <2>3, <2>4, SevenBefore
    <2>6. ~ status
        <3> HIDE DEF verified
        <3> QED
            BY <2>5
    <2>7. rs = <<>>
        <3>1. ofTcp = <<>>
            <4> HIDE DEF status
            <4> QED
                BY <2>6
        <3> HIDE DEF ofTcp, ofSctp, rs, sctp
        <3> QED
            BY <1>10, <2>2, <3>1
    <2>8. OnlyUdp
        BY <2>1 DEF OnlyUdp
    <2> QED
        BY <1>11, <2>6, <2>7, <2>8
<1> QED
    BY <1>8, <1>12, <1>13

\* What a frame leaves that is nobody's business, and a connection's talk.
LEMMA RestTells ==
    ASSUME WireInv, TellInv, NEW n \in 1 .. conf.nics, RxIgnored(n) \/ Conversation(n)
    PROVE  TellInv'
<1>1. Threads /\ Thread(nics[n])
    BY DEF WireInv, Threads
<1>2. CASE RxIgnored(n)
    <2>1. PICK f \in Arriving : Noted(f, FALSE)
        BY <1>2 DEF RxIgnored
    <2>2. conf' = conf /\ runs' = runs /\ arrived' = arrived
        BY <2>1, NotedIs
    <2>3. nics' = nics /\ log' = log /\ echo' = echo
        BY <1>2 DEF RxIgnored
    <2>4. OnlyUdp
        BY <2>2 DEF OnlyUdp
    <2> QED
        BY SMTT(60), <2>2, <2>3, <2>4, QuietStep
<1>3. CASE Conversation(n)
    <2>1. UNCHANGED <<conf, runs, arrived, echo>>
        BY <1>3 DEF Conversation
    <2>2. \E y, rs, of, ok : /\ Report(n, y, rs, of, ok)
                             /\ rs = <<>> \/ \E them, port : rs = <<O!Banner("http", them, 6, port, 9)>>
                             /\ y = nics[n] \/ \E flow : y = [nics[n] EXCEPT !.tcbs = @ \ {flow}]
        <3>1. PICK flow \in nics[n].tcbs, ok \in Opens :
                 \/ Report(n, nics[n], <<O!Banner("http", flow.them, 6, flow.port, 9)>>, flow, ok)
                 \/ Report(n, [nics[n] EXCEPT !.tcbs = @ \ {flow}], <<>>, flow, ok)
            BY <1>3 DEF Conversation
        <3> QED
            BY Zenon, <3>1
    <2>3. PICK y, rs, of, ok : /\ Report(n, y, rs, of, ok)
                               /\ rs = <<>> \/ \E them, port : rs = <<O!Banner("http", them, 6, port, 9)>>
                               /\ y = nics[n] \/ \E flow : y = [nics[n] EXCEPT !.tcbs = @ \ {flow}]
        BY <2>2
    <2>4. Unsure(rs)
        BY <2>3, UnsureOne
    <2> DEFINE x == nics[n]
    <2>5. Thread(x) /\ (y = x \/ \E flow : y = [x EXCEPT !.tcbs = @ \ {flow}])
        BY <1>1, <2>3
    <2> HIDE DEF x
    <2>6. Thread(y) /\ y.pc = x.pc /\ y.dedup = x.dedup
        BY <2>5 DEF Thread
    <2>7. y.pc = nics[n].pc /\ y.dedup = nics[n].dedup
        BY <2>6 DEF x
    <2>8. OnlyUdp
        BY <2>1 DEF OnlyUdp
    <2> QED
        BY SMTT(60), <1>1, <2>1, <2>3, <2>4, <2>6, <2>7, <2>8, UnsureReport
<1> QED
    BY <1>2, <1>3

\* A thread that starts has its tables already; one that ends has none.
LEMMA ThreadsTell ==
    ASSUME WireInv, TellInv, NEW n \in 1 .. conf.nics, Open(n) \/ Finish(n)
    PROVE  TellInv'
<1>1. Threads /\ Thread(nics[n]) /\ DOMAIN nics = 1 .. conf.nics
    BY DEF WireInv, Threads
<1>2. UNCHANGED <<conf, runs, arrived, echo, log>>
    BY DEF Open, Finish
<1>3. OnlyUdp
    BY <1>2 DEF OnlyUdp
<1>4. \E y : nics' = [nics EXCEPT ![n] = y] /\ (y.pc # "done" => nics[n].pc # "done" /\ y.dedup = nics[n].dedup)
    <2>1. CASE Open(n)
        <3> DEFINE x == nics[n]
                   written == O!output_create(fs, conf, n, now).o
                   y == [x EXCEPT !.pc = "run", !.o = written]
        <3>1. nics' = [nics EXCEPT ![n] = y] /\ x.pc = "new"
            BY <2>1 DEF Open
        <3> HIDE DEF written
        <3>2. Thread(x)
            BY <1>1
        <3> HIDE DEF x
        <3>3. y.dedup = x.dedup
            BY <3>2 DEF Thread
        <3> HIDE DEF y
        <3>4. nics[n].pc = "new" /\ y.dedup = nics[n].dedup
            BY <3>1, <3>3 DEF x
        <3> QED
            BY <3>1, <3>4
    <2>2. CASE Finish(n)
        <3> DEFINE y == [New EXCEPT !.pc = "done"]
        <3>1. nics' = [nics EXCEPT ![n] = y]
            BY <2>2 DEF Finish
        <3>2. y.pc = "done"
            BY NewThread
        <3> HIDE DEF y
        <3> QED
            BY <3>1, <3>2
    <2> QED
        BY <2>1, <2>2
<1>5. \A m \in 1 .. conf.nics : nics'[m].pc # "done" => nics[m].pc # "done" /\ nics'[m].dedup = nics[m].dedup
    BY <1>1, <1>4
<1> QED
    BY SMTT(60), <1>2, <1>3, <1>5, QuietStep

\* A second run starts with empty tables, and nothing of its own reported.
LEMMA EmptyKeeps ==
    ASSUME NEW lg, NEW rn, NEW gone, NEW k, NEW n, \A i \in DOMAIN lg : lg[i].run # rn
    PROVE  Keeps(lg, rn, gone, dedup_create, k, n)
<1>1. DOMAIN dedup_create = {}
    BY DEF dedup_create
<1>2. Table(dedup_create)
    BY <1>1 DEF Table
<1>3. TableTells(lg, rn, dedup_create, k)
    BY <1>1 DEF TableTells, Holds
<1>4. Remembers(lg, rn, gone, dedup_create, k, n)
    BY DEF Remembers, LookedUp
<1> QED
    BY <1>2, <1>3, <1>4 DEF Keeps

LEMMA AgainTells ==
    ASSUME WireInv, TellInv, Again
    PROVE  TellInv'
<1>1. /\ conf' = [conf EXCEPT !.append = TRUE] /\ nics' = [n \in 1 .. conf.nics |-> New]
      /\ log' = log /\ arrived' = arrived /\ echo' = dedup_create /\ runs' = runs + 1
    BY DEF Again
<1>2. Stamps /\ Named /\ Believed /\ Heard /\ OnceInARow
    BY DEF TellInv
<1>3. conf'.nics = conf.nics /\ conf'.strays = conf.strays
    <2>1. Sensible(conf)
        BY DEF WireInv
    <2> QED
        BY <1>1, <2>1, StaysSensible
<1>4. \A i \in DOMAIN log' : log'[i].run # runs'
    BY <1>1, <1>2 DEF Stamps
<1>5. Stamps'
    <2>1. runs' \in Nat /\ \A i \in DOMAIN log : log[i].run \in Nat /\ log[i].run <= runs'
        BY <1>1, <1>2 DEF Stamps
    <2> QED
        BY <1>1, <1>2, <2>1 DEF Stamps
<1>6. ThreadTables'
    <2>1. ASSUME NEW m \in 1 .. conf'.nics
          PROVE  Keeps(log', runs', Gone', nics'[m].dedup, "thread", m)
        <3>1. nics'[m].dedup = dedup_create
            BY <1>1, <1>3, NewThread
        <3> QED
            BY <1>4, <3>1, EmptyKeeps
    <2> QED
        BY <2>1 DEF ThreadTables
<1>7. EchoTable'
    <2>1. ASSUME NEW m \in 1 .. conf'.nics
          PROVE  Keeps(log', runs', Gone', echo', "echo", m)
        BY <1>1, <1>4, EmptyKeeps
    <2> QED
        BY <2>1 DEF EchoTable
<1>8. Unreachables' = Unreachables
    BY <1>3 DEF Unreachables
<1>9. \A a : Records(a)' = Records(a)
    BY <1>1 DEF Records
<1>10. Believed' /\ Heard' /\ OnceInARow' /\ Named'
    BY <1>1, <1>2, <1>8, <1>9 DEF Believed, Heard, OnceInARow, Named
<1> QED
    BY <1>5, <1>6, <1>7, <1>10 DEF TellInv

LEMMA TellInit == Init => TellInv
<1> SUFFICES ASSUME Init PROVE TellInv
    OBVIOUS
<1>1. log = <<>> /\ arrived = {} /\ runs = 1 /\ echo = dedup_create /\ nics = [n \in 1 .. conf.nics |-> New]
    BY DEF Init
<1>2. DOMAIN log = {} /\ log \in Seq({})
    BY <1>1
<1>3. Stamps
    <2>1. \E S : log \in Seq(S)
        BY <1>2
    <2> QED
        BY <1>1, <1>2, <2>1 DEF Stamps
<1>4. \A i \in DOMAIN log : log[i].run # runs
    BY <1>2
<1>5. ThreadTables
    <2>1. ASSUME NEW m \in 1 .. conf.nics
          PROVE  Keeps(log, runs, Gone, nics[m].dedup, "thread", m)
        <3>1. nics[m].dedup = dedup_create
            BY <1>1, NewThread
        <3> QED
            BY <1>4, <3>1, EmptyKeeps
    <2> QED
        BY <2>1 DEF ThreadTables
<1>6. EchoTable
    BY <1>1, <1>4, EmptyKeeps DEF EchoTable
<1>7. Believed /\ Heard /\ OnceInARow /\ Named
    BY <1>1, <1>2 DEF Believed, Heard, OnceInARow, Named
<1> QED
    BY <1>3, <1>5, <1>6, <1>7 DEF TellInv

LEMMA TellStep ==
    ASSUME XorOfWords, WireInv, TellInv, [Next]_vars
    PROVE  TellInv'
<1>1. CASE vars' = vars \/ Transmit \/ Tick \/ StatusUpdate \/ Stop
    <2>1. UNCHANGED <<conf, runs, arrived, nics, echo, log>>
        BY <1>1 DEF vars, Transmit, Tick, StatusUpdate, Stop
    <2>2. OnlyUdp
        BY <2>1 DEF OnlyUdp
    <2> QED
        BY SMTT(60), <2>1, <2>2, QuietStep
<1>2. CASE Again
    BY <1>2, AgainTells
<1>3. ASSUME NEW n \in 1 .. conf.nics, Open(n) \/ Finish(n)
      PROVE  TellInv'
    BY <1>3, ThreadsTell
<1>4. ASSUME NEW n \in 1 .. conf.nics, RxIgnored(n) \/ Conversation(n)
      PROVE  TellInv'
    BY <1>4, RestTells
<1>5. ASSUME NEW n \in 1 .. conf.nics, RxArp(n) \/ RxUdp(n) \/ RxIcmp(n) \/ RxTcp(n)
      PROVE  TellInv'
    BY <1>5, ArpTells, UdpTells, IcmpTells, TcpTells
<1> QED
    BY <1>1, <1>2, <1>3, <1>4, <1>5 DEF Next

LEMMA TellAlways == ASSUME XorOfWords, RstIndexInRange PROVE Spec => []TellInv
<1>1. Init => TellInv
    BY TellInit
<1>2. WireInv /\ TellInv /\ [Next]_vars => TellInv'
    BY TellStep
<1>3. Spec => []WireInv
    BY WireAlways
<1> QED
    BY <1>1, <1>2, <1>3, PTL DEF Spec

(* A port or a host is reported only when it answered a probe that was      *)
(* sent, and as it answered, or ICMP called it unreachable; every answer    *)
(* that was read, UDP's set aside, is reported, by a record of its own or   *)
(* an earlier one of its flow; and the same thing is reported again only if *)
(* another flow of the bucket came between: receive_thread believes what    *)
(* the cookie confirms, and dedup_is_duplicate forgets nothing else.        *)
THEOREM AnswersAreCounted == ASSUME XorOfWords, RstIndexInRange PROVE Spec => []AnswersCounted
<1>1. TellInv => AnswersCounted
    BY DEF TellInv, AnswersCounted
<1>2. Spec => []TellInv
    BY TellAlways
<1> QED
    BY <1>1, <1>2, PTL

----------------------------------------------------------------------------
(* Datagrams: what answers a probe carries its cookie back *)

\* Where the datagram of a frame stands, and how long it is.
LEMMA UdpFrameIs ==
    ASSUME NEW l \in LinkNames, NEW src, NEW dst, NEW tr, tr.size = 8, NEW payload, NEW n \in Nat, n = Len(payload),
           NEW more, NEW f, f = IpFrame(l, src, dst, "udp", tr, payload, more), NEW s, Read(f, s)
    PROVE  s.at = Link(l).size + 28 /\ s.app = n
<1> DEFINE total == 20 + tr.size + Len(payload)
           ip == [version |-> 4, size |-> 20, total |-> total, fragment |-> FALSE,
                  next |-> "udp", src |-> src, dst |-> dst]
           k == Link(l).size
           pair == [src |-> src, dst |-> dst]
<1>1. f.link = Link(l).type /\ Joins(f.hs, Link(l).hs, <<ip, tr>>)
    BY DEF IpFrame, Joins
<1>2. total = 28 + n
    OBVIOUS
<1> HIDE DEF total
<1>3. ip.size = 20 /\ ip.next = "udp" /\ ip.total = total /\ ip.src = src /\ ip.dst = dst
    OBVIOUS
<1>4. k \in Nat
    BY LinksAre DEF LinkNames, Plain
<1> HIDE DEF ip
<1>5. PICK t : Reached(t, l, "ipv4", f.len) /\ s = F!Below(tr, F!Below(ip, t))
    BY <1>1, Downwards
<1> DEFINE u == F!Below(ip, t)
<1>6. s = F!Below(tr, u) /\ s.to = "done"
    BY <1>5 DEF Read
<1>7. F!Bad.to = "bad" /\ F!Below(ip, F!Bad) = F!Bad /\ F!Below(tr, F!Bad) = F!Bad
    BY LinkLayers DEF F!Bad
<1>8. t = F!At("ipv4", k, f.len, [src |-> "none", dst |-> "none"])
    BY <1>5, <1>6, <1>7 DEF Reached
<1>9. u.to # "bad"
    BY <1>6 DEF F!Below
<1>10. u = F!At("udp", k + 20, k + total, pair)
    BY <1>3, <1>8, <1>9, IpLayer
<1>11. u.to = "udp" /\ u.at = k + 20 /\ u.len = k + total /\ F!Below(tr, u) = F!Layer(tr, u) /\ F!Bad.to # "done"
    BY <1>10 DEF F!At, F!Below, F!Bad
<1> HIDE DEF u
<1>12. s = F!parse_udp(tr, u)
    BY <1>6, <1>11 DEF F!Layer
<1>13. \E what \in {"udp", "dns"} : s = F!Found(what, u, tr.sport, tr.dport, u.at + 8)
    BY <1>6, <1>11, <1>12 DEF F!parse_udp
<1>14. s.at = u.at + 8 /\ s.app = u.len - (u.at + 8)
    BY <1>13 DEF F!Found
<1> HIDE DEF k
<1> QED
    BY <1>2, <1>4, <1>11, <1>14 DEF k

LEMMA CutOut ==
    ASSUME NEW S, NEW p \in Seq(S), NEW m \in Nat, NEW n \in Nat, m + n <= Len(p)
    PROVE  /\ SubSeq(p, m + 1, m + n) \in Seq(S) /\ Len(SubSeq(p, m + 1, m + n)) = n
           /\ \A i \in 1 .. n : SubSeq(p, m + 1, m + n)[i] = p[m + i]
OBVIOUS

LEMMA SameElements ==
    ASSUME NEW S, NEW p \in Seq(S), NEW q \in Seq(S), Len(p) = Len(q), \A i \in 1 .. Len(p) : p[i] = q[i]
    PROVE  p = q
OBVIOUS

\* What is cut out of the bytes of the frame is what was sent.
LEMMA DatagramInside ==
    ASSUME NEW l \in LinkNames, NEW src, NEW dst, NEW tr, tr.size = 8, NEW payload \in Seq(Byte),
           NEW more, NEW f, f = IpFrame(l, src, dst, "udp", tr, payload, more),
           NEW d, d.px = f.px, d.at = Link(l).size + 28, d.n = Len(payload)
    PROVE  /\ D!App(d) = payload
           /\ \A i \in 1 .. Len(payload) : D!At(d.px, d.at + i - 1) = payload[i]
<1> DEFINE k == Link(l).size
           n == Len(payload)
           len == Padded(l, k + (28 + n))
           m == len - k - (28 + n)
           front == Zeros(k + 28)
           back == Zeros(m)
           px == f.px
<1>1. k \in Nat /\ n \in Nat
    BY LinksAre DEF LinkNames, Plain
<1>2. m \in Nat
    <2> HIDE DEF k, n
    <2> QED
        BY <1>1 DEF Padded
<1>3. px = front \o payload \o back
    <2> DEFINE total == 20 + tr.size + Len(payload)
    <2>1. total = 28 + n /\ k + 20 + tr.size = k + 28
        BY <1>1
    <2>2. px = Zeros(k + 20 + tr.size) \o payload \o Zeros(Padded(l, k + total) - k - total)
        BY DEF IpFrame
    <2> HIDE DEF total, k, n, px
    <2> QED
        BY <2>1, <2>2
<1> HIDE DEF len, m, px
<1>4. \A j \in Nat : Zeros(j) \in Seq(Byte) /\ Len(Zeros(j)) = j
    BY DEF Zeros, Byte
<1>5. front \in Seq(Byte) /\ Len(front) = k + 28 /\ back \in Seq(Byte)
    <2> HIDE DEF k
    <2>1. k + 28 \in Nat
        BY <1>1
    <2> QED
        BY <1>2, <1>4, <2>1 DEF front, back
<1> HIDE DEF front, back, k
<1> DEFINE half == front \o payload
<1>6. /\ half \in Seq(Byte) /\ Len(half) = k + 28 + n
      /\ \A i \in 1 .. n : half[k + 28 + i] = payload[i]
    <2> HIDE DEF n
    <2>1. half \in Seq(Byte) /\ Len(half) = Len(front) + n /\ \A i \in 1 .. n : half[Len(front) + i] = payload[i]
        <3>1. front \in Seq(Byte) /\ payload \in Seq(Byte) /\ n = Len(payload)
            BY <1>5 DEF n
        <3>2. Joins(half, front, payload)
            BY DEF Joins
        <3> HIDE DEF half
        <3> QED
            BY SMTT(60), <3>1, <3>2, JoinsAre
    <2> HIDE DEF half
    <2> QED
        BY <1>1, <1>5, <2>1
<1>7. px = half \o back
    BY <1>3
<1> HIDE DEF half
<1>8. /\ px \in Seq(Byte) /\ Len(px) = Len(half) + Len(back)
      /\ \A i \in 1 .. Len(half) : px[i] = half[i]
    <2>1. half \in Seq(Byte) /\ back \in Seq(Byte)
        BY <1>5, <1>6
    <2>2. Joins(px, half, back)
        BY <1>7 DEF Joins
    <2> QED
        BY SMTT(60), <2>1, <2>2, JoinsAre
<1>9. Len(px) >= k + 28 + n
    BY <1>1, <1>5, <1>6, <1>8
<1>10. ASSUME NEW i \in 1 .. n PROVE px[k + 28 + i] = payload[i]
    <2>1. k + 28 + i \in 1 .. Len(half)
        BY <1>1, <1>6
    <2> QED
        BY <1>6, <1>8, <2>1
<1> DEFINE at == k + 28
           cut == SubSeq(px, at + 1, at + n)
<1>11. at \in Nat /\ at + n <= Len(px)
    BY <1>1, <1>9
<1>12. d.px = px /\ d.at = at /\ d.n = n
    BY DEF px, k
<1>13. cut = payload
    <2> HIDE DEF at
    <2>1. cut \in Seq(Byte) /\ Len(cut) = n /\ \A i \in 1 .. n : cut[i] = px[at + i]
        BY <1>1, <1>8, <1>11, CutOut
    <2>2. \A i \in 1 .. n : cut[i] = payload[i]
        BY <1>10, <2>1 DEF at
    <2> HIDE DEF cut
    <2> QED
        BY <2>1, <2>2, SameElements
<1>14. D!App(d) = cut
    BY <1>12 DEF D!App
<1>15. ASSUME NEW i \in 1 .. n PROVE D!At(d.px, d.at + i - 1) = payload[i]
    <2>1. d.at + i - 1 + 1 = k + 28 + i
        BY <1>1, <1>12
    <2>2. D!At(d.px, d.at + i - 1) = px[k + 28 + i]
        BY <1>12, <2>1 DEF D!At
    <2> QED
        BY <1>10, <2>2
<1> QED
    BY <1>13, <1>14, <1>15

----------------------------------------------------------------------------
(* What the servers send back *)

\* The length of one byte that stands there, and an integer behind it.
LEMMA ShortLength ==
    ASSUME NEW a, NEW o \in Nat, NEW length \in Nat, o < length, NEW v \in Nat, D!At(a, o) = v, v < 128
    PROVE  D!asn1_length(a, o, length) = [v |-> v, at |-> o + 1]
<1>1. ~ (o >= length) /\ D!At(a, o) < 128
    OBVIOUS
<1> QED
    BY Zenon, <1>1 DEF D!asn1_length

LEMMA IntegerThere ==
    ASSUME NEW a, NEW o \in Nat, NEW length \in Nat, NEW v \in Nat,
           NEW x \in Nat, x = o + 1, NEW from \in Nat, from = o + 3, NEW to \in Nat, to = o + 2 + v,
           D!At(a, o) = 2, D!At(a, x) = v, v <= 20, to <= length
    PROVE  LET r == D!asn1_integer(a, o, length) IN r.v = v /\ r.at = to /\ r.bytes = SubSeq(a, from, to)
<1> DEFINE size == D!asn1_length(a, x, length)
           r == [v |-> size.v, bytes |-> SubSeq(a, size.at + 1, size.at + size.v), at |-> size.at + size.v]
<1>1. x \in Nat /\ x < length /\ v < 128 /\ x + 1 = o + 2
    OBVIOUS
<1>2. size = [v |-> v, at |-> o + 2]
    BY <1>1, ShortLength
<1> HIDE DEF size
<1>3. size.v = v /\ size.at = o + 2 /\ v # D!None
    BY <1>2 DEF D!None
<1>4. ~ (o >= length \/ D!At(a, o) # 2 \/ size.v = D!None \/ size.at + size.v > length \/ size.v > 20)
    BY <1>3
<1>5. D!asn1_integer(a, o, length) = r
    BY <1>4 DEF D!asn1_integer, size
<1>6. size.at + 1 = from /\ size.at + size.v = to
    BY <1>3
<1> QED
    BY <1>3, <1>5, <1>6

LEMMA FourBytes ==
    ASSUME NEW r, Len(r) = 4
    PROVE  D!LowWords(r) = <<256 * r[1] + r[2], 256 * r[3] + r[4]>>
BY DEF D!LowWords

\* The message that is read as far as the number of its request.
SnmpReply(a) ==
    /\ a \in Seq(Byte) /\ Len(a) = 41
    /\ a[1] = 48 /\ a[2] = 39 /\ a[3] = 2 /\ a[4] = 1 /\ a[5] = 0 /\ a[6] = 4 /\ a[7] = 6
    /\ a[14] = 162 /\ a[15] = 26 /\ a[16] = 2 /\ a[17] = 4

LEMMA SnmpNumber ==
    ASSUME NEW a, SnmpReply(a)
    PROVE  D!snmp_parse(a).id = <<256 * a[18] + a[19], 256 * a[20] + a[21]>>
<1>1. /\ D!At(a, 0) = 48 /\ D!At(a, 1) = 39 /\ D!At(a, 2) = 2 /\ D!At(a, 3) = 1 /\ D!At(a, 5) = 4
      /\ D!At(a, 6) = 6 /\ D!At(a, 13) = 162 /\ D!At(a, 14) = 26 /\ D!At(a, 15) = 2 /\ D!At(a, 16) = 4
    BY DEF SnmpReply, D!At
<1>2. Len(a) = 41 /\ a \in Seq(Byte) /\ a[5] = 0
    BY DEF SnmpReply
<1> DEFINE outer == D!asn1_length(a, 1, 41)
           version == D!asn1_integer(a, 2, 41)
           community == D!asn1_length(a, 6, 41)
           inner == D!asn1_length(a, 14, 41)
           id == D!asn1_integer(a, 15, 41)
<1>3. outer = [v |-> 39, at |-> 2]
    BY <1>1, ShortLength
<1>4. version.v = 1 /\ version.at = 5 /\ version.bytes = SubSeq(a, 5, 5)
    <2> DEFINE o == 2
               x == 3
               from == 5
               to == 5
               length == 41
               v == 1
    <2>1. o \in Nat /\ length \in Nat /\ v \in Nat /\ x \in Nat /\ from \in Nat /\ to \in Nat /\ x = o + 1 /\ from = o + 3 /\ to = o + 2 + v /\ v <= 20 /\ to <= length
        OBVIOUS
    <2>2. D!At(a, o) = 2 /\ D!At(a, x) = v
        BY <1>1
    <2> HIDE DEF o, x, from, to, length, v
    <2>3. LET r == D!asn1_integer(a, o, length) IN r.v = v /\ r.at = to /\ r.bytes = SubSeq(a, from, to)
        BY <2>1, <2>2, IntegerThere
    <2> QED
        BY <2>3 DEF o, x, from, to, length, v
<1>5. community = [v |-> 6, at |-> 7]
    BY <1>1, ShortLength
<1>6. inner = [v |-> 26, at |-> 15]
    BY <1>1, ShortLength
<1>7. id.v = 4 /\ id.at = 21 /\ id.bytes = SubSeq(a, 18, 21)
    <2> DEFINE o == 15
               x == 16
               from == 18
               to == 21
               length == 41
               v == 4
    <2>1. o \in Nat /\ length \in Nat /\ v \in Nat /\ x \in Nat /\ from \in Nat /\ to \in Nat /\ x = o + 1 /\ from = o + 3 /\ to = o + 2 + v /\ v <= 20 /\ to <= length
        OBVIOUS
    <2>2. D!At(a, o) = 2 /\ D!At(a, x) = v
        BY <1>1
    <2> HIDE DEF o, x, from, to, length, v
    <2>3. LET r == D!asn1_integer(a, o, length) IN r.v = v /\ r.at = to /\ r.bytes = SubSeq(a, from, to)
        BY <2>1, <2>2, IntegerThere
    <2> QED
        BY <2>3 DEF o, x, from, to, length, v
<1>8. SubSeq(a, 5, 5)[1] = 0
    BY <1>2
<1>9. LET r == SubSeq(a, 18, 21) IN Len(r) = 4 /\ r[1] = a[18] /\ r[2] = a[19] /\ r[3] = a[20] /\ r[4] = a[21]
    BY <1>2
<1> HIDE DEF outer, version, community, inner, id
<1>10. D!Shorter(outer, 41) = 41 /\ D!Shorter(inner, 41) = 41
    BY <1>3, <1>6 DEF D!Shorter, D!None
<1>11. /\ D!asn1_tag(a, 0, 41) = 48 /\ D!asn1_tag(a, 5, 41) = 4 /\ D!asn1_tag(a, 13, 41) = 162
    BY <1>1 DEF D!asn1_tag
<1>12. D!snmp_parse(a) = D!Message(a, outer, 41)
    BY <1>2, <1>10 DEF D!snmp_parse, outer
<1>13. D!Message(a, outer, 41) = D!Version(a, version, 41)
    BY <1>2, <1>3, <1>11 DEF D!Message, D!None, version
<1>14. D!Version(a, version, 41) = D!Community(a, version, community, 41)
    BY <1>4 DEF D!Version, community
<1>15. D!Community(a, version, community, 41) = D!Pdu(a, inner, 41)
    <2>1. version.v = 1 /\ version.bytes[1] = 0 /\ version.at = 5 /\ community.at + community.v = 13 /\ community.v = 6
        BY <1>4, <1>5, <1>8
    <2>2. ~ \E i \in 1 .. version.v : i > version.v - 8 /\ version.bytes[i] # 0
        BY <2>1
    <2>3. 13 + 1 = 14 /\ 162 \in 160 .. 165
        OBVIOUS
    <2> QED
        BY <1>10, <1>11, <2>1, <2>2, <2>3 DEF D!Community, D!None, inner
<1>16. D!Pdu(a, inner, 41) = D!Request(a, id, 41)
    BY <1>6 DEF D!Pdu, id
<1>17. D!Request(a, id, 41).id = D!LowWords(id.bytes)
    BY DEF D!Request, D!Variables
<1>18. D!LowWords(id.bytes) = <<256 * a[18] + a[19], 256 * a[20] + a[21]>>
    <2> DEFINE r == SubSeq(a, 18, 21)
    <2>1. id.bytes = r
        BY <1>7
    <2>2. Len(r) = 4 /\ r[1] = a[18] /\ r[2] = a[19] /\ r[3] = a[20] /\ r[4] = a[21]
        BY <1>9
    <2> HIDE DEF r
    <2> QED
        BY <2>1, <2>2, FourBytes
<1> QED
    BY <1>12, <1>13, <1>14, <1>15, <1>16, <1>17, <1>18

\* A cookie without its sign bit, as it stands in the integer.
LEMMA CookieRead ==
    ASSUME NEW c \in Number
    PROVE  LET b == CookieBytes(c) IN
           /\ 256 * b[3] + b[4] = c[2]
           /\ <<256 * (b[1] % 128) + b[2], 256 * b[3] + b[4]>> = <<c[1] % 32768, c[2]>>
<1>1. \A w \in Word : 256 * (w \div 256) + (w % 256) = w /\ 256 * ((w \div 256) % 128) + (w % 256) = w % 32768
    BY DEF Word, W
<1>2. c[1] \in Word /\ c[2] \in Word
    BY NumberType
<1> QED
    BY <1>1, <1>2 DEF CookieBytes

Begins(s, t) == s \in Seq(Byte) /\ t \in Seq(Byte) /\ Len(s) <= Len(t) /\ \A i \in 1 .. Len(s) : t[i] = s[i]

LEMMA BeginsThere ==
    ASSUME NEW s \in Seq(Byte), NEW t \in Seq(Byte)
    PROVE  Begins(s, s \o t) /\ Len(s \o t) = Len(s) + Len(t)
BY Joined DEF Begins

LEMMA BeginsMore ==
    ASSUME NEW s, NEW t, Begins(s, t), NEW r \in Seq(Byte)
    PROVE  Begins(s, t \o r)
<1>1. s \in Seq(Byte) /\ t \in Seq(Byte) /\ Len(s) <= Len(t) /\ \A i \in 1 .. Len(s) : t[i] = s[i]
    BY DEF Begins
<1> DEFINE q == t \o r
<1>2. q \in Seq(Byte) /\ Len(q) = Len(t) + Len(r) /\ \A i \in 1 .. Len(t) : q[i] = t[i]
    BY <1>1, Joined
<1>3. Len(r) \in Nat
    OBVIOUS
<1> HIDE DEF q
<1> QED
    BY <1>1, <1>2, <1>3 DEF Begins, q

LEMMA BeginsBoth ==
    ASSUME NEW s, NEW t, NEW u, Begins(s, t), Begins(t, u)
    PROVE  Begins(s, u)
BY DEF Begins

\* Bytes written over others.
LEMMA OverwriteIs ==
    ASSUME NEW px \in Payloads, NEW at \in Nat, NEW bytes \in Seq(Byte), at + Len(bytes) <= Len(px)
    PROVE  /\ Overwrite(px, at, bytes) \in Seq(Byte) /\ Len(Overwrite(px, at, bytes)) = Len(px)
           /\ \A i \in 1 .. Len(bytes) : Overwrite(px, at, bytes)[at + i] = bytes[i]
<1>1. px \in Seq(Byte)
    BY DEF Payloads
<1> DEFINE r == [i \in 1 .. Len(px) |-> IF i > at /\ i <= at + Len(bytes) THEN bytes[i - at] ELSE px[i]]
<1>2. Overwrite(px, at, bytes) = r
    BY DEF Overwrite
<1>3. r \in Seq(Byte)
    BY <1>2, OverwriteType DEF Payloads
<1>4. Len(r) = Len(px)
    BY <1>1, <1>3
<1>5. ASSUME NEW i \in 1 .. Len(bytes) PROVE r[at + i] = bytes[i]
    <2>1. at + i \in 1 .. Len(px) /\ at + i > at /\ at + i <= at + Len(bytes) /\ at + i - at = i
        OBVIOUS
    <2> QED
        BY <2>1
<1> QED
    BY <1>2, <1>3, <1>4, <1>5

\* A query that is answered with its own first bytes.
LEMMA CookieFirst ==
    ASSUME NEW px \in Payloads, Len(px) > 2, NEW c \in Number
    PROVE  LET q == dns_set_cookie(px, c)
               b == CookieBytes(c)
           IN q \in Seq(Byte) /\ Len(q) = Len(px) /\ q[1] = b[3] /\ q[2] = b[4]
<1> DEFINE b == CookieBytes(c)
           low == SubSeq(b, 3, 4)
           q == Overwrite(px, 0, low)
<1>1. b \in Seq(Byte) /\ Len(b) = 4
    BY CookieType
<1>2. low \in Seq(Byte) /\ Len(low) = 2 /\ low[1] = b[3] /\ low[2] = b[4]
    BY <1>1
<1>3. dns_set_cookie(px, c) = q
    BY DEF dns_set_cookie
<1> HIDE DEF low
<1>4. q \in Seq(Byte) /\ Len(q) = Len(px) /\ \A i \in 1 .. Len(low) : q[0 + i] = low[i]
    <2> DEFINE at == 0
    <2>1. at \in Nat /\ at + Len(low) <= Len(px)
        BY <1>2
    <2> HIDE DEF at
    <2>2. /\ Overwrite(px, at, low) \in Seq(Byte) /\ Len(Overwrite(px, at, low)) = Len(px)
          /\ \A i \in 1 .. Len(low) : Overwrite(px, at, low)[at + i] = low[i]
        BY <1>2, <2>1, OverwriteIs
    <2> QED
        BY <2>2 DEF at
<1> HIDE DEF q, b
<1> QED
    BY <1>2, <1>3, <1>4 DEF b

\* The datagram begins with the cookie.
Identified(a, c) == LET b == CookieBytes(c) IN a \in Seq(Byte) /\ Len(a) >= 12 /\ a[1] = b[3] /\ a[2] = b[4]

LEMMA LetterQueries ==
    /\ DnsQuery \in Payloads /\ Len(DnsQuery) > 12 /\ NbtQuery \in Payloads /\ Len(NbtQuery) > 12
<1> DEFINE a == <<80, 182, 1, 32, 0, 1, 0, 0, 0, 0, 0, 0, 7>>
           b == <<171, 18, 0, 0, 0, 1, 0, 0, 0, 0, 0, 0, 32>>
           e == <<0, 0, 16, 0, 3>>
           g == <<0, 0, 33, 0, 1>>
<1>1. /\ a \in Seq(Byte) /\ Len(a) = 13 /\ b \in Seq(Byte) /\ Len(b) = 13
      /\ <<4>> \in Seq(Byte) /\ e \in Seq(Byte) /\ g \in Seq(Byte)
    BY DEF Byte
<1> DEFINE four == <<4>>
<1> HIDE DEF a, b, e, g, four
<1>2. Begins(a, a \o Letters(7)) /\ Begins(b, b \o Letters(32))
    BY <1>1, LettersType, BeginsThere
<1>3. Begins(a, a \o Letters(7) \o four)
    BY <1>1, <1>2, BeginsMore DEF four
<1>4. Begins(a, a \o Letters(7) \o four \o Letters(4))
    BY <1>3, LettersType, BeginsMore
<1>5. Begins(a, a \o Letters(7) \o four \o Letters(4) \o e)
    BY <1>1, <1>4, BeginsMore
<1>6. Begins(b, b \o Letters(32) \o g)
    BY <1>1, <1>2, BeginsMore
<1>7. Begins(a, DnsQuery)
    BY <1>5 DEF DnsQuery, a, e, four
<1>8. Begins(b, NbtQuery)
    BY <1>6 DEF NbtQuery, b, g
<1> QED
    BY <1>1, <1>7, <1>8, QueriesAre DEF Begins

LEMMA BeginsJoined ==
    ASSUME NEW s \in Seq(Byte), NEW t \in Seq(Byte), NEW u, Joins(u, s, t)
    PROVE  /\ u \in Seq(Byte) /\ Len(u) = Len(s) + Len(t) /\ Begins(s, u)
           /\ \A i \in 1 .. Len(t) : u[Len(s) + i] = t[i]
BY Joined, BeginsThere DEF Joins

LEMMA AnsweredFirst ==
    ASSUME NEW port \in {53, 137}, NEW c \in Number
    PROVE  Identified(Answered(port, udp_payload_fixup(port, c)), c)
<1> DEFINE px == payloads_udp_lookup(port)
           q == dns_set_cookie(px, c)
           b == CookieBytes(c)
<1>1. px = IF port = 53 THEN DnsQuery ELSE NbtQuery
    BY DEF payloads_udp_lookup, hard_coded_udp_payloads
<1>2. px \in Payloads /\ Len(px) > 12
    BY <1>1, LetterQueries
<1>3. udp_payload_fixup(port, c) = q
    BY DEF udp_payload_fixup
<1> HIDE DEF px
<1>4. q \in Seq(Byte) /\ Len(q) = Len(px) /\ q[1] = b[3] /\ q[2] = b[4]
    <2>1. Len(px) > 2
        BY <1>2
    <2> QED
        BY <1>2, <2>1, CookieFirst
<1> HIDE DEF q
<1> DEFINE head == SubSeq(q, 1, 2)
           next == <<129, 128, 0, 1, 0, 1, 0, 0, 0, 0>>
           rest == SubSeq(q, 13, Len(q))
           record == <<192, 54, 0, 16, 0, 3, 0, 0, 0, 0, 0, 6, 5>>
           status == <<132, 0, 0, 0, 0, 1, 0, 0, 0, 0, 32>>
           names == <<0, 0, 33, 0, 1>>
           count == <<0, 0, 0, 0, 0, 25, 1>>
<1>5. /\ next \in Seq(Byte) /\ Len(next) = 10 /\ status \in Seq(Byte) /\ Len(status) = 11
      /\ record \in Seq(Byte) /\ names \in Seq(Byte) /\ count \in Seq(Byte)
    BY DEF Byte
<1>6. /\ head \in Seq(Byte) /\ Len(head) = 2 /\ head[1] = b[3] /\ head[2] = b[4]
      /\ rest \in Seq(Byte)
    BY <1>2, <1>4
<1>7. Zeros(6) \in Seq(Byte)
    BY DEF Zeros, Byte
<1> HIDE DEF head, next, rest, record, status, names, count, b
<1>8. ASSUME NEW first, NEW a, Begins(head, first), Len(first) >= 12, Begins(first, a)
      PROVE  Identified(a, c)
    <2>1. Begins(head, a)
        BY <1>8, BeginsBoth
    <2>2. a \in Seq(Byte) /\ Len(a) >= 12
        BY <1>8 DEF Begins
    <2>3. a[1] = head[1] /\ a[2] = head[2]
        BY <1>6, <2>1 DEF Begins
    <2> QED
        BY <1>6, <2>2, <2>3 DEF Identified, b
<1>9. CASE port = 53
    <2> DEFINE first == head \o next
               letters == Letters(5)
    <2>1. Begins(head, first) /\ Len(first) = 12
        <3>0. head \in Seq(Byte) /\ next \in Seq(Byte)
            BY <1>5, <1>6
        <3>1. Joins(first, head, next)
            BY DEF Joins
        <3> HIDE DEF first
        <3>2. Begins(head, first) /\ Len(first) = Len(head) + Len(next)
            BY <3>0, <3>1, BeginsJoined
        <3> QED
            BY <1>5, <1>6, <3>2
    <2>2. first \in Seq(Byte)
        BY <2>1 DEF Begins
    <2>9. Len(first) >= 12
        BY <2>1
    <2>3. letters \in Seq(Byte)
        BY LettersType
    <2> HIDE DEF first, letters
    <2>4. Begins(first, first \o rest)
        BY <1>6, <2>2, BeginsThere
    <2>5. Begins(first, first \o rest \o record)
        BY <1>5, <2>4, BeginsMore
    <2>6. Begins(first, first \o rest \o record \o letters)
        BY <2>3, <2>5, BeginsMore
    <2>7. Identified(first \o rest \o record \o letters, c)
        BY Zenon, <1>8, <2>1, <2>6, <2>9
    <2>10. Answered(port, q) = NameServer(q)
        BY <1>9 DEF Answered
    <2>8. Answered(port, q) = first \o rest \o record \o letters
        BY <2>10 DEF NameServer, first, letters, head, next, rest, record
    <2> QED
        BY <1>3, <2>7, <2>8
<1>10. CASE port = 137
    <2> DEFINE first == head \o status
               letters == Letters(32)
               more == Letters(18)
               zeros == Zeros(6)
    <2>1. Begins(head, first) /\ Len(first) = 13
        <3>0. head \in Seq(Byte) /\ status \in Seq(Byte)
            BY <1>5, <1>6
        <3>1. Joins(first, head, status)
            BY DEF Joins
        <3> HIDE DEF first
        <3>2. Begins(head, first) /\ Len(first) = Len(head) + Len(status)
            BY <3>0, <3>1, BeginsJoined
        <3> QED
            BY <1>5, <1>6, <3>2
    <2>2. first \in Seq(Byte) /\ Len(first) >= 12
        BY <2>1 DEF Begins
    <2>3. letters \in Seq(Byte) /\ more \in Seq(Byte) /\ zeros \in Seq(Byte)
        BY <1>7, LettersType
    <2> HIDE DEF NetBios, first, letters, more, zeros
    <2>4. Begins(first, first \o letters)
        BY <2>2, <2>3, BeginsThere
    <2>5. Begins(first, first \o letters \o names)
        BY <1>5, <2>4, BeginsMore
    <2>6. Begins(first, first \o letters \o names \o count)
        BY <1>5, <2>5, BeginsMore
    <2>7. Begins(first, first \o letters \o names \o count \o more)
        BY <2>3, <2>6, BeginsMore
    <2>8. Begins(first, first \o letters \o names \o count \o more \o zeros)
        BY <2>3, <2>7, BeginsMore
    <2>9. Identified(first \o letters \o names \o count \o more \o zeros, c)
        BY <1>8, <2>1, <2>2, <2>8
    <2>11. Answered(port, q) = NetBios(q)
        BY <1>10 DEF Answered
    <2>10. Answered(port, q) = first \o letters \o names \o count \o more \o zeros
        BY <2>11 DEF NetBios, first, letters, more, zeros, head, status, names, count
    <2> QED
        BY <1>3, <2>9, <2>10
<1> QED
    BY <1>9, <1>10

\* The integer of the query, and of the reply, are where they are.
SnmpInteger == <<160, 44, 2, 4>>
LEMMA SnmpQueryIs ==
    /\ SnmpQuery \in Payloads /\ Len(SnmpHeader) = 17 /\ Len(SnmpQuery) >= 21 /\ SnmpQuery[17] = 4
<1> DEFINE a == <<48, 57, 2, 1, 0, 4, 6>>
           l == Letters(6)
           n == SnmpInteger
           z == <<0, 0, 0, 0, 2, 1, 0, 2, 1, 0, 48, 30>>
           v == SnmpVariable
           s == a \o l
           h == s \o n
<1>1. /\ a \in Seq(Byte) /\ Len(a) = 7 /\ l \in Seq(Byte) /\ Len(l) = 6 /\ n \in Seq(Byte) /\ Len(n) = 4 /\ n[4] = 4
      /\ z \in Seq(Byte) /\ Len(z) = 12 /\ v \in Seq(Byte)
    <2>1. a \in Seq(Byte) /\ Len(a) = 7 /\ n \in Seq(Byte) /\ Len(n) = 4 /\ n[4] = 4
        BY DEF SnmpInteger, Byte
    <2>2. z \in Seq(Byte) /\ Len(z) = 12
        BY DEF Byte
    <2>3. v \in Seq(Byte)
        BY DEF SnmpVariable, Byte
    <2> QED
        BY <2>1, <2>2, <2>3, LettersType
<1>2. SnmpHeader = h /\ SnmpQuery = SnmpHeader \o z \o v \o v
    BY DEF SnmpHeader, SnmpQuery, SnmpInteger
<1> HIDE DEF a, l, n, z, v
<1>3. s \in Seq(Byte) /\ Len(s) = 13
    <2>0. a \in Seq(Byte) /\ l \in Seq(Byte)
        BY <1>1
    <2>1. Joins(s, a, l)
        BY DEF Joins
    <2> HIDE DEF s
    <2>2. s \in Seq(Byte) /\ Len(s) = Len(a) + Len(l)
        BY <2>0, <2>1, BeginsJoined
    <2> QED
        BY <1>1, <2>2
<1> HIDE DEF s
<1>4. h \in Seq(Byte) /\ Len(h) = 17 /\ \A i \in 1 .. Len(n) : h[Len(s) + i] = n[i]
    <2>0. s \in Seq(Byte) /\ n \in Seq(Byte)
        BY <1>1, <1>3
    <2>1. Joins(h, s, n)
        BY DEF Joins
    <2> HIDE DEF h
    <2>2. h \in Seq(Byte) /\ Len(h) = Len(s) + Len(n) /\ \A i \in 1 .. Len(n) : h[Len(s) + i] = n[i]
        BY <2>0, <2>1, BeginsJoined
    <2> QED
        BY <1>1, <1>3, <2>2
<1>5. Begins(h, h) /\ h = s \o n
    BY <1>4 DEF Begins
<1>6. h[17] = 4
    <2>1. 4 \in 1 .. Len(n) /\ 13 + 4 = 17
        BY <1>1
    <2> HIDE DEF h
    <2> QED
        BY <1>1, <1>3, <1>4, <2>1
<1> HIDE DEF h
<1> DEFINE hz == h \o z
           hzv == hz \o v
<1>7. hz \in Seq(Byte) /\ Len(hz) = 29 /\ Begins(h, hz)
    <2>0. h \in Seq(Byte) /\ z \in Seq(Byte)
        BY <1>1, <1>4
    <2>1. Joins(hz, h, z)
        BY DEF Joins
    <2> HIDE DEF hz
    <2>2. hz \in Seq(Byte) /\ Len(hz) = Len(h) + Len(z) /\ Begins(h, hz)
        BY <2>0, <2>1, BeginsJoined
    <2> QED
        BY <1>1, <1>4, <2>2
<1> HIDE DEF hz
<1>8. Begins(hz, hzv)
    BY <1>1, <1>7, BeginsThere
<1> HIDE DEF hzv
<1>9. Begins(hz, hzv \o v)
    BY <1>1, <1>8, BeginsMore
<1>10. Begins(hz, SnmpQuery)
    BY <1>2, <1>9 DEF hz, hzv
<1>11. Len(SnmpQuery) >= 29 /\ SnmpQuery[17] = h[17]
    BY <1>4, <1>7, <1>10 DEF Begins
<1> QED
    BY <1>2, <1>4, <1>6, <1>11, QueriesAre

\* The bytes of the number, as they are written into the query.
LEMMA NumberWritten ==
    ASSUME NEW c \in Number
    PROVE  LET q == udp_payload_fixup(161, c)
               b == CookieBytes(c)
           IN /\ q \in Seq(Byte) /\ Len(q) >= 21
              /\ q[18] = b[1] % 128 /\ q[19] = b[2] /\ q[20] = b[3] /\ q[21] = b[4]
<1> DEFINE b == CookieBytes(c)
           px == SnmpQuery
           at == 17
           r == [i \in 1 .. 4 |-> IF i = 1 THEN b[4 - 4 + i] % 128 ELSE b[4 - 4 + i]]
           q == Overwrite(px, at, r)
<1>1. px \in Payloads /\ Len(SnmpHeader) = at /\ Len(px) >= 21 /\ px[at] = 4
    BY SnmpQueryIs
<1>2. b[1] \in Byte /\ b[2] \in Byte /\ b[3] \in Byte /\ b[4] \in Byte
    BY CookieType
<1>3. payloads_udp_lookup(161) = px
    BY DEF payloads_udp_lookup, hard_coded_udp_payloads
<1>4. udp_payload_fixup(161, c) = snmp_set_cookie(px, c, at)
    BY <1>1, <1>3 DEF udp_payload_fixup
<1> HIDE DEF px
<1>5. snmp_set_cookie(px, c, at) = q
    BY <1>1 DEF snmp_set_cookie
<1> HIDE DEF b
<1>6. \A x \in Byte : x % 128 \in Byte
    BY DEF Byte
<1>7. r[1] = b[1] % 128 /\ r[2] = b[2] /\ r[3] = b[3] /\ r[4] = b[4]
    OBVIOUS
<1>8. \A i \in 1 .. 4 : r[i] \in Byte
    BY <1>2, <1>6, <1>7
<1>9. r \in Seq(Byte) /\ Len(r) = 4
    BY <1>8
<1> HIDE DEF r
<1>10. at \in Nat /\ at + Len(r) <= Len(px)
    <2>1. Len(px) \in Nat
        BY <1>1 DEF Payloads
    <2> QED
        BY <1>1, <1>9, <2>1
<1> HIDE DEF at
<1>11. q \in Seq(Byte) /\ Len(q) = Len(px) /\ \A i \in 1 .. Len(r) : q[at + i] = r[i]
    BY <1>1, <1>9, <1>10, OverwriteIs
<1> HIDE DEF q
<1>12. q[at + 1] = r[1] /\ q[at + 2] = r[2] /\ q[at + 3] = r[3] /\ q[at + 4] = r[4]
    BY <1>9, <1>11
<1>13. at + 1 = 18 /\ at + 2 = 19 /\ at + 3 = 20 /\ at + 4 = 21
    BY DEF at
<1> QED
    BY <1>1, <1>4, <1>5, <1>7, <1>11, <1>12, <1>13 DEF b

LEMMA SnmpAnswered ==
    ASSUME NEW c \in Number
    PROVE  LET a == Answered(161, udp_payload_fixup(161, c))
               b == CookieBytes(c)
           IN SnmpReply(a) /\ a[18] = b[1] % 128 /\ a[19] = b[2] /\ a[20] = b[3] /\ a[21] = b[4]
<1> DEFINE q == udp_payload_fixup(161, c)
           b == CookieBytes(c)
           first == <<48, 39, 2, 1, 0, 4, 6>>
           letters == Letters(6)
           tag == <<162, 26, 2, 4>>
           cut == SubSeq(q, 18, 21)
           rest == <<2, 1, 0, 2, 1, 0, 48, 12, 48, 10, 6, 3, 43, 6, 1, 4, 3, 65, 65, 65>>
           s1 == first \o letters
           s2 == s1 \o tag
           s3 == s2 \o cut
           a == s3 \o rest
<1>1. /\ q \in Seq(Byte) /\ Len(q) >= 21
      /\ q[18] = b[1] % 128 /\ q[19] = b[2] /\ q[20] = b[3] /\ q[21] = b[4]
    BY NumberWritten
<1>2. Answered(161, q) = a
    <2>1. Answered(161, q) = SnmpAgent(q)
        BY DEF Answered
    <2>2. SnmpAgent(q) = a
        BY DEF SnmpAgent
    <2> QED
        BY <2>1, <2>2
<1>3. /\ first \in Seq(Byte) /\ Len(first) = 7 /\ first[1] = 48 /\ first[2] = 39 /\ first[3] = 2 /\ first[4] = 1
      /\ first[5] = 0 /\ first[6] = 4 /\ first[7] = 6
    BY DEF Byte
<1>4. letters \in Seq(Byte) /\ Len(letters) = 6
    BY LettersType
<1>5. tag \in Seq(Byte) /\ Len(tag) = 4 /\ tag[1] = 162 /\ tag[2] = 26 /\ tag[3] = 2 /\ tag[4] = 4
    BY DEF Byte
<1>6. rest \in Seq(Byte) /\ Len(rest) = 20
    BY DEF Byte
<1> HIDE DEF q, b
<1>7. cut \in Seq(Byte) /\ Len(cut) = 4 /\ cut[1] = q[18] /\ cut[2] = q[19] /\ cut[3] = q[20] /\ cut[4] = q[21]
    BY <1>1
<1> HIDE DEF first, letters, tag, cut, rest
<1>8. Joins(s1, first, letters) /\ Joins(s2, s1, tag) /\ Joins(s3, s2, cut) /\ Joins(a, s3, rest)
    BY DEF Joins
<1> HIDE DEF s1, s2, s3, a
<1>9. first \in Seq(Byte) /\ letters \in Seq(Byte) /\ tag \in Seq(Byte) /\ cut \in Seq(Byte) /\ rest \in Seq(Byte)
    BY <1>3, <1>4, <1>5, <1>6, <1>7
<1>10. s1 \in Seq(Byte) /\ Len(s1) = Len(first) + Len(letters) /\ Begins(first, s1)
    BY <1>8, <1>9, BeginsJoined
<1>11. /\ s2 \in Seq(Byte) /\ Len(s2) = Len(s1) + Len(tag) /\ Begins(s1, s2)
       /\ \A i \in 1 .. Len(tag) : s2[Len(s1) + i] = tag[i]
    <2>1. s1 \in Seq(Byte) /\ tag \in Seq(Byte) /\ Joins(s2, s1, tag)
        BY <1>8, <1>9, <1>10
    <2> QED
        BY <2>1, BeginsJoined
<1>12. /\ s3 \in Seq(Byte) /\ Len(s3) = Len(s2) + Len(cut) /\ Begins(s2, s3)
       /\ \A i \in 1 .. Len(cut) : s3[Len(s2) + i] = cut[i]
    <2>1. s2 \in Seq(Byte) /\ cut \in Seq(Byte) /\ Joins(s3, s2, cut)
        BY <1>8, <1>9, <1>11
    <2> QED
        BY <2>1, BeginsJoined
<1>13. a \in Seq(Byte) /\ Len(a) = Len(s3) + Len(rest) /\ Begins(s3, a)
    BY <1>8, <1>9, <1>12, BeginsJoined
<1>14. Len(s1) = 13 /\ Len(s2) = 17 /\ Len(s3) = 21 /\ Len(a) = 41
    BY <1>3, <1>4, <1>5, <1>6, <1>7, <1>10, <1>11, <1>12, <1>13
<1>15. Begins(s2, a) /\ Begins(first, a)
    BY <1>10, <1>11, <1>12, <1>13, BeginsBoth
<1>16. /\ \A i \in 1 .. 7 : a[i] = first[i]
       /\ \A i \in 1 .. 17 : a[i] = s2[i]
       /\ \A i \in 1 .. 21 : a[i] = s3[i]
    BY <1>3, <1>13, <1>14, <1>15 DEF Begins
<1>17. s2[14] = tag[1] /\ s2[15] = tag[2] /\ s2[16] = tag[3] /\ s2[17] = tag[4]
    <2>1. 13 + 1 = 14 /\ 13 + 2 = 15 /\ 13 + 3 = 16 /\ 13 + 4 = 17
        OBVIOUS
    <2>2. \A i \in 1 .. 4 : s2[13 + i] = tag[i]
        BY <1>5, <1>11, <1>14
    <2> QED
        BY <2>1, <2>2
<1>18. s3[18] = cut[1] /\ s3[19] = cut[2] /\ s3[20] = cut[3] /\ s3[21] = cut[4]
    <2>1. 17 + 1 = 18 /\ 17 + 2 = 19 /\ 17 + 3 = 20 /\ 17 + 4 = 21
        OBVIOUS
    <2>2. \A i \in 1 .. 4 : s3[17 + i] = cut[i]
        BY <1>7, <1>12, <1>14
    <2> QED
        BY <2>1, <2>2
<1>19. SnmpReply(a)
    <2>1. a[1] = 48 /\ a[2] = 39 /\ a[3] = 2 /\ a[4] = 1 /\ a[5] = 0 /\ a[6] = 4 /\ a[7] = 6
        BY <1>3, <1>16
    <2>2. a[14] = 162 /\ a[15] = 26 /\ a[16] = 2 /\ a[17] = 4
        BY <1>5, <1>16, <1>17
    <2> QED
        BY <1>13, <1>14, <2>1, <2>2 DEF SnmpReply
<1>20. a[18] = cut[1] /\ a[19] = cut[2] /\ a[20] = cut[3] /\ a[21] = cut[4]
    BY <1>16, <1>18
<1> QED
    BY <1>1, <1>2, <1>7, <1>19, <1>20 DEF q, b

\* The number the reply to a probe bears.
LEMMA SnmpNumberBack ==
    ASSUME NEW c \in Number
    PROVE  D!snmp_parse(Answered(161, udp_payload_fixup(161, c))).id = <<c[1] % 32768, c[2]>>
<1> DEFINE a == Answered(161, udp_payload_fixup(161, c))
           b == CookieBytes(c)
<1>1. SnmpReply(a) /\ a[18] = b[1] % 128 /\ a[19] = b[2] /\ a[20] = b[3] /\ a[21] = b[4]
    BY SnmpAnswered
<1>2. <<256 * (b[1] % 128) + b[2], 256 * b[3] + b[4]>> = <<c[1] % 32768, c[2]>>
    BY CookieRead
<1> HIDE DEF a, b
<1>3. D!snmp_parse(a).id = <<256 * a[18] + a[19], 256 * a[20] + a[21]>>
    BY <1>1, SnmpNumber
<1> QED
    BY <1>1, <1>2, <1>3 DEF a

----------------------------------------------------------------------------
(* What bears the cookie is counted *)

AllCounted(S) == \A out \in S : out.counted

LEMMA OutcomeCounted == \A x : AllCounted({D!Outcome(TRUE, x)})
BY DEF D!Outcome, AllCounted

LEMMA PlainCounted == AllCounted({D!Silent}) /\ \A d : AllCounted({D!default_udp_parse(d)})
BY OutcomeCounted DEF D!Silent, D!default_udp_parse

\* Two bytes of cookie at the beginning.
Bears(d) == d.n >= 12 /\ D!WordAt(d.px, d.at) = (d.cookie)[2]

LEMMA HeaderRead == \A d : D!proto_dns_parse(d).id = D!WordAt(d.px, d.at)
BY DEF D!proto_dns_parse, D!Header

LEMMA DnsCounted ==
    ASSUME NEW d, Bears(d), d.n \in Nat
    PROVE  AllCounted(D!handle_dns(d)) /\ AllCounted(D!handle_nbtstat(d))
<1>1. ~ (d.n < 12)
    BY DEF Bears
<1>2. D!proto_dns_parse(d).id = (d.cookie)[2]
    BY HeaderRead DEF Bears
<1>3. ASSUME NEW dns, dns.id = (d.cookie)[2] PROVE AllCounted(D!DnsAnswer(d, dns))
    BY <1>3, OutcomeCounted, PlainCounted DEF D!DnsAnswer, D!AnswerAt, AllCounted
<1>4. ASSUME NEW dns, dns.id = (d.cookie)[2] PROVE AllCounted(D!NbtAnswer(d, dns))
    BY <1>4, OutcomeCounted, PlainCounted DEF D!NbtAnswer, D!AnswerAt, AllCounted
<1>5. D!handle_dns(d) = D!DnsAnswer(d, D!proto_dns_parse(d))
    BY <1>1 DEF D!handle_dns
<1>6. D!handle_nbtstat(d) = D!NbtAnswer(d, D!proto_dns_parse(d))
    BY <1>1 DEF D!handle_nbtstat
<1> QED
    BY <1>2, <1>3, <1>4, <1>5, <1>6

LEMMA SnmpCounted ==
    ASSUME NEW d, D!snmp_parse(D!App(d)).id = <<(d.cookie)[1] % 32768, (d.cookie)[2]>>
    PROVE  AllCounted(D!handle_snmp(d))
<1> DEFINE snmp == D!snmp_parse(D!App(d))
<1>1. D!handle_snmp(d) = D!Answered(d, snmp)
    BY DEF D!handle_snmp
<1>2. snmp.id = <<(d.cookie)[1] % 32768, (d.cookie)[2]>>
    OBVIOUS
<1> HIDE DEF snmp
<1>3. D!Answered(d, snmp) = {D!Outcome(TRUE, <<D!Says("SNMP", snmp.said)>>)}
    BY <1>2 DEF D!Answered
<1> QED
    <2> DEFINE said == <<D!Says("SNMP", snmp.said)>>
    <2>1. D!handle_snmp(d) = {D!Outcome(TRUE, said)}
        BY <1>1, <1>3
    <2> HIDE DEF said
    <2>2. AllCounted({D!Outcome(TRUE, said)})
        BY DEF AllCounted, D!Outcome
    <2> QED
        BY <2>1, <2>2

\* The others report the port whatever the datagram says.
LEMMA OthersCounted ==
    ASSUME NEW d
    PROVE  /\ AllCounted(D!coap_handle_response(d)) /\ AllCounted(D!memcached_udp_parse(d))
           /\ AllCounted(D!ntp_handle_response(d)) /\ AllCounted(D!handle_zeroaccess(d))
<1>1. AllCounted(D!coap_handle_response(d))
    BY OutcomeCounted, PlainCounted DEF D!coap_handle_response
<1>2. AllCounted(D!memcached_udp_parse(d))
    BY OutcomeCounted, PlainCounted DEF D!memcached_udp_parse
<1>3. AllCounted(D!ntp_handle_response(d))
    BY OutcomeCounted, PlainCounted DEF D!ntp_handle_response
<1>4. AllCounted(D!handle_zeroaccess(d))
    <2> DEFINE a == D!App(d)
               count == D!At(a, 12) + 256 * D!At(a, 13) + 65536 * (D!At(a, 14) + D!At(a, 15))
               size == 1 + count
               short == ~d.crc \/ d.n < 16
               wrong == SubSeq(a, 5, 8) # <<76, 116, 101, 114>> \/ count > 256 \/ 16 + 8 * count > d.n
               said == {D!Outcome(TRUE, <<D!Says("ZeroAccess", size)>>)}
    <2>1. AllCounted(said)
        <3> HIDE DEF size
        <3> QED
            BY OutcomeCounted
    <2>2. D!handle_zeroaccess(d) = IF short THEN {D!Silent} ELSE IF wrong THEN {D!Silent} ELSE said
        BY DEF D!handle_zeroaccess
    <2> HIDE DEF short, wrong, said
    <2> QED
        BY <2>1, <2>2, PlainCounted
<1> QED
    BY <1>1, <1>2, <1>3, <1>4

LEMMA DatagramCounted ==
    ASSUME NEW d, d.sport \in {53, 137} => Bears(d) /\ d.n \in Nat,
           d.sport = 161 => D!snmp_parse(D!App(d)).id = <<(d.cookie)[1] % 32768, (d.cookie)[2]>>,
           NEW out \in D!handle_udp(d)
    PROVE  out.counted
<1>1. d.sport \in {53, 137} => AllCounted(D!handle_dns(d)) /\ AllCounted(D!handle_nbtstat(d))
    BY DnsCounted
<1>2. d.sport = 161 => AllCounted(D!handle_snmp(d))
    BY SnmpCounted
<1>3. AllCounted(D!handle_udp(d))
    BY <1>1, <1>2, OthersCounted, PlainCounted DEF D!handle_udp
<1> QED
    BY <1>3 DEF AllCounted

----------------------------------------------------------------------------
(* A probe's datagram, and the answer to it *)

LEMMA DatagramCarries ==
    ASSUME XorOfWords, Sensible(conf), NEW t \in conf.targets, NEW n \in 1 .. conf.nics, NEW p, p = Probe(t, conf.src[n]),
           p.k = "udp"
    PROVE  LET cookie == SynCookie(p.them, p.port + Templ_UDP, p.me, p.mine) IN
           cookie \in Number /\ p.pkt.data = udp_payload_fixup(p.port, cookie)
<1> DEFINE them == t.them
           target == t.target
           me == conf.src[n].ip
           mine == conf.src[n].port
           port == target % 65536
           cookie == SynCookie(them, target, me, mine)
           templates == template_packet_init(<<2, 0, 0, 0, 0, 1>>, conf.ttl)
           data == udp_payload_fixup(port, cookie)
           k == Kind(target)
           q == Addressed(templates.pkts[k], them, port, me, cookie, data)
           pkt == template_set_target(templates, them, target, me, mine, cookie)
<1>1. p.k = k /\ p.them = them /\ p.me = me /\ p.pkt = pkt
    BY DEF Probe, set
<1>2. target \in Nat /\ cookie \in Number
    BY SensibleIs
<1>3. k = "udp" /\ k \in TemplateKinds
    BY <1>1 DEF TemplateKinds
<1>4. p.port = target % W /\ p.mine = mine /\ (target % W) + Templ_UDP = target /\ W = 65536
    <2>1. p.port = target % W /\ p.mine = mine
        BY <1>1, <1>3, ProbeCarries
    <2>2. (target % W) + Templ_UDP = target
        <3> HIDE DEF target
        <3> QED
            BY <1>2, <1>3, KindIs DEF k
    <2> QED
        BY <2>1, <2>2 DEF W
<1>5. pkt = ProbeOf(k, templates, them, target, me, mine, cookie)
    <2> HIDE DEF templates, cookie
    <2> QED
        BY <1>3, ProbeIs
<1>6. pkt.data = q.data
    <2>1. (IF k = "udp" THEN data ELSE <<>>) = data
        BY <1>3
    <2> QED
        BY <1>5, <2>1 DEF ProbeOf
<1>7. q.data = data
    BY DEF Addressed
<1> HIDE DEF them, target, me, mine, templates, data, k, q, pkt
<1>8. p.port = port /\ p.port + Templ_UDP = target
    BY <1>4
<1>9. SynCookie(p.them, p.port + Templ_UDP, p.me, p.mine) = cookie
    BY <1>1, <1>4, <1>8
<1> HIDE DEF cookie
<1> QED
    BY <1>1, <1>2, <1>6, <1>7, <1>8, <1>9 DEF data

\* What the answer to a datagram is read as.
DatagramOf(f, s) ==
    [px |-> f.px, at |-> s.at, n |-> s.app, sport |-> s.sport,
     cookie |-> SynCookie(s.them, s.sport + Templ_UDP, s.me, s.dport), crc |-> f.more.crc]

LEMMA PlaceIs == \A l \in LinkNames : Link(l).size \in Nat
BY LinksAre DEF LinkNames, Plain

\* A server's answer to the query with that cookie.
Replied(f, l, src, dst, tr, port, c, more) ==
    f = IpFrame(l, src, dst, "udp", tr, Answered(port, udp_payload_fixup(port, c)), more)
Cuts(d, f, s, c) == d.px = f.px /\ d.at = s.at /\ d.n = s.app /\ d.cookie = c

\* Its handler finds the cookie in it.
Bearing(d, port) ==
    /\ port \in {53, 137} => Bears(d) /\ d.n \in Nat
    /\ port = 161 => D!snmp_parse(D!App(d)).id = <<(d.cookie)[1] % 32768, (d.cookie)[2]>>

LEMMA AnswerBears ==
    ASSUME NEW l \in LinkNames, NEW src, NEW dst, NEW tr, tr.size = 8, NEW more, NEW port, NEW c \in Number,
           NEW f, Replied(f, l, src, dst, tr, port, c, more), NEW s, Read(f, s), NEW d, Cuts(d, f, s, c)
    PROVE  Bearing(d, port)
<1> DEFINE payload == Answered(port, udp_payload_fixup(port, c))
           n == Len(payload)
           b == CookieBytes(c)
<1>0. f = IpFrame(l, src, dst, "udp", tr, payload, more)
    BY DEF Replied
<1>4. d.px = f.px /\ d.at = s.at /\ d.n = s.app /\ d.cookie = c
    BY DEF Cuts
<1>5. payload = Answered(port, udp_payload_fixup(port, c))
    OBVIOUS
<1> HIDE DEF payload
<1>1. ASSUME payload \in Seq(Byte)
      PROVE  /\ d.n = n /\ n \in Nat /\ D!App(d) = payload /\ d.at \in Nat
             /\ \A i \in 1 .. n : D!At(d.px, d.at + i - 1) = payload[i]
    <2>1. n \in Nat
        BY <1>1
    <2>2. s.at = Link(l).size + 28 /\ s.app = n
        BY <1>0, <2>1, UdpFrameIs
    <2>3. d.px = f.px /\ d.at = Link(l).size + 28 /\ d.n = Len(payload)
        BY <1>4, <2>2
    <2>4. /\ D!App(d) = payload
          /\ \A i \in 1 .. Len(payload) : D!At(d.px, d.at + i - 1) = payload[i]
        BY SMTT(60), <1>0, <1>1, <2>3, DatagramInside
    <2> QED
        BY <2>1, <2>3, <2>4, PlaceIs
<1>2. CASE port \in {53, 137}
    <2>1. Identified(payload, c)
        BY <1>2, <1>5, AnsweredFirst
    <2>2. payload \in Seq(Byte) /\ n >= 12 /\ payload[1] = b[3] /\ payload[2] = b[4]
        BY <2>1 DEF Identified
    <2>3. /\ d.n = n /\ n \in Nat /\ d.at \in Nat
          /\ \A i \in 1 .. n : D!At(d.px, d.at + i - 1) = payload[i]
        BY <1>1, <2>2
    <2>4. 256 * b[3] + b[4] = c[2]
        BY CookieRead
    <2> HIDE DEF n, b
    <2>5. D!At(d.px, d.at) = b[3] /\ D!At(d.px, d.at + 1) = b[4]
        <3>1. 1 \in 1 .. n /\ 2 \in 1 .. n
            BY <2>2, <2>3
        <3>2. d.at + 1 - 1 = d.at /\ d.at + 2 - 1 = d.at + 1
            BY <2>3
        <3> QED
            BY <2>2, <2>3, <3>1, <3>2
    <2>6. D!WordAt(d.px, d.at) = (d.cookie)[2]
        BY <1>4, <2>4, <2>5 DEF D!WordAt
    <2> QED
        BY <1>2, <2>2, <2>3, <2>6 DEF Bears, Bearing
<1>3. CASE port = 161
    <2>1. SnmpReply(payload)
        BY <1>3, <1>5, SnmpAnswered
    <2>2. payload \in Seq(Byte)
        BY <2>1 DEF SnmpReply
    <2>3. D!App(d) = payload
        BY <1>1, <2>2
    <2>4. D!snmp_parse(payload).id = <<c[1] % 32768, c[2]>>
        BY <1>3, <1>5, SnmpNumberBack
    <2> QED
        BY <1>3, <1>4, <2>3, <2>4 DEF Bearing
<1> QED
    BY <1>2, <1>3 DEF Bearing

LEMMA AnswerIsCounted ==
    ASSUME XorOfWords, Sensible(conf), NEW t \in conf.targets, NEW m \in 1 .. conf.nics, NEW p, p = Probe(t, conf.src[m]),
           p.k = "udp", NEW f, f = Reply(conf.link, p.pkt, p.k, "open"), NEW s, Read(f, s),
           NEW out \in D!handle_udp(DatagramOf(f, s))
    PROVE  out.counted
<1> DEFINE l == conf.link
           pkt == p.pkt
           port == p.port
           c == SynCookie(p.them, port + Templ_UDP, p.me, p.mine)
           payload == Answered(port, udp_payload_fixup(port, c))
           tr == [sport |-> pkt.tp[2], dport |-> pkt.tp[1], size |-> 8]
           more == [crc |-> FALSE]
           d == DatagramOf(f, s)
<1>1. "open" \in Kinds(p.k)
    BY DEF Kinds
<1>2. s.them = p.them /\ s.me = p.me /\ s.sport = port /\ s.dport = p.mine
    <2>1. Echoes(p, "open", f, s)
        BY <1>1, AnswerRead
    <2> QED
        BY Zenon, <2>1 DEF Echoes, Ports
<1>3. c \in Number /\ pkt.data = udp_payload_fixup(port, c)
    BY DatagramCarries
<1>4. pkt.tp[2] = port
    BY ProbeCarries
<1>5. f = IpFrame(l, Target(pkt), Source(pkt), "udp", tr, payload, more)
    <2>1. f = UdpAnswer(l, pkt, Answered(pkt.tp[2], pkt.data))
        BY DEF Reply
    <2> QED
        BY <1>3, <1>4, <2>1 DEF UdpAnswer
<1>6. l \in LinkNames /\ tr.size = 8
    BY SensibleIs
<1>7. d.px = f.px /\ d.at = s.at /\ d.n = s.app /\ d.sport = port /\ d.cookie = c
    BY <1>2 DEF DatagramOf
<1> HIDE DEF l, pkt, port, c, payload, tr, more, d
<1>8. Replied(f, l, Target(pkt), Source(pkt), tr, port, c, more)
    BY <1>5 DEF Replied, payload
<1>12. Read(f, s)
    OBVIOUS
<1>11. Cuts(d, f, s, c)
    BY <1>7 DEF Cuts
<1>9. Bearing(d, port)
    BY SMTT(60), <1>3, <1>6, <1>8, <1>11, <1>12, AnswerBears
<1>10. out \in D!handle_udp(d)
    BY DEF d
<1> QED
    BY <1>7, <1>9, <1>10, DatagramCounted DEF Bearing

----------------------------------------------------------------------------
(* Every datagram that answers a probe is reported *)

Datagram(a) == a.k = "udp" /\ a.kind = "open"
\* Nothing is taken back from the reports.
Further == \A i \in DOMAIN log : i \in DOMAIN log' /\ log'[i] = log[i]
\* No datagram is new that answers a probe, or it is reported.
NewToo == \A a \in arrived' : a \in arrived \/ (Datagram(a) => Records(a)' # {})

LEMMA DatagramsStill ==
    ASSUME DatagramsCounted, Further, NewToo
    PROVE  DatagramsCounted'
<1>1. \A a : Records(a) \subseteq Records(a)'
    BY DEF Records, Further
<1>2. ASSUME NEW a \in arrived', Datagram(a) PROVE Records(a)' # {}
    BY <1>1, <1>2 DEF DatagramsCounted, NewToo, Datagram
<1> QED
    BY <1>2 DEF DatagramsCounted, Datagram

LEMMA ReportGoesOn ==
    ASSUME Stamps, runs' = runs, NEW n, NEW x, NEW rs, \E R : rs \in Seq(R), NEW of, NEW ok, Report(n, x, rs, of, ok)
    PROVE  Further
<1>1. PICK R : rs \in Seq(R)
    OBVIOUS
<1>2. Grown(log, log')
    BY SMTT(60), <1>1, ReportGrows
<1> QED
    BY <1>2 DEF Grown, Further

\* At most one record, and two such one after the other.
AtMostOne(rs) == rs = <<>> \/ \E r : rs = <<r>>

LEMMA AtMostOneIs ==
    /\ \A rs : AtMostOne(rs) => \E R : rs \in Seq(R)
    /\ \A p, q : AtMostOne(p) /\ AtMostOne(q) => \E R : p \o q \in Seq(R)
<1>1. ASSUME NEW rs, AtMostOne(rs) PROVE \E R : rs \in Seq(R)
    <2>1. CASE rs = <<>>
        <3>1. <<>> \in Seq({})
            OBVIOUS
        <3> QED
            BY <2>1, <3>1
    <2>2. CASE \E r : rs = <<r>>
        <3>1. PICK r : rs = <<r>>
            BY <2>2
        <3>2. <<r>> \in Seq({r})
            OBVIOUS
        <3> QED
            BY <3>1, <3>2
    <2> QED
        BY <1>1, <2>1, <2>2 DEF AtMostOne
<1>2. ASSUME NEW p, NEW q, AtMostOne(p), AtMostOne(q) PROVE \E R : p \o q \in Seq(R)
    <2>1. PICK R : p \in Seq(R)
        BY <1>1, <1>2
    <2>2. PICK S : q \in Seq(S)
        BY <1>1, <1>2
    <2> DEFINE T == R \cup S
    <2>3. p \in Seq(T) /\ q \in Seq(T)
        BY <2>1, <2>2
    <2> HIDE DEF T
    <2>4. p \o q \in Seq(T)
        BY <2>3, Joined
    <2> QED
        BY <2>4
<1> QED
    BY <1>1, <1>2

LEMMA OneOrNone == \A c, r : AtMostOne(IF c THEN <<r>> ELSE <<>>) /\ AtMostOne(<<r>>) /\ AtMostOne(<<>>)
BY DEF AtMostOne

\* What arrives as anything but a datagram answers no probe with one.
LEMMA NoDatagram ==
    ASSUME XorOfWords, WireInv, NEW n \in 1 .. conf.nics, NEW f \in Arriving, NEW s, s = F!preprocess_frame(f.frame),
           Parsed(n, f.frame, s), s.found \notin {"udp", "dns"}, Noted(f, TRUE)
    PROVE  NewToo
<1>1. \/ \E p, kind : /\ \E t \in conf.targets, m \in 1 .. conf.nics : p = Probe(t, conf.src[m])
                      /\ kind \in Kinds(p.k) /\ AnswersTo(f, p, kind) /\ Echoes(p, kind, f.frame, s)
      \/ \E x \in conf.strays : f = Unasked(x) /\ Intrudes(x, f.frame, s)
    BY FrameFrom
<1>2. CASE \E x \in conf.strays : f = Unasked(x)
    <2>1. arrived' = arrived
        BY <1>2, UnaskedNoted
    <2> QED
        BY <2>1 DEF NewToo
<1>3. CASE \E p, kind : AnswersTo(f, p, kind) /\ Echoes(p, kind, f.frame, s)
    <2>1. PICK p, kind : AnswersTo(f, p, kind) /\ Echoes(p, kind, f.frame, s)
        BY <1>3
    <2> DEFINE a == Arrival(f, runs)
    <2>2. arrived' = arrived \cup {a}
        BY <2>1, AnswerNoted
    <2>3. Tells(a, p, kind, runs)
        BY <2>1, ArrivalIs
    <2> HIDE DEF a
    <2>4. ~ (p.k = "udp" /\ kind = "open")
        BY <2>1 DEF Echoes
    <2>5. ~ Datagram(a)
        BY <2>3, <2>4 DEF Datagram, Tells
    <2> QED
        BY <2>2, <2>5 DEF NewToo
<1> QED
    BY <1>1, <1>2, <1>3

LEMMA ArpDatagrams ==
    ASSUME XorOfWords, WireInv, Stamps, NEW n \in 1 .. conf.nics, RxArp(n)
    PROVE  Further /\ NewToo
<1>1. PICK f \in Arriving, ok \in Opens :
       LET s == F!preprocess_frame(f.frame)
           of == [them |-> s.them, port |-> 0, me |-> s.me, mine |-> 0]
           dup == dedup_is_duplicate(nics[n].dedup, of)
           wanted == f.frame.more.op = 2 /\ conf.arp /\ \E t \in conf.targets : t.them = s.them
       IN /\ Parsed(n, f.frame, s) /\ s.found = "arp"
          /\ Report(n, IF wanted THEN [nics[n] EXCEPT !.dedup = dup.table] ELSE nics[n],
                    IF wanted /\ ~dup.known THEN <<O!Status("up", s.them, 0, 0)>> ELSE <<>>, of, ok)
          /\ Noted(f, TRUE)
    BY DEF RxArp
<1> DEFINE s == F!preprocess_frame(f.frame)
           of == [them |-> s.them, port |-> 0, me |-> s.me, mine |-> 0]
           dup == dedup_is_duplicate(nics[n].dedup, of)
           wanted == f.frame.more.op = 2 /\ conf.arp /\ \E t \in conf.targets : t.them = s.them
           x == IF wanted THEN [nics[n] EXCEPT !.dedup = dup.table] ELSE nics[n]
           rs == IF wanted /\ ~dup.known THEN <<O!Status("up", s.them, 0, 0)>> ELSE <<>>
<1>2. Parsed(n, f.frame, s) /\ s.found = "arp" /\ Report(n, x, rs, of, ok) /\ Noted(f, TRUE)
    BY <1>1
<1>3. \E R : rs \in Seq(R)
    BY AtMostOneIs, OneOrNone
<1>6. NewToo
    <2>1. s.found \notin {"udp", "dns"}
        BY <1>2
    <2> QED
        BY <1>2, <2>1, NoDatagram
<1> HIDE DEF s, of, x, rs
<1>4. runs' = runs
    BY <1>2, NotedIs
<1>5. Further
    BY SMTT(60), <1>2, <1>3, <1>4, ReportGoesOn
<1> QED
    BY <1>5, <1>6

LEMMA IcmpDatagrams ==
    ASSUME XorOfWords, WireInv, Stamps, NEW n \in 1 .. conf.nics, RxIcmp(n)
    PROVE  Further /\ NewToo
<1>1. PICK f \in Arriving, ok \in Opens :
       LET s == F!preprocess_frame(f.frame)
           of == [them |-> s.them, port |-> 0, me |-> s.me, mine |-> 0]
           dup == dedup_is_duplicate(echo, of)
           inner == f.frame.more.inner
       IN /\ Parsed(n, f.frame, s) /\ s.found = "icmp"
          /\ Report(n, nics[n],
                    IF EchoReply(s, f.frame) THEN IF dup.known THEN <<>> ELSE <<O!Status("open", s.them, 1, 0)>>
                    ELSE IF PortUnreachable(s, f.frame)
                    THEN <<O!Status("closed", inner.them, inner.proto, inner.pthem)>> ELSE <<>>, of, ok)
          /\ Noted(f, TRUE)
    BY DEF RxIcmp
<1> DEFINE s == F!preprocess_frame(f.frame)
           of == [them |-> s.them, port |-> 0, me |-> s.me, mine |-> 0]
           dup == dedup_is_duplicate(echo, of)
           inner == f.frame.more.inner
           up == IF dup.known THEN <<>> ELSE <<O!Status("open", s.them, 1, 0)>>
           down == IF PortUnreachable(s, f.frame) THEN <<O!Status("closed", inner.them, inner.proto, inner.pthem)>> ELSE <<>>
           rs == IF EchoReply(s, f.frame) THEN up ELSE down
<1>2. Parsed(n, f.frame, s) /\ s.found = "icmp" /\ Report(n, nics[n], rs, of, ok) /\ Noted(f, TRUE)
    BY <1>1
<1>3. \E R : rs \in Seq(R)
    <2>1. AtMostOne(up) /\ AtMostOne(down)
        BY DEF AtMostOne
    <2> HIDE DEF up, down
    <2>2. AtMostOne(rs)
        BY <2>1
    <2> HIDE DEF rs
    <2> QED
        BY <2>2, AtMostOneIs
<1>6. NewToo
    <2>1. s.found \notin {"udp", "dns"}
        BY <1>2
    <2> QED
        BY <1>2, <2>1, NoDatagram
<1> HIDE DEF s, of, rs
<1>4. runs' = runs
    BY <1>2, NotedIs
<1>5. Further
    BY SMTT(60), <1>2, <1>3, <1>4, ReportGoesOn
<1> QED
    BY <1>5, <1>6

LEMMA TcpDatagrams ==
    ASSUME XorOfWords, WireInv, Stamps, NEW n \in 1 .. conf.nics, RxTcp(n)
    PROVE  Further /\ NewToo
<1>1. PICK f \in Arriving, ok \in Opens, drained \in 0..(BucketCount - 1) :
       LET s == F!preprocess_frame(f.frame)
           sctp == s.found = "sctp"
           flow == Flow(s)
           flags == f.frame.more.flags
           cookie == SynCookie(s.them, s.sport + (IF sctp THEN Templ_SCTP ELSE 0), s.me, s.dport)
           verified == cookie = Previous32(f.frame.more.ack)
           x == nics[n]
           asked == FilterAsked(x, flow, flags)
           filter == rstfilter_is_filter(x.rf, RstIndex(flow), drained)
           dup == dedup_is_duplicate(x.dedup, flow)
           status == (({"SYN", "ACK"} \subseteq flags) \/ "RST" \in flags) /\ verified
           new == status /\ ~dup.known
           mine == is_my_port(n, s.dport)
       IN /\ Parsed(n, f.frame, s) /\ s.found \in {"tcp", "sctp"}
          /\ Report(n, IF ~mine THEN x
                       ELSE [x EXCEPT !.tcbs = Connections(x, flow, flags, verified),
                                      !.rf = IF asked THEN filter.rf ELSE @,
                                      !.dedup = IF status THEN dup.table ELSE @],
                    (IF sctp THEN SctpStatus(s, f.frame, cookie) ELSE <<>>)
                    \o (IF mine /\ new THEN <<O!Status(IF "RST" \in flags THEN "closed" ELSE "open", s.them, 6, s.sport)>>
                        ELSE <<>>), flow, ok)
          /\ Noted(f, TRUE)
    BY Zenon DEF RxTcp
<1> DEFINE s == F!preprocess_frame(f.frame)
           sctp == s.found = "sctp"
           flow == Flow(s)
           flags == f.frame.more.flags
           cookie == SynCookie(s.them, s.sport + (IF sctp THEN Templ_SCTP ELSE 0), s.me, s.dport)
           verified == cookie = Previous32(f.frame.more.ack)
           x == nics[n]
           asked == FilterAsked(x, flow, flags)
           filter == rstfilter_is_filter(x.rf, RstIndex(flow), drained)
           dup == dedup_is_duplicate(x.dedup, flow)
           status == (({"SYN", "ACK"} \subseteq flags) \/ "RST" \in flags) /\ verified
           new == status /\ ~dup.known
           mine == is_my_port(n, s.dport)
           y == IF ~mine THEN x
                ELSE [x EXCEPT !.tcbs = Connections(x, flow, flags, verified),
                               !.rf = IF asked THEN filter.rf ELSE @,
                               !.dedup = IF status THEN dup.table ELSE @]
           first == IF sctp THEN SctpStatus(s, f.frame, cookie) ELSE <<>>
           second == IF mine /\ new THEN <<O!Status(IF "RST" \in flags THEN "closed" ELSE "open", s.them, 6, s.sport)>>
                     ELSE <<>>
           rs == first \o second
<1>2. Parsed(n, f.frame, s) /\ s.found \in {"tcp", "sctp"} /\ Report(n, y, rs, flow, ok) /\ Noted(f, TRUE)
    BY Zenon, <1>1
<1>3. AtMostOne(first)
    <2> HIDE DEF s, cookie
    <2>1. AtMostOne(SctpStatus(s, f.frame, cookie))
        BY DEF SctpStatus, AtMostOne
    <2> QED
        BY <2>1 DEF AtMostOne
<1>4. AtMostOne(second)
    <2> DEFINE r == O!Status(IF "RST" \in flags THEN "closed" ELSE "open", s.them, 6, s.sport)
               c == mine /\ new
    <2>1. second = IF c THEN <<r>> ELSE <<>>
        OBVIOUS
    <2> HIDE DEF r, c, second
    <2> QED
        BY <2>1 DEF AtMostOne
<1> HIDE DEF first, second
<1>5. \E R : rs \in Seq(R)
    BY <1>3, <1>4, AtMostOneIs
<1> HIDE DEF rs, y, flow
<1>6. NewToo
    <2>1. s.found \notin {"udp", "dns"}
        BY <1>2
    <2> QED
        BY <1>2, <2>1, NoDatagram
<1> HIDE DEF s
<1>7. runs' = runs
    BY <1>2, NotedIs
<1>8. Further
    BY SMTT(60), <1>2, <1>5, <1>7, ReportGoesOn
<1> QED
    BY <1>6, <1>8

\* What changes neither the reports nor the answers, or only reports.
LEMMA RestDatagrams ==
    ASSUME Stamps,
           \/ vars' = vars \/ Transmit \/ Tick \/ StatusUpdate \/ Stop \/ Again
           \/ \E n \in 1 .. conf.nics : Open(n) \/ Finish(n) \/ RxIgnored(n) \/ Conversation(n)
    PROVE  Further /\ NewToo
<1>1. CASE arrived' = arrived /\ log' = log
    BY <1>1 DEF Further, NewToo
<1>2. CASE vars' = vars \/ Transmit \/ Tick \/ StatusUpdate \/ Stop \/ Again
    <2>1. arrived' = arrived /\ log' = log
        BY <1>2 DEF vars, Transmit, Tick, StatusUpdate, Stop, Again
    <2> QED
        BY <1>1, <2>1
<1>3. ASSUME NEW n \in 1 .. conf.nics, Open(n) \/ Finish(n) PROVE Further /\ NewToo
    <2>1. arrived' = arrived /\ log' = log
        BY <1>3 DEF Open, Finish
    <2> QED
        BY <1>1, <2>1
<1>4. ASSUME NEW n \in 1 .. conf.nics, RxIgnored(n) PROVE Further /\ NewToo
    <2>1. PICK f \in Arriving : Noted(f, FALSE)
        BY <1>4 DEF RxIgnored
    <2>2. arrived' = arrived /\ log' = log
        BY <1>4, <2>1, NotedIs DEF RxIgnored
    <2> QED
        BY <1>1, <2>2
<1>5. ASSUME NEW n \in 1 .. conf.nics, Conversation(n) PROVE Further /\ NewToo
    <2>1. PICK flow \in nics[n].tcbs, ok \in Opens :
             \/ Report(n, nics[n], <<O!Banner("http", flow.them, 6, flow.port, 9)>>, flow, ok)
             \/ Report(n, [nics[n] EXCEPT !.tcbs = @ \ {flow}], <<>>, flow, ok)
        BY <1>5 DEF Conversation
    <2> DEFINE r == O!Banner("http", flow.them, 6, flow.port, 9)
               y == [nics[n] EXCEPT !.tcbs = @ \ {flow}]
               one == <<r>>
               none == <<>>
    <2>2. (\E R : one \in Seq(R)) /\ (\E R : none \in Seq(R))
        BY OneOrNone, AtMostOneIs
    <2>3. Report(n, nics[n], one, flow, ok) \/ Report(n, y, none, flow, ok)
        BY Zenon, <2>1
    <2> HIDE DEF y, one, none
    <2>4. runs' = runs /\ arrived' = arrived
        BY <1>5 DEF Conversation
    <2>5. Further
        BY SMTT(60), <2>2, <2>3, <2>4, ReportGoesOn
    <2> QED
        BY <2>4, <2>5 DEF NewToo
<1> QED
    BY <1>2, <1>3, <1>4, <1>5

\* The last of the records is that status.
EndsOpen(rs, said, ip, port) == rs = said \o <<O!Status("open", ip, 17, port)>>
LastOpen(lg, rn, ip, port) ==
    LET e == lg[Len(lg)] IN
    Len(lg) \in DOMAIN lg /\ e.run = rn /\ e.r.kind = "status" /\ e.r.proto = 17 /\ e.r.ip = ip /\ e.r.port = port

LEMMA EndIs ==
    ASSUME NEW rs, NEW said, AtMostOne(said), NEW r, Joins(rs, said, <<r>>)
    PROVE  \E R : rs \in Seq(R) /\ Len(rs) \in Nat \ {0} /\ rs[Len(rs)] = r
<1> DEFINE q == <<r>>
<1>1. PICK S : said \in Seq(S)
    BY AtMostOneIs
<1> DEFINE T == S \cup {r}
<1>2. said \in Seq(T)
    BY <1>1
<1>3. q \in Seq(T)
    OBVIOUS
<1>4. Len(q) = 1 /\ q[1] = r
    OBVIOUS
<1>5. Joins(rs, said, q)
    OBVIOUS
<1>6. Len(said) \in Nat
    BY <1>1
<1> HIDE DEF q, T
<1>7. /\ rs \in Seq(T) /\ Len(rs) = Len(said) + Len(q)
      /\ \A i \in 1 .. Len(q) : rs[Len(said) + i] = q[i]
    BY SMTT(60), <1>2, <1>3, <1>5, JoinsAre
<1> QED
    BY <1>4, <1>6, <1>7

LEMMA StatusLast ==
    ASSUME Stamps, runs' = runs, NEW n, NEW x, NEW of, NEW ok, NEW said, AtMostOne(said), NEW ip, NEW port,
           NEW rs, EndsOpen(rs, said, ip, port), Report(n, x, rs, of, ok)
    PROVE  LastOpen(log', runs, ip, port)
<1> DEFINE r == O!Status("open", ip, 17, port)
<1>1. Joins(rs, said, <<r>>)
    BY DEF EndsOpen, Joins
<1>2. \A at : /\ Stamped(r, at).kind = "status" /\ Stamped(r, at).ip = ip
              /\ Stamped(r, at).proto = 17 /\ Stamped(r, at).port = port
    BY StampedStatus
<1> HIDE DEF r
<1>3. PICK R : rs \in Seq(R) /\ Len(rs) \in Nat \ {0} /\ rs[Len(rs)] = r
    BY <1>1, EndIs
<1>4. rs \in Seq(R)
    BY <1>3
<1>5. /\ Grown(log, log') /\ Len(log') = Len(log) + Len(rs)
      /\ \A i \in 1 .. Len(rs) : SaidOf(log'[Len(log) + i], n, rs[i], of)
    BY SMTT(60), <1>4, ReportGrows
<1> DEFINE m == Len(rs)
           k == Len(log')
           e == log'[k]
<1>6. m \in Nat \ {0} /\ rs[m] = r /\ k = Len(log) + m
    BY <1>3, <1>5
<1>7. Len(log) \in Nat /\ k \in Nat /\ DOMAIN log' = 1 .. k
    BY <1>5 DEF Grown
<1>8. \A i \in 1 .. m : SaidOf(log'[Len(log) + i], n, rs[i], of)
    BY <1>5
<1> HIDE DEF m, k
<1>9. k \in DOMAIN log'
    BY <1>6, <1>7
<1>10. SaidOf(e, n, r, of)
    <2>1. m \in 1 .. m
        BY <1>6
    <2> QED
        BY <1>6, <1>8, <2>1
<1>11. PICK at : e.r = Stamped(r, at) /\ e.run = runs
    BY <1>10, SaidIs DEF SaidOf
<1>12. Len(log') \in DOMAIN log' /\ log'[Len(log')] = e
    BY <1>9 DEF k
<1> HIDE DEF e
<1> QED
    BY <1>2, <1>11, <1>12 DEF LastOpen

LEMMA UdpDatagrams ==
    ASSUME XorOfWords, WireInv, Stamps, NEW n \in 1 .. conf.nics, RxUdp(n)
    PROVE  Further /\ NewToo
<1>1. PICK f \in Arriving, ok \in Opens :
       LET s == F!preprocess_frame(f.frame)
           d == [px |-> f.frame.px, at |-> s.at, n |-> s.app, sport |-> s.sport,
                 cookie |-> SynCookie(s.them, s.sport + Templ_UDP, s.me, s.dport), crc |-> f.frame.more.crc]
       IN /\ Parsed(n, f.frame, s) /\ s.found \in {"udp", "dns"}
          /\ IF is_nic_port(s.dport)
             THEN \E out \in D!handle_udp(d) :
                     Report(n, nics[n],
                            [i \in 1..Len(out.banners) |-> O!Banner(out.banners[i].app, s.them, 17, s.sport, out.banners[i].length)]
                            \o (IF out.counted THEN <<O!Status("open", s.them, 17, s.sport)>> ELSE <<>>), Flow(s), ok)
             ELSE UNCHANGED <<nics, fs, log, global, stage>>
          /\ Noted(f, TRUE)
    BY DEF RxUdp
<1> DEFINE s == F!preprocess_frame(f.frame)
           d == [px |-> f.frame.px, at |-> s.at, n |-> s.app, sport |-> s.sport,
                 cookie |-> SynCookie(s.them, s.sport + Templ_UDP, s.me, s.dport), crc |-> f.frame.more.crc]
           of == Flow(s)
           Says(out) == [i \in 1..Len(out.banners) |->
                            O!Banner(out.banners[i].app, s.them, 17, s.sport, out.banners[i].length)]
           Counts2(out) == IF out.counted THEN <<O!Status("open", s.them, 17, s.sport)>> ELSE <<>>
<1>2. Parsed(n, f.frame, s) /\ s.found \in {"udp", "dns"} /\ Noted(f, TRUE)
    BY <1>1
<1>3. runs' = runs
    BY <1>2, NotedIs
<1>4. /\ \/ \E p, kind : /\ \E t \in conf.targets, m \in 1 .. conf.nics : p = Probe(t, conf.src[m])
                         /\ kind \in Kinds(p.k) /\ AnswersTo(f, p, kind) /\ Echoes(p, kind, f.frame, s)
         \/ \E x \in conf.strays : f = Unasked(x) /\ Intrudes(x, f.frame, s)
      /\ Read(f.frame, s)
    BY <1>2, FrameFrom
<1>5. d = DatagramOf(f.frame, s)
    BY DEF DatagramOf
<1>6. ASSUME is_nic_port(s.dport)
      PROVE  \E out \in D!handle_udp(d) : Report(n, nics[n], Says(out) \o Counts2(out), of, ok)
    BY Zenon, <1>1, <1>6
<1>7. \A out \in D!handle_udp(d) : AtMostOne(Says(out)) /\ AtMostOne(Counts2(out))
    <2>1. SUFFICES ASSUME NEW out \in D!handle_udp(d) PROVE AtMostOne(Says(out)) /\ AtMostOne(Counts2(out))
        OBVIOUS
    <2> DEFINE them == s.them
               port == s.sport
               said == [i \in 1..Len(out.banners) |-> O!Banner(out.banners[i].app, them, 17, port, out.banners[i].length)]
    <2>2. Few(out)
        BY DatagramFew
    <2>3. AtMostOne(Counts2(out))
        BY DEF AtMostOne
    <2> HIDE DEF d, s, them, port
    <2>4. AtMostOne(said)
        <3>1. CASE out.banners = <<>>
            <4>1. said = <<>>
                BY <3>1
            <4> QED
                BY <4>1 DEF AtMostOne
        <3>2. CASE \E b : out.banners = <<b>>
            <4>1. PICK b : out.banners = <<b>>
                BY <3>2
            <4>2. said = <<O!Banner(b.app, them, 17, port, b.length)>>
                BY <4>1
            <4> QED
                BY <4>2 DEF AtMostOne
        <3> QED
            BY <2>2, <3>1, <3>2 DEF Few
    <2> QED
        BY <2>3, <2>4 DEF them, port
<1> HIDE DEF s, d, of, Says, Counts2
<1>8. Further
    <2>1. CASE is_nic_port(s.dport)
        <3>1. PICK out \in D!handle_udp(d) : Report(n, nics[n], Says(out) \o Counts2(out), of, ok)
            BY <1>6, <2>1
        <3> DEFINE said == Says(out)
                   open == Counts2(out)
                   rs == said \o open
        <3>2. AtMostOne(said) /\ AtMostOne(open) /\ Report(n, nics[n], rs, of, ok)
            BY <1>7, <3>1
        <3> HIDE DEF said, open
        <3>3. \E R : rs \in Seq(R)
            BY <3>2, AtMostOneIs
        <3> HIDE DEF rs
        <3> QED
            BY SMTT(60), <1>3, <3>2, <3>3, ReportGoesOn
    <2>2. CASE ~ is_nic_port(s.dport)
        BY <1>1, <2>2 DEF Further, s
    <2> QED
        BY <2>1, <2>2
<1>9. NewToo
    <2>1. CASE \E x \in conf.strays : f = Unasked(x)
        <3>1. arrived' = arrived
            BY <1>2, <2>1, UnaskedNoted
        <3> QED
            BY <3>1 DEF NewToo
    <2>2. ASSUME NEW p, NEW kind, NEW t \in conf.targets, NEW m \in 1 .. conf.nics, p = Probe(t, conf.src[m]),
                 AnswersTo(f, p, kind), Echoes(p, kind, f.frame, s)
          PROVE  NewToo
        <3>1. PICK a : arrived' = arrived \cup {a} /\ Tells(a, p, kind, runs)
            BY <1>2, <2>2, AnswerNoted, ArrivalIs
        <3>2. p.k = "udp"
            BY <1>2, <2>2 DEF Echoes
        <3>3. CASE kind # "open"
            BY <3>1, <3>3 DEF NewToo, Datagram, Tells
        <3>4. CASE kind = "open"
            <4>1. /\ s.them = p.them /\ s.sport = p.port /\ s.dport = p.mine
                BY <2>2, <3>2, <3>4 DEF Echoes, Ports
            <4>2. is_nic_port(s.dport)
                <5>1. Sensible(conf)
                    BY DEF WireInv
                <5>2. p.mine = conf.src[m].port
                    BY <2>2, <3>2, <5>1, ProbeCarries
                <5> QED
                    BY <4>1, <5>2 DEF is_nic_port, is_my_port
            <4>3. PICK out \in D!handle_udp(d) : Report(n, nics[n], Says(out) \o Counts2(out), of, ok)
                BY <1>6, <4>2
            <4>4. out.counted
                <5>1. Sensible(conf)
                    BY DEF WireInv
                <5>2. f.frame = Reply(conf.link, p.pkt, p.k, "open")
                    BY <2>2, <3>4 DEF AnswersTo, Answer
                <5> QED
                    BY SMTT(60), <1>4, <1>5, <2>2, <3>2, <4>3, <5>1, <5>2, AnswerIsCounted
            <4> DEFINE said == Says(out)
                       rs == said \o Counts2(out)
            <4>5. EndsOpen(rs, said, s.them, s.sport) /\ AtMostOne(said)
                BY <1>7, <4>4 DEF Counts2, EndsOpen
            <4>6. Report(n, nics[n], rs, of, ok)
                BY <4>3
            <4> DEFINE ip == s.them
                       port == s.sport
            <4> HIDE DEF said, rs, ip, port
            <4>7. EndsOpen(rs, said, ip, port) /\ AtMostOne(said)
                BY <4>5 DEF ip, port
            <4>8. LastOpen(log', runs, ip, port)
                BY SMTT(60), <1>3, <4>6, <4>7, StatusLast
            <4>9. ip = a.them /\ port = a.port /\ a.run = runs
                BY <3>1, <4>1 DEF ip, port, Tells
            <4>10. Protocol(a.k) = 17
                BY <3>1, <3>2 DEF Tells, Protocol
            <4>11. Len(log') \in Records(a)'
                BY <4>8, <4>9, <4>10 DEF Records, LastOpen
            <4>12. Records(a)' # {}
                BY <4>11
            <4>13. \A x \in arrived' : x \in arrived \/ x = a
                BY <3>1
            <4> QED
                BY <4>12, <4>13 DEF NewToo
        <3> QED
            BY <3>3, <3>4
    <2> QED
        BY <1>4, <2>1, <2>2
<1> QED
    BY <1>8, <1>9

LEMMA DatagramsStep ==
    ASSUME XorOfWords, WireInv, TellInv, DatagramsCounted, [Next]_vars
    PROVE  DatagramsCounted'
<1>1. Stamps
    BY DEF TellInv
<1>2. Further /\ NewToo
    BY <1>1, RestDatagrams, ArpDatagrams, UdpDatagrams, IcmpDatagrams, TcpDatagrams DEF Next
<1> QED
    BY <1>2, DatagramsStill

(* Every datagram that answers a probe is reported, in the protocol of the  *)
(* port: it is read as what was sent, and handle_dns, handle_nbtstat and    *)
(* handle_snmp find the cookie of the probe in it (the SNMP number without  *)
(* its sign bit), while the others report the port whatever it says.        *)
THEOREM DatagramsAreCounted == ASSUME XorOfWords, RstIndexInRange PROVE Spec => []DatagramsCounted
<1>1. Init => DatagramsCounted
    BY DEF Init, DatagramsCounted
<1>2. WireInv /\ TellInv /\ DatagramsCounted /\ [Next]_vars => DatagramsCounted'
    BY DatagramsStep
<1>3. Spec => []WireInv
    BY WireAlways
<1>4. Spec => []TellInv
    BY TellAlways
<1> QED
    BY <1>1, <1>2, <1>3, <1>4, PTL DEF Spec
=============================================================================
