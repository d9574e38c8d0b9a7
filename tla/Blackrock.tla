----------------------------- MODULE Blackrock -----------------------------
(***************************************************************************)
(* The shuffle of rand-blackrock.c: a Feistel network over the pairs (L,R) *)
(* with L < a and R < b, walked until it lands inside 0 .. range-1.        *)
(*                                                                         *)
(* READ, the mixing function, may be any function of the round, the half   *)
(* and the seed; an arbitrary one stands for the program's s-boxes.  The   *)
(* sum L + READ is taken to fit its 64 bits.                               *)
(***************************************************************************)
EXTENDS Integers

CONSTANT Rounds                     \* masscan->blackrock_rounds

ASSUME BlackrockAssumption == Rounds \in Nat

READ(j, half, seed) == 7 * half * half + 3 * j * half + 5 * seed * (half + j) + j

\* The integer square root; the code takes the one of a double.
Isqrt(n) == CHOOSE k \in 0 .. n : k * k <= n /\ n < (k + 1) * (k + 1)

\* The second side grows until the pairs are more than the range.
GrowB(a, b, range) ==
    CHOOSE c \in b .. (b + range) : a * c > range /\ \A d \in b .. (c - 1) : a * d <= range

\* blackrock_init.  Small ranges have sides of their own.
New(range, seed) ==
    LET sides == CASE range = 1 -> <<1, 1>>
                   [] range = 2 -> <<1, 2>>
                   [] range = 3 -> <<2, 2>>
                   [] range \in 4 .. 6 -> <<2, 3>>
                   [] range \in 7 .. 8 -> <<3, 3>>
                   [] range > 8 -> <<Isqrt(range) - 2, Isqrt(range) + 3>>
    IN  [range |-> range, seed |-> seed,
         a |-> sides[1], b |-> GrowB(sides[1], sides[2], range)]

Side(br, j) == IF j % 2 = 1 THEN br.a ELSE br.b

\* A round of ENCRYPT: (L,R) becomes (R, L + READ(R)), modulo a and b in turn.
Round(br, j, h) == <<h[2], (h[1] + READ(j, h[2], br.seed)) % Side(br, j)>>

\* A round of UNENCRYPT: subtraction modulo the side.
Unround(br, j, h) ==
    LET f == READ(j, h[1], br.seed)
        s == Side(br, j)
    IN  <<IF f > h[2] THEN (s - ((f - h[2]) % s)) % s ELSE (h[2] - f) % s, h[1]>>

\* What n steps, of which F[<<j, v>>] is the j-th, make of x one after the other.
Iterate(n, x, F) ==
    LET v[j \in 0 .. n] == IF j = 0 THEN x ELSE F[<<j, v[j - 1]>>]
    IN  v

\* The pairs after every round, from the first to the last and backwards.
Halves == Nat \X Nat
Encrypting(br, h) ==
    Iterate(Rounds, h, [p \in (1 .. Rounds) \X Halves |-> Round(br, p[1], p[2])])
Decrypting(br, h) ==
    Iterate(Rounds, h,
            [p \in (1 .. Rounds) \X Halves |-> Unround(br, Rounds + 1 - p[1], p[2])])

\* Numbers below a * b as pairs, and back.  After an odd number of rounds the
\* halves have changed sides.
Split(br, m) == <<m % br.a, m \div br.a>>
Join(br, h) == br.a * h[2] + h[1]
Swap(h) == <<h[2], h[1]>>
Turned(h) == IF Rounds % 2 = 1 THEN Swap(h) ELSE h

ENCRYPT(br, m) == Join(br, Turned(Encrypting(br, Split(br, m))[Rounds]))
UNENCRYPT(br, m) == Join(br, Decrypting(br, Turned(Split(br, m)))[Rounds])

\* blackrock_shuffle and blackrock_unshuffle walk until they are in range: the
\* walks, for which there are no more numbers than pairs, and where they first
\* are in range.
ShuffleWalk(br, m) ==
    LET ab == br.a * br.b
    IN  Iterate(ab, m, [p \in (1 .. ab) \X (0 .. (ab - 1)) |-> ENCRYPT(br, p[2])])
UnshuffleWalk(br, m) ==
    LET ab == br.a * br.b
    IN  Iterate(ab, m, [p \in (1 .. ab) \X (0 .. (ab - 1)) |-> UNENCRYPT(br, p[2])])
FirstInRange(br, c) ==
    CHOOSE n \in 1 .. br.a * br.b :
        c[n] < br.range /\ \A k \in 1 .. (n - 1) : c[k] >= br.range

\* Fault: what falls outside is folded back instead of encrypted again.
Shuffle_Folded(br, m) == ENCRYPT(br, m) % br.range

Shuffle(br, m) == LET c == ShuffleWalk(br, m) IN c[FirstInRange(br, c)]
Unshuffle(br, m) == LET c == UnshuffleWalk(br, m) IN c[FirstInRange(br, c)]
=============================================================================
