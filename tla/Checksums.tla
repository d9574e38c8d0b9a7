------------------------------ MODULE Checksums ------------------------------
(* The one's complement sums of templ-pkt.c.  A header is a sequence of     *)
(* 16-bit words and a 32-bit number is a pair <<high word, low word>>: the   *)
(* code adds addresses and sequence numbers as they are and folds the sum   *)
(* afterwards, which leaves the same thing as adding their two words.       *)
EXTENDS Integers, Sequences

W == 65536
\* The sums of the first words, none to all.
Sums(words) ==
    LET sum[i \in 0..Len(words)] == IF i = 0 THEN 0 ELSE sum[i-1] + words[i] IN sum
SumOf(words) == Sums(words)[Len(words)]

\* xsum = (xsum & 0xFFFF) + (xsum >> 16)
Fold(x) == (x % W) + (x \div W)
Folded(x) == Fold(Fold(Fold(x)))
\* ~xsum, stored into two bytes
Complement(x) == (W - 1) - (x % W)

\* A sum of 32-bit numbers and words, folded once.
FoldWide(wide, words) ==
    LET high == SumOf([i \in 1..Len(wide) |-> wide[i][1]])
        low == SumOf([i \in 1..Len(wide) |-> wide[i][2]]) + SumOf(words)
    IN high + (low \div W) + (low % W)

\* Pairs of bytes; the byte past the end of an odd number of them is added
\* and taken away again.
WordsOf(bytes) ==
    [i \in 1..((Len(bytes) + 1) \div 2) |->
        256 * bytes[2*i - 1] + (IF 2*i <= Len(bytes) THEN bytes[2*i] ELSE 0)]

ip_header_checksum(ip) == Folded(SumOf(ip))
\* With the pseudo header: protocol, length and both addresses.
PseudoSum(proto, ip, words, length) ==
    proto + length + ip[7] + ip[8] + ip[9] + ip[10] + SumOf(words)
\* Fault: UDP's number in the pseudo header.
tcp_checksum2_Udp(ip, words, length) == Folded(PseudoSum(17, ip, words, length))
tcp_checksum2(ip, words, length) == Folded(PseudoSum(6, ip, words, length))
udp_checksum2(ip, words, length) == Folded(PseudoSum(17, ip, words, length))
icmp_checksum2(words) == Folded(SumOf(words))

(* What the other side does: the sum with the checksum in it is all ones.   *)
Verifies(sum) == sum % (W - 1) = 0 /\ sum # 0
=============================================================================
