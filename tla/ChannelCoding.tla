----------------------------- MODULE ChannelCoding -----------------------------
(***************************************************************************)
(* LowerMacCoding (lower_mac_coding.hpp).  Bits are sequences; an index i  *)
(* of the code is the place i + 1 of a sequence.  The Viterbi decoder is a *)
(* library's and is not here.                                              *)
(***************************************************************************)
EXTENDS Integers, Sequences, FiniteSets

Parity(bits, places) == Cardinality({p \in places : bits[p] = 1}) % 2

\* The places of the scrambling register that are fed back.
poly == {32, 26, 23, 22, 16, 12, 11, 10, 8, 7, 5, 4, 2, 1}

\* The first n bits that a scrambling code, a sequence of 32 bits with the most
\* significant first, yields: the register holds the last of them and, behind
\* them, what is left of the code.
ScramblingTable(code, n) ==
    LET table[i \in 0 .. n] ==
            IF i = 0 THEN <<>>
            ELSE LET before == table[i - 1]
                     lfsr(place) == IF place < i THEN before[i - place] ELSE code[place - i + 1]
                 IN Append(before, Cardinality({place \in poly : lfsr(place) = 1}) % 2)
    IN table[n]

descramble(input, code) ==
    LET table == ScramblingTable(code, Len(input))
    IN [i \in DOMAIN input |-> (input[i] + table[i]) % 2]

Deinterleaved_FromZero(i, size, a) == (a * i) % size

\* deinterleave: the index that bit i of the output is read from.
Deinterleaved(i, size, a) == (a * (i + 1)) % size

\* depuncture23: the index in the mother code that bit i goes to.
Depunctured(i) == 8 * (i \div 3) + <<1, 2, 5>>[(i % 3) + 1] - 1

-----------------------------------------------------------------------------
(* reed_muller_3014_decode: each bit is voted on by its own value and four *)
(* parities of the check bits, which are numbered from 1 at place 15.      *)

ChecksOfFirst ==
    << <<{3,5,6,7,11}, {1,2,5,6,8,9}, {2,3,4,5,9,10}, {1,4,5,7,8,10,11}>>,
       <<{1,4,5,9,11}, {1,2,5,6,7,10}, {2,3,4,5,7,8}, {3,5,6,8,9,10,11}>>,
       <<{2,5,8,10,11}, {1,3,5,7,9,10}, {4,5,6,7,8,9}, {1,2,3,4,5,6,11}>>,
       <<{7,8,9,12,13,14}, {1,2,3,11,12,13,14}, {2,4,6,8,10,11,12,13,14},
         {1,3,4,6,7,9,10,12,13,14}>>,
       <<{1,4,5,11,12,13,15}, {3,5,6,8,10,11,12,13,15}, {1,2,5,6,7,9,10,12,13,15},
         {2,3,4,5,7,8,9,12,13,15}>>,
       <<{7,9,10,12,14,15}, {2,4,6,11,12,14,15}, {1,2,3,8,10,11,12,14,15},
         {1,3,4,6,7,8,9,12,14,15}>>,
       <<{3,5,6,11,13,14,15}, {1,4,5,8,10,11,13,14,15}, {1,2,5,6,7,8,9,13,14,15},
         {2,3,4,5,7,9,10,13,14,15}>> >>

ChecksOfLast ==
    << <<{2,5,7,9,12,13,14,15,16}, {1,3,5,8,11,12,13,14,15,16}, {4,5,6,10,11,12,13,14,15,16},
         {1,2,3,4,5,6,7,8,9,10,12,13,14,15,16}>>,
       <<{2,3,9,12,13,16}, {1,7,8,11,12,13,16}, {3,4,6,7,10,11,12,13,16},
         {1,2,4,6,8,9,10,12,13,16}>>,
       <<{1,3,8,12,14,16}, {4,6,10,12,14,16}, {2,7,9,11,12,14,16},
         {1,2,3,4,6,7,8,9,10,11,12,14,16}>>,
       <<{1,2,7,13,14,16}, {3,8,9,11,13,14,16}, {1,4,6,9,10,11,13,14,16},
         {2,3,4,6,7,8,10,13,14,16}>>,
       <<{2,6,9,12,15,16}, {4,7,10,11,12,15,16}, {1,3,6,7,8,11,12,15,16},
         {1,2,3,4,8,9,10,12,15,16}>>,
       <<{5,8,10,11,13,15,16}, {1,3,4,5,6,11,13,15,16}, {1,2,3,5,7,9,10,13,15,16},
         {2,4,5,6,7,8,9,13,15,16}>>,
       <<{2,4,7,14,15,16}, {6,9,10,11,14,15,16}, {1,3,4,8,9,11,14,15,16},
         {1,2,3,6,7,8,10,14,15,16}>> >>

Checks == ChecksOfFirst \o ChecksOfLast

reed_muller_3014_decode(input) ==
    LET check == SubSeq(input, 15, 30)    \* the code's input[13 + n] is check[n]
        Votes(i) == input[i] + Parity(check, Checks[i][1]) + Parity(check, Checks[i][2])
                             + Parity(check, Checks[i][3]) + Parity(check, Checks[i][4])
    IN [i \in 1 .. 14 |-> IF Votes(i) >= 3 THEN 1 ELSE 0]

-----------------------------------------------------------------------------
(* check_crc_16_ccitt.                                                     *)

CrcPolynomial == <<0,0,0,1, 0,0,0,0, 0,0,1,0, 0,0,0,1>>    \* 0x1021
CrcRemainder  == <<0,0,0,1, 1,1,0,1, 0,0,0,0, 1,1,1,1>>    \* 0x1D0F

CrcStep(crc, bit) ==
    LET shifted == Append(Tail(crc), 0)
    IN IF crc[1] = bit THEN shifted
       ELSE [j \in 1 .. 16 |-> (shifted[j] + CrcPolynomial[j]) % 2]

\* The register after a few bits, and after all of them in turn; a set of one
\* register makes TLC evaluate it before it goes on.
CrcOfWord(first, word) ==
    LET crc[i \in 0 .. Len(word)] ==
            IF i = 0 THEN first ELSE CrcStep(crc[i - 1], word[i])
    IN crc[Len(word)]

Crc(bits) ==
    LET Word(k) == SubSeq(bits, 16 * k + 1, IF Len(bits) < 16 * k + 16 THEN Len(bits) ELSE 16 * k + 16)
        crc[k \in 0 .. (Len(bits) + 15) \div 16] ==
            IF k = 0 THEN [j \in 1 .. 16 |-> 1]
            ELSE CHOOSE after \in {CrcOfWord(before, Word(k - 1)) : before \in {crc[k - 1]}} : TRUE
    IN crc[(Len(bits) + 15) \div 16]

check_crc_16_ccitt(bits) == Crc(bits) = CrcRemainder

=============================================================================
