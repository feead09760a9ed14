------------------------- MODULE BurstDecoding_proofs -------------------------
(***************************************************************************)
(* What is proved of BurstDecoding, for every network that is synchronised *)
(* to, every burst and all that its blocks can hold: a block that comes    *)
(* undamaged passes its CRC and is the one of its slot, and whether a      *)
(* downlink burst carries traffic is decided as it was sent; so is whether *)
(* the second half of a stolen slot is signalling; the parser stays within *)
(* the slots that the burst has; and what it makes of an undamaged block   *)
(* are the PDUs that were sent, but for fill bits.                         *)
(*                                                                         *)
(* The CRC is a register that is fed bit by bit.  Fed with its own         *)
(* complement it forgets what was in it, because it is linear: what is     *)
(* left is the constant that the code compares with.  Of the coded bits of *)
(* a block at most one is read in a wrong place, which the code corrects.  *)
(*                                                                         *)
(* The access assignment is scrambled twice with the same bits, so that an *)
(* error in it stays where it is; one wrong bit of its code word spoils at *)
(* most two of the five votes on each bit that the usage is made of.       *)
(*                                                                         *)
(* A PDU is a layout of fields that is read one by one, each shortening    *)
(* what is left, and a TM-SDU behind it: what the parser has left of a     *)
(* slot never grows.  Read from where it was written, a layout gives what  *)
(* was written; a TM-SDU begins behind it and differs from the one sent by *)
(* fill bits, which the last one of the block tells; so that the next PDU  *)
(* is read from where it was sent, too.                                    *)
(***************************************************************************)
EXTENDS BurstDecoding, SequenceTheorems, FiniteSetTheorems, WellFoundedInduction, TLAPS

\* Induction, as a fact about sets of numbers.
LEMMA LeastNumber ==
  ASSUME NEW S, S \subseteq Nat, S # {}
  PROVE  \E m \in S : \A k \in S : m <= k
<1>1. PICK m \in S : \A k \in S : ~(<<k, m>> \in OpToRel(<, Nat))
  BY NatLessThanWellFounded, WFMin
<1>2. \A k \in S : ~(k < m)
  BY <1>1 DEF OpToRel
<1>. QED
  BY <1>2

-----------------------------------------------------------------------------
(* The CRC register, bit by bit.                                           *)

Bit == {0, 1}
Register == [1 .. 16 -> Bit]
Ones == [j \in 1 .. 16 |-> 1]

\* The function in CrcOfWord.
Runs(crc, first, word) ==
    crc = [i \in 0 .. Len(word) |-> IF i = 0 THEN first ELSE CrcStep(crc[i - 1], word[i])]

\* A function on 1 .. n is a sequence of that length.
LEMMA WordsOf ==
  ASSUME NEW S, NEW n \in Nat, NEW s \in [1 .. n -> S]
  PROVE  s \in Seq(S) /\ Len(s) = n
<1>1. s \in Seq(S)
  BY SeqDef
<1>2. DOMAIN s = 1 .. n /\ DOMAIN s = 1 .. Len(s) /\ Len(s) \in Nat
  BY <1>1, LenProperties
<1>. QED
  BY <1>1, <1>2

\* The elements of a sequence with one more.
LEMMA AppendValues ==
  ASSUME NEW S, NEW s \in Seq(S), NEW e \in S
  PROVE  /\ Append(s, e) \in Seq(S) /\ Len(Append(s, e)) = Len(s) + 1
         /\ \A j \in 1 .. Len(s) : Append(s, e)[j] = s[j]
         /\ Append(s, e)[Len(s) + 1] = e
BY AppendProperties

\* The elements of a sequence that is shifted, which CrcStep does.
LEMMA Shift ==
  ASSUME NEW S, NEW s \in Seq(S), s # <<>>, NEW e \in S
  PROVE  /\ Append(Tail(s), e) \in Seq(S) /\ Len(Append(Tail(s), e)) = Len(s)
         /\ \A j \in 1 .. Len(s) :
               Append(Tail(s), e)[j] = IF j < Len(s) THEN s[j + 1] ELSE e
<1>1. /\ Tail(s) \in Seq(S) /\ Len(Tail(s)) = Len(s) - 1
      /\ \A j \in 1 .. Len(Tail(s)) : Tail(s)[j] = s[j + 1]
  BY HeadTailProperties
<1>. DEFINE rest == Tail(s)
<1>2. /\ Append(rest, e) \in Seq(S) /\ Len(Append(rest, e)) = Len(rest) + 1
      /\ \A j \in 1 .. Len(rest) : Append(rest, e)[j] = rest[j]
      /\ Append(rest, e)[Len(rest) + 1] = e
  BY <1>1, AppendValues
<1>3. Len(s) \in Nat /\ Len(rest) = Len(s) - 1
  BY <1>1
<1>. DEFINE moved == Append(rest, e)
<1>4. /\ moved \in Seq(S) /\ Len(moved) = Len(s)
      /\ \A j \in 1 .. Len(s) : moved[j] = IF j < Len(s) THEN s[j + 1] ELSE e
  <2>1. \A j \in 1 .. Len(rest) : rest[j] = s[j + 1]
    BY <1>1
  <2>. HIDE DEF rest
  <2>2. /\ moved \in Seq(S) /\ Len(moved) = Len(rest) + 1
        /\ \A j \in 1 .. Len(rest) : moved[j] = rest[j]
        /\ moved[Len(rest) + 1] = e
    BY <1>2
  <2>. HIDE DEF moved
  <2>. QED
    BY <1>3, <2>1, <2>2
<1>. QED
  BY <1>4

\* One step of the register, place by place.
LEMMA StepValue ==
  ASSUME NEW crc \in Register, NEW bit \in Bit
  PROVE  /\ CrcStep(crc, bit) \in Register
         /\ CrcStep(crc, bit) =
              [j \in 1 .. 16 |-> ((IF j < 16 THEN crc[j + 1] ELSE 0)
                                  + (IF crc[1] = bit THEN 0 ELSE CrcPolynomial[j])) % 2]
<1>. DEFINE shifted == Append(Tail(crc), 0)
            moved == [j \in 1 .. 16 |-> IF j < 16 THEN crc[j + 1] ELSE 0]
<1>1. crc \in Seq(Bit) /\ Len(crc) = 16
  BY WordsOf DEF Register
<1>2. crc # <<>> /\ 0 \in Bit
  <2>1. Len(<<>>) = 0
    BY EmptySeq
  <2>2. crc # <<>>
    BY <1>1, <2>1
  <2>. QED
    BY <2>2 DEF Bit
<1>3. /\ shifted \in Seq(Bit) /\ Len(shifted) = 16
      /\ \A j \in 1 .. 16 : shifted[j] = IF j < 16 THEN crc[j + 1] ELSE 0
  <2>1. /\ shifted \in Seq(Bit) /\ Len(shifted) = Len(crc)
        /\ \A j \in 1 .. Len(crc) : shifted[j] = IF j < Len(crc) THEN crc[j + 1] ELSE 0
    BY <1>1, <1>2, Shift
  <2>. HIDE DEF shifted
  <2>. QED
    BY <1>1, <2>1
<1>4. shifted = moved
  <2>1. DOMAIN shifted = 1 .. 16 /\ shifted = [j \in DOMAIN shifted |-> shifted[j]]
    BY <1>3, LenProperties
  <2>. HIDE DEF shifted
  <2>. QED
    BY <2>1, <1>3
<1>5. \A j \in 1 .. 16 : moved[j] \in Bit
  BY <1>1 DEF Bit, Register
<1>6. \A j \in 1 .. 16 : CrcPolynomial[j] \in Bit
  BY DEF CrcPolynomial, Bit
<1>7. CrcStep(crc, bit) = [j \in 1 .. 16 |-> (moved[j] + (IF crc[1] = bit THEN 0 ELSE CrcPolynomial[j])) % 2]
  <2>1. CASE crc[1] = bit
    <3>1. \A j \in 1 .. 16 : moved[j] = (moved[j] + 0) % 2
      BY <1>5 DEF Bit
    <3>. QED
      BY <2>1, <3>1, <1>4 DEF CrcStep
  <2>2. CASE crc[1] # bit
    BY <2>2, <1>4 DEF CrcStep
  <2>. QED
    BY <2>1, <2>2
<1>8. \A j \in 1 .. 16 : (moved[j] + (IF crc[1] = bit THEN 0 ELSE CrcPolynomial[j])) % 2 \in Bit
  BY <1>5, <1>6 DEF Bit
<1>. QED
  BY <1>7, <1>8 DEF Register

\* A run starts with the first register and goes on with a step for each bit.
LEMMA RunValues ==
  ASSUME NEW crc, NEW first, NEW word, Runs(crc, first, word), Len(word) \in Nat
  PROVE  /\ crc[0] = first
         /\ \A i \in 1 .. Len(word) : crc[i] = CrcStep(crc[i - 1], word[i])
<1>. DEFINE n == Len(word)
            Value(i) == IF i = 0 THEN first ELSE CrcStep(crc[i - 1], word[i])
<1>1. crc = [i \in 0 .. n |-> Value(i)] /\ n \in Nat
  BY DEF Runs
<1>. HIDE DEF Value, n
<1>2. \A i \in 0 .. n : crc[i] = Value(i)
  BY <1>1
<1>3. 0 \in 0 .. n /\ \A i \in 1 .. n : i \in 0 .. n /\ i # 0
  BY <1>1
<1>. QED
  BY <1>2, <1>3 DEF Value, n

\* Every register of a run is a register of 16 bits.
LEMMA RunStays ==
  ASSUME NEW first \in Register, NEW word \in Seq(Bit), NEW crc, Runs(crc, first, word),
         NEW i \in 0 .. Len(word)
  PROVE  crc[i] \in Register
<1>. DEFINE Outside == {k \in 0 .. Len(word) : crc[k] \notin Register}
<1>1. SUFFICES ASSUME Outside # {} PROVE FALSE
  OBVIOUS
<1>2. PICK m \in Outside : \A k \in Outside : m <= k
  <2>1. Outside \subseteq Nat
    OBVIOUS
  <2>. HIDE DEF Outside
  <2>. QED
    BY <2>1, <1>1, LeastNumber
<1>3. /\ crc[0] = first
      /\ \A k \in 1 .. Len(word) : crc[k] = CrcStep(crc[k - 1], word[k])
  BY RunValues
<1>4. m \in 1 .. Len(word) /\ m - 1 \in 0 .. Len(word)
  BY <1>2, <1>3
<1>5. crc[m - 1] \in Register /\ word[m] \in Bit
  BY <1>2, <1>4
<1>6. CrcStep(crc[m - 1], word[m]) \in Register
  BY <1>5, StepValue
<1>. QED
  BY <1>2, <1>3, <1>4, <1>6

\* Every word has a run, whatever register it starts with.
LEMMA RunExists ==
  ASSUME NEW first, NEW word, Len(word) \in Nat
  PROVE  \E crc : Runs(crc, first, word)
<1>. DEFINE n == Len(word)
            RunsTo(crc, m) == crc = [i \in 0 .. m |-> IF i = 0 THEN first ELSE CrcStep(crc[i - 1], word[i])]
            Without == {m \in 0 .. n : ~ \E crc : RunsTo(crc, m)}
<1>1. SUFFICES ASSUME Without # {} PROVE FALSE
  BY DEF Runs
<1>2. PICK m \in Without : \A k \in Without : m <= k
  <2>1. Without \subseteq Nat
    OBVIOUS
  <2>. HIDE DEF Without
  <2>. QED
    BY <2>1, <1>1, LeastNumber
<1>3. CASE m = 0
  <2>. DEFINE f == [i \in 0 .. 0 |-> first]
  <2>1. f = [i \in 0 .. 0 |-> IF i = 0 THEN first ELSE CrcStep(f[i - 1], word[i])]
    OBVIOUS
  <2>. QED
    BY <2>1, <1>2, <1>3
<1>4. CASE m # 0
  <2>1. m \in 1 .. n /\ m - 1 \in 0 .. n /\ ~(m <= m - 1)
    BY <1>2, <1>4
  <2>2. m - 1 \notin Without
    BY <2>1, <1>2
  <2>3. PICK g : RunsTo(g, m - 1)
    BY <2>1, <2>2
  <2>. DEFINE Value(i) == IF i = 0 THEN first ELSE CrcStep(g[i - 1], word[i])
              f == [i \in 0 .. m |-> Value(i)]
  <2>4. \A i \in 0 .. m - 1 : g[i] = f[i]
    <3>1. g = [i \in 0 .. m - 1 |-> Value(i)]
      BY <2>3
    <3>2. \A i \in 0 .. m - 1 : i \in 0 .. m
      BY <2>1
    <3>. HIDE DEF Value
    <3>. QED
      BY <3>1, <3>2
  <2>5. \A i \in 0 .. m : i # 0 => i - 1 \in 0 .. m - 1
    BY <2>1
  <2>6. f = [i \in 0 .. m |-> IF i = 0 THEN first ELSE CrcStep(f[i - 1], word[i])]
    <3>1. \A i \in 0 .. m : Value(i) = IF i = 0 THEN first ELSE CrcStep(f[i - 1], word[i])
      <4>. HIDE DEF f
      <4>. QED BY <2>4, <2>5
    <3>. HIDE DEF Value
    <3>. DEFINE Again(i) == IF i = 0 THEN first ELSE CrcStep(f[i - 1], word[i])
    <3>2. \A i \in 0 .. m : Value(i) = Again(i)
      BY <3>1
    <3>3. f = [i \in 0 .. m |-> Value(i)]
      OBVIOUS
    <3>. HIDE DEF f, Again
    <3>4. f = [i \in 0 .. m |-> Again(i)]
      BY <3>2, <3>3
    <3>. QED
      BY <3>4 DEF Again
  <2>7. RunsTo(f, m)
    BY <2>6
  <2>. HIDE DEF f
  <2>. QED
    BY <2>7, <1>2
<1>. QED
  BY <1>3, <1>4

\* The register that CrcOfWord gives is the last of such a run.
LEMMA WordRun ==
  ASSUME NEW first, NEW word, Len(word) \in Nat
  PROVE  \E crc : Runs(crc, first, word) /\ CrcOfWord(first, word) = crc[Len(word)]
<1>. DEFINE crc == CHOOSE crc : Runs(crc, first, word)
<1>1. Runs(crc, first, word)
  BY RunExists
<1>2. CrcOfWord(first, word) = crc[Len(word)]
  BY DEF CrcOfWord, Runs
<1>. QED
  BY <1>1, <1>2

\* Two runs agree as long as their words do.
LEMMA RunsAgree ==
  ASSUME NEW f, NEW g, NEW first, NEW v, NEW w, Runs(f, first, v), Runs(g, first, w),
         Len(v) \in Nat, Len(w) \in Nat, NEW n \in Nat, n <= Len(v), n <= Len(w),
         \A i \in 1 .. n : v[i] = w[i]
  PROVE  f[n] = g[n]
<1>. DEFINE Differ == {k \in 0 .. n : f[k] # g[k]}
<1>1. SUFFICES ASSUME Differ # {} PROVE FALSE
  OBVIOUS
<1>2. PICK m \in Differ : \A k \in Differ : m <= k
  <2>1. Differ \subseteq Nat
    OBVIOUS
  <2>. HIDE DEF Differ
  <2>. QED
    BY <2>1, <1>1, LeastNumber
<1>3. /\ f[0] = first /\ \A k \in 1 .. Len(v) : f[k] = CrcStep(f[k - 1], v[k])
      /\ g[0] = first /\ \A k \in 1 .. Len(w) : g[k] = CrcStep(g[k - 1], w[k])
  BY RunValues
<1>4. m \in 1 .. n /\ m - 1 \in 0 .. n
  BY <1>2, <1>3
<1>5. f[m - 1] = g[m - 1]
  BY <1>2, <1>4
<1>. QED
  BY <1>2, <1>3, <1>4, <1>5

\* What a run has got to after n bits.
LEMMA RunPrefix ==
  ASSUME NEW f, NEW first, NEW word \in Seq(Bit), Runs(f, first, word), NEW n \in 0 .. Len(word)
  PROVE  f[n] = CrcOfWord(first, SubSeq(word, 1, n))
<1>1. /\ Len(SubSeq(word, 1, n)) = n
      /\ \A i \in 1 .. n : SubSeq(word, 1, n)[i] = word[i]
      /\ Len(word) \in Nat /\ n \in Nat /\ n <= Len(word)
  OBVIOUS
<1>2. PICK g : Runs(g, first, SubSeq(word, 1, n)) /\ CrcOfWord(first, SubSeq(word, 1, n)) = g[n]
  BY <1>1, WordRun
<1>. DEFINE start == SubSeq(word, 1, n)
<1>3. Runs(g, first, start) /\ Len(start) = n /\ \A i \in 1 .. n : word[i] = start[i]
  BY <1>1, <1>2
<1>. HIDE DEF start
<1>4. f[n] = g[n]
  BY <1>1, <1>3, RunsAgree
<1>. QED
  BY <1>2, <1>4

\* What CrcOfWord gives is a register of 16 bits.
LEMMA WordType ==
  ASSUME NEW first \in Register, NEW word \in Seq(Bit)
  PROVE  CrcOfWord(first, word) \in Register
<1>1. Len(word) \in Nat
  OBVIOUS
<1>2. PICK f : Runs(f, first, word) /\ CrcOfWord(first, word) = f[Len(word)]
  BY <1>1, WordRun
<1>. QED
  BY <1>1, <1>2, RunStays

\* One word after another is their concatenation.
LEMMA WordAfterWord ==
  ASSUME NEW first, NEW v \in Seq(Bit), NEW w \in Seq(Bit)
  PROVE  CrcOfWord(first, v \o w) = CrcOfWord(CrcOfWord(first, v), w)
<1>. DEFINE all == v \o w
            n == Len(v)
            m == Len(w)
<1>1. /\ all \in Seq(Bit) /\ n \in Nat /\ m \in Nat /\ Len(all) = n + m
      /\ \A i \in 1 .. m : all[n + i] = w[i]
      /\ SubSeq(all, 1, n) = v
  BY ConcatProperties, SubSeqOfConcat1, SubSeqFull
<1>. HIDE DEF all, n, m
<1>2. PICK f : Runs(f, first, all) /\ CrcOfWord(first, all) = f[n + m]
  <2>1. Len(all) \in Nat
    BY <1>1
  <2>. QED
    BY <1>1, <2>1, WordRun
<1>3. PICK g : Runs(g, CrcOfWord(first, v), w) /\ CrcOfWord(CrcOfWord(first, v), w) = g[m]
  <2>1. Len(w) \in Nat /\ Len(w) = m
    BY DEF m
  <2>. QED
    BY <2>1, WordRun
<1>4. f[n] = CrcOfWord(first, v)
  <2>1. n \in 0 .. Len(all)
    BY <1>1
  <2>. QED
    BY <1>1, <1>2, <2>1, RunPrefix
<1>5. /\ \A i \in 1 .. n + m : f[i] = CrcStep(f[i - 1], all[i])
      /\ g[0] = f[n] /\ \A i \in 1 .. m : g[i] = CrcStep(g[i - 1], w[i])
  <2>1. Len(all) \in Nat /\ Len(w) \in Nat /\ Len(w) = m
    BY <1>1 DEF m
  <2>2. \A i \in 1 .. Len(all) : f[i] = CrcStep(f[i - 1], all[i])
    BY <1>2, <2>1, RunValues
  <2>3. g[0] = CrcOfWord(first, v) /\ \A i \in 1 .. Len(w) : g[i] = CrcStep(g[i - 1], w[i])
    BY <1>3, <2>1, RunValues
  <2>. QED
    BY <1>1, <1>4, <2>1, <2>2, <2>3
<1>. DEFINE Differ == {k \in 0 .. m : f[n + k] # g[k]}
<1>6. Differ = {}
  <2>1. SUFFICES ASSUME Differ # {} PROVE FALSE
    OBVIOUS
  <2>2. PICK k \in Differ : \A j \in Differ : k <= j
    <3>1. Differ \subseteq Nat
      OBVIOUS
    <3>. HIDE DEF Differ
    <3>. QED
      BY <3>1, <2>1, LeastNumber
  <2>3. k \in 1 .. m /\ k - 1 \in 0 .. m /\ n + k \in 1 .. n + m /\ (n + k) - 1 = n + (k - 1)
    BY <2>2, <1>1, <1>5
  <2>4. f[n + (k - 1)] = g[k - 1]
    BY <2>2, <2>3
  <2>. QED
    BY <1>1, <1>5, <2>2, <2>3, <2>4
<1>7. f[n + m] = g[m]
  BY <1>1, <1>6
<1>. QED
  BY <1>2, <1>3, <1>7 DEF all

\* No bits leave the register as it is.
LEMMA EmptyWord == ASSUME NEW first PROVE CrcOfWord(first, <<>>) = first
<1>1. PICK f : Runs(f, first, <<>>) /\ CrcOfWord(first, <<>>) = f[0]
  BY WordRun
<1>. QED
  BY <1>1, RunValues

-----------------------------------------------------------------------------
(* Crc takes the bits in words, which is the same.                         *)

\* The CRC of all bits is that of a run over them.
LEMMA CrcIsBitwise ==
  ASSUME NEW bits \in Seq(Bit)
  PROVE  Crc(bits) = CrcOfWord(Ones, bits)
<1>. DEFINE n == Len(bits)
            K == (n + 15) \div 16
            End(k) == IF n < 16 * k + 16 THEN n ELSE 16 * k + 16
            Word(k) == SubSeq(bits, 16 * k + 1, End(k))
            Cut(k) == IF n < 16 * k THEN n ELSE 16 * k
            Value(k) == CrcOfWord(Ones, SubSeq(bits, 1, Cut(k)))
            Follow(before, k) == CHOOSE after \in {CrcOfWord(b, Word(k - 1)) : b \in {before}} : TRUE
            Takes(crc) == crc = [k \in 0 .. K |-> IF k = 0 THEN Ones ELSE Follow(crc[k - 1], k)]
            crc == CHOOSE crc : Takes(crc)
<1>1. n \in Nat /\ K \in Nat /\ 16 * K >= n
  OBVIOUS
<1>2. \A before, k : Follow(before, k) = CrcOfWord(before, Word(k - 1))
  OBVIOUS
<1>3. Value(0) = Ones
  <2>1. Cut(0) = 0
    BY <1>1
  <2>2. SubSeq(bits, 1, 0) = <<>>
    BY SubSeqEmpty
  <2>. QED
    BY <2>1, <2>2, EmptyWord
<1>4. \A k \in 1 .. K : Value(k) = CrcOfWord(Value(k - 1), Word(k - 1))
  <2>. SUFFICES ASSUME NEW k \in 1 .. K PROVE Value(k) = CrcOfWord(Value(k - 1), Word(k - 1))
    OBVIOUS
  <2>1. 16 * (k - 1) < n /\ Cut(k - 1) = 16 * (k - 1) /\ End(k - 1) = Cut(k)
    BY <1>1
  <2>2. Cut(k - 1) \in 0 .. n /\ Cut(k) \in 0 .. n /\ Cut(k - 1) <= Cut(k)
    BY <1>1, <2>1
  <2>. DEFINE u == SubSeq(bits, 1, Cut(k - 1))
              w == SubSeq(bits, Cut(k - 1) + 1, Cut(k))
  <2>3. u \o w = SubSeq(bits, 1, Cut(k))
    <3>1. /\ 1 \in 1 .. Len(bits) + 1 /\ Cut(k - 1) \in 1 - 1 .. Len(bits)
          /\ Cut(k) \in Cut(k - 1) .. Len(bits)
      BY <2>2, <1>1
    <3>. HIDE DEF Cut
    <3>. QED
      BY <3>1, ConcatAdjacentSubSeq
  <2>4. w = Word(k - 1)
    BY <2>1
  <2>5. u \in Seq(Bit) /\ w \in Seq(Bit)
    <3>. HIDE DEF Cut
    <3>. QED
      BY <2>2, <1>1, SubSeqProperties
  <2>. HIDE DEF u, w
  <2>6. CrcOfWord(Ones, u \o w) = CrcOfWord(CrcOfWord(Ones, u), w)
    BY <2>5, WordAfterWord
  <2>. QED
    BY <2>3, <2>4, <2>6 DEF u
<1>5. Takes([k \in 0 .. K |-> Value(k)])
  <2>. HIDE DEF K, Value, Word
  <2>. DEFINE g == [k \in 0 .. K |-> Value(k)]
  <2>1. \A k \in 0 .. K : Value(k) = IF k = 0 THEN Ones ELSE Follow(g[k - 1], k)
    <3>1. \A k \in 0 .. K : k # 0 => k \in 1 .. K /\ k - 1 \in 0 .. K
      BY <1>1
    <3>. QED
      BY <1>2, <1>3, <1>4, <3>1
  <2>. HIDE DEF Follow
  <2>. QED
    BY <2>1
<1>6. Takes(crc)
  BY <1>5
<1>7. crc[K] = Value(K)
  <2>. HIDE DEF crc, K, Value, Word, Follow
  <2>. DEFINE Differ == {k \in 0 .. K : crc[k] # Value(k)}
  <2>1. SUFFICES ASSUME Differ # {} PROVE FALSE
    BY <1>1
  <2>2. PICK k \in Differ : \A j \in Differ : k <= j
    <3>1. Differ \subseteq Nat
      OBVIOUS
    <3>. HIDE DEF Differ
    <3>. QED
      BY <3>1, <2>1, LeastNumber
  <2>3. \A j \in 0 .. K : crc[j] = IF j = 0 THEN Ones ELSE Follow(crc[j - 1], j)
    BY <1>6
  <2>4. k \in 1 .. K /\ k - 1 \in 0 .. K
    BY <2>2, <2>3, <1>1, <1>3
  <2>5. crc[k - 1] = Value(k - 1)
    BY <2>2, <2>4
  <2>. QED
    BY <2>2, <2>3, <2>4, <2>5, <1>2, <1>4
<1>8. Crc(bits) = crc[K]
  BY DEF Crc, Ones
<1>9. Cut(K) = n /\ SubSeq(bits, 1, n) = bits
  BY <1>1, SubSeqFull
<1>. QED
  BY <1>7, <1>8, <1>9

-----------------------------------------------------------------------------
(* The complement of a register, fed into it, leaves the remainder.        *)

Zeros == [j \in 1 .. 16 |-> 0]

\* A step to a register that is given place by place.
LEMMA NextRegister ==
  ASSUME NEW crc \in Register, NEW bit \in Bit, NEW next \in Register,
         \A j \in 1 .. 16 : next[j] = ((IF j < 16 THEN crc[j + 1] ELSE 0)
                                       + (IF crc[1] = bit THEN 0 ELSE CrcPolynomial[j])) % 2
  PROVE  CrcStep(crc, bit) = next
<1>1. next = [j \in 1 .. 16 |-> next[j]]
  BY DEF Register
<1>. QED
  BY <1>1, StepValue

\* The registers that 16 bits of 1 take a register of 0 through.
Remainders ==
    << <<0,0,0,0,0,0,0,0,0,0,0,0,0,0,0,0>>,
       <<0,0,0,1,0,0,0,0,0,0,1,0,0,0,0,1>>,
       <<0,0,1,1,0,0,0,0,0,1,1,0,0,0,1,1>>,
       <<0,1,1,1,0,0,0,0,1,1,1,0,0,1,1,1>>,
       <<1,1,1,1,0,0,0,1,1,1,1,0,1,1,1,1>>,
       <<1,1,1,0,0,0,1,1,1,1,0,1,1,1,1,0>>,
       <<1,1,0,0,0,1,1,1,1,0,1,1,1,1,0,0>>,
       <<1,0,0,0,1,1,1,1,0,1,1,1,1,0,0,0>>,
       <<0,0,0,1,1,1,1,0,1,1,1,1,0,0,0,0>>,
       <<0,0,1,0,1,1,0,1,1,1,0,0,0,0,0,1>>,
       <<0,1,0,0,1,0,1,1,1,0,1,0,0,0,1,1>>,
       <<1,0,0,0,0,1,1,1,0,1,1,0,0,1,1,1>>,
       <<0,0,0,0,1,1,1,0,1,1,0,0,1,1,1,0>>,
       <<0,0,0,0,1,1,0,1,1,0,1,1,1,1,0,1>>,
       <<0,0,0,0,1,0,1,1,0,1,0,1,1,0,1,1>>,
       <<0,0,0,0,0,1,1,0,1,0,0,1,0,1,1,1>>,
       <<0,0,0,1,1,1,0,1,0,0,0,0,1,1,1,1>> >>

\* Bits of 1 fed into a register of 0.
LEMMA OnesIntoZeros ==
  ASSUME NEW z, Runs(z, Zeros, Ones), NEW k \in 0 .. 16
  PROVE  z[k] = Remainders[k + 1]
<1>1. \A n \in 1 .. 17 : Remainders[n] \in Register
  BY DEF Remainders, Register, Bit
<1>2. \A n \in 1 .. 16 : \A j \in 1 .. 16 :
        Remainders[n + 1][j] = ((IF j < 16 THEN Remainders[n][j + 1] ELSE 0)
                                + (IF Remainders[n][1] = 1 THEN 0 ELSE CrcPolynomial[j])) % 2
  BY DEF Remainders, CrcPolynomial
<1>3. \A n \in 1 .. 16 : CrcStep(Remainders[n], 1) = Remainders[n + 1]
  <2>. SUFFICES ASSUME NEW n \in 1 .. 16 PROVE CrcStep(Remainders[n], 1) = Remainders[n + 1]
    OBVIOUS
  <2>1. Remainders[n] \in Register /\ Remainders[n + 1] \in Register /\ 1 \in Bit
    BY <1>1 DEF Bit
  <2>. QED
    BY <1>2, <2>1, NextRegister
<1>4. Remainders[1] = Zeros
  <2>1. Remainders[1] = [j \in 1 .. 16 |-> Remainders[1][j]]
    BY <1>1 DEF Register
  <2>2. \A j \in 1 .. 16 : Remainders[1][j] = 0
    BY DEF Remainders
  <2>. QED
    BY <2>1, <2>2 DEF Zeros
<1>5. z[0] = Zeros /\ \A n \in 1 .. 16 : z[n] = CrcStep(z[n - 1], 1)
  <2>1. Ones \in [1 .. 16 -> Bit]
    BY DEF Ones, Bit
  <2>2. Len(Ones) = 16 /\ Len(Ones) \in Nat
    BY <2>1, WordsOf
  <2>3. z[0] = Zeros /\ \A n \in 1 .. Len(Ones) : z[n] = CrcStep(z[n - 1], Ones[n])
    <3>1. Len(Ones) \in Nat
      BY <2>2
    <3>. QED
      BY <3>1, RunValues
  <2>4. \A n \in 1 .. 16 : Ones[n] = 1
    BY DEF Ones
  <2>. QED
    BY <2>2, <2>3, <2>4
<1>. DEFINE Differ == {n \in 0 .. 16 : z[n] # Remainders[n + 1]}
<1>6. SUFFICES ASSUME Differ # {} PROVE FALSE
  OBVIOUS
<1>7. PICK m \in Differ : \A n \in Differ : m <= n
  <2>1. Differ \subseteq Nat
    OBVIOUS
  <2>. HIDE DEF Differ
  <2>. QED
    BY <2>1, <1>6, LeastNumber
<1>8. m \in 1 .. 16 /\ m - 1 \in 0 .. 16 /\ (m - 1) + 1 = m
  BY <1>4, <1>5, <1>7
<1>9. z[m - 1] = Remainders[m]
  BY <1>7, <1>8
<1>. QED
  BY <1>3, <1>5, <1>7, <1>8, <1>9

Complement(crc) == [i \in 1 .. 16 |-> 1 - crc[i]]

\* The complement of any register, fed into it, leaves the remainder that is checked for.
LEMMA ComplementFed ==
  ASSUME NEW crc \in Register
  PROVE  CrcOfWord(crc, Complement(crc)) = CrcRemainder
<1>1. /\ Complement(crc) \in Seq(Bit) /\ Len(Complement(crc)) = 16
      /\ Ones \in Seq(Bit) /\ Len(Ones) = 16 /\ Zeros \in Register
      /\ Len(Complement(crc)) \in Nat /\ Len(Ones) \in Nat
  <2>1. Complement(crc) \in [1 .. 16 -> Bit] /\ Ones \in [1 .. 16 -> Bit] /\ Zeros \in Register
    BY DEF Complement, Register, Bit, Ones, Zeros
  <2>2. 16 \in Nat
    OBVIOUS
  <2>. QED
    BY <2>1, <2>2, WordsOf
<1>2. PICK f : Runs(f, crc, Complement(crc)) /\ CrcOfWord(crc, Complement(crc)) = f[16]
  BY <1>1, WordRun
<1>3. PICK z : Runs(z, Zeros, Ones)
  BY <1>1, RunExists
<1>4. f[0] = crc /\ \A n \in 1 .. 16 : f[n] = CrcStep(f[n - 1], 1 - crc[n])
  <2>1. f[0] = crc /\ \A n \in 1 .. Len(Complement(crc)) : f[n] = CrcStep(f[n - 1], Complement(crc)[n])
    <3>1. Len(Complement(crc)) \in Nat
      BY <1>1
    <3>. QED
      BY <1>2, <3>1, RunValues
  <2>2. \A n \in 1 .. 16 : Complement(crc)[n] = 1 - crc[n]
    BY DEF Complement
  <2>. QED
    BY <1>1, <2>1, <2>2
<1>5. z[0] = Zeros /\ \A n \in 1 .. 16 : z[n] = CrcStep(z[n - 1], 1)
  <2>1. z[0] = Zeros /\ \A n \in 1 .. Len(Ones) : z[n] = CrcStep(z[n - 1], Ones[n])
    <3>1. Len(Ones) \in Nat
      BY <1>1
    <3>. QED
      BY <1>3, <3>1, RunValues
  <2>2. \A n \in 1 .. 16 : Ones[n] = 1
    BY DEF Ones
  <2>. QED
    BY <1>1, <2>1, <2>2
<1>6. \A n \in 0 .. 16 : f[n] \in Register /\ z[n] \in Register
  BY <1>1, <1>2, <1>3, RunStays
\* The register is what is left of the first one, shifted, and what the ones leave.
<1>. DEFINE Left(n, j) == IF j + n <= 16 THEN crc[j + n] ELSE 0
            Apart == {n \in 0 .. 16 : \E j \in 1 .. 16 : f[n][j] # (Left(n, j) + z[n][j]) % 2}
<1>7. Apart = {}
  <2>1. SUFFICES ASSUME Apart # {} PROVE FALSE
    OBVIOUS
  <2>2. PICK m \in Apart : \A n \in Apart : m <= n
    <3>1. Apart \subseteq Nat
      OBVIOUS
    <3>. HIDE DEF Apart
    <3>. QED
      BY <3>1, <2>1, LeastNumber
  <2>3. m # 0
    <3>1. \A j \in 1 .. 16 : crc[j] \in Bit /\ f[0][j] = crc[j] /\ z[0][j] = 0 /\ Left(0, j) = crc[j]
      BY <1>4, <1>5 DEF Zeros, Register
    <3>2. \A j \in 1 .. 16 : f[0][j] = (Left(0, j) + z[0][j]) % 2
      <4>. HIDE DEF Left
      <4>. QED
        BY <3>1 DEF Bit
    <3>. QED
      BY <2>2, <3>2
  <2>4. m \in 1 .. 16 /\ m - 1 \in 0 .. 16
    BY <2>2, <2>3
  <2>. DEFINE a == f[m - 1]
              b == z[m - 1]
  <2>5. \A j \in 1 .. 16 : a[j] = (Left(m - 1, j) + b[j]) % 2
    BY <2>2, <2>4
  <2>6. a \in Register /\ b \in Register /\ 1 - crc[m] \in Bit /\ 1 \in Bit
    BY <1>6, <2>4 DEF Register, Bit
  <2>7. f[m] = CrcStep(a, 1 - crc[m]) /\ z[m] = CrcStep(b, 1)
    BY <1>4, <1>5, <2>4
  <2>. HIDE DEF a, b
  <2>8. (a[1] = 1 - crc[m]) <=> (b[1] = 1)
    <3>1. a[1] = (crc[m] + b[1]) % 2
      BY <2>4, <2>5
    <3>2. crc[m] \in Bit /\ b[1] \in Bit
      BY <2>4, <2>6 DEF Register
    <3>. QED
      BY <3>1, <3>2 DEF Bit
  <2>9. \A j \in 1 .. 16 :
          /\ f[m][j] = ((IF j < 16 THEN a[j + 1] ELSE 0) + (IF b[1] = 1 THEN 0 ELSE CrcPolynomial[j])) % 2
          /\ z[m][j] = ((IF j < 16 THEN b[j + 1] ELSE 0) + (IF b[1] = 1 THEN 0 ELSE CrcPolynomial[j])) % 2
    BY <2>6, <2>7, <2>8, StepValue
  <2>10. \A j \in 1 .. 16 : f[m][j] = (Left(m, j) + z[m][j]) % 2
    <3>. SUFFICES ASSUME NEW j \in 1 .. 16 PROVE f[m][j] = (Left(m, j) + z[m][j]) % 2
      OBVIOUS
    <3>. DEFINE p == IF b[1] = 1 THEN 0 ELSE CrcPolynomial[j]
    <3>1. p \in Bit
      BY DEF CrcPolynomial, Bit
    <3>2. CASE j < 16
      <4>1. /\ f[m][j] = (a[j + 1] + p) % 2 /\ z[m][j] = (b[j + 1] + p) % 2
            /\ a[j + 1] = (Left(m - 1, j + 1) + b[j + 1]) % 2
            /\ b[j + 1] \in Bit
        BY <2>5, <2>6, <2>9, <3>2 DEF Register
      <4>2. Left(m - 1, j + 1) = Left(m, j) /\ Left(m, j) \in Bit
        BY <2>4, <3>2 DEF Register, Bit
      <4>. HIDE DEF Left, p
      <4>. QED
        BY <3>1, <4>1, <4>2 DEF Bit
    <3>3. CASE j = 16
      <4>1. f[m][j] = (0 + p) % 2 /\ z[m][j] = (0 + p) % 2
        BY <2>9, <3>3
      <4>2. Left(m, j) = 0
        BY <2>4, <3>3
      <4>. HIDE DEF Left, p
      <4>. QED
        BY <3>1, <4>1, <4>2 DEF Bit
    <3>. QED
      BY <3>2, <3>3
  <2>. QED
    BY <2>2, <2>10
<1>8. z[16] = CrcRemainder
  BY <1>3, OnesIntoZeros DEF Remainders, CrcRemainder
<1>9. \A j \in 1 .. 16 : f[16][j] = z[16][j]
  <2>1. \A j \in 1 .. 16 : Left(16, j) = 0
    OBVIOUS
  <2>2. \A j \in 1 .. 16 : f[16][j] = (Left(16, j) + z[16][j]) % 2
    BY <1>7
  <2>3. \A j \in 1 .. 16 : z[16][j] \in Bit
    BY <1>6 DEF Register
  <2>. HIDE DEF Left
  <2>. QED
    BY <2>1, <2>2, <2>3 DEF Bit
<1>10. f[16] = z[16]
  BY <1>6, <1>9 DEF Register
<1>. QED
  BY <1>2, <1>8, <1>10

-----------------------------------------------------------------------------
(* Blocks and their CRC.                                                   *)

\* A block passes the check of its CRC, whatever is in it.
THEOREM CrcOfBlock ==
  ASSUME NEW info \in Seq({0, 1})
  PROVE  /\ check_crc_16_ccitt(WithCrc(info))
         /\ WithCrc(info) \in Seq({0, 1}) /\ Len(WithCrc(info)) = Len(info) + 16
<1>. DEFINE crc == CrcOfWord(Ones, info)
<1>1. info \in Seq(Bit) /\ Ones \in Register
  BY DEF Bit, Ones, Register
<1>2. crc \in Register /\ Crc(info) = crc
  BY <1>1, WordType, CrcIsBitwise
<1>3. WithCrc(info) = info \o Complement(crc)
  BY <1>2 DEF WithCrc, Complement
<1>4. Complement(crc) \in Seq(Bit) /\ Len(Complement(crc)) = 16
  <2>1. Complement(crc) \in [1 .. 16 -> Bit]
    <3>. HIDE DEF crc
    <3>. QED BY <1>2 DEF Complement, Register, Bit
  <2>2. 16 \in Nat
    OBVIOUS
  <2>. QED
    BY <2>1, <2>2, WordsOf
<1>. HIDE DEF crc
<1>. DEFINE rest == Complement(crc)
<1>5. /\ info \o rest \in Seq(Bit) /\ Len(info \o rest) = Len(info) + Len(rest)
  BY <1>1, <1>4, ConcatProperties
<1>6. CrcOfWord(Ones, info \o rest) = CrcOfWord(CrcOfWord(Ones, info), rest)
  BY <1>1, <1>4, WordAfterWord
<1>7. CrcOfWord(crc, rest) = CrcRemainder
  BY <1>2, ComplementFed
<1>8. Crc(info \o rest) = CrcOfWord(Ones, info \o rest)
  BY <1>5, CrcIsBitwise
<1>9. CrcOfWord(Ones, info) = crc
  BY DEF crc
<1>. QED
  BY <1>3, <1>4, <1>5, <1>6, <1>7, <1>8, <1>9 DEF check_crc_16_ccitt, Bit

-----------------------------------------------------------------------------
(* Where the blocks are read.                                              *)

BurstTypes == UplinkBursts \cup DownlinkBursts

\* Of a block that is cut in two, the bit at the cut is read from the training
\* sequence; every other bit is read where it was sent.
LEMMA OnlyAtTheCut ==
  ASSUME NEW type \in BurstTypes, NEW block \in BlocksOf(type),
         NEW i \in 0 .. Coding(type, block).size - 1,
         ReadPosition(type, block, i) # SentPosition(type, block, i)
  PROVE  \/ block = "cb" /\ i = 84
         \/ /\ block = "bkn1" /\ type \in {"NormalDownlinkBurst", "NormalUplinkBurst"}
            /\ i = 216
<1>. DEFINE r == Reading(type, block)
            s == Sending(type, block)
            size == Coding(type, block).size
            Whole == r.first = s.first /\ s.length = size /\ r.cut = size
            Cut(n) == /\ s.length = n /\ r.cut = n /\ r.first = s.first
                      /\ r.rest \in Nat /\ r.rest = s.second - n
<1>1. block \in {"sb", "cb", "bkn1", "bkn2"} /\ s.first \in Nat /\ s.second \in Nat /\ size \in Nat
  BY DEF BlocksOf, Sending, Coding
<1>2. block = "sb" => Whole
  BY DEF Reading, Sending, Coding
<1>3. block = "bkn2" => Whole
  <2>1. CASE is_uplink_burst(type)
    BY <2>1 DEF Reading, Sending, Coding
  <2>2. CASE ~is_uplink_burst(type)
    BY <2>2 DEF Reading, Sending, Coding
  <2>. QED
    BY <2>1, <2>2
<1>4. block = "cb" => Cut(84)
  BY DEF Reading, Sending, Coding
<1>5. CASE block = "bkn1" /\ type \in {"NormalDownlinkBurst", "NormalUplinkBurst"}
  <2>1. CASE type = "NormalDownlinkBurst"
    <3>1. ~is_uplink_burst(type)
      BY <2>1 DEF is_uplink_burst, UplinkBursts
    <3>2. Cut(216)
      BY <1>5, <2>1, <3>1 DEF Reading, Sending
    <3>. QED
      BY <1>1, <1>5, <3>2 DEF ReadPosition, SentPosition
  <2>2. CASE type = "NormalUplinkBurst"
    <3>1. is_uplink_burst(type)
      BY <2>2 DEF is_uplink_burst, UplinkBursts
    <3>2. r = [first |-> 4, cut |-> 216, rest |-> 26]
      BY <1>5, <2>2, <3>1 DEF Reading
    <3>3. s = [first |-> 4, length |-> 216, second |-> 242]
      BY <1>5, <3>1 DEF Sending
    <3>4. Cut(216)
      BY <3>2, <3>3
    <3>. QED
      BY <1>1, <1>5, <3>4 DEF ReadPosition, SentPosition
  <2>. QED
    BY <1>5, <2>1, <2>2
<1>6. CASE block = "bkn1" /\ type \notin {"NormalDownlinkBurst", "NormalUplinkBurst"}
  <2>1. type \in {"NormalDownlinkBurstSplit", "NormalUplinkBurstSplit"}
    BY <1>6 DEF BurstTypes, UplinkBursts, DownlinkBursts, BlocksOf
  <2>2. size = 216
    BY <1>6 DEF Coding
  <2>3. Whole
    <3>1. CASE type = "NormalDownlinkBurstSplit"
      BY <1>6, <2>2, <3>1 DEF Reading, Sending, is_uplink_burst, UplinkBursts
    <3>2. CASE type = "NormalUplinkBurstSplit"
      <4>1. is_uplink_burst(type)
        BY <3>2 DEF is_uplink_burst, UplinkBursts
      <4>2. r = [first |-> 4, cut |-> 216, rest |-> 26]
        BY <1>6, <3>2, <4>1 DEF Reading
      <4>3. s = [first |-> 4, length |-> 216, second |-> 242]
        BY <1>6, <4>1 DEF Sending
      <4>. QED
        BY <2>2, <4>2, <4>3
    <3>. QED
      BY <2>1, <3>1, <3>2
  <2>. QED
    BY <1>1, <2>3 DEF ReadPosition, SentPosition
<1>. QED
  BY <1>1, <1>2, <1>3, <1>4, <1>5, <1>6 DEF ReadPosition, SentPosition

\* Of a slot of traffic only the bit at the cut can be wrong.
LEMMA MisplacedAtTheCut ==
  ASSUME NEW type \in BurstTypes, NEW block \in BlocksOf(type) \ {"cb"}
  PROVE  Misplaced(type, block) \subseteq {216}
BY OnlyAtTheCut DEF Misplaced

\* The decoder puts the bits where the puncturing of the network took them from.
LEMMA AsPunctured == ASSUME NEW i \in Nat PROVE Depunctured(i) = Punctured(i)
<1>1. i % 3 \in {0, 1, 2}
  OBVIOUS
<1>. DEFINE r == i % 3
            q == 8 * (i \div 3)
<1>2. q \in Nat
  OBVIOUS
<1>3. Depunctured(i) = q + <<1, 2, 5>>[r + 1] - 1 /\ Punctured(i) = q + (IF r = 2 THEN 4 ELSE r)
  BY DEF Depunctured, Punctured
<1>. HIDE DEF q, r
<1>4. r \in {0, 1, 2}
  BY <1>1 DEF r
<1>. QED
  BY <1>2, <1>3, <1>4

\* That bit is one bit of what the Viterbi decoder is given.
LEMMA OneMisread ==
  ASSUME NEW type \in BurstTypes, NEW block \in BlocksOf(type)
  PROVE  \E i \in Nat : Misread(type, block) \subseteq {i}
<1>. DEFINE c == Coding(type, block)
            at(i) == (c.a * (i + 1)) % c.size
<1>1. c \in [size : {120, 168, 216, 432}, a : {11, 13, 101, 103}, data : Nat]
  BY DEF Coding
<1>2. \A i \in 0 .. c.size - 1 : at(i) \in 0 .. c.size - 1
  BY <1>1
<1>3. \A i \in 0 .. c.size - 1 : Deinterleaved(i, c.size, c.a) = at(i) /\ Interleaved(i, c.size, c.a) = at(i)
  BY DEF Deinterleaved, Interleaved
<1>. HIDE DEF c, at
<1>4. \A i \in Misread(type, block) :
         /\ i \in 0 .. c.size - 1
         /\ ReadPosition(type, block, at(i)) # SentPosition(type, block, at(i))
  <2>1. \A i \in 0 .. c.size - 1 : Depunctured(i) = Punctured(i)
    BY AsPunctured
  <2>. QED
    BY <1>3, <2>1 DEF Misread, c
<1>5. \A i \in Misread(type, block) :
         \/ block = "cb" /\ at(i) = 84
         \/ /\ block = "bkn1" /\ type \in {"NormalDownlinkBurst", "NormalUplinkBurst"}
            /\ at(i) = 216
  BY <1>2, <1>4, OnlyAtTheCut DEF c
<1>6. CASE block = "cb"
  <2>1. c.size = 168 /\ c.a = 13
    BY <1>6 DEF c, Coding
  <2>2. \A i \in Misread(type, block) : i \in 0 .. 167 /\ (13 * (i + 1)) % 168 = 84
    BY <1>4, <1>5, <1>6, <2>1 DEF at
  <2>3. \A i \in Misread(type, block) : i = 83
    BY <2>2
  <2>. QED
    BY <2>3
<1>7. CASE block = "bkn1" /\ type \in {"NormalDownlinkBurst", "NormalUplinkBurst"}
  <2>1. c.size = 432 /\ c.a = 103
    BY <1>7 DEF c, Coding
  <2>2. \A i \in Misread(type, block) : i \in 0 .. 431 /\ (103 * (i + 1)) % 432 = 216
    BY <1>4, <1>5, <1>7, <2>1 DEF at
  <2>3. \A i \in Misread(type, block) : i = 215
    BY <2>2
  <2>. QED
    BY <2>3
<1>. QED
  BY <1>5, <1>6, <1>7

\* What is misread of a block is within what the Viterbi decoder corrects.
LEMMA FewMisread ==
  ASSUME NEW type \in BurstTypes, NEW block \in BlocksOf(type)
  PROVE  Cardinality(Misread(type, block)) \in Nat /\ Cardinality(Misread(type, block)) <= Correctable
<1>1. PICK i \in Nat : Misread(type, block) \subseteq {i}
  BY OneMisread
<1>2. IsFiniteSet({i}) /\ Cardinality({i}) = 1
  BY FS_Singleton
<1>3. Cardinality(Misread(type, block)) <= 1 /\ Cardinality(Misread(type, block)) \in Nat
  BY <1>1, <1>2, FS_Subset, FS_CardinalityType
<1>. QED
  BY <1>3, CorrectableAssumption

\* An undamaged block that is descrambled with the right code comes as it was sent.
LEMMA UndamagedBits ==
  ASSUME NEW burst, HasBlocks(burst), NEW block \in BlocksOf(burst.burst_type),
         burst.blocks[block].changed = {}, NEW code, code = ScrambledWith(burst, block)
  PROVE  /\ Decoded(burst, block, code) = burst.blocks[block].bits
         /\ burst.blocks[block].bits \in Seq({0, 1})
         /\ Len(burst.blocks[block].bits) = Coding(burst.burst_type, block).data + 16
         /\ check_crc_16_ccitt(burst.blocks[block].bits)
<1>. DEFINE type == burst.burst_type
            n == Coding(type, block).data
            bits == burst.blocks[block].bits
            info == SubSeq(bits, 1, n)
<1>1. /\ type \in BurstTypes /\ info \in Seq({0, 1}) /\ Len(info) = n /\ bits = WithCrc(info)
  BY DEF HasBlocks, BurstTypes
<1>2. bits \in Seq({0, 1}) /\ Len(bits) = n + 16 /\ check_crc_16_ccitt(bits)
  BY <1>1, CrcOfBlock
<1>3. Decoded(burst, block, code) = bits
  <2>1. ~(Cardinality(Misread(type, block)) > Correctable)
    <3>1. Cardinality(Misread(type, block)) \in Nat /\ Cardinality(Misread(type, block)) <= Correctable
      BY <1>1, FewMisread
    <3>. QED
      BY <3>1, CorrectableAssumption
  <2>2. Decoded(burst, block, code) = [i \in DOMAIN bits |-> bits[i]]
    BY <2>1 DEF Decoded
  <2>3. bits = [i \in DOMAIN bits |-> bits[i]]
    <3>. HIDE DEF bits
    <3>. QED BY <1>2, LenProperties
  <2>. QED
    BY <2>2, <2>3
<1>. QED
  BY <1>2, <1>3

\* Its CRC is right.
LEMMA UndamagedBlock ==
  ASSUME NEW burst, HasBlocks(burst), NEW block \in BlocksOf(burst.burst_type), NEW channel,
         burst.blocks[block].changed = {}, NEW code, code = ScrambledWith(burst, block)
  PROVE  ChannelData(burst, channel, block, code).crc_ok
<1>. DEFINE n == Coding(burst.burst_type, block).data
            bits == Decoded(burst, block, code)
<1>1. bits \in Seq({0, 1}) /\ Len(bits) = n + 16 /\ check_crc_16_ccitt(bits)
  BY UndamagedBits
<1>2. SubSeq(bits, 1, n + 16) = bits
  <2>. HIDE DEF bits
  <2>. QED BY <1>1, SubSeqFull
<1>. QED
  BY <1>1, <1>2 DEF ChannelData

-----------------------------------------------------------------------------
(* The slots of a burst.                                                   *)

\* A slot that is made of its block.
InPlace(this, burst, i, code) ==
    /\ BlockOf(burst, i) \in BlocksOf(burst.burst_type) \ {"sb"}
    /\ this = ChannelData(burst, this.channel, BlockOf(burst, i), code)
    /\ this.channel = "TrafficChannel" => BlockOf(burst, i) # "cb"
    /\ this.channel = "SignallingChannelHalfUplink" <=> burst.burst_type = "ControlUplinkBurst"

\* The data are those of the channel they were decoded as.
LEMMA ChannelOfData ==
  ASSUME NEW burst, NEW channel, NEW block, NEW code
  PROVE  ChannelData(burst, channel, block, code).channel = channel
BY DEF ChannelData

\* The bits of a traffic channel.
OnesAt(size, wrong) == [i \in 1 .. size |-> IF i - 1 \in wrong THEN 1 ELSE 0]

\* A bit that is 1 there is a misplaced one.
LEMMA OnlyOnes ==
  ASSUME NEW size, NEW wrong,
         NEW place \in DOMAIN OnesAt(size, wrong), OnesAt(size, wrong)[place] = 1
  PROVE  place \in 1 .. size /\ place - 1 \in wrong
BY DEF OnesAt

\* The data of a traffic channel.
LEMMA OnesOfTraffic ==
  ASSUME NEW burst, NEW block, NEW code
  PROVE  ChannelData(burst, "TrafficChannel", block, code).data.bits
            = OnesAt(Coding(burst.burst_type, block).size, Misplaced(burst.burst_type, block))
<1>. DEFINE size == Coding(burst.burst_type, block).size
            wrong == Misplaced(burst.burst_type, block)
            made == ChannelData(burst, "TrafficChannel", block, code)
<1>1. made = [channel |-> "TrafficChannel", crc_ok |-> TRUE, data |-> BitVec(OnesAt(size, wrong))]
  BY DEF ChannelData, OnesAt
<1>. HIDE DEF made, size, wrong
<1>2. made.data.bits = OnesAt(size, wrong)
  BY <1>1 DEF BitVec
<1>. QED
  BY <1>2 DEF made, size, wrong

\* Every slot is made of its block, with the code that is given; the half uplink channel
\* is that of the control burst.
LEMMA SlotsInPlace ==
  ASSUME NEW burst, burst.burst_type \in BurstTypes, NEW code, NEW frame_number,
         NEW made, made = Slots(burst.burst_type, processChannels(burst, code, frame_number))
  PROVE  /\ made = <<made[1]>> \/ made = <<made[1], made[2]>>
         /\ InPlace(made[1], burst, 1, code)
         /\ made # <<made[1]>> => InPlace(made[2], burst, 2, code)
<1>. DEFINE type == burst.burst_type
            traffic == DownlinkUsage(AccessAssignment(burst, code), frame_number) = "Traffic"
            Data(block, channel) == ChannelData(burst, channel, block, code)
            On(block, channels) == {Data(block, channel) : channel \in channels}
            may == processChannels(burst, code, frame_number)
            IsCut == /\ "bkn1" \in BlocksOf(type) /\ "bkn2" \in BlocksOf(type)
                     /\ "bkn1" = BlockOf(burst, 1) /\ "bkn2" = BlockOf(burst, 2)
                     /\ type \notin {"NormalUplinkBurst", "ControlUplinkBurst"}
<1>1. \A block, channel : Data(block, channel).channel = channel
  BY ChannelOfData
<1>2. \A channel : \A block \in BlocksOf(type) \ {"sb"} :
         /\ channel = "TrafficChannel" => block # "cb"
         /\ channel = "SignallingChannelHalfUplink" <=> type = "ControlUplinkBurst"
         => \A i \in {1, 2} : block = BlockOf(burst, i) => InPlace(Data(block, channel), burst, i, code)
  BY <1>1 DEF InPlace
<1>. HIDE DEF traffic
<1>3. CASE type = "SynchronizationBurst"
  <2>1. may = << On("bkn2", {"SignallingChannelHalfDownlink"}) >>
    BY <1>3 DEF processChannels
  <2>2. made = << Data("bkn2", "SignallingChannelHalfDownlink") >>
    BY <1>3, <2>1 DEF Slots
  <2>3. "bkn2" \in BlocksOf(type) \ {"sb"} /\ "bkn2" = BlockOf(burst, 1)
    BY <1>3 DEF BlocksOf, BlockOf
  <2>5. InPlace(Data("bkn2", "SignallingChannelHalfDownlink"), burst, 1, code)
    <3>1. /\ "SignallingChannelHalfDownlink" = "TrafficChannel" => "bkn2" # "cb"
          /\ "SignallingChannelHalfDownlink" = "SignallingChannelHalfUplink" <=> type = "ControlUplinkBurst"
      BY <1>3
    <3>. HIDE DEF Data
    <3>. QED
      BY <1>2, <2>3, <3>1
  <2>. HIDE DEF Data
  <2>. QED
    BY <2>2, <2>5
<1>4. CASE type = "NormalDownlinkBurst"
  <2>. DEFINE channel == IF traffic THEN "TrafficChannel" ELSE "SignallingChannelFull"
  <2>1. may = << On("bkn1", {channel}) >>
    BY <1>4 DEF processChannels, traffic
  <2>2. made = << Data("bkn1", channel) >>
    BY <1>4, <2>1 DEF Slots
  <2>3. "bkn1" \in BlocksOf(type) \ {"sb"} /\ "bkn1" = BlockOf(burst, 1)
    BY <1>4 DEF BlocksOf, BlockOf
  <2>5. InPlace(Data("bkn1", channel), burst, 1, code)
    <3>1. /\ channel = "TrafficChannel" => "bkn1" # "cb"
          /\ channel = "SignallingChannelHalfUplink" <=> type = "ControlUplinkBurst"
      BY <1>4
    <3>. HIDE DEF Data, channel
    <3>. QED
      BY <1>2, <2>3, <3>1
  <2>. HIDE DEF Data, channel
  <2>. QED
    BY <2>2, <2>5
<1>5. CASE type = "ControlUplinkBurst"
  <2>1. may = << On("cb", {"SignallingChannelHalfUplink"}) >>
    BY <1>5 DEF processChannels
  <2>2. made = << Data("cb", "SignallingChannelHalfUplink") >>
    BY <1>5, <2>1 DEF Slots
  <2>3. "cb" \in BlocksOf(type) \ {"sb"} /\ "cb" = BlockOf(burst, 1)
    BY <1>5 DEF BlocksOf, BlockOf
  <2>5. InPlace(Data("cb", "SignallingChannelHalfUplink"), burst, 1, code)
    <3>1. /\ "SignallingChannelHalfUplink" = "TrafficChannel" => "cb" # "cb"
          /\ "SignallingChannelHalfUplink" = "SignallingChannelHalfUplink" <=> type = "ControlUplinkBurst"
      BY <1>5
    <3>. HIDE DEF Data
    <3>. QED
      BY <1>2, <2>3, <3>1
  <2>. HIDE DEF Data
  <2>. QED
    BY <2>2, <2>5
<1>6. CASE type = "NormalUplinkBurst"
  <2>1. may = << On("bkn1", {"SignallingChannelFull", "TrafficChannel"}) >>
    BY <1>6 DEF processChannels
  <2>2. select_logical_channel(may[1], "SignallingChannelFull") = {Data("bkn1", "SignallingChannelFull")}
    <3>1. may[1] = {Data("bkn1", "SignallingChannelFull"), Data("bkn1", "TrafficChannel")}
      BY <2>1
    <3>. HIDE DEF Data, may
    <3>. QED
      BY <1>1, <3>1 DEF select_logical_channel
  <2>3. made = << Data("bkn1", "SignallingChannelFull") >>
    <3>1. Len(may) = 1
      BY <2>1
    <3>. HIDE DEF Data, may
    <3>2. made = << CHOOSE one \in select_logical_channel(may[1], "SignallingChannelFull") : TRUE >>
      BY <1>6, <3>1 DEF Slots, may
    <3>. QED
      BY <2>2, <3>2
  <2>4. "bkn1" \in BlocksOf(type) \ {"sb"} /\ "bkn1" = BlockOf(burst, 1)
    BY <1>6 DEF BlocksOf, BlockOf
  <2>5. InPlace(Data("bkn1", "SignallingChannelFull"), burst, 1, code)
    <3>1. /\ "SignallingChannelFull" = "TrafficChannel" => "bkn1" # "cb"
          /\ "SignallingChannelFull" = "SignallingChannelHalfUplink" <=> type = "ControlUplinkBurst"
      BY <1>6
    <3>. HIDE DEF Data
    <3>. QED
      BY <1>2, <2>4, <3>1
  <2>. HIDE DEF Data
  <2>. QED
    BY <2>3, <2>5
<1>7. ASSUME IsCut,
             may = << On("bkn1", {"StealingChannel"}), On("bkn2", {"StealingChannel", "TrafficChannel"}) >>
      PROVE  /\ made = <<made[1], made[2]>>
             /\ InPlace(made[1], burst, 1, code) /\ InPlace(made[2], burst, 2, code)
  <2>. DEFINE first == Data("bkn1", "StealingChannel")
  <2>1. PICK channel \in {"StealingChannel", "TrafficChannel"} :
           made = << first, CHOOSE one \in select_logical_channel(may[2], channel) : TRUE >>
    <3>1. Len(may) = 2 /\ may[1] = {first}
      BY <1>7
    <3>2. first.channel = "StealingChannel"
      BY <1>1
    <3>. HIDE DEF first, may
    <3>3. (CHOOSE one \in may[1] : TRUE) = first
      BY <3>1
    <3>. DEFINE channel == IF SecondHalfSlotStolen(type, first.data) THEN "StealingChannel" ELSE "TrafficChannel"
    <3>4. made = << first, CHOOSE one \in select_logical_channel(may[2], channel) : TRUE >>
      BY <1>7, <3>1, <3>2, <3>3 DEF Slots, may
    <3>. QED
      BY <3>4
  <2>2. select_logical_channel(may[2], channel) = {Data("bkn2", channel)}
    <3>1. may[2] = {Data("bkn2", "StealingChannel"), Data("bkn2", "TrafficChannel")}
      BY <1>7
    <3>. HIDE DEF Data, may
    <3>. QED
      BY <1>1, <3>1 DEF select_logical_channel
  <2>3. made = << first, Data("bkn2", channel) >>
    <3>. HIDE DEF Data, may, first
    <3>. QED
      BY <2>1, <2>2
  <2>. HIDE DEF Data
  <2>. QED
    BY <1>2, <1>7, <2>3
<1>8. CASE type = "NormalUplinkBurstSplit"
  <2>1. may = << On("bkn1", {"StealingChannel"}), On("bkn2", {"StealingChannel", "TrafficChannel"}) >>
    BY <1>8 DEF processChannels
  <2>2. IsCut
    BY <1>8 DEF BlocksOf, BlockOf
  <2>. QED
    BY <1>7, <2>1, <2>2
<1>9. CASE type = "NormalDownlinkBurstSplit"
  <2>1. IsCut
    BY <1>9 DEF BlocksOf, BlockOf
  <2>2. CASE traffic
    <3>1. may = << On("bkn1", {"StealingChannel"}), On("bkn2", {"StealingChannel", "TrafficChannel"}) >>
      BY <1>9, <2>2 DEF processChannels, traffic
    <3>. QED
      BY <1>7, <2>1, <3>1
  <2>3. CASE ~traffic
    <3>. DEFINE half == "SignallingChannelHalfDownlink"
    <3>1. may = << On("bkn1", {half}), On("bkn2", {half}) >>
      BY <1>9, <2>3 DEF processChannels, traffic
    <3>2. Len(may) = 2 /\ may[1] = {Data("bkn1", half)} /\ may[2] = {Data("bkn2", half)}
      BY <3>1
    <3>3. Data("bkn1", half).channel # "StealingChannel"
      BY <1>1
    <3>. HIDE DEF Data, may
    <3>4. (CHOOSE one \in may[1] : TRUE) = Data("bkn1", half)
          /\ (CHOOSE one \in may[2] : TRUE) = Data("bkn2", half)
      BY <3>2
    <3>5. made = << Data("bkn1", half), Data("bkn2", half) >>
      BY <2>1, <3>2, <3>3, <3>4 DEF Slots, may
    <3>. QED
      BY <1>2, <2>1, <3>5
  <2>. QED
    BY <2>2, <2>3
<1>. QED
  BY <1>3, <1>4, <1>5, <1>6, <1>8, <1>9 DEF BurstTypes, UplinkBursts, DownlinkBursts

-----------------------------------------------------------------------------
(* The slots in the decoder are those of the burst that is decoded, made   *)
(* with the code that the decoder is synchronised to.                      *)

OneBurst == sent = {} \/ \E burst \in Bursts : sent = {burst}
OneSync == sync_ = {} \/ \E sync \in sync_ : sync_ = {sync}
SlotsOfBurst ==
    \/ slots = <<>>
    \/ /\ pc \in {"slot", "pdu", "parsed"}
       /\ \E burst \in sent, sync \in sync_ :
             slots = Slots(burst.burst_type, processChannels(burst, sync.code, sync.frame_number))
BlocksInv == OneBurst /\ OneSync /\ SlotsOfBurst

\* There are no slots at first.
LEMMA InitBlocksInv == Init => BlocksInv
<1>. SUFFICES ASSUME Init PROVE BlocksInv
  OBVIOUS
<1>1. OneSync
  <2>1. \A s : {s} = {} \/ \E t \in {s} : {s} = {t}
    OBVIOUS
  <2>. QED
    BY <2>1 DEF Init, OneSync
<1>. QED
  BY <1>1 DEF Init, BlocksInv, OneBurst, SlotsOfBurst

\* No action changes the slots but Channels, which makes them of the burst.
LEMMA NextBlocksInv == BlocksInv /\ [Next]_vars => BlocksInv'
<1>. SUFFICES ASSUME BlocksInv, [Next]_vars PROVE BlocksInv'
  OBVIOUS
<1>. USE DEF BlocksInv, OneBurst, OneSync, SlotsOfBurst
<1>1. ASSUME NEW burst \in Bursts, Receive(burst) PROVE BlocksInv'
  <2>1. sent' = {burst} /\ slots = <<>> /\ slots' = <<>>
    BY <1>1 DEF Receive
  <2>2. OneSync'
    <3>1. sync_' = sync_ \/ sync_' = Incremented
      BY <1>1 DEF Receive
    <3>2. Incremented = {} \/ \E sync \in Incremented : Incremented = {sync}
      <4>1. CASE sync_ = {}
        BY <4>1 DEF Incremented
      <4>2. CASE sync_ # {}
        <5>1. PICK sync : sync_ = {sync}
          BY <4>2
        <5>2. Incremented = {Increment(sync)}
          BY <5>1 DEF Incremented
        <5>. QED
          BY <5>2
      <4>. QED
        BY <4>1, <4>2
    <3>. QED
      BY <3>1, <3>2
  <2>. QED
    BY <2>1, <2>2
<1>2. CASE Synchronize
  <2>1. slots = <<>> /\ slots' = <<>> /\ sent' = sent
    BY <1>2 DEF Synchronize
  <2>2. OneSync'
    <3>1. sync_' = {} \/ \E s : sync_' = {s}
      BY <1>2 DEF Synchronize
    <3>. QED
      BY <3>1
  <2>. QED
    BY <2>1, <2>2
<1>3. CASE Channels
  BY <1>3 DEF Channels
<1>4. CASE Idle
  BY <1>4 DEF Idle
<1>5. ASSUME UNCHANGED <<lowerMac, sent>>, pc \in {"slot", "pdu", "parsed"}, pc' \in {"slot", "pdu", "parsed"}
      PROVE  BlocksInv'
  BY <1>5 DEF lowerMac
<1>6. \A other : Merge(other) => pc' = "slot"
  BY DEF Merge, Fail, NextSlot
<1>7. Fail => pc' = "slot"
  BY DEF Fail, NextSlot
<1>8. CASE ParseSlot
  <2>1. pc = "slot" /\ UNCHANGED <<lowerMac, sent>>
    BY <1>8 DEF ParseSlot
  <2>2. pc' \in {"slot", "pdu"}
    BY <1>6, <1>7, <1>8 DEF ParseSlot
  <2>. QED
    BY <1>5, <2>1, <2>2
<1>9. CASE ParsePdu
  <2>1. pc = "pdu" /\ UNCHANGED <<lowerMac, sent>>
    BY <1>9 DEF ParsePdu
  <2>2. pc' \in {"slot", "pdu", "parsed"}
    BY <1>7, <1>9 DEF ParsePdu
  <2>. QED
    BY <1>5, <2>1, <2>2
<1>10. CASE Parsed
  <2>1. pc \in {"pdu", "parsed"} /\ UNCHANGED <<lowerMac, sent>>
    BY <1>10 DEF Parsed
  <2>2. pc' = "slot"
    BY <1>6, <1>10 DEF Parsed
  <2>. QED
    BY <1>5, <2>1, <2>2
<1>11. CASE UNCHANGED vars
  BY <1>11 DEF vars, lowerMac
<1>. QED
  BY <1>1, <1>2, <1>3, <1>4, <1>8, <1>9, <1>10, <1>11 DEF Next, Drop, Finish

\* The slots of a burst of the cell are made of their blocks with the code of the cell.
LEMMA SlotOfCell ==
  ASSUME BlocksInv, NEW burst \in sent, OfThisCell(burst), NEW i \in 1 .. Len(slots)
  PROVE  burst \in Bursts /\ burst.burst_type \in BurstTypes /\ InPlace(slots[i], burst, i, burst.cell)
<1>1. burst \in Bursts
  BY DEF BlocksInv, OneBurst
<1>2. burst.burst_type \in BurstTypes
  BY <1>1, BlocksAssumption DEF HasBlocks, BurstTypes
<1>3. PICK sync \in sync_ :
         slots = Slots(burst.burst_type, processChannels(burst, sync.code, sync.frame_number))
  <2>1. slots # <<>>
    BY EmptySeq
  <2>. QED
    BY <2>1 DEF BlocksInv, SlotsOfBurst, OneBurst
<1>4. sync.code = burst.cell
  BY DEF OfThisCell, BlocksInv, OneSync
<1>5. /\ slots = <<slots[1]>> \/ slots = <<slots[1], slots[2]>>
      /\ InPlace(slots[1], burst, 1, burst.cell)
      /\ slots # <<slots[1]>> => InPlace(slots[2], burst, 2, burst.cell)
  BY <1>2, <1>3, <1>4, SlotsInPlace
<1>6. CASE slots = <<slots[1]>>
  <2>1. Len(slots) = 1
    BY <1>6
  <2>2. i = 1
    BY <2>1
  <2>. QED
    BY <1>1, <1>2, <1>5, <2>2
<1>7. CASE slots # <<slots[1]>>
  <2>1. Len(slots) = 2
    BY <1>5, <1>7
  <2>2. i = 1 \/ i = 2
    BY <2>1
  <2>. QED
    BY <1>1, <1>2, <1>5, <1>7, <2>2
<1>. QED
  BY <1>6, <1>7

\* Every signalling block that came undamaged passes its CRC although one of its
\* bits is read beside it, and of full-slot traffic only that bit is wrong, for
\* every network, every burst that it can send and all that its blocks can hold.
THEOREM BlocksInPlaceCorrect == Spec => []BlocksInPlace
<1>1. Spec => []BlocksInv
  BY InitBlocksInv, NextBlocksInv, PTL DEF Spec
<1>2. BlocksInv => BlocksInPlace
  <2>. SUFFICES ASSUME BlocksInv, NEW burst \in sent, NEW i \in 1 .. Len(slots),
                       AsSent(burst), Undamaged(burst, DOMAIN burst.blocks)
                PROVE  /\ slots[i].crc_ok
                       /\ slots[i].channel = "TrafficChannel" =>
                             \A place \in DOMAIN slots[i].data.bits :
                                slots[i].data.bits[place] = 1 => place = 217
    BY DEF BlocksInPlace
  <2>1. sent = {burst} /\ burst \in Bursts
    BY DEF BlocksInv, OneBurst
  <2>2. HasBlocks(burst)
    BY <2>1, BlocksAssumption
  <2>3. InPlace(slots[i], burst, i, burst.cell)
    BY SlotOfCell DEF AsSent
  <2>6. PICK block \in BlocksOf(burst.burst_type) \ {"sb"} :
           /\ slots[i] = ChannelData(burst, slots[i].channel, block, burst.cell)
           /\ slots[i].channel = "TrafficChannel" => block # "cb"
    BY <2>3 DEF InPlace
  <2>7. burst.blocks[block].changed = {} /\ burst.cell = ScrambledWith(burst, block)
    BY <2>2, <2>6 DEF Undamaged, HasBlocks, ScrambledWith
  <2>8. slots[i].crc_ok
    BY <2>2, <2>6, <2>7, UndamagedBlock
  <2>9. ASSUME slots[i].channel = "TrafficChannel", NEW place \in DOMAIN slots[i].data.bits,
               slots[i].data.bits[place] = 1
        PROVE  place = 217
    <3>. DEFINE size == Coding(burst.burst_type, block).size
                wrong == Misplaced(burst.burst_type, block)
    <3>1. slots[i] = ChannelData(burst, "TrafficChannel", block, burst.cell)
      BY <2>6, <2>9
    <3>2. slots[i].data.bits = OnesAt(size, wrong)
      BY <3>1, OnesOfTraffic
    <3>3. size \in Nat
      BY DEF Coding
    <3>. HIDE DEF size, wrong
    <3>5. place \in 1 .. size /\ place - 1 \in wrong
      BY <2>9, <3>2, OnlyOnes
    <3>4. Misplaced(burst.burst_type, block) \subseteq {216}
      BY <2>2, <2>6, <2>9, MisplacedAtTheCut DEF HasBlocks, BurstTypes
    <3>. QED
      BY <3>3, <3>4, <3>5 DEF wrong
  <2>. QED
    BY <2>8, <2>9
<1>. QED
  BY <1>1, <1>2, PTL

-----------------------------------------------------------------------------
(* The Reed-Muller code of the access assignment is linear: each parity of *)
(* check bits that votes on a bit adds up to this bit, and one wrong bit is *)
(* outvoted.                                                               *)

\* What bit k adds to the parity of the bits at some places, and what they all do.
Addend(bits, places, k) == IF k \in places THEN bits[k] ELSE 0
Sum(bits, places) ==
    Addend(bits, places, 1) + Addend(bits, places, 2) + Addend(bits, places, 3)
    + Addend(bits, places, 4) + Addend(bits, places, 5) + Addend(bits, places, 6)
    + Addend(bits, places, 7) + Addend(bits, places, 8) + Addend(bits, places, 9)
    + Addend(bits, places, 10) + Addend(bits, places, 11) + Addend(bits, places, 12)
    + Addend(bits, places, 13) + Addend(bits, places, 14) + Addend(bits, places, 15)
    + Addend(bits, places, 16)

\* A parity is the sum of the bits.
LEMMA ParityOfSum ==
  ASSUME NEW bits, NEW places, places \subseteq 1 .. 16, \A p \in places : bits[p] \in Bit
  PROVE  Parity(bits, places) = Sum(bits, places) % 2
<1>. DEFINE ones == {p \in places : bits[p] = 1}
<1>1. /\ ones \subseteq 1 .. 16
      /\ \A k \in 1 .. 16 : Addend(bits, places, k) = IF k \in ones THEN 1 ELSE 0
  BY DEF Addend, Bit
<1>2. Parity(bits, places) = Cardinality(ones) % 2
  BY DEF Parity
<1>. HIDE DEF ones
<1>. DEFINE UpTo(k) == {p \in ones : p <= k}
            Count(k) == Cardinality(UpTo(k))
<1>0. \A p \in ones : p \in Int /\ 1 <= p /\ p <= 16
  BY <1>1
<1>3. \A k : IsFiniteSet(UpTo(k))
  <2>1. 1 \in Int /\ 16 \in Int
    OBVIOUS
  <2>2. IsFiniteSet(1 .. 16)
    BY <2>1, FS_Interval
  <2>3. \A k : UpTo(k) \in SUBSET (1 .. 16)
    BY <1>1
  <2>. QED
    BY <2>2, <2>3, FS_Subset
<1>4. Count(0) = 0
  <2>1. UpTo(0) = {}
    BY <1>0
  <2>. QED
    BY <2>1, FS_EmptySet
<1>5. ASSUME NEW k \in 1 .. 16 PROVE Count(k) = Count(k - 1) + Addend(bits, places, k)
  <2>1. Count(k - 1) \in Nat
    BY <1>3, FS_CardinalityType
  <2>2. CASE k \in ones
    <3>1. UpTo(k) = UpTo(k - 1) \cup {k} /\ k \notin UpTo(k - 1)
      <4>1. \A p \in ones : p <= k <=> p <= k - 1 \/ p = k
        BY <1>0
      <4>2. ~(k <= k - 1)
        OBVIOUS
      <4>. QED
        BY <2>2, <4>1, <4>2
    <3>2. IsFiniteSet(UpTo(k - 1))
      BY <1>3
    <3>. HIDE DEF UpTo
    <3>3. Count(k) = Count(k - 1) + 1
      BY <3>1, <3>2, FS_AddElement
    <3>. QED
      BY <1>1, <2>2, <3>3
  <2>3. CASE k \notin ones
    <3>1. UpTo(k) = UpTo(k - 1)
      BY <1>0, <2>3
    <3>. HIDE DEF UpTo
    <3>. QED
      BY <1>1, <2>1, <2>3, <3>1
  <2>. QED
    BY <2>2, <2>3
<1>6. ones = UpTo(16)
  BY <1>0
<1>7. \A k \in 1 .. 16 : Addend(bits, places, k) \in Int
  BY <1>1
<1>8. Cardinality(ones) = Count(16)
  BY <1>6
<1>. HIDE DEF Count
<1>9. Count(16) = Sum(bits, places)
  BY <1>4, <1>5, <1>7 DEF Sum
<1>. QED
  BY <1>2, <1>8, <1>9


\* The access assignment as it comes: the bits of its code word, of which the one that
\* is read from the training sequence may be misread, and another may be wrong, or none
\* if wrong is 0.
Flip(wrong, i) == IF i = wrong THEN 1 ELSE 0
First(misread) == IF misread THEN 15 ELSE 0
FlipBoth(misread, wrong, i) == Flip(First(misread), i) + Flip(wrong, i)
Comes(input, aach, misread, wrong) ==
    /\ aach \in Seq(Bit) /\ Len(aach) = 14
    /\ input \in Seq(Bit) /\ Len(input) = 30
    /\ misread \in BOOLEAN
    /\ wrong \in (0 .. 30) \ (Uncorrected(misread) \cup {15})
    /\ \A i \in 1 .. 14 : input[i] = (aach[i] + FlipBoth(misread, wrong, i)) % 2
    /\ \A n \in 1 .. 16 :
          input[14 + n] = (Parity(aach, Generator[n]) + FlipBoth(misread, wrong, 14 + n)) % 2

\* The check bits, and which of them are wrong.
Check(input) == SubSeq(input, 15, 30)
Flips(wrong) == [n \in 1 .. 16 |-> Flip(wrong, 14 + n)]
FlipsBoth(misread, wrong) == [n \in 1 .. 16 |-> FlipBoth(misread, wrong, 14 + n)]


\* What each check bit adds up.
LEMMA CheckBits ==
  ASSUME NEW input, NEW aach, NEW misread, NEW wrong, Comes(input, aach, misread, wrong)
  PROVE  /\ Check(input) \in [1 .. 16 -> Bit]
         /\ \A n \in 1 .. 16 :
               Check(input)[n] = (Parity(aach, Generator[n]) + FlipsBoth(misread, wrong)[n]) % 2
<1>1. Len(input) = 30 /\ input \in Seq(Bit)
  BY DEF Comes
<1>2. /\ Len(SubSeq(input, 15, 30)) = 30 - 15 + 1
      /\ \A n \in 1 .. 30 - 15 + 1 : SubSeq(input, 15, 30)[n] = input[15 + n - 1]
      /\ SubSeq(input, 15, 30) \in Seq(Bit)
  <2>1. 15 \in Int /\ 30 \in Int /\ \A i \in 15 .. 30 : input[i] \in Bit
    <3>1. input \in [1 .. 30 -> Bit]
      BY <1>1, LenProperties
    <3>2. \A i \in 15 .. 30 : i \in 1 .. 30
      OBVIOUS
    <3>. QED
      BY <3>1, <3>2
  <2>2. 30 - 15 + 1 = IF 15 <= 30 THEN 30 - 15 + 1 ELSE 0
    OBVIOUS
  <2>. QED
    BY <2>1, <2>2, SubSeqProperties
<1>3. /\ Len(Check(input)) = 16 /\ Check(input) \in Seq(Bit)
      /\ \A n \in 1 .. 16 : Check(input)[n] = input[14 + n]
  BY <1>2 DEF Check
<1>4. \A n \in 1 .. 16 : Check(input)[n] = (Parity(aach, Generator[n]) + FlipsBoth(misread, wrong)[n]) % 2
  BY <1>3 DEF Comes, FlipsBoth
<1>. QED
  BY <1>3, <1>4, LenProperties


\* The check bits that vote on one of the first six bits add up to this bit and what is
\* wrong with them, because every other bit is in an even number of them: x are the
\* bits, f what is wrong with the check bits c.
LEMMA VotesAddUp ==
  ASSUME NEW x \in [1 .. 14 -> Int], NEW f \in [1 .. 16 -> Int], NEW c \in [1 .. 16 -> Int],
         \A n \in 1 .. 16 : c[n] = ((Sum(x, Generator[n]) % 2) + f[n]) % 2
  PROVE  \A i \in 1 .. 6 : \A j \in 1 .. 4 :
            Sum(c, Checks[i][j]) % 2 = (x[i] + Sum(f, Checks[i][j])) % 2
<1>. DEFINE x1 == x[1]  x2 == x[2]  x3 == x[3]  x4 == x[4]  x5 == x[5]
            x6 == x[6]  x7 == x[7]  x8 == x[8]  x9 == x[9]  x10 == x[10]
            x11 == x[11]  x12 == x[12]  x13 == x[13]  x14 == x[14]
            f1 == f[1]  f2 == f[2]  f3 == f[3]  f4 == f[4]  f5 == f[5]
            f6 == f[6]  f7 == f[7]  f8 == f[8]  f9 == f[9]  f10 == f[10]
            f11 == f[11]  f12 == f[12]  f13 == f[13]  f14 == f[14]  f15 == f[15]
            c1 == c[1]  c2 == c[2]  c3 == c[3]  c4 == c[4]  c5 == c[5]
            c6 == c[6]  c7 == c[7]  c8 == c[8]  c9 == c[9]  c10 == c[10]
            c11 == c[11]  c12 == c[12]  c13 == c[13]  c14 == c[14]  c15 == c[15]
<1>1. /\ \A k \in 1 .. 14 : x[k] \in Int
      /\ \A n \in 1 .. 16 : f[n] \in Int /\ c[n] \in Int
  OBVIOUS
<1>2. /\ x1 \in Int /\ x2 \in Int /\ x3 \in Int /\ x4 \in Int /\ x5 \in Int /\ x6 \in Int /\
         x7 \in Int /\ x8 \in Int /\ x9 \in Int /\ x10 \in Int /\ x11 \in Int /\ x12 \in Int /\
         x13 \in Int /\ x14 \in Int
      /\ f1 \in Int /\ f2 \in Int /\ f3 \in Int /\ f4 \in Int /\ f5 \in Int /\ f6 \in Int /\
         f7 \in Int /\ f8 \in Int /\ f9 \in Int /\ f10 \in Int /\ f11 \in Int /\ f12 \in Int /\
         f13 \in Int /\ f14 \in Int /\ f15 \in Int
      /\ c1 \in Int /\ c2 \in Int /\ c3 \in Int /\ c4 \in Int /\ c5 \in Int /\ c6 \in Int /\
         c7 \in Int /\ c8 \in Int /\ c9 \in Int /\ c10 \in Int /\ c11 \in Int /\ c12 \in Int /\
         c13 \in Int /\ c14 \in Int /\ c15 \in Int
  BY <1>1
<1>3. /\ Sum(x, Generator[1]) = x1 + x3 + x4 + x5 + x8 + x9
      /\ Sum(x, Generator[2]) = x3 + x4 + x6 + x8 + x10
      /\ Sum(x, Generator[3]) = x2 + x3 + x4 + x7 + x8 + x11
      /\ Sum(x, Generator[4]) = x1 + x3 + x5 + x6 + x8 + x12
      /\ Sum(x, Generator[5]) = x1 + x2 + x3 + x5 + x7 + x8 + x13
      /\ Sum(x, Generator[6]) = x2 + x3 + x6 + x7 + x8 + x14
      /\ Sum(x, Generator[7]) = x1 + x8 + x9 + x10 + x12
      /\ Sum(x, Generator[8]) = x1 + x2 + x8 + x9 + x11 + x13
      /\ Sum(x, Generator[9]) = x2 + x8 + x10 + x11 + x14
      /\ Sum(x, Generator[10]) = x1 + x2 + x8 + x12 + x13 + x14
      /\ Sum(x, Generator[11]) = x1 + x2 + x3 + x4 + x5 + x6 + x7 + x9 + x10 + x11 + x12 + x13 + x14
      /\ Sum(x, Generator[12]) = x4 + x5 + x6 + x8 + x9 + x10 + x12
      /\ Sum(x, Generator[13]) = x4 + x5 + x7 + x8 + x9 + x11 + x13
      /\ Sum(x, Generator[14]) = x4 + x6 + x7 + x8 + x10 + x11 + x14
      /\ Sum(x, Generator[15]) = x5 + x6 + x7 + x8 + x12 + x13 + x14
  <2>1. /\ Generator[1] = {1, 3, 4, 5, 8, 9}
        /\ Generator[2] = {3, 4, 6, 8, 10}
        /\ Generator[3] = {2, 3, 4, 7, 8, 11}
        /\ Generator[4] = {1, 3, 5, 6, 8, 12}
        /\ Generator[5] = {1, 2, 3, 5, 7, 8, 13}
        /\ Generator[6] = {2, 3, 6, 7, 8, 14}
        /\ Generator[7] = {1, 8, 9, 10, 12}
        /\ Generator[8] = {1, 2, 8, 9, 11, 13}
        /\ Generator[9] = {2, 8, 10, 11, 14}
        /\ Generator[10] = {1, 2, 8, 12, 13, 14}
        /\ Generator[11] = {1, 2, 3, 4, 5, 6, 7, 9, 10, 11, 12, 13, 14}
        /\ Generator[12] = {4, 5, 6, 8, 9, 10, 12}
        /\ Generator[13] = {4, 5, 7, 8, 9, 11, 13}
        /\ Generator[14] = {4, 6, 7, 8, 10, 11, 14}
        /\ Generator[15] = {5, 6, 7, 8, 12, 13, 14}
    BY DEF Generator
  <2>2. Sum(x, {1, 3, 4, 5, 8, 9}) = x1 + x3 + x4 + x5 + x8 + x9
    BY <1>2 DEF Sum, Addend
  <2>3. Sum(x, {3, 4, 6, 8, 10}) = x3 + x4 + x6 + x8 + x10
    BY <1>2 DEF Sum, Addend
  <2>4. Sum(x, {2, 3, 4, 7, 8, 11}) = x2 + x3 + x4 + x7 + x8 + x11
    BY <1>2 DEF Sum, Addend
  <2>5. Sum(x, {1, 3, 5, 6, 8, 12}) = x1 + x3 + x5 + x6 + x8 + x12
    BY <1>2 DEF Sum, Addend
  <2>6. Sum(x, {1, 2, 3, 5, 7, 8, 13}) = x1 + x2 + x3 + x5 + x7 + x8 + x13
    BY <1>2 DEF Sum, Addend
  <2>7. Sum(x, {2, 3, 6, 7, 8, 14}) = x2 + x3 + x6 + x7 + x8 + x14
    BY <1>2 DEF Sum, Addend
  <2>8. Sum(x, {1, 8, 9, 10, 12}) = x1 + x8 + x9 + x10 + x12
    BY <1>2 DEF Sum, Addend
  <2>9. Sum(x, {1, 2, 8, 9, 11, 13}) = x1 + x2 + x8 + x9 + x11 + x13
    BY <1>2 DEF Sum, Addend
  <2>10. Sum(x, {2, 8, 10, 11, 14}) = x2 + x8 + x10 + x11 + x14
    BY <1>2 DEF Sum, Addend
  <2>11. Sum(x, {1, 2, 8, 12, 13, 14}) = x1 + x2 + x8 + x12 + x13 + x14
    BY <1>2 DEF Sum, Addend
  <2>12. Sum(x, {1, 2, 3, 4, 5, 6, 7, 9, 10, 11, 12, 13, 14})
            = x1 + x2 + x3 + x4 + x5 + x6 + x7 + x9 + x10 + x11 + x12 + x13 + x14
    BY <1>2 DEF Sum, Addend
  <2>13. Sum(x, {4, 5, 6, 8, 9, 10, 12}) = x4 + x5 + x6 + x8 + x9 + x10 + x12
    BY <1>2 DEF Sum, Addend
  <2>14. Sum(x, {4, 5, 7, 8, 9, 11, 13}) = x4 + x5 + x7 + x8 + x9 + x11 + x13
    BY <1>2 DEF Sum, Addend
  <2>15. Sum(x, {4, 6, 7, 8, 10, 11, 14}) = x4 + x6 + x7 + x8 + x10 + x11 + x14
    BY <1>2 DEF Sum, Addend
  <2>16. Sum(x, {5, 6, 7, 8, 12, 13, 14}) = x5 + x6 + x7 + x8 + x12 + x13 + x14
    BY <1>2 DEF Sum, Addend
  <2>. QED
    BY <2>1, <2>2, <2>3, <2>4, <2>5, <2>6, <2>7, <2>8, <2>9, <2>10, <2>11, <2>12, <2>13, <2>14, <2>15, <2>16
<1>4. /\ c1 = (((x1 + x3 + x4 + x5 + x8 + x9) % 2) + f1) % 2
      /\ c2 = (((x3 + x4 + x6 + x8 + x10) % 2) + f2) % 2
      /\ c3 = (((x2 + x3 + x4 + x7 + x8 + x11) % 2) + f3) % 2
      /\ c4 = (((x1 + x3 + x5 + x6 + x8 + x12) % 2) + f4) % 2
      /\ c5 = (((x1 + x2 + x3 + x5 + x7 + x8 + x13) % 2) + f5) % 2
      /\ c6 = (((x2 + x3 + x6 + x7 + x8 + x14) % 2) + f6) % 2
      /\ c7 = (((x1 + x8 + x9 + x10 + x12) % 2) + f7) % 2
      /\ c8 = (((x1 + x2 + x8 + x9 + x11 + x13) % 2) + f8) % 2
      /\ c9 = (((x2 + x8 + x10 + x11 + x14) % 2) + f9) % 2
      /\ c10 = (((x1 + x2 + x8 + x12 + x13 + x14) % 2) + f10) % 2
      /\ c11 = (((x1 + x2 + x3 + x4 + x5 + x6 + x7 + x9 + x10 + x11 + x12 + x13 + x14) % 2) + f11) % 2
      /\ c12 = (((x4 + x5 + x6 + x8 + x9 + x10 + x12) % 2) + f12) % 2
      /\ c13 = (((x4 + x5 + x7 + x8 + x9 + x11 + x13) % 2) + f13) % 2
      /\ c14 = (((x4 + x6 + x7 + x8 + x10 + x11 + x14) % 2) + f14) % 2
      /\ c15 = (((x5 + x6 + x7 + x8 + x12 + x13 + x14) % 2) + f15) % 2
  BY <1>3
<1>. DEFINE Agrees(bit, places) == Sum(c, places) % 2 = (bit + Sum(f, places)) % 2
<1>5. /\ x[1] = x1 /\ x[2] = x2 /\ x[3] = x3 /\ x[4] = x4 /\ x[5] = x5 /\ x[6] = x6
      /\ f[1] = f1 /\ f[2] = f2 /\ f[3] = f3 /\ f[4] = f4 /\ f[5] = f5 /\ f[6] = f6 /\
         f[7] = f7 /\ f[8] = f8 /\ f[9] = f9 /\ f[10] = f10 /\ f[11] = f11 /\ f[12] = f12 /\
         f[13] = f13 /\ f[14] = f14 /\ f[15] = f15
      /\ c[1] = c1 /\ c[2] = c2 /\ c[3] = c3 /\ c[4] = c4 /\ c[5] = c5 /\ c[6] = c6 /\
         c[7] = c7 /\ c[8] = c8 /\ c[9] = c9 /\ c[10] = c10 /\ c[11] = c11 /\ c[12] = c12 /\
         c[13] = c13 /\ c[14] = c14 /\ c[15] = c15
  OBVIOUS
<1>. HIDE DEF x1, x2, x3, x4, x5, x6, x7, x8, x9, x10, x11, x12, x13, x14, f1, f2, f3, f4,
              f5, f6, f7, f8, f9, f10, f11, f12, f13, f14, f15, c1, c2, c3, c4, c5, c6, c7,
              c8, c9, c10, c11, c12, c13, c14, c15
<1>6. /\ Agrees(x1, {3, 5, 6, 7, 11})
       /\ Agrees(x1, {1, 2, 5, 6, 8, 9})
       /\ Agrees(x1, {2, 3, 4, 5, 9, 10})
       /\ Agrees(x1, {1, 4, 5, 7, 8, 10, 11})
  <2>1. Agrees(x1, {3, 5, 6, 7, 11})
    <3>1. Sum(c, {3, 5, 6, 7, 11}) = c3 + c5 + c6 + c7 + c11
      BY <1>2, <1>5 DEF Sum, Addend
    <3>2. Sum(f, {3, 5, 6, 7, 11}) = f3 + f5 + f6 + f7 + f11
      BY <1>2, <1>5 DEF Sum, Addend
    <3>3. (c3 + c5 + c6 + c7 + c11) % 2
             = (x1 + (f3 + f5 + f6 + f7 + f11)) % 2
      BY <1>2, <1>4
    <3>. QED
      BY <3>1, <3>2, <3>3
  <2>2. Agrees(x1, {1, 2, 5, 6, 8, 9})
    <3>1. Sum(c, {1, 2, 5, 6, 8, 9}) = c1 + c2 + c5 + c6 + c8 + c9
      BY <1>2, <1>5 DEF Sum, Addend
    <3>2. Sum(f, {1, 2, 5, 6, 8, 9}) = f1 + f2 + f5 + f6 + f8 + f9
      BY <1>2, <1>5 DEF Sum, Addend
    <3>3. (c1 + c2 + c5 + c6 + c8 + c9) % 2
             = (x1 + (f1 + f2 + f5 + f6 + f8 + f9)) % 2
      BY <1>2, <1>4
    <3>. QED
      BY <3>1, <3>2, <3>3
  <2>3. Agrees(x1, {2, 3, 4, 5, 9, 10})
    <3>1. Sum(c, {2, 3, 4, 5, 9, 10}) = c2 + c3 + c4 + c5 + c9 + c10
      BY <1>2, <1>5 DEF Sum, Addend
    <3>2. Sum(f, {2, 3, 4, 5, 9, 10}) = f2 + f3 + f4 + f5 + f9 + f10
      BY <1>2, <1>5 DEF Sum, Addend
    <3>3. (c2 + c3 + c4 + c5 + c9 + c10) % 2
             = (x1 + (f2 + f3 + f4 + f5 + f9 + f10)) % 2
      BY <1>2, <1>4
    <3>. QED
      BY <3>1, <3>2, <3>3
  <2>4. Agrees(x1, {1, 4, 5, 7, 8, 10, 11})
    <3>1. Sum(c, {1, 4, 5, 7, 8, 10, 11}) = c1 + c4 + c5 + c7 + c8 + c10 + c11
      BY <1>2, <1>5 DEF Sum, Addend
    <3>2. Sum(f, {1, 4, 5, 7, 8, 10, 11}) = f1 + f4 + f5 + f7 + f8 + f10 + f11
      BY <1>2, <1>5 DEF Sum, Addend
    <3>3. (c1 + c4 + c5 + c7 + c8 + c10 + c11) % 2
             = (x1 + (f1 + f4 + f5 + f7 + f8 + f10 + f11)) % 2
      BY <1>2, <1>4
    <3>. QED
      BY <3>1, <3>2, <3>3
  <2>. QED
    BY <2>1, <2>2, <2>3, <2>4
<1>7. /\ Agrees(x2, {1, 4, 5, 9, 11})
       /\ Agrees(x2, {1, 2, 5, 6, 7, 10})
       /\ Agrees(x2, {2, 3, 4, 5, 7, 8})
       /\ Agrees(x2, {3, 5, 6, 8, 9, 10, 11})
  <2>1. Agrees(x2, {1, 4, 5, 9, 11})
    <3>1. Sum(c, {1, 4, 5, 9, 11}) = c1 + c4 + c5 + c9 + c11
      BY <1>2, <1>5 DEF Sum, Addend
    <3>2. Sum(f, {1, 4, 5, 9, 11}) = f1 + f4 + f5 + f9 + f11
      BY <1>2, <1>5 DEF Sum, Addend
    <3>3. (c1 + c4 + c5 + c9 + c11) % 2
             = (x2 + (f1 + f4 + f5 + f9 + f11)) % 2
      BY <1>2, <1>4
    <3>. QED
      BY <3>1, <3>2, <3>3
  <2>2. Agrees(x2, {1, 2, 5, 6, 7, 10})
    <3>1. Sum(c, {1, 2, 5, 6, 7, 10}) = c1 + c2 + c5 + c6 + c7 + c10
      BY <1>2, <1>5 DEF Sum, Addend
    <3>2. Sum(f, {1, 2, 5, 6, 7, 10}) = f1 + f2 + f5 + f6 + f7 + f10
      BY <1>2, <1>5 DEF Sum, Addend
    <3>3. (c1 + c2 + c5 + c6 + c7 + c10) % 2
             = (x2 + (f1 + f2 + f5 + f6 + f7 + f10)) % 2
      BY <1>2, <1>4
    <3>. QED
      BY <3>1, <3>2, <3>3
  <2>3. Agrees(x2, {2, 3, 4, 5, 7, 8})
    <3>1. Sum(c, {2, 3, 4, 5, 7, 8}) = c2 + c3 + c4 + c5 + c7 + c8
      BY <1>2, <1>5 DEF Sum, Addend
    <3>2. Sum(f, {2, 3, 4, 5, 7, 8}) = f2 + f3 + f4 + f5 + f7 + f8
      BY <1>2, <1>5 DEF Sum, Addend
    <3>3. (c2 + c3 + c4 + c5 + c7 + c8) % 2
             = (x2 + (f2 + f3 + f4 + f5 + f7 + f8)) % 2
      BY <1>2, <1>4
    <3>. QED
      BY <3>1, <3>2, <3>3
  <2>4. Agrees(x2, {3, 5, 6, 8, 9, 10, 11})
    <3>1. Sum(c, {3, 5, 6, 8, 9, 10, 11}) = c3 + c5 + c6 + c8 + c9 + c10 + c11
      BY <1>2, <1>5 DEF Sum, Addend
    <3>2. Sum(f, {3, 5, 6, 8, 9, 10, 11}) = f3 + f5 + f6 + f8 + f9 + f10 + f11
      BY <1>2, <1>5 DEF Sum, Addend
    <3>3. (c3 + c5 + c6 + c8 + c9 + c10 + c11) % 2
             = (x2 + (f3 + f5 + f6 + f8 + f9 + f10 + f11)) % 2
      BY <1>2, <1>4
    <3>. QED
      BY <3>1, <3>2, <3>3
  <2>. QED
    BY <2>1, <2>2, <2>3, <2>4
<1>8. /\ Agrees(x3, {2, 5, 8, 10, 11})
       /\ Agrees(x3, {1, 3, 5, 7, 9, 10})
       /\ Agrees(x3, {4, 5, 6, 7, 8, 9})
       /\ Agrees(x3, {1, 2, 3, 4, 5, 6, 11})
  <2>1. Agrees(x3, {2, 5, 8, 10, 11})
    <3>1. Sum(c, {2, 5, 8, 10, 11}) = c2 + c5 + c8 + c10 + c11
      BY <1>2, <1>5 DEF Sum, Addend
    <3>2. Sum(f, {2, 5, 8, 10, 11}) = f2 + f5 + f8 + f10 + f11
      BY <1>2, <1>5 DEF Sum, Addend
    <3>3. (c2 + c5 + c8 + c10 + c11) % 2
             = (x3 + (f2 + f5 + f8 + f10 + f11)) % 2
      BY <1>2, <1>4
    <3>. QED
      BY <3>1, <3>2, <3>3
  <2>2. Agrees(x3, {1, 3, 5, 7, 9, 10})
    <3>1. Sum(c, {1, 3, 5, 7, 9, 10}) = c1 + c3 + c5 + c7 + c9 + c10
      BY <1>2, <1>5 DEF Sum, Addend
    <3>2. Sum(f, {1, 3, 5, 7, 9, 10}) = f1 + f3 + f5 + f7 + f9 + f10
      BY <1>2, <1>5 DEF Sum, Addend
    <3>3. (c1 + c3 + c5 + c7 + c9 + c10) % 2
             = (x3 + (f1 + f3 + f5 + f7 + f9 + f10)) % 2
      BY <1>2, <1>4
    <3>. QED
      BY <3>1, <3>2, <3>3
  <2>3. Agrees(x3, {4, 5, 6, 7, 8, 9})
    <3>1. Sum(c, {4, 5, 6, 7, 8, 9}) = c4 + c5 + c6 + c7 + c8 + c9
      BY <1>2, <1>5 DEF Sum, Addend
    <3>2. Sum(f, {4, 5, 6, 7, 8, 9}) = f4 + f5 + f6 + f7 + f8 + f9
      BY <1>2, <1>5 DEF Sum, Addend
    <3>3. (c4 + c5 + c6 + c7 + c8 + c9) % 2
             = (x3 + (f4 + f5 + f6 + f7 + f8 + f9)) % 2
      BY <1>2, <1>4
    <3>. QED
      BY <3>1, <3>2, <3>3
  <2>4. Agrees(x3, {1, 2, 3, 4, 5, 6, 11})
    <3>1. Sum(c, {1, 2, 3, 4, 5, 6, 11}) = c1 + c2 + c3 + c4 + c5 + c6 + c11
      BY <1>2, <1>5 DEF Sum, Addend
    <3>2. Sum(f, {1, 2, 3, 4, 5, 6, 11}) = f1 + f2 + f3 + f4 + f5 + f6 + f11
      BY <1>2, <1>5 DEF Sum, Addend
    <3>3. (c1 + c2 + c3 + c4 + c5 + c6 + c11) % 2
             = (x3 + (f1 + f2 + f3 + f4 + f5 + f6 + f11)) % 2
      BY <1>2, <1>4
    <3>. QED
      BY <3>1, <3>2, <3>3
  <2>. QED
    BY <2>1, <2>2, <2>3, <2>4
<1>9. /\ Agrees(x4, {7, 8, 9, 12, 13, 14})
       /\ Agrees(x4, {1, 2, 3, 11, 12, 13, 14})
       /\ Agrees(x4, {2, 4, 6, 8, 10, 11, 12, 13, 14})
       /\ Agrees(x4, {1, 3, 4, 6, 7, 9, 10, 12, 13, 14})
  <2>1. Agrees(x4, {7, 8, 9, 12, 13, 14})
    <3>1. Sum(c, {7, 8, 9, 12, 13, 14}) = c7 + c8 + c9 + c12 + c13 + c14
      BY <1>2, <1>5 DEF Sum, Addend
    <3>2. Sum(f, {7, 8, 9, 12, 13, 14}) = f7 + f8 + f9 + f12 + f13 + f14
      BY <1>2, <1>5 DEF Sum, Addend
    <3>3. (c7 + c8 + c9 + c12 + c13 + c14) % 2
             = (x4 + (f7 + f8 + f9 + f12 + f13 + f14)) % 2
      BY <1>2, <1>4
    <3>. QED
      BY <3>1, <3>2, <3>3
  <2>2. Agrees(x4, {1, 2, 3, 11, 12, 13, 14})
    <3>1. Sum(c, {1, 2, 3, 11, 12, 13, 14}) = c1 + c2 + c3 + c11 + c12 + c13 + c14
      BY <1>2, <1>5 DEF Sum, Addend
    <3>2. Sum(f, {1, 2, 3, 11, 12, 13, 14}) = f1 + f2 + f3 + f11 + f12 + f13 + f14
      BY <1>2, <1>5 DEF Sum, Addend
    <3>3. (c1 + c2 + c3 + c11 + c12 + c13 + c14) % 2
             = (x4 + (f1 + f2 + f3 + f11 + f12 + f13 + f14)) % 2
      BY <1>2, <1>4
    <3>. QED
      BY <3>1, <3>2, <3>3
  <2>3. Agrees(x4, {2, 4, 6, 8, 10, 11, 12, 13, 14})
    <3>1. Sum(c, {2, 4, 6, 8, 10, 11, 12, 13, 14}) = c2 + c4 + c6 + c8 + c10 + c11 + c12 + c13 + c14
      BY <1>2, <1>5 DEF Sum, Addend
    <3>2. Sum(f, {2, 4, 6, 8, 10, 11, 12, 13, 14}) = f2 + f4 + f6 + f8 + f10 + f11 + f12 + f13 + f14
      BY <1>2, <1>5 DEF Sum, Addend
    <3>3. (c2 + c4 + c6 + c8 + c10 + c11 + c12 + c13 + c14) % 2
             = (x4 + (f2 + f4 + f6 + f8 + f10 + f11 + f12 + f13 + f14)) % 2
      BY <1>2, <1>4
    <3>. QED
      BY <3>1, <3>2, <3>3
  <2>4. Agrees(x4, {1, 3, 4, 6, 7, 9, 10, 12, 13, 14})
    <3>1. Sum(c, {1, 3, 4, 6, 7, 9, 10, 12, 13, 14}) = c1 + c3 + c4 + c6 + c7 + c9 + c10 + c12 + c13 + c14
      BY <1>2, <1>5 DEF Sum, Addend
    <3>2. Sum(f, {1, 3, 4, 6, 7, 9, 10, 12, 13, 14}) = f1 + f3 + f4 + f6 + f7 + f9 + f10 + f12 + f13 + f14
      BY <1>2, <1>5 DEF Sum, Addend
    <3>3. (c1 + c3 + c4 + c6 + c7 + c9 + c10 + c12 + c13 + c14) % 2
             = (x4 + (f1 + f3 + f4 + f6 + f7 + f9 + f10 + f12 + f13 + f14)) % 2
      BY <1>2, <1>4
    <3>. QED
      BY <3>1, <3>2, <3>3
  <2>. QED
    BY <2>1, <2>2, <2>3, <2>4
<1>10. /\ Agrees(x5, {1, 4, 5, 11, 12, 13, 15})
       /\ Agrees(x5, {3, 5, 6, 8, 10, 11, 12, 13, 15})
       /\ Agrees(x5, {1, 2, 5, 6, 7, 9, 10, 12, 13, 15})
       /\ Agrees(x5, {2, 3, 4, 5, 7, 8, 9, 12, 13, 15})
  <2>1. Agrees(x5, {1, 4, 5, 11, 12, 13, 15})
    <3>1. Sum(c, {1, 4, 5, 11, 12, 13, 15}) = c1 + c4 + c5 + c11 + c12 + c13 + c15
      BY <1>2, <1>5 DEF Sum, Addend
    <3>2. Sum(f, {1, 4, 5, 11, 12, 13, 15}) = f1 + f4 + f5 + f11 + f12 + f13 + f15
      BY <1>2, <1>5 DEF Sum, Addend
    <3>3. (c1 + c4 + c5 + c11 + c12 + c13 + c15) % 2
             = (x5 + (f1 + f4 + f5 + f11 + f12 + f13 + f15)) % 2
      BY <1>2, <1>4
    <3>. QED
      BY <3>1, <3>2, <3>3
  <2>2. Agrees(x5, {3, 5, 6, 8, 10, 11, 12, 13, 15})
    <3>1. Sum(c, {3, 5, 6, 8, 10, 11, 12, 13, 15}) = c3 + c5 + c6 + c8 + c10 + c11 + c12 + c13 + c15
      BY <1>2, <1>5 DEF Sum, Addend
    <3>2. Sum(f, {3, 5, 6, 8, 10, 11, 12, 13, 15}) = f3 + f5 + f6 + f8 + f10 + f11 + f12 + f13 + f15
      BY <1>2, <1>5 DEF Sum, Addend
    <3>3. (c3 + c5 + c6 + c8 + c10 + c11 + c12 + c13 + c15) % 2
             = (x5 + (f3 + f5 + f6 + f8 + f10 + f11 + f12 + f13 + f15)) % 2
      BY <1>2, <1>4
    <3>. QED
      BY <3>1, <3>2, <3>3
  <2>3. Agrees(x5, {1, 2, 5, 6, 7, 9, 10, 12, 13, 15})
    <3>1. Sum(c, {1, 2, 5, 6, 7, 9, 10, 12, 13, 15}) = c1 + c2 + c5 + c6 + c7 + c9 + c10 + c12 + c13 + c15
      BY <1>2, <1>5 DEF Sum, Addend
    <3>2. Sum(f, {1, 2, 5, 6, 7, 9, 10, 12, 13, 15}) = f1 + f2 + f5 + f6 + f7 + f9 + f10 + f12 + f13 + f15
      BY <1>2, <1>5 DEF Sum, Addend
    <3>3. (c1 + c2 + c5 + c6 + c7 + c9 + c10 + c12 + c13 + c15) % 2
             = (x5 + (f1 + f2 + f5 + f6 + f7 + f9 + f10 + f12 + f13 + f15)) % 2
      BY <1>2, <1>4
    <3>. QED
      BY <3>1, <3>2, <3>3
  <2>4. Agrees(x5, {2, 3, 4, 5, 7, 8, 9, 12, 13, 15})
    <3>1. Sum(c, {2, 3, 4, 5, 7, 8, 9, 12, 13, 15}) = c2 + c3 + c4 + c5 + c7 + c8 + c9 + c12 + c13 + c15
      BY <1>2, <1>5 DEF Sum, Addend
    <3>2. Sum(f, {2, 3, 4, 5, 7, 8, 9, 12, 13, 15}) = f2 + f3 + f4 + f5 + f7 + f8 + f9 + f12 + f13 + f15
      BY <1>2, <1>5 DEF Sum, Addend
    <3>3. (c2 + c3 + c4 + c5 + c7 + c8 + c9 + c12 + c13 + c15) % 2
             = (x5 + (f2 + f3 + f4 + f5 + f7 + f8 + f9 + f12 + f13 + f15)) % 2
      BY <1>2, <1>4
    <3>. QED
      BY <3>1, <3>2, <3>3
  <2>. QED
    BY <2>1, <2>2, <2>3, <2>4
<1>11. /\ Agrees(x6, {7, 9, 10, 12, 14, 15})
       /\ Agrees(x6, {2, 4, 6, 11, 12, 14, 15})
       /\ Agrees(x6, {1, 2, 3, 8, 10, 11, 12, 14, 15})
       /\ Agrees(x6, {1, 3, 4, 6, 7, 8, 9, 12, 14, 15})
  <2>1. Agrees(x6, {7, 9, 10, 12, 14, 15})
    <3>1. Sum(c, {7, 9, 10, 12, 14, 15}) = c7 + c9 + c10 + c12 + c14 + c15
      BY <1>2, <1>5 DEF Sum, Addend
    <3>2. Sum(f, {7, 9, 10, 12, 14, 15}) = f7 + f9 + f10 + f12 + f14 + f15
      BY <1>2, <1>5 DEF Sum, Addend
    <3>3. (c7 + c9 + c10 + c12 + c14 + c15) % 2
             = (x6 + (f7 + f9 + f10 + f12 + f14 + f15)) % 2
      BY <1>2, <1>4
    <3>. QED
      BY <3>1, <3>2, <3>3
  <2>2. Agrees(x6, {2, 4, 6, 11, 12, 14, 15})
    <3>1. Sum(c, {2, 4, 6, 11, 12, 14, 15}) = c2 + c4 + c6 + c11 + c12 + c14 + c15
      BY <1>2, <1>5 DEF Sum, Addend
    <3>2. Sum(f, {2, 4, 6, 11, 12, 14, 15}) = f2 + f4 + f6 + f11 + f12 + f14 + f15
      BY <1>2, <1>5 DEF Sum, Addend
    <3>3. (c2 + c4 + c6 + c11 + c12 + c14 + c15) % 2
             = (x6 + (f2 + f4 + f6 + f11 + f12 + f14 + f15)) % 2
      BY <1>2, <1>4
    <3>. QED
      BY <3>1, <3>2, <3>3
  <2>3. Agrees(x6, {1, 2, 3, 8, 10, 11, 12, 14, 15})
    <3>1. Sum(c, {1, 2, 3, 8, 10, 11, 12, 14, 15}) = c1 + c2 + c3 + c8 + c10 + c11 + c12 + c14 + c15
      BY <1>2, <1>5 DEF Sum, Addend
    <3>2. Sum(f, {1, 2, 3, 8, 10, 11, 12, 14, 15}) = f1 + f2 + f3 + f8 + f10 + f11 + f12 + f14 + f15
      BY <1>2, <1>5 DEF Sum, Addend
    <3>3. (c1 + c2 + c3 + c8 + c10 + c11 + c12 + c14 + c15) % 2
             = (x6 + (f1 + f2 + f3 + f8 + f10 + f11 + f12 + f14 + f15)) % 2
      BY <1>2, <1>4
    <3>. QED
      BY <3>1, <3>2, <3>3
  <2>4. Agrees(x6, {1, 3, 4, 6, 7, 8, 9, 12, 14, 15})
    <3>1. Sum(c, {1, 3, 4, 6, 7, 8, 9, 12, 14, 15}) = c1 + c3 + c4 + c6 + c7 + c8 + c9 + c12 + c14 + c15
      BY <1>2, <1>5 DEF Sum, Addend
    <3>2. Sum(f, {1, 3, 4, 6, 7, 8, 9, 12, 14, 15}) = f1 + f3 + f4 + f6 + f7 + f8 + f9 + f12 + f14 + f15
      BY <1>2, <1>5 DEF Sum, Addend
    <3>3. (c1 + c3 + c4 + c6 + c7 + c8 + c9 + c12 + c14 + c15) % 2
             = (x6 + (f1 + f3 + f4 + f6 + f7 + f8 + f9 + f12 + f14 + f15)) % 2
      BY <1>2, <1>4
    <3>. QED
      BY <3>1, <3>2, <3>3
  <2>. QED
    BY <2>1, <2>2, <2>3, <2>4
<1>. HIDE DEF Agrees
<1>12. \A j \in 1 .. 4 : Agrees(x1, Checks[1][j])
  <2>1. /\ Checks[1][1] = {3, 5, 6, 7, 11}
        /\ Checks[1][2] = {1, 2, 5, 6, 8, 9}
        /\ Checks[1][3] = {2, 3, 4, 5, 9, 10}
        /\ Checks[1][4] = {1, 4, 5, 7, 8, 10, 11}
    BY DEF Checks, ChecksOfFirst, ChecksOfLast
  <2>2. Agrees(x1, Checks[1][1]) /\ Agrees(x1, Checks[1][2])
        /\ Agrees(x1, Checks[1][3]) /\ Agrees(x1, Checks[1][4])
    BY <1>6, <2>1, Zenon
  <2>. QED
    BY <2>2
<1>13. \A j \in 1 .. 4 : Agrees(x2, Checks[2][j])
  <2>1. /\ Checks[2][1] = {1, 4, 5, 9, 11}
        /\ Checks[2][2] = {1, 2, 5, 6, 7, 10}
        /\ Checks[2][3] = {2, 3, 4, 5, 7, 8}
        /\ Checks[2][4] = {3, 5, 6, 8, 9, 10, 11}
    BY DEF Checks, ChecksOfFirst, ChecksOfLast
  <2>2. Agrees(x2, Checks[2][1]) /\ Agrees(x2, Checks[2][2])
        /\ Agrees(x2, Checks[2][3]) /\ Agrees(x2, Checks[2][4])
    BY <1>7, <2>1, Zenon
  <2>. QED
    BY <2>2
<1>14. \A j \in 1 .. 4 : Agrees(x3, Checks[3][j])
  <2>1. /\ Checks[3][1] = {2, 5, 8, 10, 11}
        /\ Checks[3][2] = {1, 3, 5, 7, 9, 10}
        /\ Checks[3][3] = {4, 5, 6, 7, 8, 9}
        /\ Checks[3][4] = {1, 2, 3, 4, 5, 6, 11}
    BY DEF Checks, ChecksOfFirst, ChecksOfLast
  <2>2. Agrees(x3, Checks[3][1]) /\ Agrees(x3, Checks[3][2])
        /\ Agrees(x3, Checks[3][3]) /\ Agrees(x3, Checks[3][4])
    BY <1>8, <2>1, Zenon
  <2>. QED
    BY <2>2
<1>15. \A j \in 1 .. 4 : Agrees(x4, Checks[4][j])
  <2>1. /\ Checks[4][1] = {7, 8, 9, 12, 13, 14}
        /\ Checks[4][2] = {1, 2, 3, 11, 12, 13, 14}
        /\ Checks[4][3] = {2, 4, 6, 8, 10, 11, 12, 13, 14}
        /\ Checks[4][4] = {1, 3, 4, 6, 7, 9, 10, 12, 13, 14}
    BY DEF Checks, ChecksOfFirst, ChecksOfLast
  <2>2. Agrees(x4, Checks[4][1]) /\ Agrees(x4, Checks[4][2])
        /\ Agrees(x4, Checks[4][3]) /\ Agrees(x4, Checks[4][4])
    BY <1>9, <2>1, Zenon
  <2>. QED
    BY <2>2
<1>16. \A j \in 1 .. 4 : Agrees(x5, Checks[5][j])
  <2>1. /\ Checks[5][1] = {1, 4, 5, 11, 12, 13, 15}
        /\ Checks[5][2] = {3, 5, 6, 8, 10, 11, 12, 13, 15}
        /\ Checks[5][3] = {1, 2, 5, 6, 7, 9, 10, 12, 13, 15}
        /\ Checks[5][4] = {2, 3, 4, 5, 7, 8, 9, 12, 13, 15}
    BY DEF Checks, ChecksOfFirst, ChecksOfLast
  <2>2. Agrees(x5, Checks[5][1]) /\ Agrees(x5, Checks[5][2])
        /\ Agrees(x5, Checks[5][3]) /\ Agrees(x5, Checks[5][4])
    BY <1>10, <2>1, Zenon
  <2>. QED
    BY <2>2
<1>17. \A j \in 1 .. 4 : Agrees(x6, Checks[6][j])
  <2>1. /\ Checks[6][1] = {7, 9, 10, 12, 14, 15}
        /\ Checks[6][2] = {2, 4, 6, 11, 12, 14, 15}
        /\ Checks[6][3] = {1, 2, 3, 8, 10, 11, 12, 14, 15}
        /\ Checks[6][4] = {1, 3, 4, 6, 7, 8, 9, 12, 14, 15}
    BY DEF Checks, ChecksOfFirst, ChecksOfLast
  <2>2. Agrees(x6, Checks[6][1]) /\ Agrees(x6, Checks[6][2])
        /\ Agrees(x6, Checks[6][3]) /\ Agrees(x6, Checks[6][4])
    BY <1>11, <2>1, Zenon
  <2>. QED
    BY <2>2
<1>. USE DEF Agrees
<1>. QED
  BY <1>5, <1>12, <1>13, <1>14, <1>15, <1>16, <1>17

\* Whether the wrong bit is one of the check bits at some places.
Hit(wrong, places) == IF wrong - 14 \in places THEN 1 ELSE 0

\* What is wrong with the sum of some check bits.
LEMMA FlipsAddUp ==
  ASSUME NEW wrong \in 0 .. 30, NEW places \in SUBSET (1 .. 16)
  PROVE  Sum(Flips(wrong), places) = Hit(wrong, places)
<1>1. \A n \in 1 .. 16 : Addend(Flips(wrong), places, n) = IF wrong = 14 + n /\ n \in places THEN 1 ELSE 0
  BY DEF Flips, Flip, Addend
<1>2. wrong - 14 \in places <=> \E n \in 1 .. 16 : wrong = 14 + n /\ n \in places
  OBVIOUS
<1>. HIDE DEF Addend
<1>3. CASE wrong - 14 \in places
  <2>1. PICK k \in 1 .. 16 : wrong = 14 + k /\ k \in places
    BY <1>2, <1>3
  <2>2. \A n \in 1 .. 16 : Addend(Flips(wrong), places, n) = IF n = k THEN 1 ELSE 0
    BY <1>1, <2>1
  <2>. QED
    BY <1>3, <2>2 DEF Sum, Hit
<1>4. CASE wrong - 14 \notin places
  <2>1. \A n \in 1 .. 16 : Addend(Flips(wrong), places, n) = 0
    BY <1>1, <1>2, <1>4
  <2>. QED
    BY <1>4, <2>1 DEF Sum, Hit
<1>. QED
  BY <1>3, <1>4

\* With a misread bit, that of both: a vote is spoiled if one of them is in it.
HitBoth(misread, wrong, places) == Hit(First(misread), places) + Hit(wrong, places)
Spoils(misread, wrong, places) == IF Hit(First(misread), places) = Hit(wrong, places) THEN 0 ELSE 1

LEMMA FlipsOfBoth ==
  ASSUME NEW misread \in BOOLEAN, NEW wrong \in 0 .. 30, NEW places \in SUBSET (1 .. 16)
  PROVE  Sum(FlipsBoth(misread, wrong), places) = HitBoth(misread, wrong, places)
<1>. DEFINE first == First(misread)
<1>1. first \in 0 .. 30
  BY DEF First
<1>. HIDE DEF first
<1>2. /\ Sum(Flips(first), places) = Hit(first, places)
      /\ Sum(Flips(wrong), places) = Hit(wrong, places)
  BY <1>1, FlipsAddUp
<1>3. \A n \in 1 .. 16 :
         /\ Addend(FlipsBoth(misread, wrong), places, n)
               = Addend(Flips(first), places, n) + Addend(Flips(wrong), places, n)
         /\ Addend(Flips(first), places, n) \in Int /\ Addend(Flips(wrong), places, n) \in Int
  <2>1. /\ FlipsBoth(misread, wrong) = [n \in 1 .. 16 |-> Flip(first, 14 + n) + Flip(wrong, 14 + n)]
        /\ Flips(first) = [n \in 1 .. 16 |-> Flip(first, 14 + n)]
        /\ Flips(wrong) = [n \in 1 .. 16 |-> Flip(wrong, 14 + n)]
    BY DEF FlipsBoth, FlipBoth, Flips, first
  <2>2. \A k, n : Flip(k, n) \in Int
    BY DEF Flip
  <2>. QED
    BY <2>1, <2>2 DEF Addend
<1>. HIDE DEF Addend
<1>4. Sum(FlipsBoth(misread, wrong), places) = Sum(Flips(first), places) + Sum(Flips(wrong), places)
  <2>. DEFINE Both(n) == Addend(FlipsBoth(misread, wrong), places, n)
              A(n) == Addend(Flips(first), places, n)
              B(n) == Addend(Flips(wrong), places, n)
  <2>1. \A n \in 1 .. 16 : Both(n) = A(n) + B(n) /\ A(n) \in Int /\ B(n) \in Int
    BY <1>3
  <2>2. /\ Sum(FlipsBoth(misread, wrong), places)
              = Both(1) + Both(2) + Both(3) + Both(4) + Both(5) + Both(6) + Both(7) + Both(8)
                + Both(9) + Both(10) + Both(11) + Both(12) + Both(13) + Both(14) + Both(15) + Both(16)
        /\ Sum(Flips(first), places)
              = A(1) + A(2) + A(3) + A(4) + A(5) + A(6) + A(7) + A(8)
                + A(9) + A(10) + A(11) + A(12) + A(13) + A(14) + A(15) + A(16)
        /\ Sum(Flips(wrong), places)
              = B(1) + B(2) + B(3) + B(4) + B(5) + B(6) + B(7) + B(8)
                + B(9) + B(10) + B(11) + B(12) + B(13) + B(14) + B(15) + B(16)
    BY DEF Sum
  <2>. HIDE DEF Both, A, B
  <2>3. /\ Both(1) = A(1) + B(1) /\ Both(2) = A(2) + B(2) /\ Both(3) = A(3) + B(3)
        /\ Both(4) = A(4) + B(4) /\ Both(5) = A(5) + B(5) /\ Both(6) = A(6) + B(6)
        /\ Both(7) = A(7) + B(7) /\ Both(8) = A(8) + B(8) /\ Both(9) = A(9) + B(9)
        /\ Both(10) = A(10) + B(10) /\ Both(11) = A(11) + B(11) /\ Both(12) = A(12) + B(12)
        /\ Both(13) = A(13) + B(13) /\ Both(14) = A(14) + B(14) /\ Both(15) = A(15) + B(15)
        /\ Both(16) = A(16) + B(16)
    BY <2>1
  <2>4. \A n \in 1 .. 16 : A(n) \in Int /\ B(n) \in Int
    BY <2>1
  <2>. QED
    BY <2>2, <2>3, <2>4
<1>. QED
  BY <1>2, <1>4 DEF HitBoth, first

\* The check bits that vote, and the bits that they add up.
LEMMA PlacesOfVotes ==
  /\ \A n \in 1 .. 16 : Generator[n] \in SUBSET (1 .. 14)
  /\ \A i \in 1 .. 6 : \A j \in 1 .. 4 : Checks[i][j] \in SUBSET (1 .. 16)
<1>1. /\ Generator[1] \in SUBSET (1 .. 14)
      /\ Generator[2] \in SUBSET (1 .. 14)
      /\ Generator[3] \in SUBSET (1 .. 14)
      /\ Generator[4] \in SUBSET (1 .. 14)
      /\ Generator[5] \in SUBSET (1 .. 14)
      /\ Generator[6] \in SUBSET (1 .. 14)
      /\ Generator[7] \in SUBSET (1 .. 14)
      /\ Generator[8] \in SUBSET (1 .. 14)
      /\ Generator[9] \in SUBSET (1 .. 14)
      /\ Generator[10] \in SUBSET (1 .. 14)
      /\ Generator[11] \in SUBSET (1 .. 14)
      /\ Generator[12] \in SUBSET (1 .. 14)
      /\ Generator[13] \in SUBSET (1 .. 14)
      /\ Generator[14] \in SUBSET (1 .. 14)
      /\ Generator[15] \in SUBSET (1 .. 14)
      /\ Generator[16] \in SUBSET (1 .. 14)
  BY DEF Generator
<1>2. \A j \in 1 .. 4 : Checks[1][j] \in SUBSET (1 .. 16)
  <2>1. /\ Checks[1][1] = {3, 5, 6, 7, 11}
        /\ Checks[1][2] = {1, 2, 5, 6, 8, 9}
        /\ Checks[1][3] = {2, 3, 4, 5, 9, 10}
        /\ Checks[1][4] = {1, 4, 5, 7, 8, 10, 11}
    BY DEF Checks, ChecksOfFirst, ChecksOfLast
  <2>. QED
    BY <2>1
<1>3. \A j \in 1 .. 4 : Checks[2][j] \in SUBSET (1 .. 16)
  <2>1. /\ Checks[2][1] = {1, 4, 5, 9, 11}
        /\ Checks[2][2] = {1, 2, 5, 6, 7, 10}
        /\ Checks[2][3] = {2, 3, 4, 5, 7, 8}
        /\ Checks[2][4] = {3, 5, 6, 8, 9, 10, 11}
    BY DEF Checks, ChecksOfFirst, ChecksOfLast
  <2>. QED
    BY <2>1
<1>4. \A j \in 1 .. 4 : Checks[3][j] \in SUBSET (1 .. 16)
  <2>1. /\ Checks[3][1] = {2, 5, 8, 10, 11}
        /\ Checks[3][2] = {1, 3, 5, 7, 9, 10}
        /\ Checks[3][3] = {4, 5, 6, 7, 8, 9}
        /\ Checks[3][4] = {1, 2, 3, 4, 5, 6, 11}
    BY DEF Checks, ChecksOfFirst, ChecksOfLast
  <2>. QED
    BY <2>1
<1>5. \A j \in 1 .. 4 : Checks[4][j] \in SUBSET (1 .. 16)
  <2>1. /\ Checks[4][1] = {7, 8, 9, 12, 13, 14}
        /\ Checks[4][2] = {1, 2, 3, 11, 12, 13, 14}
        /\ Checks[4][3] = {2, 4, 6, 8, 10, 11, 12, 13, 14}
        /\ Checks[4][4] = {1, 3, 4, 6, 7, 9, 10, 12, 13, 14}
    BY DEF Checks, ChecksOfFirst, ChecksOfLast
  <2>. QED
    BY <2>1
<1>6. \A j \in 1 .. 4 : Checks[5][j] \in SUBSET (1 .. 16)
  <2>1. /\ Checks[5][1] = {1, 4, 5, 11, 12, 13, 15}
        /\ Checks[5][2] = {3, 5, 6, 8, 10, 11, 12, 13, 15}
        /\ Checks[5][3] = {1, 2, 5, 6, 7, 9, 10, 12, 13, 15}
        /\ Checks[5][4] = {2, 3, 4, 5, 7, 8, 9, 12, 13, 15}
    BY DEF Checks, ChecksOfFirst, ChecksOfLast
  <2>. QED
    BY <2>1
<1>7. \A j \in 1 .. 4 : Checks[6][j] \in SUBSET (1 .. 16)
  <2>1. /\ Checks[6][1] = {7, 9, 10, 12, 14, 15}
        /\ Checks[6][2] = {2, 4, 6, 11, 12, 14, 15}
        /\ Checks[6][3] = {1, 2, 3, 8, 10, 11, 12, 14, 15}
        /\ Checks[6][4] = {1, 3, 4, 6, 7, 8, 9, 12, 14, 15}
    BY DEF Checks, ChecksOfFirst, ChecksOfLast
  <2>. QED
    BY <2>1
<1>. QED
  BY <1>1, <1>2, <1>3, <1>4, <1>5, <1>6, <1>7

\* Each of the parities that vote on a bit is this bit, unless one of the wrong bits is
\* in it, and the other is not.
LEMMA Votes ==
  ASSUME NEW input, NEW aach, NEW misread, NEW wrong, Comes(input, aach, misread, wrong)
  PROVE  \A i \in 1 .. 6 : \A j \in 1 .. 4 :
            Parity(Check(input), Checks[i][j]) = (aach[i] + HitBoth(misread, wrong, Checks[i][j])) % 2
<1>. DEFINE check == Check(input)
            flips == FlipsBoth(misread, wrong)
<1>1. /\ check \in [1 .. 16 -> Bit]
      /\ \A n \in 1 .. 16 : check[n] = (Parity(aach, Generator[n]) + flips[n]) % 2
  BY CheckBits
<1>2. aach \in [1 .. 14 -> Bit] /\ wrong \in 0 .. 30 /\ misread \in BOOLEAN
  BY LenProperties DEF Comes
<1>3. flips \in [1 .. 16 -> Int]
  BY DEF FlipsBoth, FlipBoth, Flip
<1>. HIDE DEF check, flips
<1>4. \A n \in 1 .. 16 : Parity(aach, Generator[n]) = Sum(aach, Generator[n]) % 2
  <2>. SUFFICES ASSUME NEW n \in 1 .. 16 PROVE Parity(aach, Generator[n]) = Sum(aach, Generator[n]) % 2
    OBVIOUS
  <2>1. Generator[n] \in SUBSET (1 .. 14)
    BY PlacesOfVotes
  <2>2. Generator[n] \subseteq 1 .. 16 /\ \A p \in Generator[n] : aach[p] \in Bit
    BY <1>2, <2>1
  <2>. QED
    BY <2>2, ParityOfSum
<1>5. \A n \in 1 .. 16 : check[n] = ((Sum(aach, Generator[n]) % 2) + flips[n]) % 2
  BY <1>1, <1>4
<1>6. /\ aach \in [1 .. 14 -> Int]
      /\ check \in [1 .. 16 -> Int]
  BY <1>1, <1>2 DEF Bit
<1>7. \A i \in 1 .. 6 : \A j \in 1 .. 4 :
         Sum(check, Checks[i][j]) % 2 = (aach[i] + Sum(flips, Checks[i][j])) % 2
  BY <1>3, <1>5, <1>6, VotesAddUp
<1>8. \A i \in 1 .. 6 : \A j \in 1 .. 4 :
         /\ Parity(check, Checks[i][j]) = Sum(check, Checks[i][j]) % 2
         /\ Sum(flips, Checks[i][j]) = HitBoth(misread, wrong, Checks[i][j])
  <2>. SUFFICES ASSUME NEW i \in 1 .. 6, NEW j \in 1 .. 4
                PROVE  /\ Parity(check, Checks[i][j]) = Sum(check, Checks[i][j]) % 2
                       /\ Sum(flips, Checks[i][j]) = HitBoth(misread, wrong, Checks[i][j])
    OBVIOUS
  <2>. DEFINE places == Checks[i][j]
  <2>1. places \in SUBSET (1 .. 16)
    BY PlacesOfVotes
  <2>. HIDE DEF places
  <2>2. places \subseteq 1 .. 16 /\ \A p \in places : check[p] \in Bit
    BY <1>1, <2>1
  <2>3. Parity(check, places) = Sum(check, places) % 2
    BY <2>2, ParityOfSum
  <2>4. Sum(flips, places) = HitBoth(misread, wrong, places)
    BY <1>2, <2>1, FlipsOfBoth DEF flips
  <2>. QED
    BY <2>3, <2>4 DEF places
<1>. QED
  BY <1>7, <1>8 DEF check

\* A wrong bit that is not one of a few spoils at most two of the five votes on a bit,
\* also together with a misread bit.
LEMMA FewSpoiled ==
  ASSUME NEW misread \in BOOLEAN, NEW wrong \in (0 .. 30) \ (Uncorrected(misread) \cup {15}),
         NEW i \in 1 .. 6
  PROVE  Flip(wrong, i) + Spoils(misread, wrong, Checks[i][1]) + Spoils(misread, wrong, Checks[i][2])
            + Spoils(misread, wrong, Checks[i][3]) + Spoils(misread, wrong, Checks[i][4]) <= 2
<1>1. /\ wrong \in 0 .. 30
      /\ ~misread => wrong # 19 /\ wrong \notin 26 .. 29
      /\ misread => wrong \notin 1 .. 6 /\ wrong # 17 /\ wrong # 22
  BY DEF Uncorrected
<1>2. ASSUME NEW places
      PROVE  /\ ~misread /\ places \in SUBSET (1 .. 16) =>
                   Spoils(misread, wrong, places) = Hit(wrong, places)
             /\ misread /\ 1 \in places => Spoils(misread, wrong, places) = 1 - Hit(wrong, places)
             /\ misread /\ 1 \notin places => Spoils(misread, wrong, places) = Hit(wrong, places)
  <2>1. CASE misread
    BY <2>1 DEF Spoils, Hit, First
  <2>2. CASE ~misread
    BY <1>1, <2>2 DEF Spoils, Hit, First
  <2>. QED
    BY <2>1, <2>2
<1>3. CASE i = 1
  <2>1. /\ Checks[1][1] = {3, 5, 6, 7, 11}
        /\ Checks[1][2] = {1, 2, 5, 6, 8, 9}
        /\ Checks[1][3] = {2, 3, 4, 5, 9, 10}
        /\ Checks[1][4] = {1, 4, 5, 7, 8, 10, 11}
    BY DEF Checks, ChecksOfFirst, ChecksOfLast
  <2>2. CASE ~misread
    <3>1. /\ Spoils(misread, wrong, {3, 5, 6, 7, 11}) = Hit(wrong, {3, 5, 6, 7, 11})
          /\ Spoils(misread, wrong, {1, 2, 5, 6, 8, 9}) = Hit(wrong, {1, 2, 5, 6, 8, 9})
          /\ Spoils(misread, wrong, {2, 3, 4, 5, 9, 10}) = Hit(wrong, {2, 3, 4, 5, 9, 10})
          /\ Spoils(misread, wrong, {1, 4, 5, 7, 8, 10, 11}) = Hit(wrong, {1, 4, 5, 7, 8, 10, 11})
      BY <1>2, <2>2
    <3>2. Flip(wrong, 1)
            + Hit(wrong, {3, 5, 6, 7, 11})
            + Hit(wrong, {1, 2, 5, 6, 8, 9})
            + Hit(wrong, {2, 3, 4, 5, 9, 10})
            + Hit(wrong, {1, 4, 5, 7, 8, 10, 11}) <= 2
      BY <1>1, <2>2 DEF Flip, Hit
    <3>. QED
      BY <1>3, <2>1, <3>1, <3>2
  <2>3. CASE misread
    <3>1. Spoils(misread, wrong, {3, 5, 6, 7, 11}) = Hit(wrong, {3, 5, 6, 7, 11})
      <4>1. 1 \notin {3, 5, 6, 7, 11}
        OBVIOUS
      <4>. QED
        BY <1>2, <2>3, <4>1, Zenon
    <3>2. Spoils(misread, wrong, {1, 2, 5, 6, 8, 9}) = 1 - Hit(wrong, {1, 2, 5, 6, 8, 9})
      <4>1. 1 \in {1, 2, 5, 6, 8, 9}
        OBVIOUS
      <4>. QED
        BY <1>2, <2>3, <4>1, Zenon
    <3>3. Spoils(misread, wrong, {2, 3, 4, 5, 9, 10}) = Hit(wrong, {2, 3, 4, 5, 9, 10})
      <4>1. 1 \notin {2, 3, 4, 5, 9, 10}
        OBVIOUS
      <4>. QED
        BY <1>2, <2>3, <4>1, Zenon
    <3>4. Spoils(misread, wrong, {1, 4, 5, 7, 8, 10, 11}) = 1 - Hit(wrong, {1, 4, 5, 7, 8, 10, 11})
      <4>1. 1 \in {1, 4, 5, 7, 8, 10, 11}
        OBVIOUS
      <4>. QED
        BY <1>2, <2>3, <4>1, Zenon
    <3>5. Flip(wrong, 1)
            + Hit(wrong, {3, 5, 6, 7, 11})
            + (1 - Hit(wrong, {1, 2, 5, 6, 8, 9}))
            + Hit(wrong, {2, 3, 4, 5, 9, 10})
            + (1 - Hit(wrong, {1, 4, 5, 7, 8, 10, 11})) <= 2
      BY <1>1, <2>3 DEF Flip, Hit
    <3>. QED
      BY <1>3, <2>1, <3>1, <3>2, <3>3, <3>4, <3>5
  <2>. QED
    BY <2>2, <2>3
<1>4. CASE i = 2
  <2>1. /\ Checks[2][1] = {1, 4, 5, 9, 11}
        /\ Checks[2][2] = {1, 2, 5, 6, 7, 10}
        /\ Checks[2][3] = {2, 3, 4, 5, 7, 8}
        /\ Checks[2][4] = {3, 5, 6, 8, 9, 10, 11}
    BY DEF Checks, ChecksOfFirst, ChecksOfLast
  <2>2. CASE ~misread
    <3>1. /\ Spoils(misread, wrong, {1, 4, 5, 9, 11}) = Hit(wrong, {1, 4, 5, 9, 11})
          /\ Spoils(misread, wrong, {1, 2, 5, 6, 7, 10}) = Hit(wrong, {1, 2, 5, 6, 7, 10})
          /\ Spoils(misread, wrong, {2, 3, 4, 5, 7, 8}) = Hit(wrong, {2, 3, 4, 5, 7, 8})
          /\ Spoils(misread, wrong, {3, 5, 6, 8, 9, 10, 11}) = Hit(wrong, {3, 5, 6, 8, 9, 10, 11})
      BY <1>2, <2>2
    <3>2. Flip(wrong, 2)
            + Hit(wrong, {1, 4, 5, 9, 11})
            + Hit(wrong, {1, 2, 5, 6, 7, 10})
            + Hit(wrong, {2, 3, 4, 5, 7, 8})
            + Hit(wrong, {3, 5, 6, 8, 9, 10, 11}) <= 2
      BY <1>1, <2>2 DEF Flip, Hit
    <3>. QED
      BY <1>4, <2>1, <3>1, <3>2
  <2>3. CASE misread
    <3>1. Spoils(misread, wrong, {1, 4, 5, 9, 11}) = 1 - Hit(wrong, {1, 4, 5, 9, 11})
      <4>1. 1 \in {1, 4, 5, 9, 11}
        OBVIOUS
      <4>. QED
        BY <1>2, <2>3, <4>1, Zenon
    <3>2. Spoils(misread, wrong, {1, 2, 5, 6, 7, 10}) = 1 - Hit(wrong, {1, 2, 5, 6, 7, 10})
      <4>1. 1 \in {1, 2, 5, 6, 7, 10}
        OBVIOUS
      <4>. QED
        BY <1>2, <2>3, <4>1, Zenon
    <3>3. Spoils(misread, wrong, {2, 3, 4, 5, 7, 8}) = Hit(wrong, {2, 3, 4, 5, 7, 8})
      <4>1. 1 \notin {2, 3, 4, 5, 7, 8}
        OBVIOUS
      <4>. QED
        BY <1>2, <2>3, <4>1, Zenon
    <3>4. Spoils(misread, wrong, {3, 5, 6, 8, 9, 10, 11}) = Hit(wrong, {3, 5, 6, 8, 9, 10, 11})
      <4>1. 1 \notin {3, 5, 6, 8, 9, 10, 11}
        OBVIOUS
      <4>. QED
        BY <1>2, <2>3, <4>1, Zenon
    <3>5. Flip(wrong, 2)
            + (1 - Hit(wrong, {1, 4, 5, 9, 11}))
            + (1 - Hit(wrong, {1, 2, 5, 6, 7, 10}))
            + Hit(wrong, {2, 3, 4, 5, 7, 8})
            + Hit(wrong, {3, 5, 6, 8, 9, 10, 11}) <= 2
      BY <1>1, <2>3 DEF Flip, Hit
    <3>. QED
      BY <1>4, <2>1, <3>1, <3>2, <3>3, <3>4, <3>5
  <2>. QED
    BY <2>2, <2>3
<1>5. CASE i = 3
  <2>1. /\ Checks[3][1] = {2, 5, 8, 10, 11}
        /\ Checks[3][2] = {1, 3, 5, 7, 9, 10}
        /\ Checks[3][3] = {4, 5, 6, 7, 8, 9}
        /\ Checks[3][4] = {1, 2, 3, 4, 5, 6, 11}
    BY DEF Checks, ChecksOfFirst, ChecksOfLast
  <2>2. CASE ~misread
    <3>1. /\ Spoils(misread, wrong, {2, 5, 8, 10, 11}) = Hit(wrong, {2, 5, 8, 10, 11})
          /\ Spoils(misread, wrong, {1, 3, 5, 7, 9, 10}) = Hit(wrong, {1, 3, 5, 7, 9, 10})
          /\ Spoils(misread, wrong, {4, 5, 6, 7, 8, 9}) = Hit(wrong, {4, 5, 6, 7, 8, 9})
          /\ Spoils(misread, wrong, {1, 2, 3, 4, 5, 6, 11}) = Hit(wrong, {1, 2, 3, 4, 5, 6, 11})
      BY <1>2, <2>2
    <3>2. Flip(wrong, 3)
            + Hit(wrong, {2, 5, 8, 10, 11})
            + Hit(wrong, {1, 3, 5, 7, 9, 10})
            + Hit(wrong, {4, 5, 6, 7, 8, 9})
            + Hit(wrong, {1, 2, 3, 4, 5, 6, 11}) <= 2
      BY <1>1, <2>2 DEF Flip, Hit
    <3>. QED
      BY <1>5, <2>1, <3>1, <3>2
  <2>3. CASE misread
    <3>1. Spoils(misread, wrong, {2, 5, 8, 10, 11}) = Hit(wrong, {2, 5, 8, 10, 11})
      <4>1. 1 \notin {2, 5, 8, 10, 11}
        OBVIOUS
      <4>. QED
        BY <1>2, <2>3, <4>1, Zenon
    <3>2. Spoils(misread, wrong, {1, 3, 5, 7, 9, 10}) = 1 - Hit(wrong, {1, 3, 5, 7, 9, 10})
      <4>1. 1 \in {1, 3, 5, 7, 9, 10}
        OBVIOUS
      <4>. QED
        BY <1>2, <2>3, <4>1, Zenon
    <3>3. Spoils(misread, wrong, {4, 5, 6, 7, 8, 9}) = Hit(wrong, {4, 5, 6, 7, 8, 9})
      <4>1. 1 \notin {4, 5, 6, 7, 8, 9}
        OBVIOUS
      <4>. QED
        BY <1>2, <2>3, <4>1, Zenon
    <3>4. Spoils(misread, wrong, {1, 2, 3, 4, 5, 6, 11}) = 1 - Hit(wrong, {1, 2, 3, 4, 5, 6, 11})
      <4>1. 1 \in {1, 2, 3, 4, 5, 6, 11}
        OBVIOUS
      <4>. QED
        BY <1>2, <2>3, <4>1, Zenon
    <3>5. Flip(wrong, 3)
            + Hit(wrong, {2, 5, 8, 10, 11})
            + (1 - Hit(wrong, {1, 3, 5, 7, 9, 10}))
            + Hit(wrong, {4, 5, 6, 7, 8, 9})
            + (1 - Hit(wrong, {1, 2, 3, 4, 5, 6, 11})) <= 2
      BY <1>1, <2>3 DEF Flip, Hit
    <3>. QED
      BY <1>5, <2>1, <3>1, <3>2, <3>3, <3>4, <3>5
  <2>. QED
    BY <2>2, <2>3
<1>6. CASE i = 4
  <2>1. /\ Checks[4][1] = {7, 8, 9, 12, 13, 14}
        /\ Checks[4][2] = {1, 2, 3, 11, 12, 13, 14}
        /\ Checks[4][3] = {2, 4, 6, 8, 10, 11, 12, 13, 14}
        /\ Checks[4][4] = {1, 3, 4, 6, 7, 9, 10, 12, 13, 14}
    BY DEF Checks, ChecksOfFirst, ChecksOfLast
  <2>2. CASE ~misread
    <3>1. /\ Spoils(misread, wrong, {7, 8, 9, 12, 13, 14}) = Hit(wrong, {7, 8, 9, 12, 13, 14})
          /\ Spoils(misread, wrong, {1, 2, 3, 11, 12, 13, 14}) = Hit(wrong, {1, 2, 3, 11, 12, 13, 14})
          /\ Spoils(misread, wrong, {2, 4, 6, 8, 10, 11, 12, 13, 14}) = Hit(wrong, {2, 4, 6, 8, 10, 11, 12, 13, 14})
          /\ Spoils(misread, wrong, {1, 3, 4, 6, 7, 9, 10, 12, 13, 14}) = Hit(wrong, {1, 3, 4, 6, 7, 9, 10, 12, 13, 14})
      BY <1>2, <2>2
    <3>2. Flip(wrong, 4)
            + Hit(wrong, {7, 8, 9, 12, 13, 14})
            + Hit(wrong, {1, 2, 3, 11, 12, 13, 14})
            + Hit(wrong, {2, 4, 6, 8, 10, 11, 12, 13, 14})
            + Hit(wrong, {1, 3, 4, 6, 7, 9, 10, 12, 13, 14}) <= 2
      BY <1>1, <2>2 DEF Flip, Hit
    <3>. QED
      BY <1>6, <2>1, <3>1, <3>2
  <2>3. CASE misread
    <3>1. Spoils(misread, wrong, {7, 8, 9, 12, 13, 14}) = Hit(wrong, {7, 8, 9, 12, 13, 14})
      <4>1. 1 \notin {7, 8, 9, 12, 13, 14}
        OBVIOUS
      <4>. QED
        BY <1>2, <2>3, <4>1, Zenon
    <3>2. Spoils(misread, wrong, {1, 2, 3, 11, 12, 13, 14}) = 1 - Hit(wrong, {1, 2, 3, 11, 12, 13, 14})
      <4>1. 1 \in {1, 2, 3, 11, 12, 13, 14}
        OBVIOUS
      <4>. QED
        BY <1>2, <2>3, <4>1, Zenon
    <3>3. Spoils(misread, wrong, {2, 4, 6, 8, 10, 11, 12, 13, 14}) = Hit(wrong, {2, 4, 6, 8, 10, 11, 12, 13, 14})
      <4>1. 1 \notin {2, 4, 6, 8, 10, 11, 12, 13, 14}
        OBVIOUS
      <4>. QED
        BY <1>2, <2>3, <4>1, Zenon
    <3>4. Spoils(misread, wrong, {1, 3, 4, 6, 7, 9, 10, 12, 13, 14}) = 1 - Hit(wrong, {1, 3, 4, 6, 7, 9, 10, 12, 13, 14})
      <4>1. 1 \in {1, 3, 4, 6, 7, 9, 10, 12, 13, 14}
        OBVIOUS
      <4>. QED
        BY <1>2, <2>3, <4>1, Zenon
    <3>5. Flip(wrong, 4)
            + Hit(wrong, {7, 8, 9, 12, 13, 14})
            + (1 - Hit(wrong, {1, 2, 3, 11, 12, 13, 14}))
            + Hit(wrong, {2, 4, 6, 8, 10, 11, 12, 13, 14})
            + (1 - Hit(wrong, {1, 3, 4, 6, 7, 9, 10, 12, 13, 14})) <= 2
      BY <1>1, <2>3 DEF Flip, Hit
    <3>. QED
      BY <1>6, <2>1, <3>1, <3>2, <3>3, <3>4, <3>5
  <2>. QED
    BY <2>2, <2>3
<1>7. CASE i = 5
  <2>1. /\ Checks[5][1] = {1, 4, 5, 11, 12, 13, 15}
        /\ Checks[5][2] = {3, 5, 6, 8, 10, 11, 12, 13, 15}
        /\ Checks[5][3] = {1, 2, 5, 6, 7, 9, 10, 12, 13, 15}
        /\ Checks[5][4] = {2, 3, 4, 5, 7, 8, 9, 12, 13, 15}
    BY DEF Checks, ChecksOfFirst, ChecksOfLast
  <2>2. CASE ~misread
    <3>1. /\ Spoils(misread, wrong, {1, 4, 5, 11, 12, 13, 15}) = Hit(wrong, {1, 4, 5, 11, 12, 13, 15})
          /\ Spoils(misread, wrong, {3, 5, 6, 8, 10, 11, 12, 13, 15}) = Hit(wrong, {3, 5, 6, 8, 10, 11, 12, 13, 15})
          /\ Spoils(misread, wrong, {1, 2, 5, 6, 7, 9, 10, 12, 13, 15}) = Hit(wrong, {1, 2, 5, 6, 7, 9, 10, 12, 13, 15})
          /\ Spoils(misread, wrong, {2, 3, 4, 5, 7, 8, 9, 12, 13, 15}) = Hit(wrong, {2, 3, 4, 5, 7, 8, 9, 12, 13, 15})
      BY <1>2, <2>2
    <3>2. Flip(wrong, 5)
            + Hit(wrong, {1, 4, 5, 11, 12, 13, 15})
            + Hit(wrong, {3, 5, 6, 8, 10, 11, 12, 13, 15})
            + Hit(wrong, {1, 2, 5, 6, 7, 9, 10, 12, 13, 15})
            + Hit(wrong, {2, 3, 4, 5, 7, 8, 9, 12, 13, 15}) <= 2
      BY <1>1, <2>2 DEF Flip, Hit
    <3>. QED
      BY <1>7, <2>1, <3>1, <3>2
  <2>3. CASE misread
    <3>1. Spoils(misread, wrong, {1, 4, 5, 11, 12, 13, 15}) = 1 - Hit(wrong, {1, 4, 5, 11, 12, 13, 15})
      <4>1. 1 \in {1, 4, 5, 11, 12, 13, 15}
        OBVIOUS
      <4>. QED
        BY <1>2, <2>3, <4>1, Zenon
    <3>2. Spoils(misread, wrong, {3, 5, 6, 8, 10, 11, 12, 13, 15}) = Hit(wrong, {3, 5, 6, 8, 10, 11, 12, 13, 15})
      <4>1. 1 \notin {3, 5, 6, 8, 10, 11, 12, 13, 15}
        OBVIOUS
      <4>. QED
        BY <1>2, <2>3, <4>1, Zenon
    <3>3. Spoils(misread, wrong, {1, 2, 5, 6, 7, 9, 10, 12, 13, 15}) = 1 - Hit(wrong, {1, 2, 5, 6, 7, 9, 10, 12, 13, 15})
      <4>1. 1 \in {1, 2, 5, 6, 7, 9, 10, 12, 13, 15}
        OBVIOUS
      <4>. QED
        BY <1>2, <2>3, <4>1, Zenon
    <3>4. Spoils(misread, wrong, {2, 3, 4, 5, 7, 8, 9, 12, 13, 15}) = Hit(wrong, {2, 3, 4, 5, 7, 8, 9, 12, 13, 15})
      <4>1. 1 \notin {2, 3, 4, 5, 7, 8, 9, 12, 13, 15}
        OBVIOUS
      <4>. QED
        BY <1>2, <2>3, <4>1, Zenon
    <3>5. Flip(wrong, 5)
            + (1 - Hit(wrong, {1, 4, 5, 11, 12, 13, 15}))
            + Hit(wrong, {3, 5, 6, 8, 10, 11, 12, 13, 15})
            + (1 - Hit(wrong, {1, 2, 5, 6, 7, 9, 10, 12, 13, 15}))
            + Hit(wrong, {2, 3, 4, 5, 7, 8, 9, 12, 13, 15}) <= 2
      BY <1>1, <2>3 DEF Flip, Hit
    <3>. QED
      BY <1>7, <2>1, <3>1, <3>2, <3>3, <3>4, <3>5
  <2>. QED
    BY <2>2, <2>3
<1>8. CASE i = 6
  <2>1. /\ Checks[6][1] = {7, 9, 10, 12, 14, 15}
        /\ Checks[6][2] = {2, 4, 6, 11, 12, 14, 15}
        /\ Checks[6][3] = {1, 2, 3, 8, 10, 11, 12, 14, 15}
        /\ Checks[6][4] = {1, 3, 4, 6, 7, 8, 9, 12, 14, 15}
    BY DEF Checks, ChecksOfFirst, ChecksOfLast
  <2>2. CASE ~misread
    <3>1. /\ Spoils(misread, wrong, {7, 9, 10, 12, 14, 15}) = Hit(wrong, {7, 9, 10, 12, 14, 15})
          /\ Spoils(misread, wrong, {2, 4, 6, 11, 12, 14, 15}) = Hit(wrong, {2, 4, 6, 11, 12, 14, 15})
          /\ Spoils(misread, wrong, {1, 2, 3, 8, 10, 11, 12, 14, 15}) = Hit(wrong, {1, 2, 3, 8, 10, 11, 12, 14, 15})
          /\ Spoils(misread, wrong, {1, 3, 4, 6, 7, 8, 9, 12, 14, 15}) = Hit(wrong, {1, 3, 4, 6, 7, 8, 9, 12, 14, 15})
      BY <1>2, <2>2
    <3>2. Flip(wrong, 6)
            + Hit(wrong, {7, 9, 10, 12, 14, 15})
            + Hit(wrong, {2, 4, 6, 11, 12, 14, 15})
            + Hit(wrong, {1, 2, 3, 8, 10, 11, 12, 14, 15})
            + Hit(wrong, {1, 3, 4, 6, 7, 8, 9, 12, 14, 15}) <= 2
      BY <1>1, <2>2 DEF Flip, Hit
    <3>. QED
      BY <1>8, <2>1, <3>1, <3>2
  <2>3. CASE misread
    <3>1. Spoils(misread, wrong, {7, 9, 10, 12, 14, 15}) = Hit(wrong, {7, 9, 10, 12, 14, 15})
      <4>1. 1 \notin {7, 9, 10, 12, 14, 15}
        OBVIOUS
      <4>. QED
        BY <1>2, <2>3, <4>1, Zenon
    <3>2. Spoils(misread, wrong, {2, 4, 6, 11, 12, 14, 15}) = Hit(wrong, {2, 4, 6, 11, 12, 14, 15})
      <4>1. 1 \notin {2, 4, 6, 11, 12, 14, 15}
        OBVIOUS
      <4>. QED
        BY <1>2, <2>3, <4>1, Zenon
    <3>3. Spoils(misread, wrong, {1, 2, 3, 8, 10, 11, 12, 14, 15}) = 1 - Hit(wrong, {1, 2, 3, 8, 10, 11, 12, 14, 15})
      <4>1. 1 \in {1, 2, 3, 8, 10, 11, 12, 14, 15}
        OBVIOUS
      <4>. QED
        BY <1>2, <2>3, <4>1, Zenon
    <3>4. Spoils(misread, wrong, {1, 3, 4, 6, 7, 8, 9, 12, 14, 15}) = 1 - Hit(wrong, {1, 3, 4, 6, 7, 8, 9, 12, 14, 15})
      <4>1. 1 \in {1, 3, 4, 6, 7, 8, 9, 12, 14, 15}
        OBVIOUS
      <4>. QED
        BY <1>2, <2>3, <4>1, Zenon
    <3>5. Flip(wrong, 6)
            + Hit(wrong, {7, 9, 10, 12, 14, 15})
            + Hit(wrong, {2, 4, 6, 11, 12, 14, 15})
            + (1 - Hit(wrong, {1, 2, 3, 8, 10, 11, 12, 14, 15}))
            + (1 - Hit(wrong, {1, 3, 4, 6, 7, 8, 9, 12, 14, 15})) <= 2
      BY <1>1, <2>3 DEF Flip, Hit
    <3>. QED
      BY <1>8, <2>1, <3>1, <3>2, <3>3, <3>4, <3>5
  <2>. QED
    BY <2>2, <2>3
<1>. QED
  BY <1>3, <1>4, <1>5, <1>6, <1>7, <1>8

\* Bits 1 to 6 of the access assignment are decoded as they were sent, with bit 15
\* misread or not, and any other of the 30 bits wrong but those that several votes share.
THEOREM FirstBitsDecoded ==
  ASSUME NEW input, NEW aach, NEW misread, NEW wrong, Comes(input, aach, misread, wrong)
  PROVE  /\ reed_muller_3014_decode(input) \in [1 .. 14 -> Bit]
         /\ \A i \in 1 .. 6 : reed_muller_3014_decode(input)[i] = aach[i]
<1>. DEFINE Count(i) == input[i] + Parity(Check(input), Checks[i][1]) + Parity(Check(input), Checks[i][2])
                           + Parity(Check(input), Checks[i][3]) + Parity(Check(input), Checks[i][4])
            decoded == reed_muller_3014_decode(input)
<1>1. decoded = [i \in 1 .. 14 |-> IF Count(i) >= 3 THEN 1 ELSE 0]
  BY DEF reed_muller_3014_decode, Check
<1>. HIDE DEF Count, decoded
<1>2. decoded \in [1 .. 14 -> Bit] /\ \A i \in 1 .. 6 : decoded[i] = IF Count(i) >= 3 THEN 1 ELSE 0
  BY <1>1 DEF Bit
<1>3. /\ misread \in BOOLEAN /\ wrong \in (0 .. 30) \ (Uncorrected(misread) \cup {15})
      /\ aach \in [1 .. 14 -> Bit]
      /\ \A i \in 1 .. 14 : input[i] = (aach[i] + FlipBoth(misread, wrong, i)) % 2
  BY LenProperties DEF Comes
<1>4. ASSUME NEW i \in 1 .. 6 PROVE aach[i] \in Bit /\ (Count(i) >= 3 <=> aach[i] = 1)
  <2>. DEFINE x == aach[i]
              h0 == Flip(wrong, i)
              h1 == Spoils(misread, wrong, Checks[i][1])
              h2 == Spoils(misread, wrong, Checks[i][2])
              h3 == Spoils(misread, wrong, Checks[i][3])
              h4 == Spoils(misread, wrong, Checks[i][4])
  <2>1. i \in 1 .. 14 /\ x \in Bit
    BY <1>3
  <2>2. h0 \in Bit /\ h1 \in Bit /\ h2 \in Bit /\ h3 \in Bit /\ h4 \in Bit
    BY DEF Flip, Spoils, Bit
  <2>3. h0 + h1 + h2 + h3 + h4 <= 2
    BY <1>3, FewSpoiled
  <2>4. /\ input[i] = (x + h0) % 2
        /\ Parity(Check(input), Checks[i][1]) = (x + h1) % 2
        /\ Parity(Check(input), Checks[i][2]) = (x + h2) % 2
        /\ Parity(Check(input), Checks[i][3]) = (x + h3) % 2
        /\ Parity(Check(input), Checks[i][4]) = (x + h4) % 2
    <3>1. input[i] = (x + h0) % 2
      <4>1. FlipBoth(misread, wrong, i) = Flip(wrong, i)
        BY DEF FlipBoth, First, Flip
      <4>. QED
        BY <1>3, <2>1, <4>1
    <3>2. \A places : (x + HitBoth(misread, wrong, places)) % 2 = (x + Spoils(misread, wrong, places)) % 2
      <4>. SUFFICES ASSUME NEW places
                    PROVE  (x + HitBoth(misread, wrong, places)) % 2
                              = (x + Spoils(misread, wrong, places)) % 2
        OBVIOUS
      <4>. DEFINE a == Hit(First(misread), places)
                  b == Hit(wrong, places)
      <4>1. a \in Bit /\ b \in Bit
        BY DEF Hit, Bit
      <4>2. /\ HitBoth(misread, wrong, places) = a + b
            /\ Spoils(misread, wrong, places) = IF a = b THEN 0 ELSE 1
        BY DEF HitBoth, Spoils
      <4>. HIDE DEF a, b, x
      <4>. QED
        BY <2>1, <4>1, <4>2 DEF Bit
    <3>3. \A j \in 1 .. 4 :
             Parity(Check(input), Checks[i][j]) = (x + HitBoth(misread, wrong, Checks[i][j])) % 2
      BY Votes
    <3>. QED
      BY <3>1, <3>2, <3>3
  <2>. HIDE DEF x, h0, h1, h2, h3, h4
  <2>5. Count(i) = ((x + h0) % 2) + ((x + h1) % 2) + ((x + h2) % 2) + ((x + h3) % 2) + ((x + h4) % 2)
    BY <2>4 DEF Count
  <2>6. Count(i) >= 3 <=> x = 1
    BY <2>1, <2>2, <2>3, <2>5 DEF Bit
  <2>. QED
    BY <2>1, <2>6 DEF x
<1>. QED
  BY <1>2, <1>4 DEF Bit, decoded

-----------------------------------------------------------------------------
(* Recursive definitions: the value of a few bits, and the scrambling.     *)

\* A function over 0 .. n that is defined by recursion, by steps in V.
StepsIn(V, step, n) == step \in [(1 .. n) \X V -> V]
Recursive(f, first, step, n) == f[0] = first /\ \A i \in 1 .. n : f[i] = step[<<i, f[i - 1]>>]
RecursiveExists(V, first, step, n) == \E f \in [0 .. n -> V] : Recursive(f, first, step, n)

\* It exists, with its values in V.
LEMMA Recursion ==
  ASSUME NEW n \in Nat, NEW V, NEW first \in V, NEW step, StepsIn(V, step, n)
  PROVE  RecursiveExists(V, first, step, n)
<1>. USE DEF StepsIn, Recursive, RecursiveExists
<1>. DEFINE Follows(f, m) == f[0] = first /\ \A i \in 1 .. m : f[i] = step[<<i, f[i - 1]>>]
            Without == {m \in 0 .. n : ~ \E f \in [0 .. m -> V] : Follows(f, m)}
<1>1. SUFFICES ASSUME Without # {} PROVE FALSE
  OBVIOUS
<1>2. PICK m \in Without : \A k \in Without : m <= k
  <2>1. Without \subseteq Nat
    OBVIOUS
  <2>. HIDE DEF Without
  <2>. QED
    BY <2>1, <1>1, LeastNumber
<1>3. CASE m = 0
  <2>. DEFINE f == [i \in 0 .. 0 |-> first]
  <2>1. f \in [0 .. 0 -> V] /\ Follows(f, 0)
    OBVIOUS
  <2>. QED
    BY <2>1, <1>2, <1>3
<1>4. CASE m # 0
  <2>1. m \in 1 .. n /\ m - 1 \in 0 .. n /\ ~(m <= m - 1)
    BY <1>2, <1>4
  <2>2. m - 1 \notin Without
    BY <2>1, <1>2
  <2>3. PICK g \in [0 .. m - 1 -> V] : Follows(g, m - 1)
    BY <2>1, <2>2
  <2>. DEFINE last == step[<<m, g[m - 1]>>]
              f == [i \in 0 .. m |-> IF i = m THEN last ELSE g[i]]
  <2>4. last \in V
    BY <2>1, <2>3
  <2>. HIDE DEF last
  <2>5. \A i \in 0 .. m : i # m => i \in 0 .. m - 1
    BY <2>1
  <2>6. f \in [0 .. m -> V]
    BY <2>4, <2>5
  <2>7. f[m] = last /\ \A i \in 0 .. m - 1 : f[i] = g[i]
    BY <2>1
  <2>. HIDE DEF f
  <2>8. \A i \in 1 .. m : f[i] = step[<<i, f[i - 1]>>]
    <3>. SUFFICES ASSUME NEW i \in 1 .. m PROVE f[i] = step[<<i, f[i - 1]>>]
      OBVIOUS
    <3>1. i - 1 \in 0 .. m - 1 /\ (i # m => i \in 1 .. m - 1 /\ i \in 0 .. m - 1)
      BY <2>1
    <3>2. f[i - 1] = g[i - 1]
      BY <2>7, <3>1
    <3>3. CASE i = m
      BY <2>7, <3>2, <3>3 DEF last
    <3>4. CASE i # m
      BY <2>3, <2>7, <3>1, <3>2, <3>4
    <3>. QED
      BY <3>3, <3>4
  <2>9. Follows(f, m)
    BY <2>1, <2>3, <2>7, <2>8
  <2>. QED
    BY <2>6, <2>9, <1>2
<1>. QED
  BY <1>3, <1>4

\* The value of a few bits.
LEMMA ValueOfBits ==
  ASSUME NEW bits \in Seq(Bit)
  PROVE  \E value : /\ ToNat(bits) = value[Len(bits)] /\ value[0] = 0
                    /\ \A i \in 1 .. Len(bits) : value[i] = 2 * value[i - 1] + bits[i]
<1>. DEFINE n == Len(bits)
            Follows(g) == g = [i \in 0 .. n |-> IF i = 0 THEN 0 ELSE 2 * g[i - 1] + bits[i]]
            value == CHOOSE g : Follows(g)
<1>1. n \in Nat /\ \A i \in 1 .. n : bits[i] \in Bit
  OBVIOUS
<1>2. ToNat(bits) = value[n]
  BY DEF ToNat
<1>. HIDE DEF n
<1>3. \E f \in [0 .. n -> Nat] : Follows(f)
  <2>. DEFINE step == [p \in (1 .. n) \X Nat |-> 2 * p[2] + bits[p[1]]]
  <2>1. step \in [(1 .. n) \X Nat -> Nat]
    BY <1>1 DEF Bit
  <2>2. \A i \in 1 .. n : \A v \in Nat : step[<<i, v>>] = 2 * v + bits[i]
    OBVIOUS
  <2>. HIDE DEF step
  <2>. DEFINE V == Nat
              first == 0
  <2>3. n \in Nat /\ first \in V /\ StepsIn(V, step, n)
    BY <1>1, <2>1 DEF StepsIn
  <2>. HIDE DEF V, first
  <2>4. RecursiveExists(V, first, step, n)
    BY <2>3, Recursion
  <2>5. PICK f \in [0 .. n -> Nat] : f[0] = 0 /\ \A i \in 1 .. n : f[i] = step[<<i, f[i - 1]>>]
    BY <2>4 DEF V, first, Recursive, RecursiveExists
  <2>6. \A i \in 0 .. n : f[i] = IF i = 0 THEN 0 ELSE 2 * f[i - 1] + bits[i]
    <3>1. \A i \in 0 .. n : i # 0 => i \in 1 .. n /\ i - 1 \in 0 .. n
      BY <1>1
    <3>2. \A i \in 0 .. n : f[i] \in Nat
      OBVIOUS
    <3>. QED
      BY <2>2, <2>5, <3>1, <3>2
  <2>7. f = [i \in 0 .. n |-> f[i]]
    BY <2>5
  <2>. QED
    BY <2>6, <2>7
<1>4. Follows(value)
  BY <1>3
<1>. HIDE DEF value
<1>5. value[0] = 0 /\ \A i \in 1 .. n : value[i] = 2 * value[i - 1] + bits[i]
  <2>1. 0 \in 0 .. n /\ \A i \in 1 .. n : i \in 0 .. n /\ i # 0
    BY <1>1
  <2>. QED
    BY <1>4, <2>1
<1>. QED
  BY <1>2, <1>5 DEF n

\* The value of the header of an access assignment.
LEMMA HeaderValue ==
  ASSUME NEW bits \in Seq(Bit), Len(bits) = 2
  PROVE  ToNat(bits) = 2 * bits[1] + bits[2]
<1>0. bits \in [1 .. 2 -> Bit]
  BY LenProperties
<1>1. bits[1] \in Bit /\ bits[2] \in Bit
  BY <1>0
<1>2. PICK value : /\ ToNat(bits) = value[2] /\ value[0] = 0
                   /\ \A i \in 1 .. 2 : value[i] = 2 * value[i - 1] + bits[i]
  BY ValueOfBits
<1>3. value[1] = 2 * value[0] + bits[1] /\ value[2] = 2 * value[1] + bits[2]
  BY <1>2
<1>. QED
  BY <1>1, <1>2, <1>3 DEF Bit

\* The value of the first field.
LEMMA FieldValue ==
  ASSUME NEW bits \in Seq(Bit), Len(bits) = 6
  PROVE  ToNat(bits) = 32 * bits[1] + 16 * bits[2] + 8 * bits[3] + 4 * bits[4] + 2 * bits[5] + bits[6]
<1>0. bits \in [1 .. 6 -> Bit]
  BY LenProperties
<1>1. /\ bits[1] \in Bit /\ bits[2] \in Bit /\ bits[3] \in Bit
      /\ bits[4] \in Bit /\ bits[5] \in Bit /\ bits[6] \in Bit
  BY <1>0
<1>2. PICK value : /\ ToNat(bits) = value[6] /\ value[0] = 0
                   /\ \A i \in 1 .. 6 : value[i] = 2 * value[i - 1] + bits[i]
  BY ValueOfBits
<1>3. /\ value[1] = 2 * value[0] + bits[1] /\ value[2] = 2 * value[1] + bits[2]
      /\ value[3] = 2 * value[2] + bits[3] /\ value[4] = 2 * value[3] + bits[4]
      /\ value[5] = 2 * value[4] + bits[5] /\ value[6] = 2 * value[5] + bits[6]
  BY <1>2
<1>. QED
  BY <1>1, <1>2, <1>3 DEF Bit

\* The bit that the scrambling register is fed with.
Fed(code, i, before) ==
    Cardinality({place \in poly : (IF place < i THEN before[i - place] ELSE code[place - i + 1]) = 1}) % 2

\* It is a bit, whatever the register holds.
LEMMA FedBit == ASSUME NEW code, NEW i, NEW before PROVE Fed(code, i, before) \in Bit
<1>. DEFINE ones == {place \in poly : (IF place < i THEN before[i - place] ELSE code[place - i + 1]) = 1}
<1>1. ones \in SUBSET (1 .. 32)
  <2>1. poly \subseteq 1 .. 32
    BY DEF poly
  <2>. QED
    BY <2>1
<1>2. Fed(code, i, before) = Cardinality(ones) % 2
  BY DEF Fed
<1>. HIDE DEF ones
<1>3. Cardinality(ones) \in Nat
  <2>1. 1 \in Int /\ 32 \in Int
    OBVIOUS
  <2>2. IsFiniteSet(1 .. 32)
    BY <2>1, FS_Interval
  <2>. QED
    BY <1>1, <2>2, FS_Subset, FS_CardinalityType
<1>. QED
  BY <1>2, <1>3 DEF Bit

\* A scrambling code yields bits, as many as are asked for.
LEMMA TableBits ==
  ASSUME NEW code, NEW n \in Nat
  PROVE  ScramblingTable(code, n) \in [1 .. n -> Bit]
<1>. DEFINE Follows(g) == g = [i \in 0 .. n |-> IF i = 0 THEN <<>> ELSE Append(g[i - 1], Fed(code, i, g[i - 1]))]
            table == CHOOSE g : Follows(g)
<1>1. ScramblingTable(code, n) = table[n]
  BY DEF ScramblingTable, Fed
<1>2. \E f \in [0 .. n -> Seq(Bit)] : Follows(f)
  <2>. DEFINE V == Seq(Bit)
              first == <<>>
              step == [p \in (1 .. n) \X V |-> Append(p[2], Fed(code, p[1], p[2]))]
  <2>1. n \in Nat /\ first \in V /\ \A v \in V : \A bit \in Bit : Append(v, bit) \in V
    OBVIOUS
  <2>2. \A i \in 1 .. n : \A v \in V : step[<<i, v>>] = Append(v, Fed(code, i, v))
    OBVIOUS
  <2>. HIDE DEF V, first
  <2>3. step \in [(1 .. n) \X V -> V]
    BY <2>1, FedBit
  <2>. HIDE DEF step
  <2>4. RecursiveExists(V, first, step, n)
    BY <2>1, <2>3, Recursion DEF StepsIn
  <2>5. PICK f \in [0 .. n -> V] : f[0] = first /\ \A i \in 1 .. n : f[i] = step[<<i, f[i - 1]>>]
    BY <2>4 DEF Recursive, RecursiveExists
  <2>6. \A i \in 0 .. n : f[i] = IF i = 0 THEN first ELSE Append(f[i - 1], Fed(code, i, f[i - 1]))
    <3>1. \A i \in 0 .. n : i # 0 => i \in 1 .. n /\ i - 1 \in 0 .. n
      BY <2>1
    <3>2. \A i \in 0 .. n : f[i] \in V
      OBVIOUS
    <3>. QED
      BY <2>2, <2>5, <3>1, <3>2
  <2>7. f = [i \in 0 .. n |-> f[i]]
    BY <2>5
  <2>. QED
    BY <2>6, <2>7 DEF V, first
<1>3. Follows(table)
  BY <1>2
<1>. HIDE DEF table
<1>4. table[0] = <<>> /\ \A i \in 1 .. n : table[i] = Append(table[i - 1], Fed(code, i, table[i - 1]))
  <2>1. 0 \in 0 .. n /\ \A i \in 1 .. n : i \in 0 .. n /\ i # 0
    OBVIOUS
  <2>. QED
    BY <1>3, <2>1
<1>. DEFINE Good(i) == table[i] \in Seq(Bit) /\ Len(table[i]) = i
            Bad == {i \in 0 .. n : ~ Good(i)}
<1>5. SUFFICES Bad = {}
  <2>1. ASSUME Bad = {} PROVE Good(n)
    <3>1. n \in 0 .. n
      OBVIOUS
    <3>. HIDE DEF Good
    <3>. QED
      BY <2>1, <3>1
  <2>. QED
    BY <1>1, <2>1, LenProperties
<1>6. ASSUME Bad # {} PROVE FALSE
  <2>1. PICK m \in Bad : \A k \in Bad : m <= k
    <3>1. Bad \subseteq Nat
      OBVIOUS
    <3>. HIDE DEF Bad
    <3>. QED
      BY <1>6, <3>1, LeastNumber
  <2>2. m # 0
    <3>1. Good(0)
      BY <1>4
    <3>. HIDE DEF Good
    <3>. QED
      BY <2>1, <3>1
  <2>3. m \in 1 .. n /\ m - 1 \in 0 .. n /\ ~(m <= m - 1)
    BY <2>1, <2>2
  <2>4. Good(m - 1)
    BY <2>1, <2>3
  <2>. DEFINE before == table[m - 1]
              bit == Fed(code, m, before)
  <2>5. table[m] = Append(before, bit) /\ bit \in Bit
    BY <1>4, <2>3, FedBit
  <2>. HIDE DEF bit
  <2>6. Append(before, bit) \in Seq(Bit) /\ Len(Append(before, bit)) = m
    BY <2>3, <2>4, <2>5
  <2>7. Good(m)
    BY <2>5, <2>6
  <2>. QED
    BY <2>1, <2>7
<1>. QED
  BY <1>6

\* What is scrambled twice is what it was: an error in between stays one.
LEMMA ScrambledTwice ==
  ASSUME NEW b \in Int, NEW t \in Int, NEW e \in Int
  PROVE  (((((b + t) % 2) + e) % 2) + t) % 2 = (b + e) % 2
OBVIOUS

-----------------------------------------------------------------------------
(* From the burst on the air to its usage.                                 *)

\* Bits, and what is left of a number.
LEMMA Bits ==
  /\ \A b \in Bit : b \in Int
  /\ \A a \in Int : \A b \in Int : (a + b) % 2 \in Bit
BY DEF Bit

\* A function over 1 .. n is a sequence of length n.
LEMMA FunctionIsSequence ==
  ASSUME NEW n \in Nat, NEW V, NEW s, s \in [1 .. n -> V]
  PROVE  s \in Seq(V) /\ Len(s) = n
<1>1. s \in Seq(V)
  BY SeqDef
<1>2. Len(s) \in Nat /\ 1 .. Len(s) = 1 .. n
  BY <1>1, LenProperties
<1>3. Len(s) = n
  BY <1>2
<1>. QED
  BY <1>1, <1>3

\* The code word of an access assignment: its bits, and the check bits.
LEMMA CodeWord ==
  ASSUME NEW aach \in Seq(Bit), Len(aach) = 14
  PROVE  /\ reed_muller_3014_encode(aach) \in [1 .. 30 -> Bit]
         /\ Len(reed_muller_3014_encode(aach)) = 30
         /\ \A i \in 1 .. 14 : reed_muller_3014_encode(aach)[i] = aach[i]
         /\ \A n \in 1 .. 16 : reed_muller_3014_encode(aach)[14 + n] = Parity(aach, Generator[n])
<1>. DEFINE check == [n \in 1 .. 16 |-> Parity(aach, Generator[n])]
            word == reed_muller_3014_encode(aach)
<1>1. \A n \in 1 .. 16 : Parity(aach, Generator[n]) \in Bit
  <2>. SUFFICES ASSUME NEW n \in 1 .. 16 PROVE Parity(aach, Generator[n]) \in Bit
    OBVIOUS
  <2>. DEFINE ones == {p \in Generator[n] : aach[p] = 1}
  <2>1. ones \in SUBSET (1 .. 14)
    BY PlacesOfVotes
  <2>2. Parity(aach, Generator[n]) = Cardinality(ones) % 2
    BY DEF Parity
  <2>. HIDE DEF ones
  <2>3. Cardinality(ones) \in Nat
    <3>1. 1 \in Int /\ 14 \in Int
      OBVIOUS
    <3>2. IsFiniteSet(1 .. 14)
      BY <3>1, FS_Interval
    <3>. QED
      BY <2>1, <3>2, FS_Subset, FS_CardinalityType
  <2>. QED
    BY <2>2, <2>3 DEF Bit
<1>2. check \in Seq(Bit) /\ Len(check) = 16 /\ \A n \in 1 .. 16 : check[n] = Parity(aach, Generator[n])
  BY <1>1
<1>3. word = aach \o check
  BY DEF reed_muller_3014_encode
<1>. HIDE DEF check, word
<1>4. /\ word \in Seq(Bit) /\ Len(word) = 30
      /\ \A i \in 1 .. 30 : word[i] = IF i <= 14 THEN aach[i] ELSE check[i - 14]
  <2>0. Len(aach) = 14 /\ Len(check) = 16 /\ 14 + 16 = 30
    BY <1>2
  <2>1. /\ aach \o check \in Seq(Bit)
        /\ Len(aach \o check) = Len(aach) + Len(check)
        /\ \A i \in 1 .. Len(aach) + Len(check) :
              (aach \o check)[i] = IF i <= Len(aach) THEN aach[i] ELSE check[i - Len(aach)]
    BY <1>2, ConcatProperties
  <2>2. /\ Len(aach \o check) = 30
        /\ \A i \in 1 .. 30 : (aach \o check)[i] = IF i <= 14 THEN aach[i] ELSE check[i - 14]
    BY <2>0, <2>1, Zenon
  <2>. QED
    BY <1>3, <2>1, <2>2
<1>5. word \in [1 .. 30 -> Bit]
  BY <1>4, LenProperties
<1>6. \A n \in 1 .. 16 : word[14 + n] = check[n]
  <2>. SUFFICES ASSUME NEW n \in 1 .. 16 PROVE word[14 + n] = check[n]
    OBVIOUS
  <2>. DEFINE i == 14 + n
  <2>1. i \in 1 .. 30 /\ ~(i <= 14) /\ i - 14 = n
    OBVIOUS
  <2>. HIDE DEF i
  <2>2. word[i] = check[i - 14]
    BY <1>4, <2>1
  <2>. QED
    BY <2>1, <2>2 DEF i
<1>7. \A i \in 1 .. 14 : word[i] = aach[i]
  <2>1. \A i \in 1 .. 14 : i \in 1 .. 30 /\ i <= 14
    OBVIOUS
  <2>. QED
    BY <1>4, <2>1
<1>. QED
  BY <1>2, <1>4, <1>5, <1>6, <1>7 DEF word

\* The normal downlink bursts, whose broadcast block is cut by the training sequence:
\* bit 15 is read from this, every other bit where it was sent.
NormalDownlink == {"NormalDownlinkBurst", "NormalDownlinkBurstSplit"}

\* Where the bits of the broadcast block are read, and where they were sent.
LEMMA BroadcastPositions ==
  ASSUME NEW type \in NormalDownlink, NEW i \in 1 .. 30, NEW j \in 1 .. 30
  PROVE  SentPosition(type, "bb", j - 1) = ReadPosition(type, "bb", i - 1) <=> i = j /\ i # 15
<1>1. /\ Sending(type, "bb") = [first |-> 230, length |-> 14, second |-> 266]
      /\ Reading(type, "bb") = [first |-> 230, cut |-> 14, rest |-> 252]
  BY DEF Sending, Reading, NormalDownlink
<1>2. /\ SentPosition(type, "bb", j - 1) = IF j - 1 < 14 THEN 230 + (j - 1) ELSE 266 + (j - 1) - 14
      /\ ReadPosition(type, "bb", i - 1) = IF i - 1 > 14 THEN 252 + (i - 1) ELSE 230 + (i - 1)
  BY <1>1 DEF SentPosition, ReadPosition
<1>. QED
  BY <1>2

\* What is read of the broadcast block, and what becomes of it.
BitRead(burst, i) == IF i = 15 THEN TrainingBit(burst.burst_type) ELSE Received(burst, i)
WordRead(burst) == [i \in 1 .. 30 |-> BitRead(burst, i)]

\* The access assignment is decoded from these bits.
LEMMA AccessIsRead ==
  ASSUME NEW burst, burst.burst_type \in NormalDownlink, NEW code
  PROVE  AccessAssignment(burst, code) = reed_muller_3014_decode(descramble(WordRead(burst), code))
<1>. DEFINE type == burst.burst_type
            From(position) == {j \in 1 .. 30 : SentPosition(type, "bb", j - 1) = position}
            At(position) == IF From(position) = {} THEN TrainingBit(type)
                            ELSE Received(burst, CHOOSE j \in From(position) : TRUE)
            read == [i \in 1 .. 30 |-> At(ReadPosition(type, "bb", i - 1))]
<1>1. AccessAssignment(burst, code) = reed_muller_3014_decode(descramble(read, code))
  BY DEF AccessAssignment
<1>2. ASSUME NEW i \in 1 .. 30 PROVE At(ReadPosition(type, "bb", i - 1)) = BitRead(burst, i)
  <2>. DEFINE from == From(ReadPosition(type, "bb", i - 1))
  <2>1. \A j \in 1 .. 30 : j \in from <=> i = j /\ i # 15
    BY BroadcastPositions
  <2>2. from \subseteq 1 .. 30
    OBVIOUS
  <2>3. At(ReadPosition(type, "bb", i - 1)) = IF from = {} THEN TrainingBit(type)
                                              ELSE Received(burst, CHOOSE j \in from : TRUE)
    OBVIOUS
  <2>. HIDE DEF from, At
  <2>4. CASE i = 15
    <3>1. from = {}
      BY <2>1, <2>2, <2>4
    <3>. QED
      BY <2>3, <2>4, <3>1 DEF BitRead
  <2>5. CASE i # 15
    <3>1. from = {i}
      BY <2>1, <2>2, <2>5
    <3>2. from # {} /\ (CHOOSE j \in from : TRUE) = i
      BY <3>1
    <3>. QED
      BY <2>3, <2>5, <3>2 DEF BitRead
  <2>. QED
    BY <2>4, <2>5
<1>. HIDE DEF At
<1>3. read = WordRead(burst)
  BY <1>2 DEF WordRead
<1>. QED
  BY <1>1, <1>3

\* An access assignment comes with bit 15 as it is read, and no other wrong or one that
\* is outvoted, if the sender and the air did what UsageIsSent says.
LEMMA AccessComes ==
  ASSUME NEW burst, burst.burst_type \in NormalDownlink,
         burst.aach \in Seq(Bit), Len(burst.aach) = 14, burst.aach_errors \subseteq 1 .. 30,
         UsageIsSent(burst)
  PROVE  \E wrong : Comes(descramble(WordRead(burst), burst.cell), burst.aach, IsMisread(burst), wrong)
<1>. DEFINE aach == burst.aach
            word == reed_muller_3014_encode(aach)
            table == ScramblingTable(burst.cell, 30)
            read == WordRead(burst)
            input == descramble(read, burst.cell)
            Err(i) == IF i \in burst.aach_errors THEN 1 ELSE 0
            training == TrainingBit(burst.burst_type)
            errors == burst.aach_errors \ {15}
            misread == IsMisread(burst)
<1>1. /\ word \in [1 .. 30 -> Bit] /\ Len(word) = 30
      /\ \A i \in 1 .. 14 : word[i] = aach[i]
      /\ \A n \in 1 .. 16 : word[14 + n] = Parity(aach, Generator[n])
  BY CodeWord
<1>2. table \in [1 .. 30 -> Bit]
  <2>1. 30 \in Nat
    OBVIOUS
  <2>. QED
    BY <2>1, TableBits
<1>3. training \in Bit
  BY DEF TrainingBit, Bit
<1>. HIDE DEF word, table, training
<1>0. \A i \in 1 .. 30 : word[i] \in Int /\ table[i] \in Int /\ Err(i) \in Int
  <2>1. \A i \in 1 .. 30 : word[i] \in Bit /\ table[i] \in Bit
    BY <1>1, <1>2
  <2>2. \A i : Err(i) \in Int
    OBVIOUS
  <2>. HIDE DEF Err
  <2>. QED
    BY <2>1, <2>2, Bits
<1>coded. Coded(burst) = [i \in 1 .. 30 |-> (word[i] + table[i]) % 2]
  BY <1>1 DEF Coded, descramble, table, word
<1>4. \A i \in 1 .. 30 : Received(burst, i) = (((word[i] + table[i]) % 2) + Err(i)) % 2
  <2>2. \A i \in 1 .. 30 : Received(burst, i) = (Coded(burst)[i] + Err(i)) % 2
    BY DEF Received
  <2>. HIDE DEF Err
  <2>. QED
    BY <1>coded, <2>2
<1>5. /\ read \in [1 .. 30 -> Bit] /\ read \in Seq(Bit) /\ Len(read) = 30
      /\ read[15] = training /\ \A i \in 1 .. 30 : i # 15 => read[i] = Received(burst, i)
  <2>1. \A i \in 1 .. 30 : Received(burst, i) \in Bit
    <3>. HIDE DEF Err
    <3>1. \A i \in 1 .. 30 : (word[i] + table[i]) % 2 \in Int
      BY <1>0, Bits
    <3>. QED
      BY <1>0, <1>4, <3>1, Bits
  <2>2. \A i \in 1 .. 30 : BitRead(burst, i) \in Bit
    BY <1>3, <2>1 DEF BitRead, training
  <2>3. read[15] = training /\ \A i \in 1 .. 30 : i # 15 => read[i] = Received(burst, i)
    BY DEF WordRead, BitRead, training
  <2>4. read \in [1 .. 30 -> Bit]
    BY <2>2 DEF WordRead
  <2>. HIDE DEF read
  <2>. QED
    BY <2>3, <2>4, FunctionIsSequence
<1>. HIDE DEF read
<1>6. input = [i \in 1 .. 30 |-> (read[i] + table[i]) % 2]
  BY <1>5 DEF descramble, table
<1>7. input \in Seq(Bit) /\ Len(input) = 30 /\ \A i \in 1 .. 30 : input[i] = (read[i] + table[i]) % 2
  <2>1. \A i \in 1 .. 30 : read[i] \in Bit
    BY <1>5
  <2>2. \A i \in 1 .. 30 : (read[i] + table[i]) % 2 \in Bit
    BY <1>0, <2>1, Bits
  <2>. HIDE DEF input
  <2>. QED
    BY <1>6, <2>2
<1>. HIDE DEF input
<1>8. \A i \in 1 .. 30 : i # 15 => input[i] = (word[i] + Err(i)) % 2
  <2>. SUFFICES ASSUME NEW i \in 1 .. 30, i # 15 PROVE input[i] = (word[i] + Err(i)) % 2
    OBVIOUS
  <2>1. word[i] \in Int /\ table[i] \in Int /\ Err(i) \in Int
    BY <1>0
  <2>2. input[i] = (((((word[i] + table[i]) % 2) + Err(i)) % 2) + table[i]) % 2
    BY <1>4, <1>5, <1>7
  <2>. HIDE DEF Err
  <2>. QED
    BY <2>1, <2>2, ScrambledTwice
<1>9. misread \in BOOLEAN /\ input[15] = (word[15] + Flip(First(misread), 15)) % 2
  <2>1. input[15] \in Bit /\ word[15] \in Bit /\ table[15] \in Bit
    <3>1. input \in [1 .. 30 -> Bit]
      BY <1>7, LenProperties
    <3>. QED
      BY <1>1, <1>2, <3>1
  <2>2. input[15] = (training + table[15]) % 2
    BY <1>5, <1>7
  <2>3. misread \in BOOLEAN /\ (misread <=> (word[15] + table[15]) % 2 # training)
    BY <1>coded DEF IsMisread, training
  <2>. HIDE DEF misread
  <2>4. CASE misread
    <3>1. Flip(First(misread), 15) = 1 /\ (word[15] + table[15]) % 2 # training
      BY <2>3, <2>4 DEF Flip, First
    <3>2. \A w, t, r \in {0, 1} : (w + t) % 2 # r => (r + t) % 2 = (w + 1) % 2
      OBVIOUS
    <3>3. input[15] = (word[15] + 1) % 2
      BY <1>3, <2>1, <2>2, <3>1, <3>2 DEF Bit
    <3>. QED
      BY <2>3, <3>1, <3>3
  <2>5. CASE ~misread
    <3>1. Flip(First(misread), 15) = 0 /\ (word[15] + table[15]) % 2 = training
      BY <2>3, <2>5 DEF Flip, First
    <3>2. input[15] = (word[15] + 0) % 2
      BY <1>3, <2>1, <2>2, <3>1 DEF Bit
    <3>. QED
      BY <2>3, <3>1, <3>2
  <2>. QED
    BY <2>4, <2>5
<1>10. errors = {} \/ \E i \in 1 .. 30 : errors = {i} /\ i \notin Uncorrected(misread) \cup {15}
  <2>1. Cardinality(errors) <= 1 /\ errors \cap Uncorrected(misread) = {}
    BY DEF UsageIsSent, NormalDownlink
  <2>2. IsFiniteSet(errors)
    <3>1. 1 \in Int /\ 30 \in Int
      OBVIOUS
    <3>2. IsFiniteSet(1 .. 30)
      BY <3>1, FS_Interval
    <3>. QED
      BY <3>2, FS_Subset
  <2>3. errors \subseteq 1 .. 30 /\ 15 \notin errors
    OBVIOUS
  <2>. HIDE DEF errors, misread
  <2>4. Cardinality(errors) \in Nat
    BY <2>2, FS_CardinalityType
  <2>5. CASE Cardinality(errors) = 0
    BY <2>2, <2>5, FS_EmptySet
  <2>6. CASE Cardinality(errors) = 1
    <3>1. \E i : errors = {i}
      BY <2>2, <2>6, FS_Singleton
    <3>. QED
      BY <2>1, <2>3, <3>1
  <2>7. Cardinality(errors) = 0 \/ Cardinality(errors) = 1
    BY <2>1, <2>4
  <2>. QED
    BY <2>5, <2>6, <2>7, Zenon
<1>11. \A i \in 1 .. 30 : i # 15 => Err(i) = IF i \in errors THEN 1 ELSE 0
  OBVIOUS
<1>. HIDE DEF errors, Err, misread
\* The place besides bit 15 that is wrong.
<1>12. PICK wrong \in 0 .. 30 : /\ wrong \notin Uncorrected(misread) \cup {15}
                                /\ \A i \in 1 .. 30 : i \in errors <=> i = wrong
  <2>1. CASE errors = {}
    <3>1. 0 \notin Uncorrected(misread) \cup {15} /\ \A i \in 1 .. 30 : i \in errors <=> i = 0
      BY <2>1 DEF Uncorrected
    <3>. QED
      BY <3>1
  <2>2. CASE errors # {}
    <3>1. PICK k \in 1 .. 30 : errors = {k} /\ k \notin Uncorrected(misread) \cup {15}
      BY <1>10, <2>2
    <3>2. k \in 0 .. 30 /\ \A i \in 1 .. 30 : i \in errors <=> i = k
      BY <3>1
    <3>. QED
      BY <3>1, <3>2
  <2>. QED
    BY <2>1, <2>2
<1>13. \A i \in 1 .. 30 : input[i] = (word[i] + FlipBoth(misread, wrong, i)) % 2
  <2>. SUFFICES ASSUME NEW i \in 1 .. 30 PROVE input[i] = (word[i] + FlipBoth(misread, wrong, i)) % 2
    OBVIOUS
  <2>1. CASE i = 15
    <3>1. FlipBoth(misread, wrong, i) = Flip(First(misread), 15)
      BY <1>12, <2>1 DEF FlipBoth, Flip
    <3>. QED
      BY <1>9, <2>1, <3>1
  <2>2. CASE i # 15
    <3>1. FlipBoth(misread, wrong, i) = IF i = wrong THEN 1 ELSE 0
      BY <2>2 DEF FlipBoth, Flip, First
    <3>2. Err(i) = FlipBoth(misread, wrong, i)
      BY <1>11, <1>12, <2>2, <3>1
    <3>. QED
      BY <1>8, <2>2, <3>2
  <2>. QED
    BY <2>1, <2>2
<1>14. Comes(input, aach, misread, wrong)
  <2>1. \A i \in 1 .. 14 : i \in 1 .. 30
    OBVIOUS
  <2>2. \A n \in 1 .. 16 : 14 + n \in 1 .. 30
    OBVIOUS
  <2>. QED
    BY <1>1, <1>7, <1>9, <1>12, <1>13, <2>1, <2>2 DEF Comes
<1>. QED
  BY <1>14 DEF input, read, misread

\* The usage of a burst: traffic, if the header of its access assignment and the usage
\* marker are not 0 and the frame is not 18.
CarriesTraffic(aach, frame_number) ==
    /\ frame_number # 18
    /\ SubSeq(aach, 1, 2) # <<0, 0>>
    /\ SubSeq(aach, 3, 6) # <<0, 0, 0, 0>>

\* That is what the decoder takes it for, if the first six bits were decoded right.
LEMMA TrafficUsage ==
  ASSUME NEW aach \in Seq(Bit), Len(aach) = 14,
         NEW decoded \in [1 .. 14 -> Bit], \A i \in 1 .. 6 : decoded[i] = aach[i],
         NEW frame_number
  PROVE  DownlinkUsage(decoded, frame_number) = "Traffic" <=> CarriesTraffic(aach, frame_number)
<1>. DEFINE header == SubSeq(decoded, 1, 2)
            field1 == SubSeq(decoded, 3, 8)
            h == ToNat(header)
            f == ToNat(field1)
<1>1. decoded \in Seq(Bit) /\ Len(decoded) = 14
  <2>1. 14 \in Nat
    OBVIOUS
  <2>. QED
    BY <2>1, FunctionIsSequence
<1>2. aach \in [1 .. 14 -> Bit]
  BY LenProperties
<1>3. /\ aach[1] \in Bit /\ aach[2] \in Bit /\ aach[3] \in Bit
      /\ aach[4] \in Bit /\ aach[5] \in Bit /\ aach[6] \in Bit
  BY <1>2
<1>4. header \in Seq(Bit) /\ Len(header) = 2 /\ header[1] = aach[1] /\ header[2] = aach[2]
  BY <1>1
<1>5. /\ field1 \in Seq(Bit) /\ Len(field1) = 6
      /\ field1[1] = aach[3] /\ field1[2] = aach[4] /\ field1[3] = aach[5] /\ field1[4] = aach[6]
      /\ field1[5] \in Bit /\ field1[6] \in Bit
  BY <1>1
<1>6. DownlinkUsage(decoded, frame_number)
         = IF frame_number = 18 \/ h = 0 THEN "CommonControl"
           ELSE IF f > 3 THEN "Traffic"
           ELSE <<"Unallocated", "AssignedControl", "CommonControl",
                  "CommonAndAssignedControl">>[f + 1]
  BY DEF DownlinkUsage
<1>. HIDE DEF header, field1
<1>7. h = 2 * aach[1] + aach[2]
  BY <1>4, HeaderValue
<1>8. f = 32 * aach[3] + 16 * aach[4] + 8 * aach[5] + 4 * aach[6] + 2 * field1[5] + field1[6]
  BY <1>5, FieldValue
<1>. HIDE DEF h, f
<1>9. h = 0 <=> aach[1] = 0 /\ aach[2] = 0
  BY <1>3, <1>7 DEF Bit
<1>10. /\ f \in Nat
       /\ f > 3 <=> ~(aach[3] = 0 /\ aach[4] = 0 /\ aach[5] = 0 /\ aach[6] = 0)
  <2>. DEFINE a3 == aach[3]  a4 == aach[4]  a5 == aach[5]  a6 == aach[6]
              b5 == field1[5]  b6 == field1[6]
  <2>1. /\ a3 \in Bit /\ a4 \in Bit /\ a5 \in Bit /\ a6 \in Bit /\ b5 \in Bit /\ b6 \in Bit
        /\ f = 32 * a3 + 16 * a4 + 8 * a5 + 4 * a6 + 2 * b5 + b6
    BY <1>3, <1>5, <1>8
  <2>. HIDE DEF a3, a4, a5, a6, b5, b6
  <2>2. f \in Nat
    BY <2>1 DEF Bit
  <2>3. f > 3 <=> ~(a3 = 0 /\ a4 = 0 /\ a5 = 0 /\ a6 = 0)
    BY <2>1 DEF Bit
  <2>. QED
    BY <2>2, <2>3 DEF a3, a4, a5, a6
<1>11. DownlinkUsage(decoded, frame_number) = "Traffic" <=> frame_number # 18 /\ h # 0 /\ f > 3
  <2>1. f <= 3 => f + 1 \in {1, 2, 3, 4}
    BY <1>10
  <2>2. \A k \in {1, 2, 3, 4} :
           <<"Unallocated", "AssignedControl", "CommonControl",
             "CommonAndAssignedControl">>[k] # "Traffic"
    OBVIOUS
  <2>. QED
    BY <1>6, <1>10, <2>1, <2>2
<1>12. SubSeq(aach, 1, 2) = <<0, 0>> <=> aach[1] = 0 /\ aach[2] = 0
  <2>. DEFINE x == SubSeq(aach, 1, 2)
  <2>1. x \in Seq(Bit) /\ Len(x) = 2 /\ x[1] = aach[1] /\ x[2] = aach[2]
    BY <1>2
  <2>. HIDE DEF x
  <2>2. x = <<x[1], x[2]>>
    BY <2>1
  <2>. QED
    BY <2>1, <2>2 DEF x
<1>13. SubSeq(aach, 3, 6) = <<0, 0, 0, 0>> <=> aach[3] = 0 /\ aach[4] = 0 /\ aach[5] = 0 /\ aach[6] = 0
  <2>. DEFINE x == SubSeq(aach, 3, 6)
  <2>1. x \in Seq(Bit) /\ Len(x) = 4 /\ x[1] = aach[3] /\ x[2] = aach[4] /\ x[3] = aach[5] /\ x[4] = aach[6]
    BY <1>2
  <2>. HIDE DEF x
  <2>2. x = <<x[1], x[2], x[3], x[4]>>
    BY <2>1
  <2>. QED
    BY <2>1, <2>2 DEF x
<1>. QED
  BY <1>9, <1>10, <1>11, <1>12, <1>13 DEF CarriesTraffic

\* The slots of a normal downlink burst are of the channels that its usage says.
LEMMA ChannelsOfUsage ==
  ASSUME NEW burst, burst.burst_type \in NormalDownlink, NEW code, NEW frame_number,
         NEW made, made = Slots(burst.burst_type, processChannels(burst, code, frame_number))
  PROVE  made[1].channel \in {"TrafficChannel", "StealingChannel"}
            <=> DownlinkUsage(AccessAssignment(burst, code), frame_number) = "Traffic"
<1>. DEFINE type == burst.burst_type
            traffic == DownlinkUsage(AccessAssignment(burst, code), frame_number) = "Traffic"
            Data(block, channel) == ChannelData(burst, channel, block, code)
            On(block, channels) == {Data(block, channel) : channel \in channels}
            may == processChannels(burst, code, frame_number)
<1>1. \A block, channel : Data(block, channel).channel = channel
  BY ChannelOfData
<1>. HIDE DEF traffic
<1>2. CASE type = "NormalDownlinkBurst"
  <2>. DEFINE channel == IF traffic THEN "TrafficChannel" ELSE "SignallingChannelFull"
  <2>1. may = << On("bkn1", {channel}) >>
    BY <1>2 DEF processChannels, traffic
  <2>2. made = << Data("bkn1", channel) >>
    BY <1>2, <2>1 DEF Slots
  <2>. HIDE DEF Data
  <2>3. made[1].channel = channel
    BY <1>1, <2>2
  <2>. QED
    BY <2>3 DEF traffic
<1>3. CASE type = "NormalDownlinkBurstSplit"
  <2>. DEFINE channel == IF traffic THEN "StealingChannel" ELSE "SignallingChannelHalfDownlink"
  <2>1. may[1] = {Data("bkn1", channel)} /\ Len(may) = 2
    <3>1. CASE traffic
      <4>1. may = << On("bkn1", {"StealingChannel"}), On("bkn2", {"StealingChannel", "TrafficChannel"}) >>
        BY <1>3, <3>1 DEF processChannels, traffic
      <4>. QED
        BY <3>1, <4>1
    <3>2. CASE ~traffic
      <4>1. may = << On("bkn1", {"SignallingChannelHalfDownlink"}), On("bkn2", {"SignallingChannelHalfDownlink"}) >>
        BY <1>3, <3>2 DEF processChannels, traffic
      <4>. QED
        BY <3>2, <4>1
    <3>. QED
      BY <3>1, <3>2
  <2>. HIDE DEF Data, may, channel
  <2>2. (CHOOSE one \in may[1] : TRUE) = Data("bkn1", channel)
    BY <2>1
  <2>3. made[1] = Data("bkn1", channel)
    BY <1>3, <2>1, <2>2 DEF Slots, may
  <2>4. made[1].channel = channel
    BY <1>1, <2>3
  <2>. QED
    BY <2>4 DEF traffic, channel
<1>. QED
  BY <1>2, <1>3 DEF NormalDownlink

\* A downlink burst fits the time that the decoder is synchronised to, from when it is
\* received on; only a synchronization burst changes that time while it is decoded.
FitsInv ==
    \A burst \in sent :
        /\ pc = "synchronize" => burst.burst_type = "SynchronizationBurst"
        /\ burst.burst_type \in NormalDownlink => \A sync \in sync_ : Fits(burst, sync)

\* No step changes the burst without the time, or the time of a downlink burst.
LEMMA NextFitsInv == FitsInv /\ [Next]_vars => FitsInv'
<1>. SUFFICES ASSUME FitsInv, [Next]_vars PROVE FitsInv'
  OBVIOUS
<1>. USE DEF FitsInv
<1>1. ASSUME NEW burst \in Bursts, Receive(burst) PROVE FitsInv'
  <2>1. sent' = {burst} /\ (pc' = "synchronize" => burst.burst_type = "SynchronizationBurst")
    BY <1>1 DEF Receive
  <2>2. ASSUME burst.burst_type \in NormalDownlink PROVE \A sync \in sync_' : Fits(burst, sync)
    <3>1. ~is_uplink_burst(burst.burst_type) /\ burst.burst_type # "SynchronizationBurst"
      BY <2>2 DEF NormalDownlink, is_uplink_burst, UplinkBursts
    <3>2. ~uplink
      BY <1>1, <3>1 DEF Receive
    <3>. QED
      BY <1>1, <3>1, <3>2 DEF Receive
  <2>. QED
    BY <2>1, <2>2 DEF Fits
<1>2. CASE Synchronize
  <2>1. sent' = sent /\ pc = "synchronize" /\ pc' = "channels"
    BY <1>2 DEF Synchronize
  <2>. QED
    BY <2>1 DEF NormalDownlink
<1>3. ASSUME sent' = sent, sync_' = sync_, pc' # "synchronize" PROVE FitsInv'
  BY <1>3 DEF Fits
<1>4. CASE Channels
  BY <1>3, <1>4 DEF Channels
<1>5. CASE Idle
  BY <1>5 DEF Idle
<1>6. \A other : Merge(other) => pc' = "slot"
  BY DEF Merge, Fail, NextSlot
<1>7. Fail => pc' = "slot"
  BY DEF Fail, NextSlot
<1>8. CASE ParseSlot
  <2>1. UNCHANGED <<lowerMac, sent>>
    BY <1>8 DEF ParseSlot
  <2>2. pc' \in {"slot", "pdu"}
    BY <1>6, <1>7, <1>8 DEF ParseSlot
  <2>. QED
    BY <1>3, <2>1, <2>2 DEF lowerMac
<1>9. CASE ParsePdu
  <2>1. UNCHANGED <<lowerMac, sent>>
    BY <1>9 DEF ParsePdu
  <2>2. pc' \in {"slot", "pdu", "parsed"}
    BY <1>7, <1>9 DEF ParsePdu
  <2>. QED
    BY <1>3, <2>1, <2>2 DEF lowerMac
<1>10. CASE Parsed
  <2>1. UNCHANGED <<lowerMac, sent>>
    BY <1>10 DEF Parsed
  <2>2. pc' = "slot"
    BY <1>6, <1>10 DEF Parsed
  <2>. QED
    BY <1>3, <2>1, <2>2 DEF lowerMac
<1>11. CASE UNCHANGED vars
  BY <1>11 DEF vars, lowerMac, Fits
<1>. QED
  BY <1>1, <1>2, <1>4, <1>5, <1>8, <1>9, <1>10, <1>11 DEF Next, Drop, Finish

\* The usage of a downlink burst decides between traffic and signalling as it was
\* sent, for every access assignment and cell, also where the bit of the broadcast block
\* that is read from the training sequence is wrong and one more, from the air, is wrong
\* as well, wherever it is but at the places that the votes do not outvote.
THEOREM UsageIsDecodedCorrect == Spec => []UsageIsDecoded
<1>1. Spec => []BlocksInv
  BY InitBlocksInv, NextBlocksInv, PTL DEF Spec
<1>2. Init => FitsInv
  BY DEF Init, FitsInv
<1>3. Spec => []FitsInv
  BY <1>2, NextFitsInv, PTL DEF Spec
<1>4. BlocksInv /\ FitsInv => UsageIsDecoded
  <2>. SUFFICES ASSUME BlocksInv, FitsInv, NEW burst \in sent, Len(slots) > 0,
                       OfThisCell(burst), UsageIsSent(burst), burst.carries_traffic # {}
                PROVE  burst.carries_traffic = {slots[1].channel \in {"TrafficChannel", "StealingChannel"}}
    BY DEF UsageIsDecoded, TakenAsSent
  <2>. DEFINE aach == burst.aach
  <2>1. sent = {burst} /\ burst \in Bursts
    BY DEF BlocksInv, OneBurst
  <2>2. /\ burst.burst_type \in NormalDownlink
        /\ aach \in Seq(Bit) /\ Len(aach) = 14 /\ burst.aach_errors \subseteq 1 .. 30
    BY <2>1, UsageAssumption DEF HasUsage, NormalDownlink, Bit
  <2>3. PICK sync \in sync_ :
           slots = Slots(burst.burst_type, processChannels(burst, sync.code, sync.frame_number))
    <3>1. slots # <<>>
      BY EmptySeq
    <3>. QED
      BY <2>1, <3>1 DEF BlocksInv, SlotsOfBurst
  <2>4. sync.code = burst.cell
    BY DEF OfThisCell, BlocksInv, OneSync
  <2>. DEFINE frame == sync.frame_number
              input == descramble(WordRead(burst), burst.cell)
              decoded == AccessAssignment(burst, burst.cell)
              traffic == CarriesTraffic(aach, frame)
              tells == slots[1].channel \in {"TrafficChannel", "StealingChannel"}
  <2>5. decoded \in [1 .. 14 -> Bit] /\ \A i \in 1 .. 6 : decoded[i] = aach[i]
    <3>1. PICK wrong : Comes(input, aach, IsMisread(burst), wrong)
      BY <2>2, AccessComes
    <3>2. decoded = reed_muller_3014_decode(input)
      BY <2>2, AccessIsRead
    <3>. HIDE DEF input, decoded
    <3>. QED
      BY <3>1, <3>2, FirstBitsDecoded
  <2>6. DownlinkUsage(decoded, frame) = "Traffic" <=> traffic
    <3>. HIDE DEF decoded, frame
    <3>. QED
      BY <2>2, <2>5, TrafficUsage
  <2>7. tells <=> DownlinkUsage(decoded, frame) = "Traffic"
    BY <2>2, <2>3, <2>4, ChannelsOfUsage
  <2>8. burst.carries_traffic = {traffic}
    BY <2>2 DEF FitsInv, Fits, CarriesTraffic
  <2>9. traffic \in BOOLEAN /\ tells \in BOOLEAN
    BY DEF CarriesTraffic
  <2>. HIDE DEF traffic, tells
  <2>10. traffic = tells
    BY <2>6, <2>7, <2>9
  <2>. QED
    BY <2>8, <2>10 DEF tells
<1>. QED
  BY <1>1, <1>3, <1>4, PTL

-----------------------------------------------------------------------------
(* Reading: a layout is read field by field, and never lengthens the data. *)

\* What holds of the first of some values, and of each if of the one before, holds
\* of all of them.
LEMMA Stays ==
  ASSUME NEW n \in Nat, NEW V, NEW g, g[0] \in V, \A i \in 1 .. n : g[i - 1] \in V => g[i] \in V
  PROVE  \A i \in 0 .. n : g[i] \in V
<1>. DEFINE Outside == {i \in 0 .. n : g[i] \notin V}
<1>1. SUFFICES ASSUME Outside # {} PROVE FALSE
  OBVIOUS
<1>2. PICK m \in Outside : \A k \in Outside : m <= k
  <2>1. Outside \subseteq Nat
    OBVIOUS
  <2>. HIDE DEF Outside
  <2>. QED
    BY <2>1, <1>1, LeastNumber
<1>3. m \in 1 .. n /\ m - 1 \in 0 .. n /\ ~(m <= m - 1)
  BY <1>2
<1>4. m - 1 \notin Outside
  BY <1>2, <1>3
<1>. QED
  BY <1>2, <1>3, <1>4

\* A field has a width, and none of some names.  A layout is a sequence of fields.
IsField(field, without) ==
    "width" \in DOMAIN field /\ "name" \in DOMAIN field /\ field.width \in Nat /\ field.name \notin without
IsLayout(layout, without) ==
    /\ Len(layout) \in Nat
    /\ layout = [i \in 1 .. Len(layout) |-> layout[i]]
    /\ \A i \in 1 .. Len(layout) : IsField(layout[i], without)

\* A layout is a sequence of such fields, in the words of the library's facts on
\* sequences.
LEMMA FieldsOfLayout ==
  ASSUME NEW layout, NEW without
  PROVE  IsLayout(layout, without) <=> \E S : layout \in Seq(S) /\ \A field \in S : IsField(field, without)
<1>1. ASSUME IsLayout(layout, without) PROVE \E S : layout \in Seq(S) /\ \A field \in S : IsField(field, without)
  <2>. DEFINE S == {layout[i] : i \in 1 .. Len(layout)}
  <2>1. layout \in [1 .. Len(layout) -> S] /\ Len(layout) \in Nat
    BY <1>1 DEF IsLayout
  <2>2. layout \in Seq(S)
    BY <2>1, SeqDef
  <2>. QED
    BY <1>1, <2>2 DEF IsLayout
<1>2. ASSUME NEW S, layout \in Seq(S), \A field \in S : IsField(field, without) PROVE IsLayout(layout, without)
  <2>1. Len(layout) \in Nat /\ layout \in [1 .. Len(layout) -> S]
    BY <1>2, LenProperties
  <2>. QED
    BY <1>2, <2>1 DEF IsLayout
<1>. QED
  BY <1>1, <1>2

\* One layout behind another.
LEMMA Concatenated ==
  ASSUME NEW without, NEW first, IsLayout(first, without), NEW second, IsLayout(second, without)
  PROVE  IsLayout(first \o second, without)
<1>1. PICK S : first \in Seq(S) /\ \A field \in S : IsField(field, without)
  BY FieldsOfLayout
<1>2. PICK T : second \in Seq(T) /\ \A field \in T : IsField(field, without)
  BY FieldsOfLayout
<1>3. first \in Seq(S \cup T) /\ second \in Seq(S \cup T)
  BY <1>1, <1>2
<1>4. first \o second \in Seq(S \cup T)
  BY <1>3
<1>5. \A field \in S \cup T : IsField(field, without)
  BY <1>1, <1>2
<1>. QED
  BY <1>4, <1>5, FieldsOfLayout

\* A layout that is there under a condition.
LEMMA Conditional ==
  ASSUME NEW without, NEW when, NEW layout, IsLayout(layout, without)
  PROVE  IsLayout(Under(when, layout), without)
<1>1. PICK S : layout \in Seq(S) /\ \A field \in S : IsField(field, without)
  BY FieldsOfLayout
<1>. DEFINE T == {[field EXCEPT !.when = {when} \cup @] : field \in S}
<1>2. \A field \in T : IsField(field, without)
  BY <1>1 DEF IsField
<1>3. DOMAIN layout = 1 .. Len(layout) /\ Len(layout) \in Nat /\ \A i \in DOMAIN layout : layout[i] \in S
  BY <1>1
<1>4. Under(when, layout) \in [1 .. Len(layout) -> T]
  BY <1>3 DEF Under
<1>5. Under(when, layout) \in Seq(T)
  BY <1>3, <1>4, SeqDef
<1>. QED
  BY <1>2, <1>5, FieldsOfLayout

\* The views of data; those that are no longer than one; the values of fields.
BitVecs == [bits : Seq(Bit), fill_bits_removed_ : BOOLEAN]
PartsOf(view) == {rest \in BitVecs : bits_left(rest) <= bits_left(view)}
Values(names) == UNION {[present -> Nat] : present \in SUBSET names}

\* Bits are a number.
LEMMA NumberOfBits == ASSUME NEW bits \in Seq(Bit) PROVE ToNat(bits) \in Nat
<1>1. PICK value : /\ ToNat(bits) = value[Len(bits)] /\ value[0] = 0
                   /\ \A i \in 1 .. Len(bits) : value[i] = 2 * value[i - 1] + bits[i]
  BY ValueOfBits
<1>2. Len(bits) \in Nat /\ \A i \in 1 .. Len(bits) : bits[i] \in Nat
  BY DEF Bit
<1>. DEFINE n == Len(bits)
            V == Nat
<1>3. value[0] \in V /\ \A i \in 1 .. n : value[i - 1] \in V => value[i] \in V
  BY <1>1, <1>2
<1>4. n \in Nat
  BY <1>2
<1>. HIDE DEF n, V
<1>5. \A i \in 0 .. n : value[i] \in V
  BY <1>3, <1>4, Stays
<1>6. n \in 0 .. n
  BY <1>4
<1>. QED
  BY <1>1, <1>5, <1>6 DEF n, V

\* Taking bits from the front (bit_vector.hpp, take): what is left is that much
\* shorter.
LEMMA PartTaken ==
  ASSUME NEW view \in BitVecs, NEW n \in Nat, n <= bits_left(view)
  PROVE  /\ Taken(n, view) \in BitVecs /\ bits_left(Taken(n, view)) = bits_left(view) - n
         /\ look(n, 0, view) \in Nat
<1>. DEFINE rest == SubSeq(view.bits, n + 1, Len(view.bits))
            head == SubSeq(view.bits, 1, n)
<1>1. view.bits \in Seq(Bit) /\ Len(view.bits) \in Nat /\ n <= Len(view.bits)
  BY DEF BitVecs, bits_left
<1>2. rest \in Seq(Bit) /\ Len(rest) = Len(view.bits) - n
  BY <1>1, SubSeqProperties
<1>3. head \in Seq(Bit)
  BY <1>1, SubSeqProperties
<1>. HIDE DEF rest, head
<1>4. Taken(n, view) \in BitVecs /\ Taken(n, view).bits = rest
  BY <1>2 DEF Taken, BitVecs, rest
<1>5. look(n, 0, view) \in Nat
  <2>1. 0 + 1 = 1 /\ 0 + n = n
    OBVIOUS
  <2>. QED
    BY <1>3, <2>1, NumberOfBits DEF look, head
<1>. QED
  BY <1>2, <1>4, <1>5 DEF bits_left

\* A value with one more field.
LEMMA FieldAdded ==
  ASSUME NEW names, NEW name \in names, NEW n \in Nat, NEW value \in Values(names)
  PROVE  WithField(value, name, n) \in Values(names)
<1>1. PICK present \in SUBSET names : value \in [present -> Nat]
  BY DEF Values
<1>2. WithField(value, name, n) \in [present \cup {name} -> Nat]
  BY <1>1 DEF WithField
<1>. QED
  BY <1>2 DEF Values

\* Reading a layout, complete or not, never makes the data longer, and reads the
\* fields of the layout only, as numbers.
LEMMA ReadTakes ==
  ASSUME NEW without, NEW layout, IsLayout(layout, without), NEW view \in BitVecs
  PROVE  /\ Read(layout, view).ok \in BOOLEAN
         /\ \A name \in DOMAIN Read(layout, view).value :
               Read(layout, view).value[name] \in Nat /\ name \notin without
         /\ Read(layout, view).data \in PartsOf(view)
<1>. DEFINE n == Len(layout)
            names == {layout[i].name : i \in 1 .. n}
            parts == PartsOf(view)
            V == [ok : BOOLEAN, value : Values(names), data : parts]
            first == [ok |-> TRUE, value |-> NoFields, data |-> view]
            Step(i, before) ==
                IF ~before.ok \/ ~IsPresent(layout[i], before.value) THEN before
                ELSE IF bits_left(before.data) < layout[i].width THEN [before EXCEPT !.ok = FALSE]
                ELSE [ok |-> TRUE,
                      value |-> WithField(before.value, layout[i].name, look(layout[i].width, 0, before.data)),
                      data |-> Taken(layout[i].width, before.data)]
            Follows(g) == g = [i \in 0 .. n |-> IF i = 0 THEN first ELSE Step(i, g[i - 1])]
            after == CHOOSE g : Follows(g)
<1>1. n \in Nat /\ \A i \in 1 .. n : layout[i].width \in Nat /\ layout[i].name \in names
  BY DEF IsLayout, IsField
<1>2. Read(layout, view) = after[n]
  BY DEF Read
<1>3. first \in V
  <2>1. NoFields \in [{} -> Nat]
    BY DEF NoFields
  <2>2. NoFields \in Values(names)
    BY <2>1 DEF Values
  <2>3. view \in parts
    BY DEF PartsOf, bits_left, BitVecs
  <2>. HIDE DEF names, parts
  <2>. QED
    BY <2>2, <2>3
<1>4. \A i \in 1 .. n : \A before \in V : Step(i, before) \in V
  <2>. SUFFICES ASSUME NEW i \in 1 .. n, NEW before \in V PROVE Step(i, before) \in V
    OBVIOUS
  <2>. DEFINE width == layout[i].width
              name == layout[i].name
  <2>1. width \in Nat /\ name \in names
    BY <1>1
  <2>2. before.ok \in BOOLEAN /\ before.value \in Values(names) /\ before.data \in parts
    OBVIOUS
  <2>3. [before EXCEPT !.ok = FALSE] \in V
    OBVIOUS
  <2>4. ASSUME ~(bits_left(before.data) < width)
        PROVE  /\ WithField(before.value, name, look(width, 0, before.data)) \in Values(names)
               /\ Taken(width, before.data) \in parts
    <3>1. before.data \in BitVecs /\ bits_left(before.data) <= bits_left(view)
      BY <2>2 DEF PartsOf
    <3>2. bits_left(before.data) \in Nat /\ bits_left(view) \in Nat
      BY <3>1 DEF bits_left, BitVecs
    <3>. HIDE DEF width, name, names, parts
    <3>3. width <= bits_left(before.data)
      BY <2>1, <2>4, <3>2
    <3>4. /\ Taken(width, before.data) \in BitVecs
          /\ bits_left(Taken(width, before.data)) = bits_left(before.data) - width
          /\ look(width, 0, before.data) \in Nat
      BY <2>1, <3>1, <3>3, PartTaken
    <3>5. Taken(width, before.data) \in parts
      BY <2>1, <3>1, <3>2, <3>4 DEF PartsOf, parts
    <3>. QED
      BY <2>1, <2>2, <3>4, <3>5, FieldAdded
  <2>. HIDE DEF names, parts
  <2>. QED
    BY <2>3, <2>4
<1>. HIDE DEF n, V, first, Step
<1>5. \E f \in [0 .. n -> V] : Follows(f)
  <2>. DEFINE step == [p \in (1 .. n) \X V |-> Step(p[1], p[2])]
  <2>1. step \in [(1 .. n) \X V -> V]
    BY <1>4
  <2>2. \A i \in 1 .. n : \A v \in V : step[<<i, v>>] = Step(i, v)
    OBVIOUS
  <2>. HIDE DEF step
  <2>4. RecursiveExists(V, first, step, n)
    BY <1>1, <1>3, <2>1, Recursion DEF StepsIn
  <2>5. PICK f \in [0 .. n -> V] : f[0] = first /\ \A i \in 1 .. n : f[i] = step[<<i, f[i - 1]>>]
    BY <2>4 DEF Recursive, RecursiveExists
  <2>6. \A i \in 0 .. n : f[i] = IF i = 0 THEN first ELSE Step(i, f[i - 1])
    <3>1. \A i \in 0 .. n : i # 0 => i \in 1 .. n /\ i - 1 \in 0 .. n
      BY <1>1
    <3>2. \A i \in 0 .. n : f[i] \in V
      OBVIOUS
    <3>. QED
      BY <2>2, <2>5, <3>1, <3>2
  <2>7. f = [i \in 0 .. n |-> f[i]]
    BY <2>5
  <2>. QED
    BY <2>6, <2>7
<1>6. Follows(after)
  BY <1>5
<1>. HIDE DEF after
<1>7. after[0] = first /\ \A i \in 1 .. n : after[i] = Step(i, after[i - 1])
  <2>1. 0 \in 0 .. n /\ \A i \in 1 .. n : i \in 0 .. n /\ i # 0
    BY <1>1
  <2>. QED
    BY <1>6, <2>1
<1>8. \A i \in 0 .. n : after[i] \in V
  <2>1. after[0] \in V /\ \A i \in 1 .. n : after[i - 1] \in V => after[i] \in V
    BY <1>3, <1>4, <1>7
  <2>. QED
    BY <1>1, <2>1, Stays
<1>9. after[n] \in V
  BY <1>1, <1>8
<1>10. \A value \in Values(names) : \A name \in DOMAIN value : value[name] \in Nat /\ name \notin without
  <2>1. \A name \in names : name \notin without
    BY DEF IsLayout, IsField, n
  <2>. QED
    BY <2>1 DEF Values
<1>11. Read(layout, view).ok \in BOOLEAN /\ Read(layout, view).value \in Values(names)
       /\ Read(layout, view).data \in parts
  BY <1>2, <1>9 DEF V
<1>. QED
  BY <1>10, <1>11

-----------------------------------------------------------------------------
(* The PDUs, each with the layout of its header and its TM-SDU.            *)

\* The PDUs that the builder knows, and the ones whose header has no length
\* indication.
PduTypes == {"MacAccess", "MacEndHu", "MacData", "MacFragmentUplink", "MacFragmentDownlink",
             "MacEndUplink", "MacUBlck", "MacResource", "MacEndDownlink", "MacDBlck"}
WithoutLength == {"MacFragmentUplink", "MacFragmentDownlink", "MacUBlck", "MacDBlck"}
Without(type) == IF type \in WithoutLength THEN {"length_indication"} ELSE {}

\* The elements that some headers end in.
LEMMA Elements ==
  ASSUME NEW without, without \subseteq {"length_indication"}
  PROVE  IsLayout(SlotGranting, without) /\ IsLayout(ChannelAllocation, without)
<1>. USE DEF Field, Optional, IsField
<1>1. IsLayout(SlotGranting, without)
  BY DEF IsLayout, SlotGranting
<1>2. IsLayout(ExtendedCarrierNumbering, without)
  BY DEF IsLayout, ExtendedCarrierNumbering
<1>3. IsLayout(AugmentedChannelAllocation, without)
  BY DEF IsLayout, AugmentedChannelAllocation
<1>4. IsLayout(ChannelAllocationElement, without)
  <2>1. IsLayout(<< Field("allocation_type", 2), Field("timeslot_assigned", 4),
       Field("up_downlink_assigned", 2), Field("clch_permission", 1),
       Field("cell_change_flag", 1), Field("carrier_number", 12),
       Field("extended_carrier_numbering_flag", 1) >>, without)
    BY DEF IsLayout
  <2>2. IsLayout(<< Field("monitoring_pattern", 2),
          Optional("frame18_monitoring_pattern", 2, [monitoring_pattern |-> {0}]) >>, without)
    BY DEF IsLayout
  <2>. QED
    BY ONLY <1>2, <1>3, <2>1, <2>2, Concatenated, Conditional DEF ChannelAllocationElement
<1>5. IsLayout(<< Field("channel_allocation_flag", 1) >>, without)
  BY DEF IsLayout
<1>6. IsLayout(ChannelAllocation, without)
  BY ONLY <1>4, <1>5, Concatenated, Conditional DEF ChannelAllocation
<1>. QED
  BY <1>1, <1>6

\* The header of each PDU has no length indication if its PDU has none.
LEMMA Headers ==
  ASSUME NEW type \in PduTypes
  PROVE  IsLayout(HeaderOf(type), Without(type))
<1>. USE DEF Field, Optional, IsField
<1>. DEFINE without == {"length_indication"}
<1>1. IsLayout(MacAccess, {})
  <2>1. IsLayout(<< Field("pdu_type", 1), Field("fill_bit_indication", 1), Field("encrypted", 1) >>, {})
    BY DEF IsLayout
  <2>2. IsLayout(from_mac_access, {})
    BY DEF IsLayout, from_mac_access
  <2>3. IsLayout(<< Field("optional_field_flag", 1),
          Optional("request", 1, [optional_field_flag |-> {1}]),
          Optional("length_indication", 5, [request |-> {0}]),
          Optional("fragmentation", 1, [request |-> {1}]),
          Optional("reservation_requirement", 4, [request |-> {1}]) >>, {})
    BY DEF IsLayout
  <2>. QED
    BY ONLY <2>1, <2>2, <2>3, Concatenated DEF MacAccess
<1>2. IsLayout(MacEndHu, {})
  BY DEF IsLayout, MacEndHu
<1>3. IsLayout(MacData, {})
  <2>1. IsLayout(<< Field("pdu_type", 2), Field("fill_bit_indication", 1), Field("encrypted", 1) >>, {})
    BY DEF IsLayout
  <2>2. IsLayout(from_mac_data, {})
    BY DEF IsLayout, from_mac_access, from_mac_data
  <2>3. IsLayout(<< Field("request", 1),
          Optional("length_indication", 6, [request |-> {0}]),
          Optional("fragmentation", 1, [request |-> {1}]),
          Optional("reservation_requirement", 4, [request |-> {1}]),
          Optional("reserved", 1, [request |-> {1}]) >>, {})
    BY DEF IsLayout
  <2>. QED
    BY ONLY <2>1, <2>2, <2>3, Concatenated DEF MacData
<1>4. IsLayout(MacFragment, without)
  BY DEF IsLayout, MacFragment
<1>5. IsLayout(MacEndUplink, {})
  BY DEF IsLayout, MacEndUplink
<1>6. IsLayout(MacUBlck, without)
  BY DEF IsLayout, MacUBlck
<1>7. IsLayout(MacResource, {})
  <2>1. IsLayout(<< Field("pdu_type", 2), Field("fill_bit_indication", 1), Field("position_of_grant", 1),
       Field("encryption_mode", 2), Field("random_access_flag", 1),
       Field("length_indication", 6) >>, {})
    BY DEF IsLayout
  <2>2. IsLayout(from_mac_resource, {})
    BY DEF IsLayout, from_mac_resource
  <2>3. IsLayout(<< Field("power_control_flag", 1),
                    Optional("power_control_element", 4, [power_control_flag |-> {1}]) >>, {})
    BY DEF IsLayout
  <2>4. IsLayout(SlotGranting, {}) /\ IsLayout(ChannelAllocation, {})
    BY Elements
  <2>. QED
    BY ONLY <2>1, <2>2, <2>3, <2>4, Concatenated, Conditional DEF MacResource
<1>8. IsLayout(MacEndDownlink, {})
  <2>1. IsLayout(<< Field("pdu_type", 2), Field("subtype", 1), Field("fill_bit_indication", 1),
       Field("position_of_grant", 1), Field("length_indication", 6) >>, {})
    BY DEF IsLayout
  <2>2. IsLayout(SlotGranting, {}) /\ IsLayout(ChannelAllocation, {})
    BY Elements
  <2>. QED
    BY ONLY <2>1, <2>2, Concatenated DEF MacEndDownlink
<1>9. IsLayout(MacDBlck, without)
  <2>1. IsLayout(<< Field("pdu_type", 2), Field("subtype", 1), Field("fill_bit_indication", 1),
       Field("encryption_mode", 2), Field("event_label", 10),
       Field("immediate_napping_permission_flag", 1) >>, without)
    BY DEF IsLayout
  <2>2. IsLayout(SlotGranting, without)
    BY Elements
  <2>. QED
    BY ONLY <2>1, <2>2, Concatenated DEF MacDBlck
<1>. QED
  BY ONLY <1>1, <1>2, <1>3, <1>4, <1>5, <1>6, <1>7, <1>8, <1>9, type \in PduTypes
     DEF PduTypes, HeaderOf, Without, WithoutLength, without

\* Removing fill bits never makes the data longer.
LEMMA FillBitsRemoved ==
  ASSUME NEW view \in BitVecs, CanRemoveFillBits(view)
  PROVE  remove_fill_bits(view) \in PartsOf(view)
<1>0. view.bits \in Seq(Bit) /\ bits_left(view) \in Nat
  BY DEF BitVecs, bits_left
<1>1. CASE view.fill_bits_removed_
  BY <1>0, <1>1 DEF remove_fill_bits, PartsOf
<1>2. CASE ~view.fill_bits_removed_
  <2>. DEFINE bits == view.bits
              n == Len(bits)
              IsLast(i) == bits[i] = 1 /\ \A j \in i + 1 .. n : bits[j] = 0
  <2>1. n \in Nat /\ DOMAIN bits = 1 .. n /\ \A i \in 1 .. n : bits[i] = 0 \/ bits[i] = 1
    BY <1>0, LenProperties DEF Bit
  <2>2. \E i \in 1 .. n : bits[i] = 1
    BY <1>2, <2>1 DEF CanRemoveFillBits, HasOne
  <2>. HIDE DEF bits, n
  <2>3. \E i \in 1 .. n : IsLast(i)
    <3>. DEFINE Behind == {n - i : i \in {j \in 1 .. n : bits[j] = 1}}
    <3>1. Behind \subseteq Nat /\ Behind # {}
      BY <2>1, <2>2
    <3>2. PICK m \in Behind : \A k \in Behind : m <= k
      <4>. HIDE DEF Behind
      <4>. QED BY <3>1, LeastNumber
    <3>3. PICK i \in 1 .. n : m = n - i /\ bits[i] = 1
      BY <3>2
    <3>4. \A j \in i + 1 .. n : bits[j] = 0
      <4>. SUFFICES ASSUME NEW j \in i + 1 .. n, bits[j] # 0 PROVE FALSE
        OBVIOUS
      <4>1. j \in 1 .. n /\ bits[j] = 1 /\ ~(m <= n - j)
        BY <2>1, <3>3
      <4>2. n - j \in Behind
        BY <4>1
      <4>. QED
        BY <3>2, <4>1, <4>2
    <3>. QED
      BY <3>3, <3>4
  <2>4. LastOne(bits) = CHOOSE i \in 1 .. n : IsLast(i)
    BY <2>1 DEF LastOne, n
  <2>. HIDE DEF IsLast
  <2>5. LastOne(bits) \in 1 .. n
    BY <2>3, <2>4
  <2>. DEFINE rest == SubSeq(bits, 1, LastOne(bits) - 1)
  <2>6. rest \in Seq(Bit) /\ Len(rest) \in Nat /\ Len(rest) <= n
    <3>1. LastOne(bits) - 1 \in Nat /\ LastOne(bits) - 1 <= n /\ bits \in Seq(Bit)
      BY <1>0, <2>1, <2>5 DEF bits
    <3>. DEFINE last == LastOne(bits) - 1
    <3>. HIDE DEF last
    <3>2. last \in Nat /\ last <= Len(bits)
      BY <3>1 DEF last, n
    <3>3. SubSeq(bits, 1, last) \in Seq(Bit) /\ Len(SubSeq(bits, 1, last)) = last
      BY <3>1, <3>2, SubSeqProperties
    <3>. QED
      BY <3>2, <3>3 DEF last, n
  <2>7. remove_fill_bits(view) = [bits |-> rest, fill_bits_removed_ |-> TRUE]
    BY <1>2 DEF remove_fill_bits, bits
  <2>. HIDE DEF rest
  <2>. QED
    BY <2>6, <2>7 DEF PartsOf, BitVecs, bits_left, bits, n
<1>. QED
  BY <1>1, <1>2 DEF BitVecs

\* A part of a part.
LEMMA Parts ==
  ASSUME NEW view \in BitVecs, NEW rest \in PartsOf(view), NEW last \in PartsOf(rest)
  PROVE  rest \in BitVecs /\ last \in PartsOf(view)
<1>1. \A d \in BitVecs : bits_left(d) \in Nat
  BY DEF BitVecs, bits_left
<1>. QED
  BY <1>1 DEF PartsOf

\* Nor does taking the TM-SDU, of an indicated length or all that is left.
LEMMA TmSduTaken ==
  ASSUME NEW view \in BitVecs, NEW header \in Nat, NEW indication, NEW length,
         length = {} \/ \E n \in Int : length = {n},
         extract_tm_sdu(view, header, indication, length).ok
  PROVE  extract_tm_sdu(view, header, indication, length).data \in PartsOf(view)
<1>. DEFINE data2 == IF indication = 1 THEN remove_fill_bits(view) ELSE view
            left == bits_left(data2)
            payload == IF length = {} THEN left ELSE (CHOOSE n \in length : TRUE) - header
            capped == IF payload > left THEN left ELSE payload
            refused == \/ indication = 1 /\ ~CanRemoveFillBits(view)
                       \/ payload < 0
                       \/ payload - left >= 8
<1>1. extract_tm_sdu(view, header, indication, length) =
        IF refused THEN [ok |-> FALSE]
        ELSE [ok |-> TRUE, tm_sdu |-> take_vector(capped, data2), data |-> Taken(capped, data2)]
  BY DEF extract_tm_sdu
<1>2. ~refused /\ extract_tm_sdu(view, header, indication, length).data = Taken(capped, data2)
  <2>. HIDE DEF refused, capped, data2
  <2>1. ~refused
    BY <1>1
  <2>. QED
    BY <1>1, <2>1
<1>3. data2 \in PartsOf(view)
  <2>1. CASE indication = 1
    BY <1>2, <2>1, FillBitsRemoved
  <2>2. CASE indication # 1
    BY <2>2 DEF PartsOf, BitVecs, bits_left
  <2>. QED
    BY <2>1, <2>2
<1>4. data2 \in BitVecs /\ left \in Nat
  <2>. HIDE DEF data2
  <2>. QED
    BY <1>3 DEF PartsOf, BitVecs, bits_left
<1>. HIDE DEF data2
<1>5. payload \in Int
  <2>1. CASE length = {}
    BY <1>4, <2>1
  <2>2. ASSUME NEW n \in Int, length = {n} PROVE payload \in Int
    <3>1. (CHOOSE k \in length : TRUE) = n
      BY <2>2
    <3>. QED
      BY <2>2, <3>1
  <2>. QED
    BY <2>1, <2>2
<1>. HIDE DEF left
<1>6. capped \in Nat /\ capped <= left
  <2>1. ~(payload < 0)
    BY <1>2
  <2>. HIDE DEF payload
  <2>. QED
    BY <1>4, <1>5, <2>1
<1>. HIDE DEF capped
<1>7. Taken(capped, data2) \in BitVecs /\ bits_left(Taken(capped, data2)) = left - capped
  BY <1>4, <1>6, PartTaken DEF left
<1>8. Taken(capped, data2) \in PartsOf(data2)
  BY <1>4, <1>6, <1>7 DEF PartsOf, left
<1>. QED
  BY <1>2, <1>3, <1>8, Parts

\* The length of a TM-SDU is a number, or is not indicated.
LEMMA Lengths ==
  ASSUME NEW type \in PduTypes, NEW v,
         \A name \in DOMAIN v : v[name] \in Nat /\ name \notin Without(type)
  PROVE  Length(type, v) = {} \/ \E n \in Int : Length(type, v) = {n}
<1>1. CASE "length_indication" \notin DOMAIN v
  BY <1>1 DEF Length
<1>2. CASE "length_indication" \in DOMAIN v
  <2>. DEFINE indication == v.length_indication
  <2>1. indication \in Nat /\ type \notin WithoutLength
    BY <1>2 DEF Without
  <2>. HIDE DEF indication
  <2>2. \A last \in Nat : Units(indication, last) \in Int
    BY <2>1 DEF Units, Y, Z
  <2>3. indication * Z \in Int
    BY <2>1 DEF Z
  <2>4. type \in {"MacAccess", "MacEndHu", "MacData", "MacResource", "MacEndUplink", "MacEndDownlink"}
    BY <2>1 DEF PduTypes, WithoutLength
  <2>5. /\ Length_from_mac_access(indication) \in Int /\ Length_from_mac_end_hu(indication) \in Int
        /\ Length_from_mac_data(indication) \in Int /\ Length_from_mac_end_uplink(indication) \in Int
        /\ Length_from_mac_end_downlink(indication) \in Int
    BY <2>2, <2>3 DEF Length_from_mac_access, Length_from_mac_end_hu, Length_from_mac_data,
                      Length_from_mac_end_uplink, Length_from_mac_end_downlink
  <2>. QED
    BY <1>2, <2>4, <2>5 DEF Length, indication
<1>. QED
  BY <1>1, <1>2

\* What begins with three bits is of one of these types, or refused.
LEMMA TypeOfPdu ==
  ASSUME NEW burst, NEW channel, NEW view \in BitVecs, bits_left(view) >= 3
  PROVE  PduType(burst, channel, view) \in PduTypes \cup {"refused"}
<1>. DEFINE pdu_type == look(2, 0, view)
            subtype == look(1, 2, view)
            bits == view.bits
<1>1. bits \in Seq(Bit) /\ Len(bits) \in Nat /\ Len(bits) >= 3
  BY DEF BitVecs, bits_left
<1>2. pdu_type \in 0 .. 3
  <2>. DEFINE head == SubSeq(bits, 1, 2)
  <2>1. head \in Seq(Bit) /\ Len(head) = 2
    BY <1>1, SubSeqProperties
  <2>2. pdu_type = ToNat(head)
    BY DEF look
  <2>. HIDE DEF head
  <2>3. head[1] \in Bit /\ head[2] \in Bit
    BY <2>1
  <2>. QED
    BY <2>1, <2>2, <2>3, HeaderValue DEF Bit
<1>3. subtype \in {0, 1}
  <2>. DEFINE one == SubSeq(bits, 3, 3)
  <2>1. one \in Seq(Bit) /\ Len(one) = 1
    BY <1>1, SubSeqProperties
  <2>2. subtype = ToNat(one)
    BY DEF look
  <2>. HIDE DEF one
  <2>3. PICK value : /\ ToNat(one) = value[1] /\ value[0] = 0
                     /\ \A i \in 1 .. 1 : value[i] = 2 * value[i - 1] + one[i]
    BY <2>1, ValueOfBits
  <2>4. value[1] = 2 * value[0] + one[1] /\ one[1] \in Bit
    BY <2>1, <2>3
  <2>. QED
    BY <2>2, <2>3, <2>4 DEF Bit
<1>. HIDE DEF pdu_type, subtype
<1>. DEFINE up == is_uplink_burst(burst)
<1>. HIDE DEF up
<1>4. PduType(burst, channel, view) =
    IF channel = "SignallingChannelHalfUplink"
       THEN IF ~up THEN "refused" ELSE IF look(1, 0, view) = 0 THEN "MacAccess" ELSE "MacEndHu"
       ELSE CASE pdu_type = 0 -> IF up THEN "MacData" ELSE "MacResource"
              [] pdu_type = 1 /\ subtype = 0 ->
                   IF channel = "StealingChannel" THEN "refused"
                   ELSE IF up THEN "MacFragmentUplink" ELSE "MacFragmentDownlink"
              [] pdu_type = 1 /\ subtype = 1 -> IF up THEN "MacEndUplink" ELSE "MacEndDownlink"
              [] pdu_type = 2 -> "refused"
              [] pdu_type = 3 ->
                   IF subtype = 1 \/ channel # "SignallingChannelFull" THEN "refused"
                   ELSE IF up THEN "MacUBlck" ELSE "MacDBlck"
  BY DEF PduType, pdu_type, subtype, up
<1>. QED
  BY <1>2, <1>3, <1>4 DEF PduTypes

\* What is left behind a PDU is no longer than what was there before it: the loop
\* over the PDUs of a slot never reads behind its end.
LEMMA PduTaken ==
  ASSUME NEW burst, NEW channel, NEW view \in BitVecs, bits_left(view) >= 3,
         parse_c_plane_signalling_packet(burst, channel, view).ok
  PROVE  parse_c_plane_signalling_packet(burst, channel, view).data \in PartsOf(view)
<1>. DEFINE type == PduType(burst, channel, view)
            header == Read(HeaderOf(type), view)
            v == header.value
            length == Length(type, v)
            taken == bits_left(view) - bits_left(header.data)
            sdu == extract_tm_sdu(header.data, taken, v.fill_bit_indication, length)
            parsed == parse_c_plane_signalling_packet(burst, channel, view)
<1>1. type \in PduTypes \cup {"refused"}
  BY TypeOfPdu
<1>2. type # "refused" /\ parsed.data \in {header.data, remove_fill_bits(header.data), sdu.data}
      /\ (parsed.data = header.data \/ (parsed.data = remove_fill_bits(header.data) /\ CanRemoveFillBits(header.data))
          \/ (parsed.data = sdu.data /\ sdu.ok))
  <2>. HIDE DEF type, header, sdu
  <2>. QED
  BY DEF parse_c_plane_signalling_packet, type, header, sdu
<1>3. header.data \in PartsOf(view) /\ \A name \in DOMAIN v : v[name] \in Nat /\ name \notin Without(type)
  BY <1>1, <1>2, Headers, ReadTakes
<1>4. header.data \in BitVecs /\ taken \in Nat
  <2>. HIDE DEF header
  <2>. QED
  BY <1>3 DEF PartsOf, BitVecs, bits_left
<1>5. length = {} \/ \E n \in Int : length = {n}
  BY <1>1, <1>2, <1>3, Lengths
<1>. HIDE DEF type, header, v, length, taken
<1>6. sdu.ok => sdu.data \in PartsOf(header.data)
  BY <1>4, <1>5, TmSduTaken
<1>7. CanRemoveFillBits(header.data) => remove_fill_bits(header.data) \in PartsOf(header.data)
  BY <1>4, FillBitsRemoved
<1>. HIDE DEF sdu, parsed
<1>8. parsed.data \in PartsOf(view)
  BY <1>2, <1>3, <1>6, <1>7, Parts
<1>. QED
  BY <1>8 DEF parsed

-----------------------------------------------------------------------------
(* The parser stays within the slots of the burst.                         *)

\* A slot that was made of a block holds bits.
LEMMA DataOfSlot ==
  ASSUME NEW burst \in Bursts, NEW place, NEW this, NEW code, InPlace(this, burst, place, code)
  PROVE  this.data \in BitVecs
<1>1. HasBlocks(burst)
  BY BlocksAssumption
<1>2. PICK block \in BlocksOf(burst.burst_type) : this = ChannelData(burst, this.channel, block, code)
  BY DEF InPlace
<1>. DEFINE type == burst.burst_type
            size == Coding(type, block).size
            n == Coding(type, block).data
            channel == this.channel
<1>3. size \in Nat /\ n \in Nat
  BY DEF Coding
<1>4. CASE channel = "TrafficChannel"
  <2>. DEFINE bits == [i \in 1 .. size |-> IF i - 1 \in Misplaced(type, block) THEN 1 ELSE 0]
  <2>1. bits \in [1 .. size -> Bit]
    BY DEF Bit
  <2>2. bits \in Seq(Bit)
    <3>. HIDE DEF bits, size
    <3>. QED BY <1>3, <2>1, WordsOf
  <2>3. this.data = BitVec(bits)
    <3>1. ChannelData(burst, channel, block, code)
            = [channel |-> channel, crc_ok |-> TRUE, data |-> BitVec(bits)]
      BY <1>4 DEF ChannelData
    <3>. HIDE DEF bits
    <3>. QED
      BY <1>2, <3>1
  <2>. HIDE DEF bits
  <2>. QED
    BY <2>2, <2>3 DEF BitVec, BitVecs
<1>5. CASE channel # "TrafficChannel"
  <2>. DEFINE came == burst.blocks[block].bits
              bits == Decoded(burst, block, code)
              info == SubSeq(came, 1, n)
  <2>1. came \in Seq(Bit) /\ Len(came) = n + 16
    <3>1. info \in Seq({0, 1}) /\ Len(info) = n /\ came = WithCrc(info)
      BY <1>1, <1>2 DEF HasBlocks
    <3>. QED
      BY <3>1, CrcOfBlock DEF Bit
  <2>2. bits \in [1 .. n + 16 -> Bit]
    <3>1. DOMAIN came = 1 .. n + 16 /\ \A i \in DOMAIN came : came[i] \in Bit
      BY <2>1
    <3>. HIDE DEF n, came
    <3>2. \E changed : bits = [i \in DOMAIN came |-> IF i \in changed THEN 1 - came[i] ELSE came[i]]
      BY DEF Decoded, came
    <3>. QED
      BY <3>1, <3>2 DEF Bit
  <2>. HIDE DEF bits, n
  <2>3. bits \in Seq(Bit) /\ Len(bits) = n + 16
    BY <1>3, <2>2, WordsOf
  <2>. DEFINE head == SubSeq(bits, 1, n)
  <2>4. head \in Seq(Bit)
    <3>1. n <= Len(bits)
      BY <1>3, <2>3
    <3>. QED
      BY <1>3, <2>3, <3>1, SubSeqProperties
  <2>5. this.data = BitVec(head)
    <3>1. ChannelData(burst, channel, block, code)
            = [channel |-> channel, data |-> BitVec(head),
               crc_ok |-> check_crc_16_ccitt(SubSeq(bits, 1, n + 16))]
      BY <1>5 DEF ChannelData, bits, n
    <3>. HIDE DEF head
    <3>. QED
      BY <1>2, <3>1
  <2>. HIDE DEF head
  <2>. QED
    BY <2>4, <2>5 DEF BitVec, BitVecs
<1>. QED
  BY <1>4, <1>5

\* One at most; the four parts of the invariant: the time, the place of the
\* parser, what is left of its slot, and what it has found so far.
Single(S) == S = {} \/ \E e : S = {e}

TimeInv ==
    /\ uplink \in BOOLEAN /\ since \in 0 .. MaxDownlink
    /\ \A sync \in sync_ : sync.time_slot \in 1 .. 4 /\ sync.frame_number \in 1 .. 18
PlaceInv ==
    /\ pc \in {"idle", "synchronize", "channels", "slot", "pdu", "parsed"}
    /\ pc = "idle" <=> sent = {}
    /\ pc \in {"idle", "synchronize", "channels"} => slots = <<>> /\ slot = 1 /\ failed = {}
    /\ pc \in {"slot", "pdu", "parsed"} => Len(slots) \in {1, 2}
    /\ slot \in 1 .. Len(slots) + 1 /\ failed \subseteq 1 .. Len(slots)
PartInv ==
    pc \in {"pdu", "parsed"} =>
        slot <= Len(slots) /\ slots[slot].data \in BitVecs /\ data \in PartsOf(slots[slot].data)
PacketsInv ==
    /\ Single(packets.traffic) /\ Single(packets.broadcast)
    /\ {"traffic", "broadcast"} \subseteq DOMAIN current /\ current.traffic = {} /\ current.broadcast = {}
TypeInv == TimeInv /\ PlaceInv /\ PartInv /\ PacketsInv

\* Every slot holds bits.
LEMMA DataOfSlots ==
  ASSUME BlocksInv, slots # <<>>
  PROVE  Len(slots) \in {1, 2} /\ \A i \in 1 .. Len(slots) : slots[i].data \in BitVecs
<1>1. PICK burst \in sent, sync \in sync_ :
         slots = Slots(burst.burst_type, processChannels(burst, sync.code, sync.frame_number))
  BY DEF BlocksInv, SlotsOfBurst
<1>2. burst \in Bursts
  BY DEF BlocksInv, OneBurst
<1>3. burst.burst_type \in BurstTypes
  BY <1>2, BlocksAssumption DEF HasBlocks, BurstTypes
<1>4. /\ slots = <<slots[1]>> \/ slots = <<slots[1], slots[2]>>
      /\ InPlace(slots[1], burst, 1, sync.code)
      /\ slots # <<slots[1]>> => InPlace(slots[2], burst, 2, sync.code)
  BY <1>1, <1>3, SlotsInPlace
<1>5. CASE slots = <<slots[1]>>
  <2>1. Len(slots) = 1 /\ \A i \in 1 .. 1 : i = 1
    BY <1>5
  <2>. QED
    BY <1>2, <1>4, <2>1, DataOfSlot
<1>6. CASE slots # <<slots[1]>>
  <2>1. Len(slots) = 2 /\ \A i \in 1 .. 2 : i = 1 \/ i = 2
    BY <1>4, <1>6
  <2>. QED
    BY <1>2, <1>4, <1>6, <2>1, DataOfSlot
<1>. QED
  BY <1>5, <1>6

\* It holds initially ...
LEMMA InitTypeInv == Init => TypeInv
<1>. SUFFICES ASSUME Init PROVE TypeInv
  OBVIOUS
<1>1. TimeInv
  BY MaxDownlinkAssumption DEF Init, TimeInv
<1>2. PlaceInv /\ PartInv
  BY DEF Init, PlaceInv, PartInv
<1>3. PacketsInv
  BY DEF Init, PacketsInv, Nothing, Single
<1>. QED
  BY <1>1, <1>2, <1>3 DEF TypeInv

\* The next slot, after packets of at most one kind of a slot were merged, or none.
LEMMA MergedSlot ==
  ASSUME TypeInv, pc \in {"slot", "pdu", "parsed"}, slot <= Len(slots), UNCHANGED <<lowerMac, sent>>,
         \/ Fail
         \/ \E other : Merge(other) /\ Single(other.traffic) /\ Single(other.broadcast)
  PROVE  TypeInv'
<1>. USE DEF TypeInv
<1>1. NextSlot /\ failed' \subseteq failed \cup {slot}
  BY DEF Fail, Merge
<1>2. UNCHANGED <<sync_, uplink, since, slots, sent>>
  BY DEF lowerMac
<1>3. TimeInv'
  BY <1>2 DEF TimeInv
<1>4. PlaceInv' /\ PartInv'
  <2>1. slot' = slot + 1 /\ pc' = "slot"
    BY <1>1 DEF NextSlot
  <2>2. Len(slots) \in {1, 2} /\ slot \in 1 .. Len(slots) /\ sent # {} /\ failed \subseteq 1 .. Len(slots)
    BY DEF PlaceInv
  <2>3. slot + 1 \in 1 .. Len(slots) + 1 /\ failed' \subseteq 1 .. Len(slots)
    BY <1>1, <2>2
  <2>. QED
    BY <1>2, <2>1, <2>2, <2>3 DEF PlaceInv, PartInv
<1>5. PacketsInv'
  <2>1. current' = Nothing
    BY <1>1 DEF NextSlot
  <2>2. Single(packets'.traffic) /\ Single(packets'.broadcast)
    <3>1. CASE packets' = packets
      BY <3>1 DEF PacketsInv
    <3>2. ASSUME NEW other, CanMerge(packets, other), packets' = Merged(packets, other),
                 Single(other.traffic), Single(other.broadcast)
          PROVE  Single(packets'.traffic) /\ Single(packets'.broadcast)
      <4>1. /\ packets'.traffic = packets.traffic \cup other.traffic
            /\ packets'.broadcast = packets.broadcast \cup other.broadcast
        BY <3>2 DEF Merged
      <4>2. \A S, T : Single(S) /\ Single(T) /\ (S = {} \/ T = {}) => Single(S \cup T)
        BY DEF Single
      <4>. QED
        BY <3>2, <4>1, <4>2 DEF CanMerge, PacketsInv
    <3>. QED
      BY <3>1, <3>2 DEF Fail, Merge
  <2>. QED
    BY <2>1, <2>2 DEF PacketsInv, Nothing
<1>. QED
  BY <1>3, <1>4, <1>5

\* ... and after every step, of the slots of the burst, which FitsInv says more of.
LEMMA NextTypeInv == BlocksInv /\ BlocksInv' /\ FitsInv /\ TypeInv /\ [Next]_vars => TypeInv'
<1>. SUFFICES ASSUME BlocksInv, BlocksInv', FitsInv, TypeInv, [Next]_vars PROVE TypeInv'
  OBVIOUS
<1>. USE DEF TypeInv
<1>1. ASSUME NEW burst \in Bursts, Receive(burst) PROVE TypeInv'
  <2>1. TimeInv'
    <3>1. UNCHANGED uplink
      BY <1>1 DEF Receive
    <3>2. since' \in 0 .. MaxDownlink
      BY <1>1, MaxDownlinkAssumption DEF Receive, TimeInv
    <3>3. \A sync \in sync_' : sync.time_slot \in 1 .. 4 /\ sync.frame_number \in 1 .. 18
      <4>1. CASE sync_' = sync_
        BY <4>1 DEF TimeInv
      <4>2. CASE sync_' = {Increment(sync) : sync \in sync_}
        <5>. SUFFICES ASSUME NEW sync \in sync_
                      PROVE  /\ Increment(sync).time_slot \in 1 .. 4
                             /\ Increment(sync).frame_number \in 1 .. 18
          BY <4>2
        <5>1. sync.time_slot \in 1 .. 4 /\ sync.frame_number \in 1 .. 18
          BY DEF TimeInv
        <5>. QED
          BY <5>1 DEF Increment
      <4>. QED
        BY <1>1, <4>1, <4>2 DEF Receive, Incremented
    <3>. QED
      BY <3>1, <3>2, <3>3 DEF TimeInv
  <2>2. PlaceInv' /\ PartInv'
    BY <1>1 DEF Receive, PlaceInv, PartInv, upperMac
  <2>3. PacketsInv'
    BY <1>1 DEF Receive, PacketsInv, upperMac
  <2>. QED
    BY <2>1, <2>2, <2>3
<1>2. CASE Synchronize
  <2>1. TimeInv'
    <3>1. UNCHANGED <<uplink, since>>
      BY <1>2 DEF Synchronize
    <3>2. PICK burst \in sent :
             sync_' = IF ~SynchronizationBlock(burst).crc_ok THEN {}
                      ELSE {[code |-> scrambling_code(SyncPdu(burst)),
                             time_slot |-> SyncPdu(burst).time_slot + 1,
                             frame_number |-> SyncPdu(burst).frame_number]}
      BY <1>2 DEF Synchronize
    <3>3. burst.burst_type = "SynchronizationBurst" /\ burst \in Bursts
      BY <1>2 DEF Synchronize, FitsInv, BlocksInv, OneBurst
    <3>4. SynchronizationBlock(burst).crc_ok =>
             SyncPdu(burst).time_slot \in 0 .. 3 /\ SyncPdu(burst).frame_number \in 1 .. 18
      BY <3>3, TimeAssumption DEF HasTime
    <3>. QED
      BY <3>1, <3>2, <3>4 DEF TimeInv
  <2>2. PlaceInv' /\ PartInv'
    BY <1>2 DEF Synchronize, PlaceInv, PartInv, upperMac
  <2>3. PacketsInv'
    BY <1>2 DEF Synchronize, PacketsInv, upperMac
  <2>. QED
    BY <2>1, <2>2, <2>3
<1>3. CASE Channels
  <2>1. TimeInv'
    BY <1>3 DEF Channels, TimeInv
  <2>2. Len(slots') \in {1, 2}
    <3>1. PICK burst \in sent, sync \in sync_ :
             slots' = Slots(burst.burst_type, processChannels(burst, sync.code, sync.frame_number))
      BY <1>3 DEF Channels
    <3>2. burst.burst_type \in BurstTypes
      BY BlocksAssumption DEF BlocksInv, OneBurst, HasBlocks, BurstTypes
    <3>3. slots' = <<slots'[1]>> \/ slots' = <<slots'[1], slots'[2]>>
      BY <3>1, <3>2, SlotsInPlace
    <3>. QED
      BY <3>3
  <2>3. PlaceInv' /\ PartInv'
    <3>1. pc = "channels" /\ pc' = "slot" /\ slot = 1 /\ failed = {} /\ UNCHANGED <<slot, failed, sent>>
      BY <1>3 DEF Channels, PlaceInv, upperMac
    <3>. QED
      BY <2>2, <3>1 DEF PlaceInv, PartInv
  <2>4. PacketsInv'
    BY <1>3 DEF Channels, PacketsInv, upperMac
  <2>. QED
    BY <2>1, <2>3, <2>4
<1>4. CASE Idle
  <2>1. TimeInv' /\ PacketsInv'
    BY <1>4 DEF Idle, TimeInv, PacketsInv, Nothing, Single
  <2>2. PlaceInv' /\ PartInv'
    BY <1>4 DEF Idle, PlaceInv, PartInv
  <2>. QED
    BY <2>1, <2>2
<1>5. CASE ParseSlot
  <2>0. /\ pc = "slot" /\ slot <= Len(slots) /\ slot \in 1 .. Len(slots) /\ slots # <<>>
        /\ UNCHANGED <<lowerMac, sent>>
    BY <1>5, EmptySeq DEF ParseSlot, PlaceInv
  <2>. DEFINE parsed == parse_broadcast(slots[slot].data)
              signalling == parse_u_plane_signalling(slots[slot].data)
  <2>1. CASE Merge([Nothing EXCEPT !.traffic = {slots[slot].data.bits}])
    <3>. DEFINE other == [Nothing EXCEPT !.traffic = {slots[slot].data.bits}]
    <3>1. other.traffic = {slots[slot].data.bits} /\ other.broadcast = {}
      BY DEF Nothing
    <3>2. Single(other.traffic) /\ Single(other.broadcast)
      BY <3>1 DEF Single
    <3>. HIDE DEF other
    <3>. QED
      BY <2>0, <2>1, <3>2, MergedSlot DEF other
  <2>2. CASE Merge(Nothing)
    BY <2>0, <2>2, MergedSlot DEF Nothing, Single
  <2>3. CASE Merge([Nothing EXCEPT !.u_plane = <<signalling>>])
    BY <2>0, <2>3, MergedSlot DEF Nothing, Single
  <2>4. CASE Merge([Nothing EXCEPT !.broadcast = {parsed.value}])
    <3>. DEFINE other == [Nothing EXCEPT !.broadcast = {parsed.value}]
    <3>1. other.broadcast = {parsed.value} /\ other.traffic = {}
      BY DEF Nothing
    <3>2. Single(other.traffic) /\ Single(other.broadcast)
      BY <3>1 DEF Single
    <3>. HIDE DEF other
    <3>. QED
      BY <2>0, <2>4, <3>2, MergedSlot DEF other
  <2>5. CASE Fail
    BY <2>0, <2>5, MergedSlot
  <2>6. CASE data' = slots[slot].data /\ pc' = "pdu" /\ UNCHANGED <<slot, current, packets, failed>>
    <3>1. TimeInv' /\ PacketsInv'
      BY <2>0, <2>6 DEF TimeInv, PacketsInv, lowerMac
    <3>2. PlaceInv'
      BY <2>0, <2>6 DEF PlaceInv, lowerMac
    <3>3. slots[slot].data \in BitVecs
      BY <2>0, DataOfSlots
    <3>4. slots[slot].data \in PartsOf(slots[slot].data)
      BY <3>3 DEF PartsOf, BitVecs, bits_left
    <3>5. PartInv'
      BY <2>0, <2>6, <3>3, <3>4 DEF PartInv, lowerMac
    <3>. QED
      BY <3>1, <3>2, <3>5
  <2>. QED
    BY <1>5, <2>1, <2>2, <2>3, <2>4, <2>5, <2>6 DEF ParseSlot
<1>6. CASE ParsePdu
  <2>0. pc = "pdu" /\ slot <= Len(slots) /\ UNCHANGED <<lowerMac, sent>>
    BY <1>6 DEF ParsePdu, PartInv
  <2>1. CASE Fail
    BY <2>0, <2>1, MergedSlot
  <2>2. CASE ~Fail
    <3>1. PICK burst \in sent :
             LET parsed == parse_c_plane_signalling_packet(burst.burst_type, slots[slot].channel, data)
             IN /\ HasNextPdu(burst.burst_type, slots[slot].channel, data)
                /\ parsed.ok
                /\ current' = [current EXCEPT !.c_plane = Append(@, parsed.packet)]
                /\ data' = parsed.data
                /\ pc' \in {"pdu", "parsed"}
                /\ UNCHANGED <<slot, packets, failed>>
      BY <1>6, <2>2 DEF ParsePdu
    <3>. DEFINE type == burst.burst_type
                channel == slots[slot].channel
                whole == slots[slot].data
    <3>2. TimeInv' /\ PacketsInv'
      BY <2>0, <3>1 DEF TimeInv, PacketsInv, lowerMac
    <3>3. PlaceInv'
      BY <2>0, <3>1 DEF PlaceInv, lowerMac
    <3>4. whole \in BitVecs /\ data \in PartsOf(whole)
      BY <2>0 DEF PartInv
    <3>5. data \in BitVecs /\ bits_left(data) \in Nat
      BY <3>4 DEF PartsOf, BitVecs, bits_left
    <3>6. bits_left(data) >= 3
      <4>1. min_bit_count(type, channel) \in {16, 36, 37} /\ bits_left(data) >= min_bit_count(type, channel)
        BY <3>1 DEF HasNextPdu, min_bit_count
      <4>. HIDE DEF type, channel
      <4>. QED
        BY <3>5, <4>1
    <3>7. data' \in PartsOf(data)
      BY <3>1, <3>5, <3>6, PduTaken
    <3>8. data' \in PartsOf(whole)
      BY <3>4, <3>7, Parts
    <3>9. slots' = slots /\ slot' = slot
      BY <2>0, <3>1 DEF lowerMac
    <3>10. PartInv'
      BY <2>0, <3>4, <3>8, <3>9 DEF PartInv
    <3>. QED
      BY <3>2, <3>3, <3>10
  <2>. QED
    BY <2>1, <2>2
<1>7. CASE Parsed
  <2>1. pc \in {"pdu", "parsed"} /\ slot <= Len(slots) /\ UNCHANGED <<lowerMac, sent>> /\ Merge(current)
    BY <1>7 DEF Parsed, PartInv
  <2>2. Single(current.traffic) /\ Single(current.broadcast)
    BY DEF PacketsInv, Single
  <2>. QED
    BY <2>1, <2>2, MergedSlot
<1>8. CASE UNCHANGED vars
  BY <1>8 DEF vars, lowerMac, upperMac, TimeInv, PlaceInv, PartInv, PacketsInv
<1>. QED
  BY <1>1, <1>2, <1>3, <1>4, <1>5, <1>6, <1>7, <1>8 DEF Next, Drop, Finish

\* The parser is always in a slot that the burst has, never has more left of it
\* than came in it, and finds at most one broadcast and one block of traffic
\* (builder lines 109-528), and the time stays in its range.
THEOREM TypeCorrect == Spec => []TypeOK
<1>1. Spec => []BlocksInv
  BY InitBlocksInv, NextBlocksInv, PTL DEF Spec
<1>2. Init => FitsInv
  BY DEF Init, FitsInv
<1>3. Spec => []FitsInv
  BY <1>2, NextFitsInv, PTL DEF Spec
<1>4. Spec => []TypeInv
  BY <1>1, <1>3, InitTypeInv, NextTypeInv, PTL DEF Spec
<1>5. BlocksInv /\ TypeInv => TypeOK
  <2>. SUFFICES ASSUME BlocksInv, TypeInv PROVE TypeOK
    OBVIOUS
  <2>1. \A S : Single(S) => Cardinality(S) <= 1
    <3>1. \A e : Cardinality({e}) = 1
      BY FS_Singleton
    <3>2. Cardinality({}) = 0
      BY FS_EmptySet
    <3>. SUFFICES ASSUME NEW S, Single(S) PROVE Cardinality(S) <= 1
      OBVIOUS
    <3>3. Cardinality(S) = 0 \/ Cardinality(S) = 1
      BY <3>1, <3>2 DEF Single
    <3>. QED
      BY <3>3
  <2>2. Single(sync_)
    BY DEF BlocksInv, OneSync, Single
  <2>3. pc \in {"pdu", "parsed"} => bits_left(data) <= bits_left(slots[slot].data)
    BY DEF TypeInv, PartInv, PartsOf
  <2>. QED
    BY <2>1, <2>2, <2>3 DEF TypeOK, TypeInv, TimeInv, PlaceInv, PacketsInv
<1>. QED
  BY <1>1, <1>4, <1>5, PTL

-----------------------------------------------------------------------------
(* The second half of a stolen slot.                                       *)

\* The first bits of a sequence.
LEMMA Beginning ==
  ASSUME NEW bits \in Seq(Bit), NEW n \in 0 .. Len(bits)
  PROVE  /\ SubSeq(bits, 1, n) \in Seq(Bit) /\ Len(SubSeq(bits, 1, n)) = n
         /\ \A i \in 1 .. n : SubSeq(bits, 1, n)[i] = bits[i]
<1>1. \A i \in 1 .. n : bits[i] \in Bit
  BY ElementOfSeq
<1>. DEFINE part == SubSeq(bits, 1, n)
<1>2. n \in Nat /\ n <= Len(bits) /\ Len(bits) \in Nat /\ bits \in Seq(Bit)
  OBVIOUS
<1>3. Len(part) = n
  BY <1>2
<1>4. \A i \in 1 .. n : part[i] = bits[i]
  BY <1>2
<1>5. part \in Seq(Bit)
  BY <1>1, <1>2
<1>. QED
  BY <1>3, <1>4, <1>5

\* Every element is a bit.
LEMMA EveryBit ==
  ASSUME NEW bits \in Seq(Bit), NEW n, n = Len(bits)
  PROVE  \A i \in 1 .. n : bits[i] \in Bit
BY ElementOfSeq

\* One bit of the data, and two, and six.
LEMMA LookAt ==
  ASSUME NEW bits \in Seq(Bit), NEW at \in Nat
  PROVE  /\ at + 1 <= Len(bits) => look(1, at, BitVec(bits)) = bits[at + 1]
         /\ at + 2 <= Len(bits) => look(2, at, BitVec(bits)) = 2 * bits[at + 1] + bits[at + 2]
         /\ at + 6 <= Len(bits) =>
               look(6, at, BitVec(bits)) = 32 * bits[at + 1] + 16 * bits[at + 2] + 8 * bits[at + 3]
                                           + 4 * bits[at + 4] + 2 * bits[at + 5] + bits[at + 6]
<1>. DEFINE part(n) == SubSeq(bits, at + 1, at + n)
<1>1. \A n : look(n, at, BitVec(bits)) = ToNat(part(n))
  BY DEF look, BitVec
<1>2. \A n \in Nat : at + n <= Len(bits) =>
         part(n) \in Seq(Bit) /\ Len(part(n)) = n /\ \A i \in 1 .. n : part(n)[i] = bits[at + i]
  <2>. SUFFICES ASSUME NEW n \in Nat, at + n <= Len(bits)
                PROVE  part(n) \in Seq(Bit) /\ Len(part(n)) = n /\ \A i \in 1 .. n : part(n)[i] = bits[at + i]
    OBVIOUS
  <2>1. Len(bits) \in Nat /\ \A i \in at + 1 .. at + n : bits[i] \in Bit
    <3>1. Len(bits) \in Nat /\ at + 1 >= 1
      OBVIOUS
    <3>. QED
      BY <3>1
  <2>2. part(n) \in Seq(Bit) /\ Len(part(n)) = IF at + 1 <= at + n THEN (at + n) - (at + 1) + 1 ELSE 0
    BY <2>1, SubSeqProperties
  <2>3. \A i \in 1 .. n : part(n)[i] = bits[(at + 1) + i - 1]
    BY <2>1, SubSeqProperties
  <2>4. \A i \in 1 .. n : (at + 1) + i - 1 = at + i
    OBVIOUS
  <2>. HIDE DEF part
  <2>5. Len(part(n)) = n
    BY <2>2
  <2>. QED
    BY <2>2, <2>3, <2>4, <2>5
<1>. HIDE DEF part
<1>3. ASSUME at + 1 <= Len(bits) PROVE ToNat(part(1)) = bits[at + 1]
  <2>. DEFINE one == part(1)
  <2>1. one \in Seq(Bit) /\ Len(one) = 1 /\ \A i \in 1 .. 1 : one[i] = bits[at + i]
    BY <1>2, <1>3, 1 \in Nat
  <2>. HIDE DEF one
  <2>2. PICK value : /\ ToNat(one) = value[1] /\ value[0] = 0
                     /\ \A i \in 1 .. 1 : value[i] = 2 * value[i - 1] + one[i]
    BY <2>1, ValueOfBits
  <2>3. value[1] = 2 * value[0] + one[1] /\ one[1] = bits[at + 1]
    <3>1. 1 \in 1 .. 1 /\ 1 - 1 = 0
      OBVIOUS
    <3>. QED
      BY <2>1, <2>2, <3>1
  <2>4. one[1] \in Bit
    BY <2>1, 1 \in 1 .. 1, ElementOfSeq
  <2>. QED
    BY <2>2, <2>3, <2>4 DEF Bit, one
<1>4. ASSUME at + 2 <= Len(bits) PROVE ToNat(part(2)) = 2 * bits[at + 1] + bits[at + 2]
  <2>. DEFINE two == part(2)
  <2>1. two \in Seq(Bit) /\ Len(two) = 2 /\ \A i \in 1 .. 2 : two[i] = bits[at + i]
    BY <1>2, <1>4, 2 \in Nat
  <2>. HIDE DEF two
  <2>2. ToNat(two) = 2 * two[1] + two[2]
    BY <2>1, HeaderValue
  <2>3. 1 \in 1 .. 2 /\ 2 \in 1 .. 2
    OBVIOUS
  <2>4. two[1] = bits[at + 1] /\ two[2] = bits[at + 2]
    BY <2>1, <2>3
  <2>. QED
    BY <2>2, <2>4 DEF two
<1>5. ASSUME at + 6 <= Len(bits)
      PROVE  ToNat(part(6)) = 32 * bits[at + 1] + 16 * bits[at + 2] + 8 * bits[at + 3]
                              + 4 * bits[at + 4] + 2 * bits[at + 5] + bits[at + 6]
  <2>. DEFINE six == part(6)
  <2>1. six \in Seq(Bit) /\ Len(six) = 6 /\ \A i \in 1 .. 6 : six[i] = bits[at + i]
    BY <1>2, <1>5, 6 \in Nat
  <2>. HIDE DEF six
  <2>2. ToNat(six) = 32 * six[1] + 16 * six[2] + 8 * six[3] + 4 * six[4] + 2 * six[5] + six[6]
    BY <2>1, FieldValue
  <2>3. \A i \in {1, 2, 3, 4, 5, 6} : i \in 1 .. 6
    OBVIOUS
  <2>4. /\ six[1] = bits[at + 1] /\ six[2] = bits[at + 2] /\ six[3] = bits[at + 3]
        /\ six[4] = bits[at + 4] /\ six[5] = bits[at + 5] /\ six[6] = bits[at + 6]
    BY <2>1, <2>3
  <2>. QED
    BY <2>2, <2>4 DEF six
<1>. QED
  BY <1>1, <1>3, <1>4, <1>5

\* Which bits make which numbers.
LEMMA TwoBits ==
  ASSUME NEW a \in Bit, NEW b \in Bit
  PROVE  /\ 2 * a + b = 0 <=> a = 0 /\ b = 0
         /\ 2 * a + b = 1 <=> a = 0 /\ b = 1
         /\ 2 * a + b = 3 <=> a = 1 /\ b = 1
BY DEF Bit

\* Six bits are 62 or 63 when the first five are ones.
LEMMA SixBits ==
  ASSUME NEW a \in Bit, NEW b \in Bit, NEW c \in Bit, NEW d \in Bit, NEW e \in Bit, NEW f \in Bit
  PROVE  32 * a + 16 * b + 8 * c + 4 * d + 2 * e + f \in {62, 63}
            <=> a = 1 /\ b = 1 /\ c = 1 /\ d = 1 /\ e = 1
BY DEF Bit

\* What the code reads of it.
LEMMA StolenIsRead ==
  ASSUME NEW type \in {"NormalUplinkBurstSplit", "NormalDownlinkBurstSplit"},
         NEW bits \in Seq(Bit), Len(bits) = 124
  PROVE  SecondHalfSlotStolen(type, BitVec(bits)) <=> SaysStolen(is_uplink_burst(type), bits)
<1>. DEFINE up == is_uplink_burst(type)
            view == BitVec(bits)
            address == IF bits[5] = 0 /\ bits[6] = 1 THEN 10 ELSE 24
            offset == IF up THEN 6 + (IF look(2, 4, view) = 1 THEN 10 ELSE 24) ELSE 6
            AllOnes(first, last) == \A i \in first .. last : bits[i] = 1
<1>0. up \in BOOLEAN
  BY DEF is_uplink_burst
<1>1. \A i \in 1 .. 124 : bits[i] \in Bit
  <2>1. 124 = Len(bits)
    OBVIOUS
  <2>. QED
    BY <2>1, EveryBit, Zenon
<1>13. bits[1] \in Bit /\ bits[2] \in Bit /\ bits[3] \in Bit /\ bits[5] \in Bit /\ bits[6] \in Bit
  BY <1>1
<1>2. look(2, 0, view) = 2 * bits[1] + bits[2] /\ look(1, 2, view) = bits[3]
      /\ look(2, 4, view) = 2 * bits[5] + bits[6]
  <2>1. 0 + 2 <= 124 /\ 2 + 1 <= 124 /\ 4 + 2 <= 124 /\ 0 \in Nat /\ 2 \in Nat /\ 4 \in Nat
        /\ 0 + 1 = 1 /\ 0 + 2 = 2 /\ 2 + 1 = 3 /\ 4 + 1 = 5 /\ 4 + 2 = 6
    OBVIOUS
  <2>2. /\ look(2, 0, view) = 2 * bits[0 + 1] + bits[0 + 2] /\ look(1, 2, view) = bits[2 + 1]
        /\ look(2, 4, view) = 2 * bits[4 + 1] + bits[4 + 2]
    BY <2>1, LookAt
  <2>. QED
    BY <2>1, <2>2
<1>3. offset = IF up THEN address + 6 ELSE 6
  <2>1. look(2, 4, view) = 1 <=> bits[5] = 0 /\ bits[6] = 1
    BY <1>13, <1>2, TwoBits
  <2>. QED
    BY <2>1
<1>4. offset \in {6, 16, 30} /\ address \in {10, 24}
  BY <1>3
<1>5. look(1, offset, view) = bits[offset + 1]
      /\ look(6, offset + 1, view) = 32 * bits[offset + 2] + 16 * bits[offset + 3] + 8 * bits[offset + 4]
                                     + 4 * bits[offset + 5] + 2 * bits[offset + 6] + bits[offset + 7]
  <2>. HIDE DEF offset, view
  <2>1. offset \in Nat /\ offset + 1 \in Nat /\ offset + 1 <= 124 /\ (offset + 1) + 6 <= 124
        /\ (offset + 1) + 1 = offset + 2 /\ (offset + 1) + 2 = offset + 3 /\ (offset + 1) + 3 = offset + 4
        /\ (offset + 1) + 4 = offset + 5 /\ (offset + 1) + 5 = offset + 6 /\ (offset + 1) + 6 = offset + 7
    BY <1>4
  <2>. DEFINE next == offset + 1
  <2>2. look(1, offset, view) = bits[offset + 1]
    BY <2>1, LookAt DEF view
  <2>3. next \in Nat /\ next + 6 <= 124
    BY <2>1
  <2>. HIDE DEF next
  <2>4. look(6, next, view) = 32 * bits[next + 1] + 16 * bits[next + 2] + 8 * bits[next + 3]
                              + 4 * bits[next + 4] + 2 * bits[next + 5] + bits[next + 6]
    BY <2>3, LookAt DEF view
  <2>. QED
    BY <2>1, <2>2, <2>4 DEF next
<1>. HIDE DEF offset, view, address
<1>6. look(6, offset + 1, view) \in {62, 63} <=> AllOnes(offset + 2, offset + 6)
  <2>1. /\ offset + 2 \in 1 .. 124 /\ offset + 3 \in 1 .. 124 /\ offset + 4 \in 1 .. 124
        /\ offset + 5 \in 1 .. 124 /\ offset + 6 \in 1 .. 124 /\ offset + 7 \in 1 .. 124
    BY <1>4
  <2>2. /\ bits[offset + 2] \in Bit /\ bits[offset + 3] \in Bit /\ bits[offset + 4] \in Bit
        /\ bits[offset + 5] \in Bit /\ bits[offset + 6] \in Bit /\ bits[offset + 7] \in Bit
    BY <1>1, <2>1
  <2>3. look(6, offset + 1, view) \in {62, 63} <=>
           /\ bits[offset + 2] = 1 /\ bits[offset + 3] = 1 /\ bits[offset + 4] = 1
           /\ bits[offset + 5] = 1 /\ bits[offset + 6] = 1
    <3>. DEFINE a == bits[offset + 2]
                b == bits[offset + 3]
                c == bits[offset + 4]
                d == bits[offset + 5]
                e == bits[offset + 6]
                f == bits[offset + 7]
    <3>1. a \in Bit /\ b \in Bit /\ c \in Bit /\ d \in Bit /\ e \in Bit /\ f \in Bit
      BY <2>2
    <3>2. look(6, offset + 1, view) = 32 * a + 16 * b + 8 * c + 4 * d + 2 * e + f
      BY <1>5
    <3>. HIDE DEF a, b, c, d, e, f
    <3>3. look(6, offset + 1, view) \in {62, 63} <=> a = 1 /\ b = 1 /\ c = 1 /\ d = 1 /\ e = 1
      BY <3>1, <3>2, SixBits
    <3>. QED
      BY <3>3 DEF a, b, c, d, e
  <2>4. offset + 2 .. offset + 6 = {offset + 2, offset + 3, offset + 4, offset + 5, offset + 6}
    BY <1>4
  <2>. QED
    BY <2>3, <2>4
<1>7. AllOnes(1, 3) <=> look(2, 0, view) = 3 /\ look(1, 2, view) = 1
  <2>1. AllOnes(1, 3) <=> bits[1] = 1 /\ bits[2] = 1 /\ bits[3] = 1
    <3>1. 1 .. 3 = {1, 2, 3}
      OBVIOUS
    <3>. QED
      BY <3>1
  <2>. QED
    BY <1>13, <1>2, <2>1, TwoBits
<1>8. look(2, 0, view) = 0 <=> bits[1] = 0 /\ bits[2] = 0
  BY <1>13, <1>2, TwoBits
<1>9. SecondHalfSlotStolen(type, view) <=>
        \/ AllOnes(1, 3)
        \/ bits[1] = 0 /\ bits[2] = 0 /\ (up => bits[offset + 1] = 0) /\ AllOnes(offset + 2, offset + 6)
  <2>1. SecondHalfSlotStolen(type, view) <=>
        \/ look(2, 0, view) = 3 /\ look(1, 2, view) = 1
        \/ /\ look(2, 0, view) = 0
           /\ up => look(1, offset, view) = 0
           /\ look(6, offset + 1, view) \in {62, 63}
    BY DEF SecondHalfSlotStolen, offset
  <2>. HIDE DEF up, AllOnes
  <2>. QED
    BY <2>1, <1>5, <1>6, <1>7, <1>8
<1>10. up => /\ offset + 1 = address + 7 /\ offset + 2 = address + 8 /\ offset + 6 = address + 12
  BY <1>3, <1>4
<1>11. ~up => offset + 2 = 8 /\ offset + 6 = 12
  BY <1>3
<1>12. SaysStolen(up, bits) <=>
        \/ AllOnes(1, 3)
        \/ bits[1] = 0 /\ bits[2] = 0 /\ ~up /\ AllOnes(8, 12)
        \/ bits[1] = 0 /\ bits[2] = 0 /\ up /\ bits[address + 7] = 0 /\ AllOnes(address + 8, address + 12)
  BY DEF SaysStolen, address
<1>. HIDE DEF AllOnes, up
<1>14. SecondHalfSlotStolen(type, view) <=> SaysStolen(up, bits)
  <2>1. CASE up
    BY <1>9, <1>10, <1>12, <2>1
  <2>2. CASE ~up
    BY <1>9, <1>11, <1>12, <2>2
  <2>. QED
    BY <2>1, <2>2
<1>. QED
  BY <1>14 DEF view, up

\* The slots of a burst whose first half is stolen.
LEMMA StolenSlots ==
  ASSUME NEW burst, burst.burst_type \in BurstTypes, NEW code, NEW frame_number,
         NEW made, made = Slots(burst.burst_type, processChannels(burst, code, frame_number)),
         Len(made) = 2, made[1].channel = "StealingChannel"
  PROVE  /\ burst.burst_type \in {"NormalUplinkBurstSplit", "NormalDownlinkBurstSplit"}
         /\ made[1] = ChannelData(burst, "StealingChannel", "bkn1", code)
         /\ made[2].channel = "StealingChannel" <=> SecondHalfSlotStolen(burst.burst_type, made[1].data)
<1>. DEFINE type == burst.burst_type
            traffic == DownlinkUsage(AccessAssignment(burst, code), frame_number) = "Traffic"
            Data(block, channel) == ChannelData(burst, channel, block, code)
            On(block, channels) == {Data(block, channel) : channel \in channels}
            may == processChannels(burst, code, frame_number)
            first == Data("bkn1", "StealingChannel")
            half == "SignallingChannelHalfDownlink"
<1>1. \A block, channel : Data(block, channel).channel = channel
  BY ChannelOfData
<1>. HIDE DEF traffic
<1>2. \/ Len(may) = 1
      \/ /\ type \in {"NormalUplinkBurstSplit", "NormalDownlinkBurstSplit"}
         /\ may = << On("bkn1", {"StealingChannel"}), On("bkn2", {"StealingChannel", "TrafficChannel"}) >>
      \/ /\ type = "NormalDownlinkBurstSplit"
         /\ may = << On("bkn1", {half}), On("bkn2", {half}) >>
  <2>. HIDE DEF Data
  <2>. QED
    BY DEF BurstTypes, UplinkBursts, DownlinkBursts, processChannels, traffic, Data
<1>3. Len(may) # 1
  <2>. HIDE DEF may
  <2>1. ASSUME Len(may) = 1 PROVE FALSE
    <3>1. \E concrete : made = <<concrete>>
      BY <2>1 DEF Slots, may
    <3>2. Len(made) = 1
      BY <3>1
    <3>. QED
      BY <3>2
  <2>. QED
    BY <2>1
<1>4. CASE may = << On("bkn1", {half}), On("bkn2", {half}) >> /\ type = "NormalDownlinkBurstSplit"
  <2>1. Len(may) = 2 /\ may[1] = {Data("bkn1", half)}
    BY <1>4
  <2>. HIDE DEF Data, may
  <2>2. (CHOOSE view \in may[1] : TRUE) = Data("bkn1", half)
    BY <2>1
  <2>3. made[1] = Data("bkn1", half)
    BY <1>4, <2>1, <2>2 DEF Slots, may
  <2>. QED
    BY <1>1, <2>3
<1>5. CASE /\ type \in {"NormalUplinkBurstSplit", "NormalDownlinkBurstSplit"}
           /\ may = << On("bkn1", {"StealingChannel"}), On("bkn2", {"StealingChannel", "TrafficChannel"}) >>
  <2>. DEFINE channel == IF SecondHalfSlotStolen(type, first.data) THEN "StealingChannel" ELSE "TrafficChannel"
  <2>1. Len(may) = 2 /\ may[1] = {first}
        /\ may[2] = {Data("bkn2", "StealingChannel"), Data("bkn2", "TrafficChannel")}
    BY <1>5
  <2>2. first.channel = "StealingChannel"
    BY <1>1
  <2>3. select_logical_channel(may[2], channel) = {Data("bkn2", channel)}
    <3>. HIDE DEF Data, may, first
    <3>. QED
      BY <1>1, <2>1 DEF select_logical_channel
  <2>. HIDE DEF may, first
  <2>4. (CHOOSE view \in may[1] : TRUE) = first
    BY <2>1
  <2>. HIDE DEF Data
  <2>5. (CHOOSE one \in select_logical_channel(may[2], channel) : TRUE) = Data("bkn2", channel)
    BY <2>3
  <2>6. made = << first, CHOOSE one \in select_logical_channel(may[2], channel) : TRUE >>
    BY <1>5, <2>1, <2>2, <2>4 DEF Slots, may
  <2>7. made[1] = first /\ made[2] = Data("bkn2", channel)
    BY <2>5, <2>6
  <2>8. made[2].channel = channel
    BY <1>1, <2>7
  <2>9. made[1] = ChannelData(burst, "StealingChannel", "bkn1", code)
    BY <2>7 DEF first, Data
  <2>10. made[2].channel = "StealingChannel" <=> SecondHalfSlotStolen(type, made[1].data)
    BY <2>7, <2>8
  <2>. QED
    BY <1>5, <2>9, <2>10
<1>. QED
  BY <1>2, <1>3, <1>4, <1>5

\* Whether the second half of a stolen slot is signalling or traffic is what the
\* first half says of it, in the uplink and the downlink, for every burst.
THEOREM StolenAgreesCorrect == Spec => []StolenAgrees
<1>1. Spec => []BlocksInv
  BY InitBlocksInv, NextBlocksInv, PTL DEF Spec
<1>2. BlocksInv /\ UsageIsDecoded => StolenAgrees
  <2>. SUFFICES ASSUME BlocksInv, UsageIsDecoded, NEW burst \in sent,
                       Len(slots) = 2, slots[1].channel = "StealingChannel",
                       AsSent(burst), Undamaged(burst, {"bkn1"})
                PROVE  (slots[2].channel = "StealingChannel") = burst.second_half_stolen
    BY DEF StolenAgrees
  <2>. DEFINE type == burst.burst_type
              came == burst.blocks.bkn1.bits
              head == SubSeq(came, 1, 124)
  <2>1. burst \in Bursts
    BY DEF BlocksInv, OneBurst
  <2>2. HasBlocks(burst) /\ type \in BurstTypes
    BY <2>1, BlocksAssumption DEF HasBlocks, BurstTypes
  <2>3. PICK sync \in sync_ :
           slots = Slots(type, processChannels(burst, sync.code, sync.frame_number))
    <3>1. slots # <<>>
      BY EmptySeq
    <3>. QED
      BY <3>1 DEF BlocksInv, SlotsOfBurst, OneBurst
  <2>4. sync.code = burst.cell
    BY DEF AsSent, OfThisCell, BlocksInv, OneSync
  <2>5. /\ type \in {"NormalUplinkBurstSplit", "NormalDownlinkBurstSplit"}
        /\ slots[1] = ChannelData(burst, "StealingChannel", "bkn1", burst.cell)
        /\ slots[2].channel = "StealingChannel" <=> SecondHalfSlotStolen(type, slots[1].data)
    BY <2>2, <2>3, <2>4, StolenSlots
  <2>6. "bkn1" \in BlocksOf(type) /\ Coding(type, "bkn1").data = 124
    BY <2>5 DEF BlocksOf, Coding
  <2>7. came \in Seq(Bit) /\ Len(came) = 140 /\ Decoded(burst, "bkn1", burst.cell) = came
    <3>1. burst.blocks["bkn1"].changed = {} /\ burst.cell = ScrambledWith(burst, "bkn1")
      BY DEF Undamaged, ScrambledWith
    <3>2. /\ Decoded(burst, "bkn1", burst.cell) = burst.blocks["bkn1"].bits
          /\ burst.blocks["bkn1"].bits \in Seq({0, 1})
          /\ Len(burst.blocks["bkn1"].bits) = Coding(type, "bkn1").data + 16
      BY <2>2, <2>6, <3>1, UndamagedBits
    <3>. HIDE DEF type
    <3>3. 124 + 16 = 140
      OBVIOUS
    <3>. QED
      BY <2>6, <3>2, <3>3, Zenon DEF Bit
  <2>8. slots[1].data = BitVec(head)
    <3>1. SubSeq(Decoded(burst, "bkn1", burst.cell), 1, 124) = head
      BY <2>7
    <3>. HIDE DEF head
    <3>2. slots[1] = [channel |-> "StealingChannel", data |-> BitVec(head),
                      crc_ok |-> check_crc_16_ccitt(SubSeq(Decoded(burst, "bkn1", burst.cell), 1, 124 + 16))]
      BY <2>5, <2>6, <3>1 DEF ChannelData
    <3>. QED
      BY <3>2
  <2>9. head \in Seq(Bit) /\ Len(head) = 124 /\ \A i \in 1 .. 124 : head[i] = came[i]
    <3>. HIDE DEF came
    <3>1. came \in Seq(Bit) /\ 124 \in 0 .. Len(came)
      BY <2>7
    <3>. QED
      BY <3>1, Beginning
  <2>10. SaysStolen(is_uplink_burst(type), head) <=> SaysStolen(is_uplink_burst(type), came)
    <3>. HIDE DEF head, came
    <3>1. \A i \in 1 .. 124 : head[i] = came[i]
      BY <2>9
    <3>2. /\ head[5] = came[5] /\ head[6] = came[6] /\ head[1] = came[1] /\ head[2] = came[2]
      BY <3>1
    <3>3. \A first \in 1 .. 124 : \A last \in 1 .. 124 : \A i \in first .. last : head[i] = came[i]
      BY <3>1
    <3>. DEFINE OnesIn(bits, first, last) == \A i \in first .. last : bits[i] = 1
                address == IF head[5] = 0 /\ head[6] = 1 THEN 10 ELSE 24
    <3>4. \A first \in 1 .. 124 : \A last \in 1 .. 124 :
             OnesIn(head, first, last) <=> OnesIn(came, first, last)
      BY <3>3
    <3>5. \A bits : \A up : SaysStolen(up, bits) <=>
            LET place == IF bits[5] = 0 /\ bits[6] = 1 THEN 10 ELSE 24 IN
            \/ OnesIn(bits, 1, 3)
            \/ bits[1] = 0 /\ bits[2] = 0 /\ ~up /\ OnesIn(bits, 8, 12)
            \/ bits[1] = 0 /\ bits[2] = 0 /\ up /\ bits[place + 7] = 0
               /\ OnesIn(bits, place + 8, place + 12)
      BY DEF SaysStolen
    <3>. HIDE DEF OnesIn
    <3>6. address + 7 \in 1 .. 124 /\ address + 8 \in 1 .. 124 /\ address + 12 \in 1 .. 124
          /\ 1 \in 1 .. 124 /\ 3 \in 1 .. 124 /\ 8 \in 1 .. 124 /\ 12 \in 1 .. 124
      OBVIOUS
    <3>7. address = IF came[5] = 0 /\ came[6] = 1 THEN 10 ELSE 24
      BY <3>2
    <3>8. head[address + 7] = came[address + 7]
      BY <3>1, <3>6
    <3>. HIDE DEF address
    <3>9. /\ OnesIn(head, 1, 3) <=> OnesIn(came, 1, 3)
          /\ OnesIn(head, 8, 12) <=> OnesIn(came, 8, 12)
          /\ OnesIn(head, address + 8, address + 12) <=> OnesIn(came, address + 8, address + 12)
      BY <3>4, <3>6
    <3>. QED
      BY <3>2, <3>5, <3>7, <3>8, <3>9 DEF address
  <2>11. burst.second_half_stolen = SaysStolen(is_uplink_burst(type), came)
    <3>1. burst.carries_traffic # {FALSE}
      <4>1. ASSUME burst.carries_traffic = {FALSE} PROVE FALSE
        <5>. DEFINE tells == slots[1].channel \in {"TrafficChannel", "StealingChannel"}
        <5>1. Len(slots) > 0
          OBVIOUS
        <5>2. burst.carries_traffic # {}
          BY <4>1
        <5>3. {FALSE} = {tells}
          BY <4>1, <5>1, <5>2, Zenon DEF UsageIsDecoded, TakenAsSent, AsSent
        <5>4. tells
          OBVIOUS
        <5>. HIDE DEF tells
        <5>. QED
          BY <5>3, <5>4, Zenon
      <4>. QED
        BY <4>1
    <3>. QED
      BY <2>1, <2>5, <3>1, StolenAssumption DEF HasStolen
  <2>. HIDE DEF head
  <2>12. SecondHalfSlotStolen(type, slots[1].data) <=> SaysStolen(is_uplink_burst(type), came)
    BY <2>5, <2>8, <2>9, <2>10, StolenIsRead
  <2>13. SaysStolen(is_uplink_burst(type), came) \in BOOLEAN
    BY DEF SaysStolen
  <2>. QED
    BY <2>5, <2>11, <2>12, <2>13
<1>. QED
  BY <1>1, <1>2, UsageIsDecodedCorrect, PTL

-----------------------------------------------------------------------------
(* Layouts that were written are read as they were.                        *)

\* A set with 0 that has with every number up to n the next one.
LEMMA Induction ==
  ASSUME NEW n \in Nat, NEW S, 0 \in S, \A i \in 1 .. n : i - 1 \in S => i \in S
  PROVE  \A i \in 0 .. n : i \in S
<1>. DEFINE Outside == {i \in 0 .. n : i \notin S}
<1>1. SUFFICES ASSUME Outside # {} PROVE FALSE
  OBVIOUS
<1>2. PICK m \in Outside : \A k \in Outside : m <= k
  <2>1. Outside \subseteq Nat
    OBVIOUS
  <2>. HIDE DEF Outside
  <2>. QED
    BY <2>1, <1>1, LeastNumber
<1>3. m \in 1 .. n /\ m - 1 \in 0 .. n /\ ~(m <= m - 1)
  BY <1>2
<1>4. m - 1 \notin Outside
  BY <1>2, <1>3
<1>. QED
  BY <1>2, <1>3, <1>4

\* Two parts of a sequence.
LEMMA PartOf ==
  ASSUME NEW bits \in Seq(Bit), NEW from \in Nat, NEW n \in Nat, from + n <= Len(bits)
  PROVE  /\ SubSeq(bits, from + 1, from + n) \in Seq(Bit) /\ Len(SubSeq(bits, from + 1, from + n)) = n
         /\ \A i \in 1 .. n : SubSeq(bits, from + 1, from + n)[i] = bits[from + i]
<1>. DEFINE part == SubSeq(bits, from + 1, from + n)
<1>1. Len(bits) \in Nat /\ \A i \in from + 1 .. from + n : bits[i] \in Bit
  <2>1. Len(bits) \in Nat /\ from + 1 >= 1
    OBVIOUS
  <2>. QED
    BY <2>1
<1>2. part \in Seq(Bit) /\ Len(part) = IF from + 1 <= from + n THEN (from + n) - (from + 1) + 1 ELSE 0
  BY <1>1, SubSeqProperties
<1>3. \A i \in 1 .. n : part[i] = bits[(from + 1) + i - 1]
  BY <1>1, SubSeqProperties
<1>4. \A i \in 1 .. n : (from + 1) + i - 1 = from + i
  OBVIOUS
<1>. HIDE DEF part
<1>5. Len(part) = n
  BY <1>2
<1>. QED
  BY <1>2, <1>3, <1>4, <1>5 DEF part

\* What is read so far, and one more field of it.
NamesOf(layout) == {layout[i].name : i \in 1 .. Len(layout)}
Reads(layout, view) == [ok : BOOLEAN, value : Values(NamesOf(layout)), data : PartsOf(view)]
ReadFirst(view) == [ok |-> TRUE, value |-> NoFields, data |-> view]
ReadStep(field, before) ==
    IF ~before.ok \/ ~IsPresent(field, before.value) THEN before
    ELSE IF bits_left(before.data) < field.width THEN [before EXCEPT !.ok = FALSE]
    ELSE [ok |-> TRUE,
          value |-> WithField(before.value, field.name, look(field.width, 0, before.data)),
          data |-> Taken(field.width, before.data)]

\* A step reads a field of the layout, or nothing.
LEMMA ReadStepType ==
  ASSUME NEW layout, NEW without, IsLayout(layout, without), NEW view \in BitVecs,
         NEW i \in 1 .. Len(layout), NEW before \in Reads(layout, view)
  PROVE  ReadStep(layout[i], before) \in Reads(layout, view)
<1>. DEFINE width == layout[i].width
            name == layout[i].name
            names == NamesOf(layout)
            parts == PartsOf(view)
<1>1. width \in Nat /\ name \in names
  BY DEF IsLayout, IsField, NamesOf
<1>2. before.ok \in BOOLEAN /\ before.value \in Values(names) /\ before.data \in parts
  BY DEF Reads
<1>3. [before EXCEPT !.ok = FALSE] \in Reads(layout, view)
  BY DEF Reads
<1>4. ASSUME ~(bits_left(before.data) < width)
      PROVE  /\ WithField(before.value, name, look(width, 0, before.data)) \in Values(names)
             /\ Taken(width, before.data) \in parts
  <2>1. before.data \in BitVecs /\ bits_left(before.data) <= bits_left(view)
    BY <1>2 DEF PartsOf
  <2>2. bits_left(before.data) \in Nat /\ bits_left(view) \in Nat
    BY <2>1 DEF bits_left, BitVecs
  <2>. HIDE DEF width, name, names, parts
  <2>3. width <= bits_left(before.data)
    BY <1>1, <1>4, <2>2
  <2>4. /\ Taken(width, before.data) \in BitVecs
        /\ bits_left(Taken(width, before.data)) = bits_left(before.data) - width
        /\ look(width, 0, before.data) \in Nat
    BY <1>1, <2>1, <2>3, PartTaken
  <2>5. Taken(width, before.data) \in parts
    BY <1>1, <2>1, <2>2, <2>4 DEF PartsOf, parts
  <2>. QED
    BY <1>1, <1>2, <2>4, <2>5, FieldAdded
<1>. HIDE DEF names, parts
<1>5. ASSUME ~(bits_left(before.data) < width)
      PROVE  [ok |-> TRUE, value |-> WithField(before.value, name, look(width, 0, before.data)),
              data |-> Taken(width, before.data)] \in Reads(layout, view)
  BY <1>4, <1>5 DEF Reads, names, parts
<1>. QED
  BY <1>3, <1>5 DEF ReadStep

\* Read goes through its layout by such steps.
IsReading(after, layout, view) ==
    /\ after \in [0 .. Len(layout) -> Reads(layout, view)]
    /\ after[0] = ReadFirst(view)
    /\ \A i \in 1 .. Len(layout) : after[i] = ReadStep(layout[i], after[i - 1])

\* Such a function is there, and what Read gives is its last value.
LEMMA FieldByField ==
  ASSUME NEW layout, NEW without, IsLayout(layout, without), NEW view \in BitVecs
  PROVE  \E after : IsReading(after, layout, view) /\ Read(layout, view) = after[Len(layout)]
<1>. DEFINE n == Len(layout)
            V == Reads(layout, view)
            first == ReadFirst(view)
            Step(i, before) == ReadStep(layout[i], before)
            Follows(g) == g = [i \in 0 .. n |-> IF i = 0 THEN first ELSE Step(i, g[i - 1])]
            after == CHOOSE g : Follows(g)
<1>1. n \in Nat
  BY DEF IsLayout
<1>2. Read(layout, view) = after[n]
  BY DEF Read, ReadStep, ReadFirst
<1>3. first \in V
  <2>1. NoFields \in [{} -> Nat]
    BY DEF NoFields
  <2>2. NoFields \in Values(NamesOf(layout))
    BY <2>1 DEF Values
  <2>3. view \in PartsOf(view)
    BY DEF PartsOf, bits_left, BitVecs
  <2>. QED
    BY <2>2, <2>3 DEF Reads, ReadFirst
<1>4. \A i \in 1 .. n : \A before \in V : Step(i, before) \in V
  BY ReadStepType
<1>. HIDE DEF n, V, first, Step
<1>5. \E f \in [0 .. n -> V] : Follows(f)
  <2>. DEFINE step == [p \in (1 .. n) \X V |-> Step(p[1], p[2])]
  <2>1. step \in [(1 .. n) \X V -> V]
    BY <1>4
  <2>2. \A i \in 1 .. n : \A v \in V : step[<<i, v>>] = Step(i, v)
    OBVIOUS
  <2>. HIDE DEF step
  <2>3. RecursiveExists(V, first, step, n)
    BY <1>1, <1>3, <2>1, Recursion DEF StepsIn
  <2>4. PICK f \in [0 .. n -> V] : f[0] = first /\ \A i \in 1 .. n : f[i] = step[<<i, f[i - 1]>>]
    BY <2>3 DEF Recursive, RecursiveExists
  <2>5. \A i \in 0 .. n : f[i] = IF i = 0 THEN first ELSE Step(i, f[i - 1])
    <3>1. \A i \in 0 .. n : i # 0 => i \in 1 .. n /\ i - 1 \in 0 .. n
      BY <1>1
    <3>2. \A i \in 0 .. n : f[i] \in V
      OBVIOUS
    <3>. QED
      BY <2>2, <2>4, <3>1, <3>2
  <2>6. f = [i \in 0 .. n |-> f[i]]
    BY <2>4
  <2>. QED
    BY <2>5, <2>6
<1>6. Follows(after)
  BY <1>5
<1>. HIDE DEF after
<1>7. after[0] = first /\ \A i \in 1 .. n : after[i] = Step(i, after[i - 1])
  <2>1. 0 \in 0 .. n /\ \A i \in 1 .. n : i \in 0 .. n /\ i # 0
    BY <1>1
  <2>. QED
    BY <1>6, <2>1
<1>8. after \in [0 .. n -> V]
  <2>. DEFINE S == {i \in 0 .. n : after[i] \in V}
  <2>1. 0 \in S /\ \A i \in 1 .. n : i - 1 \in S => i \in S
    BY <1>1, <1>3, <1>4, <1>7
  <2>. HIDE DEF S
  <2>2. \A i \in 0 .. n : i \in S
    BY <1>1, <2>1, Induction
  <2>. QED
    BY <1>6, <2>2 DEF S
<1>9. IsReading(after, layout, view)
  BY <1>7, <1>8 DEF IsReading, n, V, first, Step
<1>. QED
  BY <1>2, <1>9 DEF n

\* A part of a part.
LEMMA PartOfPart ==
  ASSUME NEW bits \in Seq(Bit), NEW from \in Nat, NEW n \in Nat, from + n <= Len(bits),
         NEW at \in Nat, NEW m \in Nat, at + m <= n
  PROVE  SubSeq(SubSeq(bits, from + 1, from + n), at + 1, at + m)
            = SubSeq(bits, (from + at) + 1, (from + at) + m)
<1>. DEFINE part == SubSeq(bits, from + 1, from + n)
            one == SubSeq(part, at + 1, at + m)
            two == SubSeq(bits, (from + at) + 1, (from + at) + m)
<1>1. part \in Seq(Bit) /\ Len(part) = n /\ \A i \in 1 .. n : part[i] = bits[from + i]
  BY PartOf
<1>2. two \in Seq(Bit) /\ Len(two) = m /\ \A i \in 1 .. m : two[i] = bits[(from + at) + i]
  <2>1. \A len \in Nat : from + n <= len => from + at \in Nat /\ (from + at) + m <= len
    OBVIOUS
  <2>2. from + at \in Nat /\ (from + at) + m <= Len(bits)
    BY <2>1, LenProperties
  <2>. QED
    BY <2>2, PartOf
<1>. HIDE DEF part
<1>3. one \in Seq(Bit) /\ Len(one) = m /\ \A i \in 1 .. m : one[i] = part[at + i]
  <2>1. at + m <= Len(part)
    BY <1>1
  <2>. QED
    BY <1>1, <2>1, PartOf
<1>. HIDE DEF one, two
<1>4. \A i \in 1 .. m : at + i \in 1 .. n /\ from + (at + i) = (from + at) + i
  OBVIOUS
<1>5. \A i \in 1 .. m : one[i] = two[i]
  BY <1>1, <1>2, <1>3, <1>4
<1>6. one = two
  BY <1>2, <1>3, <1>5, SeqEqual
<1>. QED
  BY <1>6 DEF one, two, part

\* A view of bits, of which the fill bits may have been removed.
View(bits, flag) == [bits |-> bits, fill_bits_removed_ |-> flag]

\* What is taken from a view, in terms of its bits.
LEMMA BitsTaken ==
  ASSUME NEW bits, NEW flag, NEW a
  PROVE  Taken(a, View(bits, flag)) = View(SubSeq(bits, a + 1, Len(bits)), flag)
<1>1. \A part : [View(bits, flag) EXCEPT !.bits = part] = View(part, flag)
  <2>1. \A part : [[bits |-> bits, fill_bits_removed_ |-> flag] EXCEPT !.bits = part]
                      = [bits |-> part, fill_bits_removed_ |-> flag]
    OBVIOUS
  <2>. QED
    BY <2>1 DEF View
<1>2. View(bits, flag).bits = bits
  BY DEF View
<1>3. Taken(a, View(bits, flag)) = [View(bits, flag) EXCEPT !.bits = SubSeq(View(bits, flag).bits, a + 1, Len(View(bits, flag).bits))]
  BY DEF Taken
<1>. QED
  BY <1>1, <1>2, <1>3

\* Taking twice.
LEMMA TakenTwice ==
  ASSUME NEW bits \in Seq(Bit), NEW flag, NEW a \in Nat, NEW b \in Nat, a + b <= Len(bits)
  PROVE  /\ bits_left(Taken(a, View(bits, flag))) = Len(bits) - a
         /\ Taken(b, Taken(a, View(bits, flag))) = Taken(a + b, View(bits, flag))
<1>. DEFINE n == Len(bits) - a
            m == n - b
            part == SubSeq(bits, a + 1, a + n)
<1>1. \A len \in Nat : a + b <= len =>
         /\ len - a \in Nat /\ len - a - b \in Nat /\ a + (len - a) = len /\ a + (len - a) <= len
         /\ b + (len - a - b) = len - a /\ (a + b) + (len - a - b) = len
  OBVIOUS
<1>2. n \in Nat /\ m \in Nat /\ a + n = Len(bits) /\ a + n <= Len(bits) /\ b + m = n /\ b + m <= n
      /\ (a + b) + m = Len(bits)
  BY <1>1, LenProperties
<1>. HIDE DEF n, m
<1>3. part \in Seq(Bit) /\ Len(part) = n
  BY <1>2, PartOf
<1>4. SubSeq(part, b + 1, b + m) = SubSeq(bits, (a + b) + 1, (a + b) + m)
  BY <1>2, PartOfPart
<1>5. Taken(a, View(bits, flag)) = View(part, flag)
  BY <1>2, BitsTaken
<1>. HIDE DEF part
<1>6. Taken(b, View(part, flag)) = View(SubSeq(part, b + 1, b + m), flag)
  BY <1>2, <1>3, BitsTaken
<1>7. Taken(a + b, View(bits, flag)) = View(SubSeq(bits, (a + b) + 1, (a + b) + m), flag)
  BY <1>2, BitsTaken
<1>8. bits_left(View(part, flag)) = n
  BY <1>3 DEF bits_left, View
<1>. QED
  BY <1>4, <1>5, <1>6, <1>7, <1>8 DEF n

\* The fields of a layout that a packet has, one after the other.
LaidFirst == [names |-> {}, width |-> 0]
LaidStep(layout, v, i, before) ==
    IF ~IsPresent(layout[i], Only(v, before.names)) THEN before
    ELSE [names |-> before.names \cup {layout[i].name}, width |-> before.width + layout[i].width]
LaidSet(layout) == [names : SUBSET NamesOf(layout), width : Nat]

\* Laid goes through a layout by such steps.
LEMMA LaidFacts ==
  ASSUME NEW without, NEW layout, IsLayout(layout, without), NEW v
  PROVE  /\ Laid(layout, v) \in [0 .. Len(layout) -> LaidSet(layout)] /\ Laid(layout, v)[0] = LaidFirst
         /\ \A i \in 1 .. Len(layout) : Laid(layout, v)[i] = LaidStep(layout, v, i, Laid(layout, v)[i - 1])
<1>. DEFINE n == Len(layout)
            V == LaidSet(layout)
            Step(i, before) == LaidStep(layout, v, i, before)
            Follows(g) == g = [i \in 0 .. n |-> IF i = 0 THEN LaidFirst ELSE Step(i, g[i - 1])]
            laid == CHOOSE g : Follows(g)
<1>1. n \in Nat
  BY DEF IsLayout
<1>2. Laid(layout, v) = laid
  BY DEF Laid, LaidStep, LaidFirst
<1>3. LaidFirst \in V
  BY DEF LaidFirst, LaidSet
<1>4. \A i \in 1 .. n : \A before \in V : Step(i, before) \in V
  <2>. SUFFICES ASSUME NEW i \in 1 .. n, NEW before \in V PROVE Step(i, before) \in V
    OBVIOUS
  <2>1. layout[i].width \in Nat /\ layout[i].name \in NamesOf(layout)
    BY DEF IsLayout, IsField, NamesOf
  <2>2. before.names \in SUBSET NamesOf(layout) /\ before.width \in Nat
    BY DEF LaidSet
  <2>3. before.names \cup {layout[i].name} \in SUBSET NamesOf(layout) /\ before.width + layout[i].width \in Nat
    BY <2>1, <2>2
  <2>. QED
    BY <2>3 DEF LaidSet, LaidStep
<1>. HIDE DEF n, V, Step
<1>5. \E f \in [0 .. n -> V] : Follows(f)
  <2>. DEFINE step == [p \in (1 .. n) \X V |-> Step(p[1], p[2])]
  <2>1. step \in [(1 .. n) \X V -> V]
    BY <1>4
  <2>2. \A i \in 1 .. n : \A w \in V : step[<<i, w>>] = Step(i, w)
    OBVIOUS
  <2>. HIDE DEF step
  <2>3. RecursiveExists(V, LaidFirst, step, n)
    BY <1>1, <1>3, <2>1, Recursion DEF StepsIn
  <2>4. PICK f \in [0 .. n -> V] : f[0] = LaidFirst /\ \A i \in 1 .. n : f[i] = step[<<i, f[i - 1]>>]
    BY <2>3 DEF Recursive, RecursiveExists
  <2>5. \A i \in 0 .. n : f[i] = IF i = 0 THEN LaidFirst ELSE Step(i, f[i - 1])
    <3>1. \A i \in 0 .. n : i # 0 => i \in 1 .. n /\ i - 1 \in 0 .. n
      BY <1>1
    <3>2. \A i \in 0 .. n : f[i] \in V
      OBVIOUS
    <3>. QED
      BY <2>2, <2>4, <3>1, <3>2
  <2>6. f = [i \in 0 .. n |-> f[i]]
    BY <2>4
  <2>. QED
    BY <2>5, <2>6
<1>6. Follows(laid)
  BY <1>5
<1>. HIDE DEF laid
<1>7. laid[0] = LaidFirst /\ \A i \in 1 .. n : laid[i] = Step(i, laid[i - 1])
  <2>1. 0 \in 0 .. n /\ \A i \in 1 .. n : i \in 0 .. n /\ i # 0
    BY <1>1
  <2>. QED
    BY <1>6, <2>1
<1>8. laid \in [0 .. n -> V]
  <2>. DEFINE S == {i \in 0 .. n : laid[i] \in V}
  <2>1. 0 \in S /\ \A i \in 1 .. n : i - 1 \in S => i \in S
    BY <1>1, <1>3, <1>4, <1>7
  <2>. HIDE DEF S
  <2>2. \A i \in 0 .. n : i \in S
    BY <1>1, <2>1, Induction
  <2>. QED
    BY <1>6, <2>2 DEF S
<1>. QED
  BY <1>2, <1>7, <1>8 DEF n, V, Step

\* Fields are added one after the other, so that those of a part of the layout are
\* fields of the whole.
LEMMA LaidGrows ==
  ASSUME NEW without, NEW layout, IsLayout(layout, without), NEW v, NEW i \in 0 .. Len(layout)
  PROVE  /\ Laid(layout, v)[i].names \subseteq Fields(layout, v)
         /\ Laid(layout, v)[i].width \in Nat /\ Laid(layout, v)[i].width <= Width(layout, v)
         /\ Fields(layout, v) \subseteq NamesOf(layout) /\ Width(layout, v) \in Nat
<1>. DEFINE n == Len(layout)
            laid == Laid(layout, v)
            V == LaidSet(layout)
<1>1. n \in Nat
  BY DEF IsLayout
<1>2. /\ laid \in [0 .. n -> V] /\ \A j \in 1 .. n : laid[j] = LaidStep(layout, v, j, laid[j - 1])
  BY LaidFacts
<1>3. \A j \in 1 .. n : layout[j].width \in Nat
  BY DEF IsLayout, IsField
<1>. HIDE DEF laid
<1>4. \A j \in 0 .. n : laid[j].names \subseteq NamesOf(layout) /\ laid[j].width \in Nat
  BY <1>2 DEF LaidSet
<1>5. \A j \in 1 .. n : j - 1 \in 0 .. n /\ j \in 0 .. n
  BY <1>1
<1>6. \A j \in 1 .. n : /\ laid[j - 1].names \subseteq laid[j].names
                       /\ laid[j - 1].width <= laid[j].width
  <2>. SUFFICES ASSUME NEW j \in 1 .. n
                PROVE  laid[j - 1].names \subseteq laid[j].names /\ laid[j - 1].width <= laid[j].width
    OBVIOUS
  <2>1. laid[j] = laid[j - 1]
        \/ /\ laid[j].names = laid[j - 1].names \cup {layout[j].name}
           /\ laid[j].width = laid[j - 1].width + layout[j].width
    <3>1. \A before : \/ LaidStep(layout, v, j, before) = before
                      \/ /\ LaidStep(layout, v, j, before).names = before.names \cup {layout[j].name}
                         /\ LaidStep(layout, v, j, before).width = before.width + layout[j].width
      BY DEF LaidStep
    <3>2. laid[j] = LaidStep(layout, v, j, laid[j - 1])
      BY <1>2
    <3>. QED
      BY <3>1, <3>2
  <2>2. laid[j - 1].width \in Nat /\ layout[j].width \in Nat
    BY <1>3, <1>4, <1>5
  <2>. QED
    BY <2>1, <2>2
<1>. DEFINE S == {j \in 0 .. n : j >= i => laid[i].names \subseteq laid[j].names /\ laid[i].width <= laid[j].width}
<1>7. 0 \in S
  BY <1>1, <1>4
<1>8. ASSUME NEW j \in 1 .. n, j - 1 \in S PROVE j \in S
  <2>1. CASE j = i
    BY <1>4, <1>5, <2>1
  <2>2. CASE j # i
    <3>1. j >= i => j - 1 >= i
      BY <2>2
    <3>2. laid[i].width \in Nat /\ laid[j].width \in Nat /\ laid[j - 1].width \in Nat
      BY <1>4, <1>5
    <3>. QED
      BY <1>5, <1>6, <1>8, <3>1, <3>2
  <2>. QED
    BY <2>1, <2>2
<1>9. n \in S
  <2>1. n \in 0 .. n /\ \A j \in 1 .. n : j - 1 \in S => j \in S
    BY <1>1, <1>8
  <2>. HIDE DEF S
  <2>2. \A j \in 0 .. n : j \in S
    BY <1>1, <1>7, <2>1, Induction
  <2>. QED
    BY <2>1, <2>2
<1>10. n >= i /\ n \in 0 .. n
  BY <1>1
<1>. QED
  BY <1>4, <1>9, <1>10 DEF Fields, Width, laid

\* A field without a condition is there.
LEMMA FieldIsThere ==
  ASSUME NEW without, NEW layout, IsLayout(layout, without), NEW v, NEW i \in 1 .. Len(layout),
         layout[i].when = {}
  PROVE  layout[i].name \in Fields(layout, v)
<1>1. i \in 0 .. Len(layout)
  BY DEF IsLayout
<1>2. Laid(layout, v)[i] = LaidStep(layout, v, i, Laid(layout, v)[i - 1])
  BY LaidFacts
<1>3. layout[i].name \in Laid(layout, v)[i].names
  BY <1>2 DEF LaidStep, IsPresent
<1>. QED
  BY <1>1, <1>3, LaidGrows

Agree(one, other) == \A k \in 1 .. Len(one) : k <= Len(other) => one[k] = other[k]

\* A field of bits that agree is the same.
LEMMA SamePart ==
  ASSUME NEW one \in Seq(Bit), NEW other \in Seq(Bit), Agree(one, other),
         NEW from \in Nat, NEW n \in Nat, from + n <= Len(one), from + n <= Len(other)
  PROVE  SubSeq(one, from + 1, from + n) = SubSeq(other, from + 1, from + n)
<1>. DEFINE first == SubSeq(one, from + 1, from + n)
            second == SubSeq(other, from + 1, from + n)
<1>1. first \in Seq(Bit) /\ Len(first) = n /\ \A i \in 1 .. n : first[i] = one[from + i]
  BY PartOf
<1>2. second \in Seq(Bit) /\ Len(second) = n /\ \A i \in 1 .. n : second[i] = other[from + i]
  BY PartOf
<1>. HIDE DEF first, second
<1>3. \A i \in 1 .. n : one[from + i] = other[from + i]
  <2>1. \A length \in Nat : from + n <= length =>
           \A i \in 1 .. n : from + i \in 1 .. length /\ from + i <= length
    OBVIOUS
  <2>2. \A i \in 1 .. n : from + i \in 1 .. Len(one) /\ from + i <= Len(other)
    BY <2>1, LenProperties
  <2>. QED
    BY <2>2 DEF Agree
<1>4. first = second
  BY <1>1, <1>2, <1>3, SeqEqual
<1>. QED
  BY <1>4 DEF first, second

\* Some bits, looked at where they were written.
LEMMA LookAsWritten ==
  ASSUME NEW wrote \in Seq(Bit), NEW got \in Seq(Bit), NEW flag \in BOOLEAN, Agree(got, wrote), NEW at \in Nat, NEW width \in Nat,
         at + width <= Len(wrote), at + width <= Len(got)
  PROVE  /\ look(width, 0, Taken(at, View(got, flag))) = ToNat(SubSeq(wrote, at + 1, at + width))
         /\ take_vector(width, Taken(at, View(got, flag))) = SubSeq(wrote, at + 1, at + width)
<1>. DEFINE len == Len(got)
            n == len - at
            view == Taken(at, View(got, flag))
<1>1. len \in Nat /\ at + width <= len
  BY LenProperties
<1>2. n \in Nat /\ at + n = len /\ at + n <= len /\ width <= n /\ 0 + width = width /\ 0 + width <= n
      /\ 0 + 1 = 1 /\ at + 0 = at
  <2>. HIDE DEF len
  <2>. QED
    BY <1>1
<1>. HIDE DEF n
<1>3. view.bits = SubSeq(got, at + 1, at + n)
  <2>1. view = View(SubSeq(got, at + 1, len), flag)
    BY BitsTaken
  <2>2. \A part : View(part, flag).bits = part
    BY DEF View
  <2>. QED
    BY <1>2, <2>1, <2>2
<1>4. SubSeq(SubSeq(got, at + 1, at + n), 0 + 1, 0 + width) = SubSeq(got, (at + 0) + 1, (at + 0) + width)
  BY <1>1, <1>2, PartOfPart, 0 \in Nat
<1>5. SubSeq(got, at + 1, at + width) = SubSeq(wrote, at + 1, at + width)
  BY <1>1, SamePart
<1>6. SubSeq(view.bits, 1, width) = SubSeq(wrote, at + 1, at + width)
  BY <1>2, <1>3, <1>4, <1>5
<1>. HIDE DEF view
<1>7. look(width, 0, view) = ToNat(SubSeq(view.bits, 1, width))
  BY <1>2 DEF look
<1>. QED
  BY <1>6, <1>7 DEF view, take_vector

\* One field, from where the bits are read as they were written.
ReadSoFar(v, names, at, got, flag, read) ==
    IF at <= Len(got)
    THEN read = [ok |-> TRUE, value |-> Only(v, names), data |-> Taken(at, View(got, flag))]
    ELSE read.ok = FALSE

\* A step reads a field that was written there, or fails where the bits end.
LEMMA FieldAsWritten ==
  ASSUME NEW wrote \in Seq(Bit), NEW got \in Seq(Bit), NEW flag \in BOOLEAN, Agree(got, wrote), NEW v, NEW names,
         NEW field, field.width \in Nat, NEW at \in Nat, NEW before, ReadSoFar(v, names, at, got, flag, before),
         IsPresent(field, Only(v, names)), at + field.width <= Len(wrote),
         v[field.name] = ToNat(SubSeq(wrote, at + 1, at + field.width))
  PROVE  ReadSoFar(v, names \cup {field.name}, at + field.width, got, flag, ReadStep(field, before))
<1>. DEFINE width == field.width
            name == field.name
            len == Len(got)
<1>1. len \in Nat /\ width \in Nat
  BY LenProperties
<1>2. CASE ~(at <= len)
  <2>1. before.ok = FALSE
    BY <1>2 DEF ReadSoFar
  <2>2. ReadStep(field, before) = before
    BY <2>1 DEF ReadStep
  <2>3. ~(at + width <= len)
    <3>. HIDE DEF len, width
    <3>. QED
      BY <1>1, <1>2
  <2>. QED
    BY <2>1, <2>2, <2>3 DEF ReadSoFar
<1>3. CASE at <= len
  <2>1. before = [ok |-> TRUE, value |-> Only(v, names), data |-> Taken(at, View(got, flag))]
    BY <1>3 DEF ReadSoFar
  <2>2. bits_left(before.data) = len - at
    <3>1. \A number \in Nat : at <= number => at + 0 <= number
      OBVIOUS
    <3>2. at + 0 <= len /\ 0 \in Nat
      BY <1>1, <1>3, <3>1
    <3>. QED
      BY <2>1, <3>2, TakenTwice
  <2>3. CASE ~(at + width <= len)
    <3>1. bits_left(before.data) < width
      <4>. HIDE DEF len, width
      <4>. QED
        BY <1>1, <2>2, <2>3
    <3>2. ReadStep(field, before) = [before EXCEPT !.ok = FALSE]
      BY <2>1, <3>1 DEF ReadStep
    <3>3. ReadStep(field, before).ok = FALSE
      BY <2>1, <3>2
    <3>. QED
      BY <2>3, <3>3 DEF ReadSoFar
  <2>4. CASE at + width <= len
    <3>1. ~(bits_left(before.data) < width)
      <4>. HIDE DEF len, width
      <4>. QED
        BY <1>1, <2>2, <2>4
    <3>2. ReadStep(field, before)
             = [ok |-> TRUE, value |-> WithField(Only(v, names), name, look(width, 0, before.data)),
                data |-> Taken(width, before.data)]
      BY <2>1, <3>1 DEF ReadStep
    <3>3. Taken(width, before.data) = Taken(at + width, View(got, flag))
      BY <2>1, <2>4, TakenTwice
    <3>4. look(width, 0, before.data) = v[name]
      BY <1>1, <2>1, <2>4, LookAsWritten
    <3>5. WithField(Only(v, names), name, v[name]) = Only(v, names \cup {name})
      BY DEF WithField, Only
    <3>. QED
      BY <2>4, <3>2, <3>3, <3>4, <3>5 DEF ReadSoFar
  <2>. QED
    BY <2>3, <2>4
<1>. QED
  BY <1>2, <1>3

\* Reading a layout (bit_vector.hpp:51-66) gives back the value that was written with
\* it, whatever the value and whatever comes behind, and throws if the data ends
\* before the last of its fields: no field is read from elsewhere, and none is left
\* out for bits that are missing.
LEMMA ReadsAsWritten ==
  ASSUME NEW without, NEW layout, IsLayout(layout, without), NEW wrote \in Seq(Bit), NEW v, NEW from \in Nat,
         Writes(layout, v, wrote, from), NEW got \in Seq(Bit), NEW flag \in BOOLEAN, Agree(got, wrote), from <= Len(got)
  PROVE  LET end == from + Width(layout, v)
             read == Read(layout, Taken(from, View(got, flag)))
         IN IF end <= Len(got)
            THEN read = [ok |-> TRUE, value |-> Only(v, Fields(layout, v)), data |-> Taken(end, View(got, flag))]
            ELSE ~read.ok
<1>. DEFINE n == Len(layout)
            view == Taken(from, View(got, flag))
            laid == Laid(layout, v)
            at(i) == from + laid[i].width
<1>1. n \in Nat /\ \A i \in 1 .. n : layout[i].width \in Nat
  BY DEF IsLayout, IsField
<1>2. view \in BitVecs
  <2>1. View(got, flag) \in BitVecs /\ from <= bits_left(View(got, flag))
    BY DEF View, BitVecs, bits_left
  <2>. QED
    BY <2>1, PartTaken
<1>3. PICK after : IsReading(after, layout, view) /\ Read(layout, view) = after[n]
  <2>. HIDE DEF view
  <2>. QED
    BY <1>2, FieldByField
<1>4. /\ laid[0] = LaidFirst /\ \A i \in 1 .. n : laid[i] = LaidStep(layout, v, i, laid[i - 1])
  BY LaidFacts
<1>5. \A i \in 0 .. n : laid[i].width \in Nat /\ laid[i].width <= Width(layout, v) /\ Width(layout, v) \in Nat
  BY LaidGrows
<1>6. after[0] = ReadFirst(view) /\ \A i \in 1 .. n : after[i] = ReadStep(layout[i], after[i - 1])
  BY <1>3 DEF IsReading
<1>7. /\ from + Width(layout, v) <= Len(wrote)
      /\ \A i \in 1 .. n : IsPresent(layout[i], Only(v, laid[i - 1].names)) =>
            v[layout[i].name] = ToNat(SubSeq(wrote, at(i - 1) + 1, at(i)))
  BY DEF Writes
<1>. HIDE DEF laid
<1>. DEFINE S == {i \in 0 .. n : ReadSoFar(v, laid[i].names, at(i), got, flag, after[i])}
<1>8. 0 \in S
  <2>1. 0 \in 0 .. n /\ from + 0 = from
    BY <1>1
  <2>2. NoFields = Only(v, {})
    BY DEF NoFields, Only
  <2>3. laid[0].names = {} /\ at(0) = from
    BY <1>4, <2>1 DEF LaidFirst
  <2>. HIDE DEF at
  <2>4. after[0] = [ok |-> TRUE, value |-> Only(v, laid[0].names), data |-> Taken(at(0), View(got, flag))]
    BY <1>6, <2>2, <2>3 DEF ReadFirst, view
  <2>. QED
    BY <2>1, <2>3, <2>4 DEF ReadSoFar
<1>9. ASSUME NEW i \in 1 .. n, i - 1 \in S PROVE i \in S
  <2>. DEFINE field == layout[i]
              before == after[i - 1]
              present == laid[i - 1].names
              start == at(i - 1)
  <2>1. ReadSoFar(v, present, start, got, flag, before)
    BY <1>9
  <2>2. i \in 0 .. n /\ i - 1 \in 0 .. n /\ field.width \in Nat /\ after[i] = ReadStep(field, before)
    BY <1>1, <1>6
  <2>3. laid[i] = LaidStep(layout, v, i, laid[i - 1])
    BY <1>4
  <2>4. CASE IsPresent(field, Only(v, present))
    <3>1. laid[i].names = present \cup {field.name} /\ laid[i].width = laid[i - 1].width + field.width
      BY <2>3, <2>4 DEF LaidStep
    <3>2. start \in Nat /\ at(i) = start + field.width /\ start + field.width <= Len(wrote)
      <4>1. \A w, x, y, z, len \in Nat : w + z <= len /\ x + y <= z => w + x \in Nat /\ w + (x + y) = (w + x) + y /\ (w + x) + y <= len
        OBVIOUS
      <4>2. laid[i - 1].width \in Nat /\ laid[i].width <= Width(layout, v) /\ Width(layout, v) \in Nat /\ Len(wrote) \in Nat
        BY <1>5, <2>2, LenProperties
      <4>. HIDE DEF field
      <4>. QED
        BY <1>7, <2>2, <3>1, <4>1, <4>2
    <3>3. v[field.name] = ToNat(SubSeq(wrote, start + 1, start + field.width))
      BY <1>7, <2>4, <3>2
    <3>. HIDE DEF field, start, before, present, at
    <3>4. ReadSoFar(v, present \cup {field.name}, start + field.width, got, flag, ReadStep(field, before))
      BY <2>1, <2>2, <2>4, <3>2, <3>3, FieldAsWritten
    <3>. QED
      BY <2>2, <3>1, <3>2, <3>4
  <2>5. CASE ~IsPresent(field, Only(v, present))
    <3>1. laid[i] = laid[i - 1]
      BY <2>3, <2>5 DEF LaidStep
    <3>2. after[i] = after[i - 1]
      BY <2>1, <2>2, <2>5 DEF ReadSoFar, ReadStep
    <3>. QED
      BY <2>1, <2>2, <3>1, <3>2
  <2>. QED
    BY <2>4, <2>5
<1>10. n \in S
  <2>1. n \in 0 .. n
    BY <1>1
  <2>2. \A i \in 1 .. n : i - 1 \in S => i \in S
    BY <1>9
  <2>. HIDE DEF S
  <2>3. \A i \in 0 .. n : i \in S
    BY <1>1, <1>8, <2>2, Induction
  <2>. QED
    BY <2>1, <2>3
<1>11. ReadSoFar(v, Fields(layout, v), from + Width(layout, v), got, flag, after[n])
  BY <1>10 DEF Fields, Width, laid
<1>. QED
  BY <1>3, <1>11 DEF ReadSoFar, view

\* The first field of a layout.
LEMMA FirstField ==
  ASSUME NEW without, NEW layout, IsLayout(layout, without), 1 \in 1 .. Len(layout), layout[1].when = {},
         NEW v, NEW bits, Len(bits) \in Nat, NEW from \in Nat, Writes(layout, v, bits, from)
  PROVE  /\ from + layout[1].width <= Len(bits)
         /\ v[layout[1].name] = ToNat(SubSeq(bits, from + 1, from + layout[1].width))
<1>. DEFINE width == layout[1].width
            laid == Laid(layout, v)
            all == Width(layout, v)
            len == Len(bits)
<1>1. width \in Nat /\ 0 \in 0 .. Len(layout) /\ 1 \in 0 .. Len(layout)
  BY DEF IsLayout, IsField
<1>2. laid[0] = LaidFirst /\ laid[1] = LaidStep(layout, v, 1, laid[0])
  <2>1. 1 - 1 = 0
    OBVIOUS
  <2>. QED
    BY <2>1, LaidFacts
<1>3. /\ from + all <= len
      /\ IsPresent(layout[1], Only(v, laid[1 - 1].names)) =>
            v[layout[1].name] = ToNat(SubSeq(bits, from + laid[1 - 1].width + 1, from + laid[1].width))
  BY DEF Writes
<1>4. laid[1].width <= all /\ all \in Nat
  BY <1>1, LaidGrows
<1>. HIDE DEF laid, all, len
<1>5. \A names : IsPresent(layout[1], Only(v, names))
  BY DEF IsPresent
<1>6. laid[0].width = 0 /\ laid[1].width = 0 + width
  BY <1>2, <1>5 DEF LaidFirst, LaidStep
<1>. HIDE DEF width
<1>7. 1 - 1 = 0 /\ from + 0 + 1 = from + 1 /\ laid[1].width = width
  BY <1>1, <1>6
<1>8. from + width <= len
  <2>. DEFINE first == laid[1].width
  <2>1. first = width /\ first <= all
    BY <1>4, <1>7
  <2>. HIDE DEF first
  <2>2. len \in Nat
    BY DEF len
  <2>. QED
    BY <1>1, <1>3, <1>4, <2>1, <2>2
<1>9. v[layout[1].name] = ToNat(SubSeq(bits, from + 1, from + width))
  BY <1>3, <1>5, <1>6, <1>7
<1>. QED
  BY <1>8, <1>9 DEF width, len

-----------------------------------------------------------------------------
(* Fill bits: what is left of a block, from some place on, once they were  *)
(* removed from its end.                                                   *)

\* The last one is where nothing but zeros is behind it.
HasOnes(bits) == \E i \in 1 .. Len(bits) : bits[i] = 1
IsLastOne(bits, i) == bits[i] = 1 /\ \A j \in i + 1 .. Len(bits) : bits[j] = 0

\* Bits with a one have such a place.
LEMMA LastOneIs ==
  ASSUME NEW bits \in Seq(Bit), HasOnes(bits)
  PROVE  LastOne(bits) \in 1 .. Len(bits) /\ IsLastOne(bits, LastOne(bits))
<1>. DEFINE n == Len(bits)
            Behind == {n - i : i \in {j \in 1 .. n : bits[j] = 1}}
<1>1. n \in Nat /\ DOMAIN bits = 1 .. n /\ \A i \in 1 .. n : bits[i] = 0 \/ bits[i] = 1
  BY LenProperties, EveryBit DEF Bit
<1>2. \E i \in 1 .. n : bits[i] = 1
  BY DEF HasOnes
<1>. HIDE DEF n
<1>3. Behind \subseteq Nat /\ Behind # {}
  BY <1>1, <1>2
<1>4. PICK m \in Behind : \A k \in Behind : m <= k
  <2>. HIDE DEF Behind
  <2>. QED BY <1>3, LeastNumber
<1>5. PICK i \in 1 .. n : m = n - i /\ bits[i] = 1
  BY <1>4
<1>6. \A j \in i + 1 .. n : bits[j] = 0
  <2>. SUFFICES ASSUME NEW j \in i + 1 .. n, bits[j] # 0 PROVE FALSE
    OBVIOUS
  <2>1. j \in 1 .. n /\ bits[j] = 1 /\ ~(m <= n - j)
    BY <1>1, <1>5
  <2>2. n - j \in Behind
    BY <2>1
  <2>. QED
    BY <1>4, <2>1, <2>2
<1>7. IsLastOne(bits, i)
  BY <1>5, <1>6 DEF IsLastOne, n
<1>8. LastOne(bits) = CHOOSE k \in 1 .. n : IsLastOne(bits, k)
  BY <1>1 DEF LastOne, IsLastOne, n
<1>. QED
  BY <1>7, <1>8 DEF n

\* There is only one.
LEMMA OneLastOne ==
  ASSUME NEW bits \in Seq(Bit), NEW i \in 1 .. Len(bits), IsLastOne(bits, i)
  PROVE  HasOnes(bits) /\ LastOne(bits) = i
<1>1. HasOnes(bits)
  BY DEF HasOnes, IsLastOne
<1>. DEFINE last == LastOne(bits)
            n == Len(bits)
<1>2. last \in 1 .. n /\ IsLastOne(bits, last) /\ n \in Nat /\ i \in 1 .. n
  BY <1>1, LastOneIs, LenProperties
<1>. HIDE DEF last
<1>3. ~(i > last) /\ ~(last > i)
  <2>1. i > last => i \in last + 1 .. n
    BY <1>2
  <2>2. last > i => last \in i + 1 .. n
    BY <1>2
  <2>. QED
    BY <1>2, <2>1, <2>2 DEF IsLastOne
<1>4. last = i
  BY <1>2, <1>3
<1>. QED
  BY <1>1, <1>4 DEF last

\* The bits of a block, with fill bits or without.
Source(info, flag) == IF flag THEN SubSeq(info, 1, LastOne(info) - 1) ELSE info

\* They agree with the block as far as they go.
LEMMA SourceFacts ==
  ASSUME NEW info \in Seq(Bit), NEW flag \in BOOLEAN, flag => HasOnes(info)
  PROVE  /\ Source(info, flag) \in Seq(Bit) /\ Len(Source(info, flag)) \in Nat
         /\ Len(Source(info, flag)) <= Len(info) /\ Agree(Source(info, flag), info)
         /\ ~flag => Len(Source(info, flag)) = Len(info)
         /\ flag => Len(Source(info, flag)) = LastOne(info) - 1
<1>1. CASE ~flag
  BY <1>1, LenProperties DEF Source, Agree
<1>2. CASE flag
  <2>. DEFINE n == LastOne(info) - 1
              part == SubSeq(info, 1, n)
  <2>1. n \in 0 .. Len(info) /\ n \in Nat /\ n <= Len(info)
    <3>1. LastOne(info) \in 1 .. Len(info) /\ Len(info) \in Nat
      BY <1>2, LastOneIs, LenProperties
    <3>. QED
      BY <3>1
  <2>. HIDE DEF n
  <2>2. part \in Seq(Bit) /\ Len(part) = n /\ \A i \in 1 .. n : part[i] = info[i]
    BY <2>1, Beginning
  <2>. HIDE DEF part
  <2>3. Source(info, flag) = part
    BY <1>2 DEF Source, part, n
  <2>. QED
    BY <1>2, <2>1, <2>2, <2>3 DEF Agree, n
<1>. QED
  BY <1>1, <1>2

\* Removing the fill bits of what is left from some place on removes those of the
\* block, which has a one behind that place.
LEMMA RemovedFromSource ==
  ASSUME NEW info \in Seq(Bit), NEW flag \in BOOLEAN, flag => HasOnes(info),
         NEW at \in Nat, at <= Len(Source(info, flag)),
         NEW view, view = Taken(at, View(Source(info, flag), flag)), CanRemoveFillBits(view)
  PROVE  /\ HasOnes(info) /\ at <= Len(Source(info, TRUE))
         /\ remove_fill_bits(view) = Taken(at, View(Source(info, TRUE), TRUE))
<1>0. view = View(SubSeq(Source(info, flag), at + 1, Len(Source(info, flag))), flag)
  BY BitsTaken
<1>1. view.fill_bits_removed_ = flag
  BY <1>0 DEF View
<1>2. CASE flag
  <2>1. flag = TRUE
    BY <1>2
  <2>2. remove_fill_bits(view) = view
    BY <1>1, <1>2 DEF remove_fill_bits
  <2>. QED
    BY <1>2, <2>1, <2>2
<1>3. CASE ~flag
  <2>. DEFINE n == Len(info)
              rest == SubSeq(info, at + 1, at + (n - at))
              last == LastOne(info)
  <2>1. n \in Nat /\ at <= n /\ n - at \in Nat /\ at + (n - at) = n /\ at + (n - at) <= n
    <3>1. n \in Nat /\ at <= n
      BY <1>3, LenProperties DEF Source
    <3>. HIDE DEF n
    <3>. QED
      BY <3>1
  <2>2. rest \in Seq(Bit) /\ Len(rest) = n - at /\ \A i \in 1 .. n - at : rest[i] = info[at + i]
    <3>. DEFINE m == n - at
    <3>1. m \in Nat /\ at + m <= Len(info)
      BY <2>1
    <3>. HIDE DEF m
    <3>2. SubSeq(info, at + 1, at + m) \in Seq(Bit) /\ Len(SubSeq(info, at + 1, at + m)) = m
          /\ \A i \in 1 .. m : SubSeq(info, at + 1, at + m)[i] = info[at + i]
      BY <3>1, PartOf
    <3>. QED
      BY <3>2 DEF m
  <2>3. view.bits = rest /\ view.fill_bits_removed_ = FALSE
    <3>1. Source(info, flag) = info
      BY <1>3 DEF Source
    <3>2. view = View(rest, flag)
      BY <1>0, <2>1, <3>1
    <3>. HIDE DEF rest
    <3>. QED
      BY <1>3, <3>2 DEF View
  <2>. HIDE DEF rest
  <2>4. \E i \in 1 .. n - at : rest[i] = 1
    <3>1. HasOne(view)
      BY <2>3 DEF CanRemoveFillBits
    <3>2. DOMAIN rest = 1 .. n - at
      BY <2>2, LenProperties
    <3>. QED
      BY <2>3, <3>1, <3>2 DEF HasOne
  <2>5. PICK k \in 1 .. n - at : rest[k] = 1
    BY <2>4
  <2>6. HasOnes(info)
    <3>1. at + k \in 1 .. n /\ info[at + k] = 1
      BY <2>1, <2>2, <2>5
    <3>. QED
      BY <3>1 DEF HasOnes
  <2>7. last \in 1 .. n /\ IsLastOne(info, last)
    BY <2>6, LastOneIs
  <2>. HIDE DEF last
  <2>8. last - at \in 1 .. n - at
    <3>1. ~(at + k > last)
      <4>1. at + k > last => at + k \in last + 1 .. n
        BY <2>1, <2>7
      <4>. QED
        BY <2>2, <2>5, <2>7, <4>1 DEF IsLastOne
    <3>. HIDE DEF n
    <3>. QED
      BY <2>1, <2>5, <2>7, <3>1
  <2>9. LastOne(rest) = last - at
    <3>1. IsLastOne(rest, last - at)
      <4>1. rest[last - at] = info[last]
        <5>. HIDE DEF n
        <5>1. at + (last - at) = last
          BY <2>1, <2>7
        <5>. QED
          BY <2>2, <2>8, <5>1
      <4>2. \A j \in (last - at) + 1 .. n - at : j \in 1 .. n - at /\ at + j \in last + 1 .. n
        <5>. HIDE DEF n
        <5>. QED
          BY <2>1, <2>7, <2>8
      <4>. QED
        BY <2>2, <2>7, <4>1, <4>2 DEF IsLastOne
    <3>2. last - at \in 1 .. Len(rest)
      BY <2>2, <2>8
    <3>. DEFINE i == last - at
    <3>. HIDE DEF i
    <3>3. LastOne(rest) = i
      BY <2>2, <3>1, <3>2, OneLastOne DEF i
    <3>. QED
      BY <3>3 DEF i
  <2>. DEFINE m == last - 1 - at
              cut == Source(info, TRUE)
  <2>10. m \in Nat /\ last - 1 \in Nat /\ (last - at) - 1 = m /\ at + m = last - 1 /\ at <= last - 1
         /\ m <= n - at /\ 0 + m = m /\ 0 + m <= n - at /\ at + m <= last - 1 /\ last - 1 <= n
         /\ 0 + (last - 1) = last - 1 /\ 0 + (last - 1) <= n /\ 0 + at = at /\ 0 + 1 = 1 /\ at + 0 = at
    <3>. HIDE DEF n
    <3>. QED
      BY <2>1, <2>7, <2>8
  <2>11. remove_fill_bits(view) = View(SubSeq(rest, 1, m), TRUE)
    <3>. HIDE DEF m
    <3>. QED
      BY <2>3, <2>9, <2>10 DEF remove_fill_bits, View
  <2>. HIDE DEF m, n
  <2>12. SubSeq(rest, 1, m) = SubSeq(info, at + 1, at + m)
    <3>1. SubSeq(SubSeq(info, at + 1, at + (n - at)), 0 + 1, 0 + m) = SubSeq(info, (at + 0) + 1, (at + 0) + m)
      <4>. DEFINE all == n - at
      <4>1. all \in Nat /\ at + all <= Len(info) /\ 0 + m <= all
        BY <2>1, <2>10 DEF n
      <4>. HIDE DEF all
      <4>2. SubSeq(SubSeq(info, at + 1, at + all), 0 + 1, 0 + m) = SubSeq(info, (at + 0) + 1, (at + 0) + m)
        BY <2>10, <4>1, PartOfPart, 0 \in Nat
      <4>. QED
        BY <4>2 DEF all
    <3>. QED
      BY <2>10, <3>1 DEF rest
  <2>13. cut = SubSeq(info, 1, last - 1) /\ Len(cut) = last - 1
    <3>1. Source(info, TRUE) = SubSeq(info, 1, last - 1)
      BY DEF Source, last
    <3>2. Len(Source(info, TRUE)) = last - 1
      BY <2>6, SourceFacts DEF last
    <3>. QED
      BY <3>1, <3>2
  <2>14. SubSeq(cut, at + 1, last - 1) = SubSeq(info, at + 1, at + m)
    <3>. DEFINE all == last - 1
    <3>1. all \in Nat /\ 0 + all <= Len(info) /\ at + m <= all /\ all = last - 1
      BY <2>10 DEF n
    <3>. HIDE DEF all
    <3>2. SubSeq(SubSeq(info, 0 + 1, 0 + all), at + 1, at + m) = SubSeq(info, (0 + at) + 1, (0 + at) + m)
      BY <2>10, <3>1, PartOfPart, 0 \in Nat
    <3>3. 0 + 1 = 1 /\ 0 + all = all /\ 0 + at = at
      BY <3>1
    <3>. QED
      BY <2>10, <2>13, <3>1, <3>2, <3>3
  <2>15. Taken(at, View(cut, TRUE)) = View(SubSeq(cut, at + 1, last - 1), TRUE)
    <3>. HIDE DEF cut
    <3>. QED
      BY <2>13, BitsTaken
  <2>. HIDE DEF cut
  <2>16. remove_fill_bits(view) = Taken(at, View(cut, TRUE)) /\ at <= Len(cut)
    BY <2>10, <2>11, <2>12, <2>13, <2>14, <2>15
  <2>. QED
    BY <2>6, <2>16 DEF cut
<1>. QED
  BY <1>2, <1>3

\* What extract_tm_sdu (builder lines 109-146) makes of what is left from the end of
\* a header on: the TM-SDU ends at the end of the bits, or at the indicated length if
\* that comes before, and the next PDU begins there.
Least(a, b) == IF a <= b THEN a ELSE b

SduOf(info, flag, at, header, fill, length) ==
    extract_tm_sdu(Taken(at, View(Source(info, flag), flag)), header, fill, length)

IsSdu(info, flag, at, header, fill, length, after, end) ==
    LET sdu == SduOf(info, flag, at, header, fill, length) IN
    /\ after = (flag \/ fill = 1) /\ (after => HasOnes(info))
    /\ at <= end /\ end <= Len(Source(info, after))
    /\ length = {} => end = Len(Source(info, after))
    /\ \A n \in length : /\ end = Least(at - header + n, Len(Source(info, after)))
                         /\ at - header + n < Len(Source(info, after)) + 8
    /\ sdu.tm_sdu = SubSeq(info, at + 1, end)
    /\ sdu.data = Taken(end, View(Source(info, after), after))

\* There are such an end, and fill bits that are removed or not.
LEMMA TmSduFound ==
  ASSUME NEW info \in Seq(Bit), NEW flag \in BOOLEAN, flag => HasOnes(info),
         NEW at \in Nat, at <= Len(Source(info, flag)), NEW header \in Nat, header <= at,
         NEW fill \in {0, 1}, NEW length, length = {} \/ \E n \in Nat : length = {n},
         SduOf(info, flag, at, header, fill, length).ok
  PROVE  \E after \in BOOLEAN, end \in Nat : IsSdu(info, flag, at, header, fill, length, after, end)
<1>. DEFINE view == Taken(at, View(Source(info, flag), flag))
            sdu == SduOf(info, flag, at, header, fill, length)
<1>0. view = Taken(at, View(Source(info, flag), flag)) /\ sdu = extract_tm_sdu(view, header, fill, length)
      /\ sdu.ok
  BY DEF SduOf
<1>. HIDE DEF view, sdu
<1>. DEFINE after == flag \/ fill = 1
            data2 == IF fill = 1 THEN remove_fill_bits(view) ELSE view
            left == bits_left(data2)
            payload == IF length = {} THEN left ELSE (CHOOSE n \in length : TRUE) - header
            capped == IF payload > left THEN left ELSE payload
            refused == \/ fill = 1 /\ ~CanRemoveFillBits(view)
                       \/ payload < 0
                       \/ payload - left >= 8
<1>1. sdu = IF refused THEN [ok |-> FALSE]
            ELSE [ok |-> TRUE, tm_sdu |-> take_vector(capped, data2), data |-> Taken(capped, data2)]
  BY <1>0 DEF extract_tm_sdu
<1>2. ~refused /\ sdu.tm_sdu = take_vector(capped, data2) /\ sdu.data = Taken(capped, data2)
  <2>. HIDE DEF refused, capped, data2
  <2>1. ~refused
    BY <1>0, <1>1
  <2>. QED
    BY <1>1, <2>1
<1>3. /\ after \in BOOLEAN /\ (after => HasOnes(info)) /\ at <= Len(Source(info, after))
      /\ data2 = Taken(at, View(Source(info, after), after))
  <2>1. CASE fill = 1
    <3>1. CanRemoveFillBits(view)
      BY <1>2, <2>1
    <3>2. HasOnes(info) /\ at <= Len(Source(info, TRUE))
          /\ remove_fill_bits(view) = Taken(at, View(Source(info, TRUE), TRUE))
      BY <1>0, <3>1, RemovedFromSource
    <3>3. after = TRUE
      BY <2>1
    <3>. QED
      BY <2>1, <3>2, <3>3
  <2>2. CASE fill # 1
    <3>1. after = flag
      BY <2>2
    <3>. QED
      BY <1>0, <2>2, <3>1
  <2>. QED
    BY <2>1, <2>2
<1>. HIDE DEF after, data2
<1>. DEFINE bits == Source(info, after)
            len == Len(bits)
<1>4. bits \in Seq(Bit) /\ len \in Nat /\ Agree(bits, info) /\ len <= Len(info)
  BY <1>3, SourceFacts
<1>5. at <= len /\ data2 = Taken(at, View(bits, after))
  BY <1>3
<1>. HIDE DEF bits
<1>6. left = len - at
  <2>1. at + 0 <= len /\ 0 \in Nat
    <3>. HIDE DEF len
    <3>. QED
      BY <1>4, <1>5
  <2>. QED
    BY <1>4, <1>5, <2>1, TakenTwice
<1>. HIDE DEF left, len
<1>7. payload \in Int /\ (length = {} => payload = left) /\ \A n \in length : payload = n - header /\ n \in Nat
  <2>1. CASE length = {}
    BY <1>4, <1>5, <1>6, <2>1
  <2>2. ASSUME NEW n \in Nat, length = {n} PROVE payload = n - header
    BY <2>2
  <2>. QED
    BY <2>1, <2>2
<1>8. ~(payload < 0) /\ ~(payload - left >= 8)
  BY <1>2
<1>. HIDE DEF payload
<1>9. capped \in Nat /\ at + capped <= len /\ (payload > left => at + capped = len)
      /\ (~(payload > left) => capped = payload)
  BY <1>4, <1>5, <1>6, <1>7, <1>8
<1>. HIDE DEF capped
<1>. DEFINE end == at + capped
<1>10. end \in Nat /\ at <= end /\ end <= len
  BY <1>4, <1>9
<1>11. length = {} => end = len
  BY <1>4, <1>5, <1>6, <1>7, <1>9
<1>12. \A n \in length : end = Least(at - header + n, len) /\ at - header + n < len + 8
  <2>. SUFFICES ASSUME NEW n \in length
                PROVE  end = Least(at - header + n, len) /\ at - header + n < len + 8
    OBVIOUS
  <2>1. payload = n - header /\ n \in Nat
    BY <1>7
  <2>. QED
    BY <1>4, <1>5, <1>6, <1>8, <1>9, <2>1 DEF Least
<1>13. sdu.data = Taken(end, View(bits, after))
  BY <1>2, <1>4, <1>5, <1>9, TakenTwice DEF len
<1>14. sdu.tm_sdu = SubSeq(info, at + 1, end)
  <2>1. end <= Len(info)
    <3>. HIDE DEF end
    <3>. QED
      BY <1>4, <1>10, LenProperties
  <2>2. capped \in Nat /\ at + capped <= Len(info) /\ at + capped <= Len(bits)
    BY <1>9, <2>1 DEF len
  <2>3. take_vector(capped, Taken(at, View(bits, after))) = SubSeq(info, at + 1, at + capped)
    BY <1>3, <1>4, <2>2, LookAsWritten
  <2>. QED
    BY <1>2, <1>5, <2>3
<1>. HIDE DEF end
<1>. QED
  BY <1>3, <1>10, <1>11, <1>12, <1>13, <1>14 DEF IsSdu, bits, len, after, sdu

\* The length of a PDU, in bits, or that it is not indicated.
LEMMA LengthFound ==
  ASSUME NEW type \in PduTypes, NEW v, \A name \in DOMAIN v : v[name] \in Nat /\ name \notin Without(type)
  PROVE  /\ Has(v, "length_indication", LengthsOf(type)) => Length(type, v) = {8 * v.length_indication}
         /\ ~Has(v, "length_indication", LengthsOf(type)) => Length(type, v) = {}
<1>1. CASE "length_indication" \notin DOMAIN v
  BY <1>1 DEF Length, Has
<1>2. CASE "length_indication" \in DOMAIN v
  <2>. DEFINE indication == v.length_indication
  <2>1. indication \in Nat /\ type \notin WithoutLength
    BY <1>2 DEF Without
  <2>2. Has(v, "length_indication", LengthsOf(type)) <=> indication \in LengthsOf(type)
    BY <1>2 DEF Has
  <2>3. type \in {"MacAccess", "MacEndHu", "MacData", "MacResource", "MacEndUplink", "MacEndDownlink"}
    BY <2>1 DEF PduTypes, WithoutLength
  <2>4. Length(type, v) =
          CASE type = "MacAccess" -> {Length_from_mac_access(indication)}
            [] type = "MacEndHu" -> {Length_from_mac_end_hu(indication)}
            [] type \in {"MacData", "MacResource"} ->
                 IF indication >= 62 THEN {} ELSE {Length_from_mac_data(indication)}
            [] type = "MacEndUplink" ->
                 IF indication >= 48 THEN {} ELSE {Length_from_mac_end_uplink(indication)}
            [] type = "MacEndDownlink" -> {Length_from_mac_end_downlink(indication)}
    BY <1>2 DEF Length
  <2>. HIDE DEF indication
  <2>5. /\ \A last \in Nat : Units(indication, last) = 8 * indication
        /\ indication * Z = 8 * indication
    BY <2>1 DEF Units, Y, Z
  <2>6. /\ Length_from_mac_access(indication) = 8 * indication
        /\ Length_from_mac_end_hu(indication) = 8 * indication
        /\ Length_from_mac_data(indication) = 8 * indication
        /\ Length_from_mac_end_uplink(indication) = 8 * indication
        /\ Length_from_mac_end_downlink(indication) = 8 * indication
    BY <2>5 DEF Length_from_mac_access, Length_from_mac_end_hu, Length_from_mac_data,
                Length_from_mac_end_uplink, Length_from_mac_end_downlink
  <2>7. indication \in LengthsOf(type)
            <=> (type \in {"MacData", "MacResource"} => indication < 62) /\ (type = "MacEndUplink" => indication < 48)
    BY <2>1, <2>3 DEF LengthsOf
  <2>8. /\ indication \in LengthsOf(type) => Length(type, v) = {8 * indication}
        /\ indication \notin LengthsOf(type) => Length(type, v) = {}
    BY <2>1, <2>3, <2>4, <2>6, <2>7
  <2>. QED
    BY <2>2, <2>8 DEF indication
<1>. QED
  BY <1>1, <1>2

\* Two parts of a block that begin at the same place, the longer of which may end in
\* what looks like fill bits.
Apart(p, m, more, less) ==
    LET common == IF Len(p) < Len(m) THEN Len(p) ELSE Len(m)
    IN /\ SubSeq(p, 1, common) = SubSeq(m, 1, common)
       /\ Len(p) - common = more /\ Len(m) - common = less
       /\ SubSeq(m, common + 1, Len(m)) = FillBits(Len(m) - common)

\* Such are two parts that differ in fill bits where the longer is the second.
LEMMA SameBeginning ==
  ASSUME NEW info \in Seq(Bit), NEW at \in Nat, NEW one \in Nat, NEW other \in Nat,
         at + one <= Len(info), at + other <= Len(info),
         one < other => SubSeq(info, at + one + 1, at + other) = FillBits(other - one)
  PROVE  Apart(SubSeq(info, at + 1, at + one), SubSeq(info, at + 1, at + other),
               IF one > other THEN one - other ELSE 0, IF one < other THEN other - one ELSE 0)
<1>. DEFINE p == SubSeq(info, at + 1, at + one)
            m == SubSeq(info, at + 1, at + other)
<1>. DEFINE common == IF Len(p) < Len(m) THEN Len(p) ELSE Len(m)
            least == IF one < other THEN one ELSE other
<1>1. p \in Seq(Bit) /\ Len(p) = one
  BY PartOf
<1>2. m \in Seq(Bit) /\ Len(m) = other
  BY PartOf
<1>3. common = least /\ least \in Nat /\ least <= one /\ least <= other
  BY <1>1, <1>2
<1>. HIDE DEF common, p, m
<1>4. /\ one - least = (IF one > other THEN one - other ELSE 0)
      /\ other - least = (IF one < other THEN other - one ELSE 0)
  OBVIOUS
<1>. HIDE DEF least
<1>5. SubSeq(p, 1, least) = SubSeq(m, 1, least)
  <2>1. 0 + least = least /\ 0 + 1 = 1 /\ at + 0 = at
    BY <1>3
  <2>2. SubSeq(p, 0 + 1, 0 + least) = SubSeq(info, (at + 0) + 1, (at + 0) + least)
    BY <1>3, <2>1, PartOfPart, 0 \in Nat DEF p, m
  <2>3. SubSeq(m, 0 + 1, 0 + least) = SubSeq(info, (at + 0) + 1, (at + 0) + least)
    BY <1>3, <2>1, PartOfPart, 0 \in Nat DEF p, m
  <2>. QED
    BY <2>1, <2>2, <2>3
<1>6. SubSeq(m, least + 1, other) = FillBits(other - least)
  <2>1. CASE one < other
    <3>1. least = one
      BY <2>1 DEF least
    <3>. DEFINE rest == other - least
    <3>2. rest \in Nat /\ least + rest = other /\ least + rest <= other /\ (at + least) + rest = at + other
      BY <1>3
    <3>. HIDE DEF rest
    <3>3. SubSeq(m, least + 1, least + rest) = SubSeq(info, (at + least) + 1, (at + least) + rest)
      BY <1>3, <3>2, PartOfPart DEF m
    <3>. QED
      BY <2>1, <3>1, <3>2, <3>3 DEF rest
  <2>2. CASE ~(one < other)
    <3>1. least = other
      BY <2>2 DEF least
    <3>2. SubSeq(m, other + 1, other) = <<>>
      BY <1>2
    <3>3. other - other = 0 /\ FillBits(0) = <<>>
      BY DEF FillBits
    <3>. QED
      BY <3>1, <3>2, <3>3
  <2>. QED
    BY <2>1, <2>2
<1>7. /\ SubSeq(p, 1, common) = SubSeq(m, 1, common)
      /\ Len(p) - common = (IF one > other THEN one - other ELSE 0)
      /\ Len(m) - common = (IF one < other THEN other - one ELSE 0)
      /\ SubSeq(m, common + 1, Len(m)) = FillBits(Len(m) - common)
  BY <1>1, <1>2, <1>3, <1>4, <1>5, <1>6
<1>. QED
  BY <1>7 DEF common, Apart, p, m

-----------------------------------------------------------------------------
(* One PDU of a block that was sent.                                       *)

\* Bits that are looked at behind others.
LEMMA LookBehind ==
  ASSUME NEW wrote \in Seq(Bit), NEW got \in Seq(Bit), NEW flag \in BOOLEAN, Agree(got, wrote),
         NEW at \in Nat, NEW k \in Nat, NEW width \in Nat,
         at + k + width <= Len(wrote), at + k + width <= Len(got)
  PROVE  look(width, k, Taken(at, View(got, flag))) = ToNat(SubSeq(wrote, at + k + 1, at + k + width))
<1>. DEFINE len == Len(got)
            n == len - at
            view == Taken(at, View(got, flag))
<1>1. len \in Nat /\ at + k + width <= len
  BY LenProperties
<1>2. n \in Nat /\ at + n = len /\ at + n <= len /\ k + width <= n /\ at + k \in Nat
      /\ (at + k) + width <= len /\ (at + k) + width <= Len(wrote)
  <2>. HIDE DEF len
  <2>. QED
    BY <1>1, LenProperties
<1>. HIDE DEF n
<1>3. view.bits = SubSeq(got, at + 1, at + n)
  <2>1. view = View(SubSeq(got, at + 1, len), flag)
    BY BitsTaken
  <2>2. \A part : View(part, flag).bits = part
    BY DEF View
  <2>. QED
    BY <1>2, <2>1, <2>2
<1>4. SubSeq(SubSeq(got, at + 1, at + n), k + 1, k + width) = SubSeq(got, (at + k) + 1, (at + k) + width)
  BY <1>1, <1>2, PartOfPart
<1>5. SubSeq(got, (at + k) + 1, (at + k) + width) = SubSeq(wrote, (at + k) + 1, (at + k) + width)
  <2>. DEFINE place == at + k
  <2>1. place \in Nat /\ place + width <= Len(got) /\ place + width <= Len(wrote)
    BY <1>2
  <2>. HIDE DEF place
  <2>2. SubSeq(got, place + 1, place + width) = SubSeq(wrote, place + 1, place + width)
    BY <2>1, SamePart
  <2>. QED
    BY <2>2 DEF place
<1>. HIDE DEF view
<1>6. look(width, k, view) = ToNat(SubSeq(view.bits, k + 1, k + width))
  BY DEF look
<1>. QED
  BY <1>3, <1>4, <1>5, <1>6 DEF view

\* The second field of a layout.
LEMMA SecondField ==
  ASSUME NEW without, NEW layout, IsLayout(layout, without), 2 \in 1 .. Len(layout),
         layout[1].when = {}, layout[2].when = {},
         NEW v, NEW bits, Len(bits) \in Nat, NEW from \in Nat, Writes(layout, v, bits, from)
  PROVE  /\ from + (layout[1].width + layout[2].width) <= Len(bits)
         /\ v[layout[2].name] = ToNat(SubSeq(bits, from + layout[1].width + 1,
                                             from + (layout[1].width + layout[2].width)))
<1>. DEFINE first == layout[1].width
            second == layout[2].width
            laid == Laid(layout, v)
            all == Width(layout, v)
            len == Len(bits)
<1>0. 1 \in 1 .. Len(layout) /\ 0 \in 0 .. Len(layout) /\ 1 \in 0 .. Len(layout) /\ 2 \in 0 .. Len(layout)
  BY DEF IsLayout
<1>1. first \in Nat /\ second \in Nat
  BY <1>0 DEF IsLayout, IsField
<1>2. laid[0] = LaidFirst /\ laid[1] = LaidStep(layout, v, 1, laid[0]) /\ laid[2] = LaidStep(layout, v, 2, laid[1])
  <2>1. 1 - 1 = 0 /\ 2 - 1 = 1
    OBVIOUS
  <2>. QED
    BY <1>0, <2>1, LaidFacts
<1>3. /\ from + all <= len
      /\ IsPresent(layout[2], Only(v, laid[2 - 1].names)) =>
            v[layout[2].name] = ToNat(SubSeq(bits, from + laid[2 - 1].width + 1, from + laid[2].width))
  BY DEF Writes
<1>4. laid[2].width <= all /\ all \in Nat
  BY <1>0, LaidGrows
<1>. HIDE DEF laid, all, len
<1>5. \A names : IsPresent(layout[1], Only(v, names)) /\ IsPresent(layout[2], Only(v, names))
  BY DEF IsPresent
<1>6. laid[0].width = 0 /\ laid[1].width = 0 + first /\ laid[2].width = laid[1].width + second
  BY <1>2, <1>5 DEF LaidFirst, LaidStep
<1>. HIDE DEF first, second
<1>7. 2 - 1 = 1 /\ laid[1].width = first /\ laid[2].width = first + second
  BY <1>1, <1>6
<1>8. from + (first + second) <= len
  <2>. DEFINE both == laid[2].width
  <2>1. both = first + second /\ both <= all
    BY <1>4, <1>7
  <2>. HIDE DEF both
  <2>2. len \in Nat
    BY DEF len
  <2>. QED
    BY <1>1, <1>3, <1>4, <2>1, <2>2
<1>9. v[layout[2].name] = ToNat(SubSeq(bits, from + first + 1, from + (first + second)))
  BY <1>3, <1>5, <1>7
<1>. QED
  BY <1>8, <1>9 DEF first, second, len

\* The headers begin with the PDU type, and some with a subtype behind it.
WithSubtype == {"MacFragmentUplink", "MacFragmentDownlink", "MacEndUplink", "MacEndDownlink",
                "MacUBlck", "MacDBlck"}
Short == {"MacAccess", "MacEndHu"}

\* One layout behind another: the fields of the first are where they were.
LEMMA FieldsBefore ==
  ASSUME NEW without, NEW first, IsLayout(first, without), NEW second, IsLayout(second, without)
  PROVE  /\ Len(first \o second) \in Nat /\ Len(first \o second) >= Len(first)
         /\ \A i \in 1 .. Len(first) : (first \o second)[i] = first[i]
<1>1. PICK S : first \in Seq(S) /\ \A field \in S : IsField(field, without)
  BY FieldsOfLayout
<1>2. PICK T : second \in Seq(T) /\ \A field \in T : IsField(field, without)
  BY FieldsOfLayout
<1>3. first \in Seq(S \cup T) /\ second \in Seq(S \cup T)
  BY <1>1, <1>2
<1>. QED
  BY <1>3, ConcatProperties

\* Layouts that begin with such three fields.
StartsWith(layout, one, two, three) ==
    /\ Len(layout) \in Nat /\ Len(layout) >= 3
    /\ layout[1] = one /\ layout[2] = two /\ layout[3] = three

\* They still do with others behind.
LEMMA Starts ==
  ASSUME NEW first, IsLayout(first, {}), NEW second, IsLayout(second, {}),
         NEW one, NEW two, NEW three, StartsWith(first, one, two, three)
  PROVE  StartsWith(first \o second, one, two, three)
<1>1. 1 \in 1 .. Len(first) /\ 2 \in 1 .. Len(first) /\ 3 \in 1 .. Len(first)
  BY DEF StartsWith
<1>2. /\ Len(first \o second) \in Nat /\ Len(first \o second) >= Len(first)
      /\ \A i \in 1 .. Len(first) : (first \o second)[i] = first[i]
  BY FieldsBefore
<1>3. Len(first \o second) >= 3
  BY <1>2 DEF StartsWith
<1>. QED
  BY <1>1, <1>2, <1>3 DEF StartsWith

\* The first fields of the headers (lines 61-106).
LEMMA FirstFields ==
  ASSUME NEW type \in PduTypes
  PROVE  \E second, third :
            /\ StartsWith(HeaderOf(type), Field("pdu_type", IF type \in Short THEN 1 ELSE 2), second, third)
            /\ IF type \in WithSubtype THEN second = Field("subtype", 1) /\ third = Field("fill_bit_indication", 1)
               ELSE second = Field("fill_bit_indication", 1)
<1>. DEFINE fill == Field("fill_bit_indication", 1)
            subtype == Field("subtype", 1)
            short == Field("pdu_type", 1)
            long == Field("pdu_type", 2)
            Begun(layout, one, two) ==
                \E third : (two = fill \/ third = fill) /\ StartsWith(layout, one, two, third)
<1>0. \A one, two, third : StartsWith(<<one, two, third>>, one, two, third)
  BY DEF StartsWith
<1>1. Begun(MacAccess, short, fill)
  <2>. DEFINE first == <<short, fill, Field("encrypted", 1)>>
              last == << Field("optional_field_flag", 1),
          Optional("request", 1, [optional_field_flag |-> {1}]),
          Optional("length_indication", 5, [request |-> {0}]),
          Optional("fragmentation", 1, [request |-> {1}]),
          Optional("reservation_requirement", 4, [request |-> {1}]) >>
  <2>1. IsLayout(first, {})
    BY DEF IsLayout, IsField, Field
  <2>2. IsLayout(from_mac_access, {})
    BY DEF IsLayout, IsField, Field, Optional, from_mac_access
  <2>3. IsLayout(last, {})
    BY DEF IsLayout, IsField, Field, Optional
  <2>4. MacAccess = (first \o from_mac_access) \o last
    BY DEF MacAccess
  <2>5. StartsWith(first, short, fill, Field("encrypted", 1))
    BY <1>0
  <2>. HIDE DEF first, last
  <2>. QED
    BY ONLY <2>1, <2>2, <2>3, <2>4, <2>5, Starts, Concatenated
<1>2. Begun(MacData, long, fill)
  <2>. DEFINE first == <<long, fill, Field("encrypted", 1)>>
              last == << Field("request", 1),
          Optional("length_indication", 6, [request |-> {0}]),
          Optional("fragmentation", 1, [request |-> {1}]),
          Optional("reservation_requirement", 4, [request |-> {1}]),
          Optional("reserved", 1, [request |-> {1}]) >>
  <2>1. IsLayout(first, {})
    BY DEF IsLayout, IsField, Field
  <2>2. IsLayout(from_mac_data, {})
    BY DEF IsLayout, IsField, Field, Optional, from_mac_access, from_mac_data
  <2>3. IsLayout(last, {})
    BY DEF IsLayout, IsField, Field, Optional
  <2>4. MacData = (first \o from_mac_data) \o last
    BY DEF MacData
  <2>5. StartsWith(first, long, fill, Field("encrypted", 1))
    BY <1>0
  <2>. HIDE DEF first, last
  <2>. QED
    BY ONLY <2>1, <2>2, <2>3, <2>4, <2>5, Starts, Concatenated
<1>3. Begun(MacResource, long, fill)
  <2>. DEFINE first == << long, fill, Field("position_of_grant", 1),
       Field("encryption_mode", 2), Field("random_access_flag", 1), Field("length_indication", 6) >>
              last == Under([address_type |-> 1 .. 7],
             << Field("power_control_flag", 1),
                Optional("power_control_element", 4, [power_control_flag |-> {1}]) >>
             \o SlotGranting \o ChannelAllocation)
  <2>1. IsLayout(first, {})
    BY DEF IsLayout, IsField, Field
  <2>2. IsLayout(from_mac_resource, {})
    BY DEF IsLayout, IsField, Field, Optional, from_mac_resource
  <2>3. IsLayout(last, {})
    <3>1. IsLayout(<< Field("power_control_flag", 1),
                      Optional("power_control_element", 4, [power_control_flag |-> {1}]) >>, {})
      BY DEF IsLayout, IsField, Field, Optional
    <3>2. IsLayout(SlotGranting, {}) /\ IsLayout(ChannelAllocation, {})
      BY Elements
    <3>. QED
      BY ONLY <3>1, <3>2, Concatenated, Conditional
  <2>4. MacResource = (first \o from_mac_resource) \o last
    BY DEF MacResource
  <2>5. StartsWith(first, long, fill, Field("position_of_grant", 1))
    BY DEF StartsWith
  <2>. HIDE DEF first, last
  <2>. QED
    BY ONLY <2>1, <2>2, <2>3, <2>4, <2>5, Starts, Concatenated
<1>4. Begun(MacEndHu, short, fill)
  BY DEF MacEndHu, StartsWith
<1>5. Begun(MacFragment, long, subtype) /\ Begun(MacEndUplink, long, subtype) /\ Begun(MacUBlck, long, subtype)
  BY DEF MacFragment, MacEndUplink, MacUBlck, StartsWith
<1>6. Begun(MacEndDownlink, long, subtype)
  <2>. DEFINE first == << long, subtype, fill, Field("position_of_grant", 1), Field("length_indication", 6) >>
  <2>1. IsLayout(first, {})
    BY DEF IsLayout, IsField, Field
  <2>2. IsLayout(SlotGranting, {}) /\ IsLayout(ChannelAllocation, {})
    BY Elements
  <2>3. MacEndDownlink = (first \o SlotGranting) \o ChannelAllocation
    BY DEF MacEndDownlink
  <2>4. StartsWith(first, long, subtype, fill)
    BY DEF StartsWith
  <2>. HIDE DEF first
  <2>. QED
    BY ONLY <2>1, <2>2, <2>3, <2>4, Starts, Concatenated
<1>7. Begun(MacDBlck, long, subtype)
  <2>. DEFINE first == << long, subtype, fill, Field("encryption_mode", 2), Field("event_label", 10),
                          Field("immediate_napping_permission_flag", 1) >>
  <2>1. IsLayout(first, {})
    BY DEF IsLayout, IsField, Field
  <2>2. IsLayout(SlotGranting, {})
    BY Elements
  <2>3. MacDBlck = first \o SlotGranting
    BY DEF MacDBlck
  <2>4. StartsWith(first, long, subtype, fill)
    BY DEF StartsWith
  <2>. HIDE DEF first
  <2>. QED
    BY ONLY <2>1, <2>2, <2>3, <2>4, Starts
<1>. HIDE DEF Begun
<1>8. Begun(HeaderOf(type), Field("pdu_type", IF type \in Short THEN 1 ELSE 2),
            IF type \in WithSubtype THEN subtype ELSE fill)
  BY <1>1, <1>2, <1>3, <1>4, <1>5, <1>6, <1>7 DEF PduTypes, HeaderOf, Short, WithSubtype
<1>9. subtype # fill
  BY DEF Field
<1>. QED
  BY <1>8, <1>9 DEF Begun

\* A PDU that was sent in these bits, from where the parser has come to.
PduIn(p, burst, info) ==
    /\ p.type \in PdusOf(burst) /\ p.at \in Nat
    /\ IsIn(p, info) /\ HasLength(p, info) /\ p.null = IsNull(p)

\* The types of the PDUs of a burst, and what tells them apart.
LEMMA TypesOfBurst ==
  ASSUME NEW burst \in BurstTypes, NEW type \in PdusOf(burst)
  PROVE  /\ type \in PduTypes
         /\ burst = "ControlUplinkBurst" <=> type \in Short
         /\ type \in {"MacData", "MacFragmentUplink", "MacEndUplink", "MacUBlck"} => is_uplink_burst(burst)
         /\ type \in {"MacResource", "MacFragmentDownlink", "MacEndDownlink", "MacDBlck"} => ~is_uplink_burst(burst)
BY DEF PdusOf, BurstTypes, UplinkBursts, DownlinkBursts, is_uplink_burst, PduTypes, Short

\* The builder takes a PDU for what it is, or refuses it (lines 61-106).
LEMMA TypeFound ==
  ASSUME NEW burst \in BurstTypes, NEW channel,
         channel = "SignallingChannelHalfUplink" <=> burst = "ControlUplinkBurst",
         NEW info \in Seq(Bit), NEW flag \in BOOLEAN, flag => HasOnes(info),
         NEW p, PduIn(p, burst, info), p.at + 3 <= Len(Source(info, flag)),
         NEW view, view = Taken(p.at, View(Source(info, flag), flag))
  PROVE  PduType(burst, channel, view) \in {p.type, "refused"}
<1>. DEFINE type == p.type
            layout == HeaderOf(type)
            at == p.at
            got == Source(info, flag)
            width == IF type \in Short THEN 1 ELSE 2
            v == p.values
<1>1. /\ type \in PduTypes /\ (burst = "ControlUplinkBurst" <=> type \in Short)
      /\ type \in {"MacData", "MacFragmentUplink", "MacEndUplink", "MacUBlck"} => is_uplink_burst(burst)
      /\ type \in {"MacResource", "MacFragmentDownlink", "MacEndDownlink", "MacDBlck"} => ~is_uplink_burst(burst)
  BY TypesOfBurst DEF PduIn
<1>2. IsLayout(layout, Without(type))
  BY <1>1, Headers
<1>3. PICK second, third :
         /\ StartsWith(layout, Field("pdu_type", width), second, third)
         /\ IF type \in WithSubtype THEN second = Field("subtype", 1) /\ third = Field("fill_bit_indication", 1)
            ELSE second = Field("fill_bit_indication", 1)
  BY <1>1, FirstFields
<1>4. /\ got \in Seq(Bit) /\ Len(got) \in Nat /\ Len(got) <= Len(info) /\ Agree(got, info)
  BY SourceFacts
<1>5. at \in Nat /\ Writes(layout, v, info, at) /\ Len(info) \in Nat
      /\ \A name \in DOMAIN TypeFields(type) : v[name] = TypeFields(type)[name]
  BY LenProperties DEF PduIn, IsIn
<1>6. at + 3 <= Len(got) /\ at + 3 <= Len(info)
  <2>1. at + 3 <= Len(got)
    OBVIOUS
  <2>. HIDE DEF at, got
  <2>. QED
    BY <1>4, <1>5, <2>1
<1>. HIDE DEF layout
<1>7. /\ 1 \in 1 .. Len(layout) /\ 2 \in 1 .. Len(layout)
      /\ layout[1] = Field("pdu_type", width)
      /\ type \in WithSubtype => layout[2] = Field("subtype", 1)
      /\ layout[1].when = {} /\ layout[2].when = {}
  BY <1>3 DEF StartsWith, Field
<1>8. layout[1].width = width /\ layout[1].name = "pdu_type" /\ width \in {1, 2}
  BY <1>7 DEF Field
<1>9. v.pdu_type = ToNat(SubSeq(info, at + 1, at + width))
  <2>1. v[layout[1].name] = ToNat(SubSeq(info, at + 1, at + layout[1].width))
    BY <1>2, <1>5, <1>7, FirstField
  <2>. QED
    BY <1>8, <2>1
<1>. HIDE DEF at, got, width, v, type
<1>10. look(width, 0, view) = v.pdu_type
  <2>1. at + width <= Len(info) /\ at + width <= Len(got) /\ width \in Nat
    BY <1>4, <1>5, <1>6, <1>8
  <2>2. look(width, 0, Taken(at, View(got, flag))) = ToNat(SubSeq(info, at + 1, at + width))
    BY <1>4, <1>5, <2>1, LookAsWritten
  <2>. QED
    BY <1>9, <2>2 DEF at, got
<1>11. type \in WithSubtype => look(1, 2, view) = v.subtype
  <2>. SUFFICES ASSUME type \in WithSubtype PROVE look(1, 2, view) = v.subtype
    OBVIOUS
  <2>1. layout[2].width = 1 /\ layout[2].name = "subtype" /\ width = 2
    BY <1>7 DEF Field, width, WithSubtype, Short
  <2>2. v[layout[2].name] = ToNat(SubSeq(info, at + layout[1].width + 1, at + (layout[1].width + layout[2].width)))
    BY <1>2, <1>5, <1>7, SecondField
  <2>3. 2 + 1 = 3 /\ at + 2 + 1 = at + 3
    BY <1>5
  <2>4. v.subtype = ToNat(SubSeq(info, at + 2 + 1, at + 3))
    BY <1>8, <2>1, <2>2, <2>3
  <2>5. at + 2 + 1 <= Len(info) /\ at + 2 + 1 <= Len(got) /\ 1 \in Nat /\ 2 \in Nat
    BY <1>4, <1>5, <1>6
  <2>6. look(1, 2, Taken(at, View(got, flag))) = ToNat(SubSeq(info, at + 2 + 1, at + 2 + 1))
    BY <1>4, <1>5, <2>5, LookBehind
  <2>. QED
    BY <2>3, <2>4, <2>6 DEF at, got
<1>12. /\ type \in {"MacAccess", "MacData", "MacResource"} => v.pdu_type = 0
       /\ type = "MacEndHu" => v.pdu_type = 1
       /\ type \in {"MacFragmentUplink", "MacFragmentDownlink"} => v.pdu_type = 1 /\ v.subtype = 0
       /\ type \in {"MacEndUplink", "MacEndDownlink"} => v.pdu_type = 1 /\ v.subtype = 1
       /\ type \in {"MacUBlck", "MacDBlck"} => v.pdu_type = 3 /\ v.subtype = 0
  BY <1>5 DEF TypeFields
<1>. DEFINE up == is_uplink_burst(burst)
            pdu_type == look(2, 0, view)
            subtype == look(1, 2, view)
<1>13. PduType(burst, channel, view) =
    IF channel = "SignallingChannelHalfUplink"
       THEN IF ~up THEN "refused" ELSE IF look(1, 0, view) = 0 THEN "MacAccess" ELSE "MacEndHu"
       ELSE CASE pdu_type = 0 -> IF up THEN "MacData" ELSE "MacResource"
              [] pdu_type = 1 /\ subtype = 0 ->
                   IF channel = "StealingChannel" THEN "refused"
                   ELSE IF up THEN "MacFragmentUplink" ELSE "MacFragmentDownlink"
              [] pdu_type = 1 /\ subtype = 1 -> IF up THEN "MacEndUplink" ELSE "MacEndDownlink"
              [] pdu_type = 2 -> "refused"
              [] pdu_type = 3 ->
                   IF subtype = 1 \/ channel # "SignallingChannelFull" THEN "refused"
                   ELSE IF up THEN "MacUBlck" ELSE "MacDBlck"
  BY DEF PduType
<1>14. CASE type \in Short
  <2>1. width = 1 /\ channel = "SignallingChannelHalfUplink"
    BY <1>1, <1>14 DEF width
  <2>2. look(1, 0, view) = v.pdu_type
    BY <1>10, <2>1
  <2>3. type \in {"MacAccess", "MacEndHu"}
    BY <1>14 DEF Short
  <2>. HIDE DEF up, pdu_type, subtype
  <2>4. PduType(burst, channel, view) \in {type, "refused"}
    BY <1>12, <1>13, <2>1, <2>2, <2>3
  <2>. QED
    BY <2>4 DEF type
<1>15. CASE type \notin Short
  <2>1. width = 2 /\ channel # "SignallingChannelHalfUplink"
    BY <1>1, <1>15 DEF width
  <2>2. pdu_type = v.pdu_type /\ (type \in WithSubtype => subtype = v.subtype)
    BY <1>10, <1>11, <2>1
  <2>. HIDE DEF pdu_type, subtype
  <2>3. type \in PduTypes \ Short
    BY <1>1, <1>15
  <2>4. PduType(burst, channel, view) \in {type, "refused"}
    BY <1>1, <1>12, <1>13, <2>1, <2>2, <2>3 DEF PduTypes, Short, WithSubtype
  <2>. QED
    BY <2>4 DEF type
<1>. QED
  BY <1>14, <1>15

\* From the last one on, bits look like fill bits.
LEMMA LooksLikeFill ==
  ASSUME NEW info \in Seq(Bit), HasOnes(info), NEW from \in Nat, from = LastOne(info) - 1,
         NEW n \in Nat, 0 < n, from + n <= Len(info)
  PROVE  SubSeq(info, from + 1, from + n) = FillBits(n)
<1>. DEFINE part == SubSeq(info, from + 1, from + n)
            last == LastOne(info)
<1>1. part \in Seq(Bit) /\ Len(part) = n /\ \A i \in 1 .. n : part[i] = info[from + i]
  BY PartOf
<1>2. last \in 1 .. Len(info) /\ IsLastOne(info, last) /\ Len(info) \in Nat
  BY LastOneIs, LenProperties
<1>. HIDE DEF part, last
<1>3. from + 1 = last
  <2>1. from = last - 1
    BY DEF last
  <2>. QED
    BY <1>2, <2>1
<1>4. \A i \in 1 .. n : part[i] = IF i = 1 THEN 1 ELSE 0
  <2>. SUFFICES ASSUME NEW i \in 1 .. n PROVE part[i] = IF i = 1 THEN 1 ELSE 0
    OBVIOUS
  <2>1. CASE i = 1
    BY <1>1, <1>2, <1>3, <2>1 DEF IsLastOne
  <2>2. CASE i # 1
    <3>1. from + i \in last + 1 .. Len(info)
      BY <1>2, <1>3, <2>2
    <3>2. info[from + i] = 0
      BY <1>2, <3>1 DEF IsLastOne
    <3>. QED
      BY <1>1, <2>2, <3>2
  <2>. QED
    BY <2>1, <2>2
<1>5. part = [i \in 1 .. n |-> part[i]]
  BY <1>1, LenProperties
<1>6. part = FillBits(n)
  BY <1>4, <1>5 DEF FillBits
<1>. QED
  BY <1>6 DEF part

\* Where fill bits end the bits, the first of them is the last one.
LEMMA FillEnds ==
  ASSUME NEW info \in Seq(Bit), NEW from \in Nat, NEW n \in Nat, 0 < n, from + n = Len(info),
         SubSeq(info, from + 1, Len(info)) = FillBits(n)
  PROVE  HasOnes(info) /\ LastOne(info) = from + 1
<1>. DEFINE part == SubSeq(info, from + 1, from + n)
<1>1. part \in Seq(Bit) /\ Len(part) = n /\ \A i \in 1 .. n : part[i] = info[from + i]
  BY PartOf
<1>2. part = FillBits(n)
  OBVIOUS
<1>. HIDE DEF part
<1>3. \A i \in 1 .. n : info[from + i] = IF i = 1 THEN 1 ELSE 0
  BY <1>1, <1>2 DEF FillBits
<1>4. from + 1 \in 1 .. Len(info)
  BY LenProperties
<1>5. info[from + 1] = 1
  <2>1. 1 \in 1 .. n
    OBVIOUS
  <2>. QED
    BY <1>3, <2>1
<1>6. \A j \in (from + 1) + 1 .. Len(info) : info[j] = 0
  <2>. SUFFICES ASSUME NEW j \in (from + 1) + 1 .. Len(info) PROVE info[j] = 0
    OBVIOUS
  <2>. DEFINE i == j - from
  <2>1. i \in 1 .. n /\ i # 1 /\ from + i = j
    <3>. DEFINE len == Len(info)
    <3>1. len = from + n /\ j \in (from + 1) + 1 .. len
      OBVIOUS
    <3>. HIDE DEF len
    <3>. QED
      BY <3>1
  <2>. QED
    BY <1>3, <2>1
<1>. DEFINE place == from + 1
<1>7. place \in 1 .. Len(info) /\ IsLastOne(info, place)
  BY <1>4, <1>5, <1>6 DEF IsLastOne
<1>. HIDE DEF place
<1>8. HasOnes(info) /\ LastOne(info) = place
  BY <1>7, OneLastOne
<1>. QED
  BY <1>8 DEF place

\* Two TM-SDUs that differ by less than 8 bits, but for the end of the last PDU, which
\* may be taken for fill bits.
SameSdu(p, m, is_last) ==
    LET common == IF Len(p) < Len(m) THEN Len(p) ELSE Len(m)
    IN /\ SubSeq(p, 1, common) = SubSeq(m, 1, common)
       /\ Len(p) - common < 8 /\ (is_last \/ Len(m) - common < 8)
       /\ SubSeq(m, common + 1, Len(m)) = FillBits(Len(m) - common)

\* The TM-SDU m of a PDU that begins at one place of a block, has a header up to
\* another, and stops at a third, is extracted but for its end, and what is left
\* begins where the PDU stops, or where the fill bits of the block were removed.
Indicates(length, at, behind, stop, all) ==
    /\ length = {} \/ \E n \in Nat : length = {n}
    /\ length = {} => stop = all
    /\ \A n \in length : stop < behind + 8 /\ stop <= at + n /\ (stop = at + n \/ stop = all)

SduSent(info, at, start, size, stop, fill, length, is_last) ==
    /\ start + size <= stop /\ stop <= Len(info)
    /\ SubSeq(info, (start + size) + 1, stop) = FillBits(stop - (start + size))
    /\ fill = IF start + size < stop THEN 1 ELSE 0
    /\ is_last \/ stop < Len(info)
    /\ Indicates(length, at, start + size, stop, Len(info))

SduFits(sdu, m, info, stop, is_last) ==
    /\ SameSdu(sdu.tm_sdu, m, is_last)
    /\ \E after \in BOOLEAN :
          /\ after => HasOnes(info)
          /\ sdu.data = Taken(Least(stop, Len(Source(info, after))), View(Source(info, after), after))

\* The TM-SDU that is found of one that was sent fits it.
LEMMA SduMatches ==
  ASSUME NEW info \in Seq(Bit), NEW flag \in BOOLEAN, flag => HasOnes(info),
         NEW at \in Nat, NEW header \in Nat, NEW start \in Nat, start = at + header,
         start <= Len(Source(info, flag)),
         NEW size \in Nat, NEW stop \in Nat, NEW fill, NEW length, NEW is_last,
         SduSent(info, at, start, size, stop, fill, length, is_last),
         SduOf(info, flag, start, header, fill, length).ok
  PROVE  SduFits(SduOf(info, flag, start, header, fill, length), SubSeq(info, start + 1, start + size),
                 info, stop, is_last)
<1>. DEFINE m == SubSeq(info, start + 1, start + size)
<1>19. /\ start + size <= stop /\ stop <= Len(info)
       /\ SubSeq(info, (start + size) + 1, stop) = FillBits(stop - (start + size))
       /\ fill = IF start + size < stop THEN 1 ELSE 0
       /\ is_last \/ stop < Len(info)
       /\ length = {} \/ \E n \in Nat : length = {n}
       /\ length = {} => stop = Len(info)
       /\ \A n \in length : /\ stop < start + size + 8 /\ stop <= at + n
                            /\ stop = at + n \/ stop = Len(info)
  BY DEF SduSent, Indicates
<1>. HIDE DEF m
<1>. DEFINE sdu == SduOf(info, flag, start, header, fill, length)
<1>0. header <= start /\ start - header = at
  BY start = at + header
<1>00. fill \in {0, 1}
  BY <1>19
<1>18. PICK after \in BOOLEAN, end \in Nat : IsSdu(info, flag, start, header, fill, length, after, end)
  BY <1>00, <1>0, <1>19, TmSduFound
<1>1. /\ after = (flag \/ fill = 1) /\ (after => HasOnes(info))
      /\ start <= end /\ end <= Len(Source(info, after))
      /\ length = {} => end = Len(Source(info, after))
      /\ \A n \in length : /\ end = Least(start - header + n, Len(Source(info, after)))
                           /\ start - header + n < Len(Source(info, after)) + 8
      /\ sdu.tm_sdu = SubSeq(info, start + 1, end)
      /\ sdu.data = Taken(end, View(Source(info, after), after))
  BY <1>18 DEF IsSdu
<1>. HIDE DEF sdu
<1>. DEFINE len == Len(Source(info, after))
            all == Len(info)
            behind == start + size
<1>2. /\ len \in Nat /\ all \in Nat /\ len <= all
      /\ ~after => len = all
      /\ after => len = LastOne(info) - 1
  BY <1>1, SourceFacts, LenProperties
<1>3. /\ start <= end /\ end <= len /\ behind <= stop /\ stop <= all /\ behind \in Nat
      /\ is_last \/ stop < all
      /\ length = {} => end = len /\ stop = all
  <2>1. behind \in Nat
    BY ONLY start \in Nat, size \in Nat
  <2>. QED
    BY <1>1, <1>19, <2>1
<1>4. length = {} \/ \E n \in Nat : length = {n}
  BY <1>19
<1>14. \A n \in length : /\ end = Least(at + n, len) /\ at + n < len + 8
                         /\ stop < behind + 8 /\ stop <= at + n /\ (stop = at + n \/ stop = all)
  <2>. SUFFICES ASSUME NEW n \in length
                PROVE  /\ end = Least(at + n, len) /\ at + n < len + 8
                       /\ stop < behind + 8 /\ stop <= at + n /\ (stop = at + n \/ stop = all)
    OBVIOUS
  <2>1. end = Least(start - header + n, len) /\ start - header + n < len + 8
    BY <1>1
  <2>2. stop < behind + 8 /\ stop <= at + n /\ (stop = at + n \/ stop = all)
    BY <1>19
  <2>. QED
    BY <1>0, <2>1, <2>2
<1>15. behind < stop => after
  <2>1. behind < stop => fill = 1
    BY <1>19
  <2>. QED
    BY <1>1, <2>1
<1>16. SubSeq(info, behind + 1, stop) = FillBits(stop - behind) /\ all = Len(info) /\ behind = start + size
  BY <1>19
<1>. HIDE DEF len, all, behind
\* Where what is left begins.
<1>5. end = Least(stop, len)
  <2>1. CASE length = {}
    BY <1>2, <1>3, <2>1 DEF Least
  <2>2. ASSUME NEW n \in Nat, length = {n} PROVE end = Least(stop, len)
    <3>1. end = Least(at + n, len) /\ stop <= at + n /\ (stop = at + n \/ stop = all)
      BY <1>14, <2>2
    <3>. QED
      BY <1>2, <1>3, <3>1 DEF Least
  <2>. QED
    BY <1>4, <2>1, <2>2
\* Less than 8 bits too many.
<1>6. end - behind < 8
  <2>1. CASE length = {}
    <3>1. CASE behind < stop
      <4>. DEFINE n == stop - behind
      <4>1. n \in Nat /\ 0 < n /\ behind + n = all /\ stop = all
        BY <1>2, <1>3, <2>1, <3>1
      <4>4. SubSeq(info, behind + 1, all) = FillBits(n)
        BY <1>16, <4>1
      <4>. HIDE DEF n
      <4>2. LastOne(info) = behind + 1
        BY <1>3, <1>16, <4>1, <4>4, FillEnds
      <4>3. after
        BY <1>15, <3>1
      <4>5. len = LastOne(info) - 1
        BY <1>2, <4>3
      <4>6. len = behind
        BY <1>3, <4>2, <4>5
      <4>. QED
        BY <1>2, <1>3, <4>6
    <3>2. CASE ~(behind < stop)
      BY <1>2, <1>3, <2>1, <3>2
    <3>. QED
      BY <3>1, <3>2
  <2>2. CASE length # {}
    <3>1. stop < behind + 8
      BY <1>14, <2>2
    <3>. QED
      BY <1>2, <1>3, <1>5, <3>1 DEF Least
  <2>. QED
    BY <2>1, <2>2
\* If the end is missing, it looks like fill bits.
<1>7. end < behind => end = len /\ after
  <2>. SUFFICES ASSUME end < behind PROVE end = len /\ after
    OBVIOUS
  <2>1. end = len /\ len < all
    BY <1>2, <1>3, <1>5 DEF Least
  <2>. QED
    BY <1>2, <2>1
<1>8. end < behind => is_last \/ behind - end < 8
  <2>. SUFFICES ASSUME end < behind, ~is_last PROVE behind - end < 8
    OBVIOUS
  <2>1. stop < all
    BY <1>3
  <2>2. PICK n \in Nat : length = {n}
    BY <1>2, <1>3, <1>4, <2>1
  <2>3. at + n < len + 8 /\ stop <= at + n
    BY <1>14, <2>2
  <2>4. end = len
    BY <1>7
  <2>. QED
    BY <1>2, <1>3, <2>3, <2>4
<1>. DEFINE one == end - start
<1>9. one \in Nat /\ start + one = end /\ end <= all /\ behind <= all
      /\ (one < size <=> end < behind) /\ size - one = behind - end /\ one - size = end - behind
  <2>1. behind = start + size
    BY <1>16
  <2>. QED
    BY <1>2, <1>3, <2>1
<1>17. start + one <= Len(info) /\ start + size <= Len(info)
  BY <1>9, <1>16
<1>10. one < size => SubSeq(info, start + one + 1, start + size) = FillBits(size - one)
  <2>. SUFFICES ASSUME one < size PROVE SubSeq(info, start + one + 1, start + size) = FillBits(size - one)
    OBVIOUS
  <2>. DEFINE n == size - one
  <2>1. n \in Nat /\ 0 < n /\ end + n <= Len(info) /\ end + n = start + size
    <3>1. n \in Nat /\ 0 < n /\ end + n = behind
      BY <1>3, <1>9
    <3>. HIDE DEF n
    <3>. QED
      BY <1>9, <1>16, <3>1
  <2>. HIDE DEF n
  <2>2. HasOnes(info) /\ end = LastOne(info) - 1
    BY <1>1, <1>2, <1>7, <1>9
  <2>3. SubSeq(info, end + 1, end + n) = FillBits(n)
    BY <2>1, <2>2, LooksLikeFill
  <2>. QED
    BY <1>9, <2>1, <2>3 DEF n
<1>. HIDE DEF one
<1>11. Apart(sdu.tm_sdu, m, IF one > size THEN one - size ELSE 0, IF one < size THEN size - one ELSE 0)
  <2>1. sdu.tm_sdu = SubSeq(info, start + 1, start + one)
    BY <1>1, <1>9
  <2>2. Apart(SubSeq(info, start + 1, start + one), SubSeq(info, start + 1, start + size),
              IF one > size THEN one - size ELSE 0, IF one < size THEN size - one ELSE 0)
    BY <1>9, <1>10, <1>17, SameBeginning
  <2>. QED
    BY <2>1, <2>2 DEF m
<1>12. (IF one > size THEN one - size ELSE 0) < 8 /\ (is_last \/ (IF one < size THEN size - one ELSE 0) < 8)
  BY <1>6, <1>8, <1>9
<1>13. SameSdu(sdu.tm_sdu, m, is_last)
  <2>. DEFINE p == sdu.tm_sdu
              more == IF one > size THEN one - size ELSE 0
              less == IF one < size THEN size - one ELSE 0
  <2>. HIDE DEF p, more, less
  <2>. QED
    BY <1>11, <1>12 DEF SameSdu, Apart, p, more, less
<1>. QED
  BY <1>1, <1>5, <1>13 DEF SduFits, len, sdu, m

\* The header of a MAC-RESOURCE has a length indication.
LEMMA ResourceHasLength ==
  ASSUME NEW v
  PROVE  "length_indication" \in Fields(MacResource, v)
<1>. DEFINE first == << Field("pdu_type", 2), Field("fill_bit_indication", 1), Field("position_of_grant", 1),
                        Field("encryption_mode", 2), Field("random_access_flag", 1), Field("length_indication", 6) >>
            last == Under([address_type |-> 1 .. 7],
             << Field("power_control_flag", 1),
                Optional("power_control_element", 4, [power_control_flag |-> {1}]) >>
             \o SlotGranting \o ChannelAllocation)
<1>1. IsLayout(first, {})
  BY DEF IsLayout, IsField, Field
<1>2. IsLayout(from_mac_resource, {})
  BY DEF IsLayout, IsField, Field, Optional, from_mac_resource
<1>3. IsLayout(last, {})
  <2>1. IsLayout(<< Field("power_control_flag", 1),
                    Optional("power_control_element", 4, [power_control_flag |-> {1}]) >>, {})
    BY DEF IsLayout, IsField, Field, Optional
  <2>2. IsLayout(SlotGranting, {}) /\ IsLayout(ChannelAllocation, {})
    BY Elements
  <2>. QED
    BY ONLY <2>1, <2>2, Concatenated, Conditional
<1>4. Len(first) = 6 /\ first[6] = Field("length_indication", 6)
  OBVIOUS
<1>5. MacResource = (first \o from_mac_resource) \o last
  BY DEF MacResource
<1>. HIDE DEF first, last
<1>6. IsLayout(first \o from_mac_resource, {}) /\ IsLayout(MacResource, {})
  BY <1>1, <1>2, <1>3, <1>5, Concatenated
<1>7. /\ Len(first \o from_mac_resource) \in Nat /\ Len(first \o from_mac_resource) >= Len(first)
      /\ \A i \in 1 .. Len(first) : (first \o from_mac_resource)[i] = first[i]
  BY <1>1, <1>2, FieldsBefore
<1>8. /\ Len(MacResource) \in Nat /\ Len(MacResource) >= Len(first \o from_mac_resource)
      /\ \A i \in 1 .. Len(first \o from_mac_resource) : MacResource[i] = (first \o from_mac_resource)[i]
  BY <1>3, <1>5, <1>6, FieldsBefore
<1>9. 6 \in 1 .. Len(MacResource) /\ MacResource[6] = Field("length_indication", 6)
  BY <1>4, <1>7, <1>8
<1>10. MacResource[6].when = {} /\ MacResource[6].name = "length_indication"
  BY <1>9 DEF Field
<1>. QED
  BY <1>6, <1>9, <1>10, FieldIsThere

\* What holds of the header of a PDU that is in some bits.
LEMMA HeaderFacts ==
  ASSUME NEW burst \in BurstTypes, NEW info \in Seq(Bit), NEW p, PduIn(p, burst, info)
  PROVE  /\ p.type \in PduTypes /\ IsLayout(HeaderOf(p.type), Without(p.type))
         /\ HeaderEnd(p) = p.at + Width(HeaderOf(p.type), p.values)
         /\ Width(HeaderOf(p.type), p.values) \in Nat /\ HeaderEnd(p) \in Nat /\ p.at + 1 <= HeaderEnd(p)
         /\ HeaderEnd(p) <= SduEnd(p) /\ SduEnd(p) \in Nat /\ p.end \in Nat /\ SduEnd(p) <= p.end /\ p.end <= Len(info)
         /\ "fill_bit_indication" \in Fields(HeaderOf(p.type), p.values)
         /\ p.type = "MacResource" => "length_indication" \in Fields(HeaderOf(p.type), p.values)
<1>. DEFINE layout == HeaderOf(p.type)
            v == p.values
            width == Width(layout, v)
<1>1. p.type \in PduTypes
  BY TypesOfBurst DEF PduIn
<1>2. IsLayout(layout, Without(p.type))
  BY <1>1, Headers
<1>3. PICK second, third :
         /\ StartsWith(layout, Field("pdu_type", IF p.type \in Short THEN 1 ELSE 2), second, third)
         /\ IF p.type \in WithSubtype THEN second = Field("subtype", 1) /\ third = Field("fill_bit_indication", 1)
            ELSE second = Field("fill_bit_indication", 1)
  BY <1>1, FirstFields
<1>4. p.type = "MacResource" => layout = MacResource
  BY DEF HeaderOf
<1>5. p.type = "MacResource" => "length_indication" \in Fields(layout, v)
  BY <1>4, ResourceHasLength
<1>. HIDE DEF layout
<1>6. /\ 1 \in 1 .. Len(layout) /\ 2 \in 1 .. Len(layout) /\ 3 \in 1 .. Len(layout)
      /\ layout[1].when = {} /\ layout[1].name = "pdu_type" /\ layout[1].width >= 1 /\ layout[1].width \in Nat
      /\ layout[2] = Field("fill_bit_indication", 1) \/ layout[3] = Field("fill_bit_indication", 1)
  BY <1>3 DEF StartsWith, Field
<1>7. "fill_bit_indication" \in Fields(layout, v)
  <2>1. \A i \in {2, 3} : layout[i] = Field("fill_bit_indication", 1) =>
           layout[i].when = {} /\ layout[i].name = "fill_bit_indication"
    BY DEF Field
  <2>. QED
    BY <1>2, <1>6, <2>1, FieldIsThere
<1>8. width \in Nat /\ 1 <= width
  <2>. DEFINE laid == Laid(layout, v)
  <2>1. /\ laid[0] = LaidFirst /\ laid[1] = LaidStep(layout, v, 1, laid[0])
    <3>1. 1 - 1 = 0
      OBVIOUS
    <3>. QED
      BY <1>2, <1>6, <3>1, LaidFacts
  <2>2. laid[1].width <= width /\ width \in Nat
    <3>1. 1 \in 0 .. Len(layout)
      BY <1>2, <1>6 DEF IsLayout
    <3>. QED
      BY <1>2, <3>1, LaidGrows
  <2>. HIDE DEF laid, width
  <2>3. laid[1].width = layout[1].width
    BY <1>6, <2>1 DEF LaidFirst, LaidStep, IsPresent
  <2>. QED
    BY <1>6, <2>2, <2>3
<1>9. p.at \in Nat /\ p.sdu \in Seq({0, 1}) /\ p.end \in SduEnd(p) .. Len(info)
  BY DEF PduIn, IsIn
<1>10. HeaderEnd(p) = p.at + width /\ SduEnd(p) = HeaderEnd(p) + Len(p.sdu)
  BY DEF HeaderEnd, SduEnd, layout
<1>11. Len(p.sdu) \in Nat /\ Len(info) \in Nat
  BY <1>9, LenProperties
<1>. HIDE DEF v, width
<1>12. /\ HeaderEnd(p) \in Nat /\ p.at + 1 <= HeaderEnd(p)
       /\ HeaderEnd(p) <= SduEnd(p) /\ SduEnd(p) \in Nat
  BY <1>8, <1>9, <1>10, <1>11
<1>13. p.end \in Nat /\ SduEnd(p) <= p.end /\ p.end <= Len(info)
  BY <1>9, <1>11, <1>12
<1>. QED
  BY <1>1, <1>2, <1>5, <1>7, <1>8, <1>10, <1>12, <1>13 DEF layout, v, width

\* The packet that is made of the fields of a PDU is what it means, but for the TM-SDU.
LEMMA PacketFound ==
  ASSUME NEW p, p.type = "MacResource" => "length_indication" \in DOMAIN FieldsOf(p), NEW tm_sdu
  PROVE  /\ Packet(p.type, FieldsOf(p), tm_sdu).tm_sdu = tm_sdu
         /\ Packet(p.type, FieldsOf(p), tm_sdu).type = p.type
         /\ Packet(p.type, FieldsOf(p), tm_sdu).address = AddressOf(FieldsOf(p))
         /\ MeaningOf(p).tm_sdu = IF p.null THEN {} ELSE {p.sdu}
         /\ [Packet(p.type, FieldsOf(p), tm_sdu) EXCEPT !.tm_sdu = {}] = [MeaningOf(p) EXCEPT !.tm_sdu = {}]
<1>. DEFINE v == FieldsOf(p)
            whole == \/ Has(v, "fragmentation", {1})
                     \/ p.type = "MacResource" /\ Has(v, "length_indication", {63})
            here == \/ Has(v, "fragmentation", {1})
                    \/ p.type = "MacResource" /\ v.length_indication = 63
            stealing == p.type = "MacData" /\ Has(v, "length_indication", {63})
<1>1. whole = here
  BY DEF Has
<1>2. Packet(p.type, v, tm_sdu) = [type |-> p.type, address |-> AddressOf(v), tm_sdu |-> tm_sdu,
                                   fragmentation |-> here, fragmentation_on_stealing_channel |-> stealing]
  BY DEF Packet
<1>3. MeaningOf(p) = [type |-> p.type, address |-> AddressOf(v), tm_sdu |-> IF p.null THEN {} ELSE {p.sdu},
                      fragmentation |-> whole, fragmentation_on_stealing_channel |-> stealing]
  BY DEF MeaningOf
<1>. HIDE DEF v, whole, here, stealing
<1>4. /\ Packet(p.type, v, tm_sdu).tm_sdu = tm_sdu /\ Packet(p.type, v, tm_sdu).type = p.type
      /\ Packet(p.type, v, tm_sdu).address = AddressOf(v)
      /\ MeaningOf(p).tm_sdu = IF p.null THEN {} ELSE {p.sdu}
      /\ [Packet(p.type, v, tm_sdu) EXCEPT !.tm_sdu = {}] = [MeaningOf(p) EXCEPT !.tm_sdu = {}]
  BY <1>1, <1>2, <1>3
<1>. QED
  BY <1>4 DEF v

\* A PDU that is looked for where it is: its packet is what was sent, but for fill
\* bits, and unless it is the last of the block what is left begins behind it.
IsPdu(parsed, p, info, is_last) ==
    /\ SameButForFill(parsed.packet, MeaningOf(p), is_last)
    /\ \/ is_null_pdu(parsed.packet)
       \/ \E after \in BOOLEAN :
             /\ after => HasOnes(info)
             /\ parsed.data = Taken(Least(p.end, Len(Source(info, after))), View(Source(info, after), after))

\* Its header is read as it was written.
LEMMA HeaderRead ==
  ASSUME NEW burst \in BurstTypes, NEW info \in Seq(Bit), NEW flag \in BOOLEAN, flag => HasOnes(info),
         NEW p, PduIn(p, burst, info), p.at <= Len(Source(info, flag)),
         NEW header, header = Read(HeaderOf(p.type), Taken(p.at, View(Source(info, flag), flag))), header.ok
  PROVE  /\ HeaderEnd(p) <= Len(Source(info, flag))
         /\ header.value = FieldsOf(p) /\ header.data = Taken(HeaderEnd(p), View(Source(info, flag), flag))
         /\ \A name \in DOMAIN FieldsOf(p) : FieldsOf(p)[name] \in Nat /\ name \notin Without(p.type)
         /\ bits_left(Taken(p.at, View(Source(info, flag), flag))) - bits_left(header.data)
               = Width(HeaderOf(p.type), p.values)
<1>. DEFINE got == Source(info, flag)
            layout == HeaderOf(p.type)
            width == Width(layout, p.values)
            view == Taken(p.at, View(got, flag))
<1>1. /\ p.type \in PduTypes /\ IsLayout(layout, Without(p.type))
      /\ HeaderEnd(p) = p.at + width /\ width \in Nat
  BY HeaderFacts
<1>2. got \in Seq(Bit) /\ Len(got) \in Nat /\ Agree(got, info)
  BY SourceFacts
<1>3. p.at \in Nat /\ Writes(layout, p.values, info, p.at)
  BY DEF PduIn, IsIn
<1>4. p.at <= Len(got)
  OBVIOUS
<1>. HIDE DEF got, layout
<1>5. IF p.at + width <= Len(got)
      THEN Read(layout, view) = [ok |-> TRUE, value |-> Only(p.values, Fields(layout, p.values)),
                                 data |-> Taken(p.at + width, View(got, flag))]
      ELSE ~Read(layout, view).ok
  BY <1>1, <1>2, <1>3, <1>4, ReadsAsWritten
<1>6. header = Read(layout, view)
  BY DEF got, layout
<1>7. p.at + width <= Len(got)
  BY <1>5, <1>6
<1>8. header.value = Only(p.values, Fields(layout, p.values)) /\ header.data = Taken(p.at + width, View(got, flag))
  BY <1>5, <1>6, <1>7
<1>9. header.value = FieldsOf(p)
  BY <1>8 DEF FieldsOf, layout
<1>10. \A name \in DOMAIN header.value : header.value[name] \in Nat /\ name \notin Without(p.type)
  <2>1. view \in BitVecs
    <3>1. View(got, flag) \in BitVecs /\ p.at <= bits_left(View(got, flag))
      BY <1>2, <1>4 DEF View, BitVecs, bits_left
    <3>. QED
      BY <1>3, <3>1, PartTaken
  <2>. HIDE DEF view
  <2>. QED
    BY <1>1, <1>6, <2>1, ReadTakes
<1>11. bits_left(view) - bits_left(header.data) = width
  <2>1. bits_left(view) = Len(got) - p.at
    <3>1. p.at + 0 <= Len(got) /\ 0 \in Nat
      BY <1>2, <1>3, <1>4
    <3>. QED
      BY <1>2, <1>3, <3>1, TakenTwice
  <2>. DEFINE end == p.at + width
  <2>2. bits_left(Taken(end, View(got, flag))) = Len(got) - end
    <3>1. end \in Nat /\ end + 0 <= Len(got) /\ 0 \in Nat
      BY <1>1, <1>2, <1>3, <1>7
    <3>. HIDE DEF end
    <3>. QED
      BY <1>2, <3>1, TakenTwice
  <2>. HIDE DEF width, view
  <2>3. bits_left(view) - bits_left(header.data) = (Len(got) - p.at) - (Len(got) - (p.at + width))
    BY <1>8, <2>1, <2>2
  <2>. QED
    BY <1>1, <1>2, <1>3, <2>3 DEF width
<1>. QED
  BY <1>1, <1>7, <1>8, <1>9, <1>10, <1>11 DEF got, layout, width, view

\* What the length indication says of where the PDU ends.
LEMMA IndicatedEnd ==
  ASSUME NEW burst \in BurstTypes, NEW info \in Seq(Bit), NEW p, PduIn(p, burst, info), ~p.null,
         \A name \in DOMAIN FieldsOf(p) : FieldsOf(p)[name] \in Nat /\ name \notin Without(p.type)
  PROVE  Indicates(Length(p.type, FieldsOf(p)), p.at, SduEnd(p), p.end, Len(info))
<1>. DEFINE length == Length(p.type, FieldsOf(p))
<1>. DEFINE v == FieldsOf(p)
            says == Has(v, "length_indication", LengthsOf(p.type))
            indication == v.length_indication
<1>1. p.type \in PduTypes /\ p.at \in Nat /\ p.end \in Nat /\ SduEnd(p) \in Nat
  BY HeaderFacts DEF PduIn
<1>2. /\ says => length = {8 * indication} /\ indication \in Nat
      /\ ~says => length = {}
  BY <1>1, LengthFound DEF Has
<1>3. HasLength(p, info)
  BY DEF PduIn
<1>4. CASE p.indicated
  <2>1. /\ says /\ indication = (p.end - p.at + 7) \div 8
        /\ p.end = p.at + 8 * indication \/ p.end = Len(info)
        /\ p.end < SduEnd(p) + 8
    BY <1>3, <1>4 DEF HasLength
  <2>2. indication \in Nat /\ length = {8 * indication}
    BY <1>2, <2>1
  <2>. HIDE DEF says, indication, length
  <2>3. p.end <= p.at + 8 * indication
    BY <1>1, <2>1, <2>2
  <2>4. 8 * indication \in Nat
    BY <2>2
  <2>. QED
    BY <2>1, <2>2, <2>3, <2>4 DEF Indicates, length
<1>5. CASE ~p.indicated
  <2>1. p.end = Len(info) /\ ~says
    BY <1>3, <1>5 DEF HasLength
  <2>. HIDE DEF says, length
  <2>. QED
    BY <1>2, <2>1 DEF Indicates, length
<1>. QED
  BY <1>4, <1>5

\* What the parser makes of a PDU from where it was sent (lines 61-528).
LEMMA OnePdu ==
  ASSUME NEW burst \in BurstTypes, NEW channel,
         channel = "SignallingChannelHalfUplink" <=> burst = "ControlUplinkBurst",
         NEW info \in Seq(Bit), NEW flag \in BOOLEAN, flag => HasOnes(info),
         NEW p, PduIn(p, burst, info), p.at + 3 <= Len(Source(info, flag)),
         NEW is_last \in BOOLEAN, is_last \/ p.end < Len(info),
         NEW view, view = Taken(p.at, View(Source(info, flag), flag)),
         parse_c_plane_signalling_packet(burst, channel, view).ok
  PROVE  IsPdu(parse_c_plane_signalling_packet(burst, channel, view), p, info, is_last)
<1>. DEFINE parsed == parse_c_plane_signalling_packet(burst, channel, view)
            type == PduType(burst, channel, view)
            header == Read(HeaderOf(type), view)
            v == FieldsOf(p)
            null == Packet(type, header.value, {})
            length == Length(type, header.value)
            taken == bits_left(view) - bits_left(header.data)
            sdu == extract_tm_sdu(header.data, taken, header.value.fill_bit_indication, length)
<1>1. type \in {p.type, "refused"}
  BY TypeFound
<1>2. parsed =
    IF type = "refused" \/ ~header.ok THEN [ok |-> FALSE]
    ELSE IF type \in {"MacAccess", "MacData"} /\ Has(header.value, "length_indication", {0})
    THEN [ok |-> TRUE, packet |-> null, data |-> header.data]
    ELSE IF type = "MacResource" /\ AddressOf(header.value) = NoAddress
    THEN IF CanRemoveFillBits(header.data)
         THEN [ok |-> TRUE, packet |-> null, data |-> remove_fill_bits(header.data)]
         ELSE [ok |-> FALSE]
    ELSE IF sdu.ok
    THEN [ok |-> TRUE, packet |-> Packet(type, header.value, {sdu.tm_sdu}), data |-> sdu.data]
    ELSE [ok |-> FALSE]
  BY DEF parse_c_plane_signalling_packet
<1>3. parsed.ok
  OBVIOUS
<1>. HIDE DEF parsed, type, header, null, length, taken, sdu
<1>4. type = p.type /\ header.ok
  BY <1>1, <1>2, <1>3
<1>. DEFINE got == Source(info, flag)
            width == Width(HeaderOf(p.type), p.values)
<1>5. Len(got) \in Nat /\ p.at \in Nat /\ p.at <= Len(got) /\ got \in Seq(Bit)
  <2>1. Len(got) \in Nat /\ got \in Seq(Bit)
    BY SourceFacts
  <2>2. p.at \in Nat /\ p.at + 3 <= Len(got)
    BY DEF PduIn
  <2>. QED
    BY <2>1, <2>2
<1>6. /\ HeaderEnd(p) <= Len(got) /\ header.value = v /\ header.data = Taken(HeaderEnd(p), View(got, flag))
      /\ \A name \in DOMAIN v : v[name] \in Nat /\ name \notin Without(p.type)
      /\ taken = width
  <2>1. header = Read(HeaderOf(p.type), Taken(p.at, View(Source(info, flag), flag)))
    BY <1>4 DEF header
  <2>. QED
    BY <1>4, <1>5, <2>1, HeaderRead DEF taken
<1>7. /\ HeaderEnd(p) = p.at + width /\ width \in Nat /\ HeaderEnd(p) \in Nat
      /\ SduEnd(p) \in Nat /\ p.end \in Nat /\ SduEnd(p) <= p.end /\ p.end <= Len(info)
      /\ "fill_bit_indication" \in Fields(HeaderOf(p.type), p.values)
      /\ p.type = "MacResource" => "length_indication" \in Fields(HeaderOf(p.type), p.values)
  BY HeaderFacts
<1>8. DOMAIN v = Fields(HeaderOf(p.type), p.values) /\ v.fill_bit_indication = p.values.fill_bit_indication
  BY <1>7 DEF FieldsOf, Only
<1>9. p.null = IsNull(p)
  BY DEF PduIn
<1>10. \A tm_sdu :
         /\ Packet(p.type, v, tm_sdu).tm_sdu = tm_sdu
         /\ Packet(p.type, v, tm_sdu).type = p.type
         /\ Packet(p.type, v, tm_sdu).address = AddressOf(v)
         /\ MeaningOf(p).tm_sdu = IF p.null THEN {} ELSE {p.sdu}
         /\ [Packet(p.type, v, tm_sdu) EXCEPT !.tm_sdu = {}] = [MeaningOf(p) EXCEPT !.tm_sdu = {}]
  BY <1>7, <1>8, PacketFound
<1>11. CASE p.null
  <2>1. parsed.packet = Packet(p.type, v, {})
    BY <1>2, <1>3, <1>4, <1>6, <1>9, <1>11 DEF IsNull, null
  <2>. DEFINE packet == Packet(p.type, v, {})
  <2>4. /\ packet.tm_sdu = {} /\ packet.type = p.type /\ packet.address = AddressOf(v)
        /\ MeaningOf(p).tm_sdu = {}
        /\ [packet EXCEPT !.tm_sdu = {}] = [MeaningOf(p) EXCEPT !.tm_sdu = {}]
    BY <1>10, <1>11
  <2>5. \/ p.type = "MacResource" /\ AddressOf(v) = NoAddress
        \/ p.type \in {"MacAccess", "MacData"}
    BY <1>9, <1>11 DEF IsNull
  <2>. HIDE DEF packet
  <2>2. is_null_pdu(parsed.packet)
    BY <2>1, <2>4, <2>5 DEF is_null_pdu, packet
  <2>3. SameButForFill(parsed.packet, MeaningOf(p), is_last)
    <3>1. SameButForFill(packet, MeaningOf(p), is_last)
      BY <2>4 DEF SameButForFill
    <3>. QED
      BY <2>1, <3>1 DEF packet
  <2>. QED
    BY <2>2, <2>3 DEF IsPdu, parsed
<1>12. CASE ~p.null
  <2>1. sdu.ok /\ parsed.packet = Packet(p.type, v, {sdu.tm_sdu}) /\ parsed.data = sdu.data
    BY <1>2, <1>3, <1>4, <1>6, <1>9, <1>12 DEF IsNull
  <2>. DEFINE fill == v.fill_bit_indication
              start == HeaderEnd(p)
              size == Len(p.sdu)
  <2>2. sdu = SduOf(info, flag, start, width, fill, length)
    BY <1>4, <1>6 DEF sdu, SduOf
  <2>3. Indicates(length, p.at, SduEnd(p), p.end, Len(info))
    <3>1. length = Length(p.type, FieldsOf(p))
      BY <1>4, <1>6 DEF length
    <3>. HIDE DEF v
    <3>2. \A name \in DOMAIN FieldsOf(p) : FieldsOf(p)[name] \in Nat /\ name \notin Without(p.type)
      BY <1>6 DEF v
    <3>. QED
      BY <1>12, <3>1, <3>2, IndicatedEnd
  <2>4. /\ p.sdu \in Seq(Bit) /\ p.sdu = SubSeq(info, start + 1, SduEnd(p))
        /\ SubSeq(info, SduEnd(p) + 1, p.end) = FillBits(p.end - SduEnd(p))
        /\ fill = IF SduEnd(p) < p.end THEN 1 ELSE 0
    BY <1>8 DEF PduIn, IsIn, Bit
  <2>5. SduEnd(p) = start + size /\ size \in Nat /\ start = p.at + width
    BY <1>7, <2>4, LenProperties DEF SduEnd
  <2>. HIDE DEF fill, start, size, width
  <2>8. SduSent(info, p.at, start, size, p.end, fill, length, is_last)
    BY <1>7, <2>3, <2>4, <2>5 DEF SduSent
  <2>9. p.sdu = SubSeq(info, start + 1, start + size)
    BY <2>4, <2>5
  <2>6. SduFits(sdu, p.sdu, info, p.end, is_last)
    <3>1. start <= Len(Source(info, flag)) /\ start \in Nat /\ width \in Nat
      BY <1>6, <1>7 DEF start, width
    <3>2. SduOf(info, flag, start, width, fill, length).ok
      BY <2>1, <2>2
    <3>4. p.at \in Nat /\ p.end \in Nat
      BY <1>5, <1>7
    <3>5. ASSUME NEW at \in Nat, NEW stop \in Nat, start = at + width,
                 SduSent(info, at, start, size, stop, fill, length, is_last)
          PROVE  SduFits(SduOf(info, flag, start, width, fill, length), SubSeq(info, start + 1, start + size),
                         info, stop, is_last)
      BY ONLY <2>5, <3>5, <3>1, <3>2, SduMatches, info \in Seq(Bit), flag \in BOOLEAN,
              flag => HasOnes(info), is_last \in BOOLEAN
    <3>3. SduFits(SduOf(info, flag, start, width, fill, length), SubSeq(info, start + 1, start + size),
                  info, p.end, is_last)
      BY ONLY <2>5, <2>8, <3>4, <3>5
    <3>. QED
      BY <2>2, <2>9, <3>3
  <2>7. SameButForFill(parsed.packet, MeaningOf(p), is_last)
    <3>. DEFINE packet == Packet(p.type, v, {sdu.tm_sdu})
    <3>1. packet.tm_sdu = {sdu.tm_sdu} /\ MeaningOf(p).tm_sdu = {p.sdu}
          /\ [packet EXCEPT !.tm_sdu = {}] = [MeaningOf(p) EXCEPT !.tm_sdu = {}]
      BY <1>10, <1>12
    <3>. HIDE DEF packet
    <3>2. SameButForFill(packet, MeaningOf(p), is_last)
      BY <2>6, <3>1 DEF SduFits, SameButForFill, SameSdu
    <3>. QED
      BY <2>1, <3>2 DEF packet
  <2>. QED
    BY <2>1, <2>6, <2>7 DEF SduFits, IsPdu, parsed
<1>. QED
  BY <1>11, <1>12

-----------------------------------------------------------------------------
(* The PDUs of a block, one behind the other.                              *)

\* What a block holds besides its CRC.
InfoOf(burst, i) == SubSeq(burst.blocks[BlockOf(burst, i)].bits, 1, Coding(burst.burst_type, BlockOf(burst, i)).data)

\* A slot of signalling whose block came undamaged holds what was sent.
LEMMA SlotAsSent ==
  ASSUME NEW burst \in Bursts, NEW i, NEW this, InPlace(this, burst, i, burst.cell),
         this.channel # "TrafficChannel", burst.blocks[BlockOf(burst, i)].changed = {}
  PROVE  this.data = View(InfoOf(burst, i), FALSE)
<1>. DEFINE block == BlockOf(burst, i)
            type == burst.burst_type
            n == Coding(type, block).data
            info == SubSeq(burst.blocks[block].bits, 1, n)
            bits == Decoded(burst, block, burst.cell)
            channel == this.channel
<1>1. HasBlocks(burst)
  BY BlocksAssumption
<1>2. block \in BlocksOf(type) /\ burst.cell = ScrambledWith(burst, block)
  BY DEF InPlace, ScrambledWith
<1>3. bits = burst.blocks[block].bits
  BY <1>1, <1>2, UndamagedBits
<1>4. this = [channel |-> channel, data |-> BitVec(SubSeq(bits, 1, n)),
              crc_ok |-> check_crc_16_ccitt(SubSeq(bits, 1, n + 16))]
  <2>1. this = ChannelData(burst, channel, block, burst.cell) /\ channel # "TrafficChannel"
    BY DEF InPlace
  <2>. HIDE DEF channel, block
  <2>. QED
    BY <2>1 DEF ChannelData
<1>5. this.data = BitVec(info)
  <2>. HIDE DEF n, bits, channel
  <2>. QED
    BY <1>3, <1>4
<1>. QED
  BY <1>5 DEF BitVec, View, InfoOf

\* It is bits.
LEMMA InfoIsBits ==
  ASSUME NEW burst \in Bursts, NEW i, BlockOf(burst, i) \in BlocksOf(burst.burst_type)
  PROVE  InfoOf(burst, i) \in Seq(Bit)
BY BlocksAssumption DEF HasBlocks, InfoOf, Bit

\* PDUs in the bits of a block, one behind the other, and fill bits.
PdusIn(pdus, type, info) ==
    LET rest == Begins(pdus, Len(pdus) + 1) IN
    /\ Len(pdus) \in Nat /\ rest \in Nat /\ rest <= Len(info)
    /\ SubSeq(info, rest + 1, Len(info)) = FillBits(Len(info) - rest)
    /\ \A k \in 1 .. Len(pdus) : PduIn(pdus[k], type, info) /\ pdus[k].at = Begins(pdus, k)

\* Those of a block that the code knows are there, and are what the sender meant.
LEMMA PdusOfBlock ==
  ASSUME NEW burst \in Bursts, NEW i, BlockOf(burst, i) \in BlocksOf(burst.burst_type),
         KnownPdus(burst, i), NEW pdus \in burst.blocks[BlockOf(burst, i)].pdus
  PROVE  /\ PdusIn(pdus, burst.burst_type, InfoOf(burst, i))
         /\ Len(Meant(burst, i).c_plane) = Len(pdus)
         /\ \A k \in 1 .. Len(pdus) : Meant(burst, i).c_plane[k] = MeaningOf(pdus[k])
<1>. DEFINE name == BlockOf(burst, i)
            block == burst.blocks[name]
            type == burst.burst_type
            info == InfoOf(burst, i)
            meant == block.meant.c_plane
            n == Len(pdus)
<1>1. HasBlocks(burst) /\ HasPdus(burst)
  BY BlocksAssumption, PdusAssumption
<1>2. name \in DOMAIN burst.blocks /\ type \in BurstTypes /\ info \in Seq(Bit)
  BY <1>1, InfoIsBits DEF HasBlocks, BurstTypes
<1>3. /\ \A k \in 1 .. n : pdus[k].type \in PdusOf(type)
      /\ SentPdus(pdus, info, meant)
  BY <1>1, <1>2 DEF HasPdus, KnownPdus, InfoOf
<1>. HIDE DEF name, info, meant
<1>4. /\ n \in Nat /\ Len(meant) = n
      /\ \A k \in 1 .. n :
            /\ pdus[k].at = Begins(pdus, k)
            /\ IsIn(pdus[k], info) /\ HasLength(pdus[k], info)
            /\ pdus[k].null = IsNull(pdus[k])
            /\ meant[k] = MeaningOf(pdus[k])
      /\ SubSeq(info, Begins(pdus, n + 1) + 1, Len(info)) = FillBits(Len(info) - Begins(pdus, n + 1))
  BY <1>3 DEF SentPdus
<1>. HIDE DEF n
<1>. DEFINE S == {k \in 0 .. n : Begins(pdus, k + 1) \in Nat /\ Begins(pdus, k + 1) <= Len(info)}
<1>5. \A k \in 1 .. n : Begins(pdus, k) \in Nat => PduIn(pdus[k], type, info)
  BY <1>3, <1>4 DEF PduIn
<1>6. \A k \in 0 .. n : k \in S
  <2>1. 0 \in S
    <3>1. Begins(pdus, 0 + 1) = 0 /\ Len(info) \in Nat
      BY <1>2, LenProperties DEF Begins
    <3>. QED
      BY <1>4, <3>1
  <2>2. ASSUME NEW k \in 1 .. n, k - 1 \in S PROVE k \in S
    <3>1. (k - 1) + 1 = k /\ k + 1 # 1 /\ (k + 1) - 1 = k
      BY <1>4
    <3>2. Begins(pdus, k) \in Nat
      BY <2>2, <3>1
    <3>3. PduIn(pdus[k], type, info)
      BY <1>5, <3>2
    <3>4. pdus[k].end \in Nat /\ pdus[k].end <= Len(info)
      BY <1>2, <3>3, HeaderFacts
    <3>5. Begins(pdus, k + 1) = pdus[k].end
      BY <3>1 DEF Begins
    <3>. QED
      BY <1>4, <3>4, <3>5
  <2>. HIDE DEF S
  <2>. QED
    BY <1>4, <2>1, <2>2, Induction
<1>7. \A k \in 0 .. n : Begins(pdus, k + 1) \in Nat /\ Begins(pdus, k + 1) <= Len(info)
  BY <1>6
<1>8. \A k \in 1 .. n : Begins(pdus, k) \in Nat
  <2>1. \A k \in 1 .. n : k - 1 \in 0 .. n /\ (k - 1) + 1 = k
    BY <1>4
  <2>. QED
    BY <1>7, <2>1
<1>9. Begins(pdus, n + 1) \in Nat /\ Begins(pdus, n + 1) <= Len(info)
  BY <1>4, <1>7
<1>10. PdusIn(pdus, type, info)
  BY <1>4, <1>5, <1>8, <1>9 DEF PdusIn, n
<1>. QED
  BY <1>4, <1>10 DEF Meant, meant, n, name, info

\* What is left behind the bits up to some place, or none.
LeftFrom(at, info, flag) == Taken(Least(at, Len(Source(info, flag))), View(Source(info, flag), flag))

\* What the parser loop needs of it to go on.
LEMMA EnoughLeft ==
  ASSUME NEW type, NEW channel, NEW info \in Seq(Bit), NEW flag \in BOOLEAN, flag => HasOnes(info),
         NEW at \in Nat, NEW view, view = LeftFrom(at, info, flag), HasNextPdu(type, channel, view)
  PROVE  at + 16 <= Len(Source(info, flag)) /\ view = Taken(at, View(Source(info, flag), flag))
<1>. DEFINE got == Source(info, flag)
            n == Len(got)
            from == Least(at, n)
<1>1. n \in Nat /\ got \in Seq(Bit)
  BY SourceFacts
<1>2. view = Taken(from, View(got, flag))
  BY DEF LeftFrom
<1>. HIDE DEF got, n
<1>3. from \in Nat /\ from + 0 <= n /\ from <= at /\ (from # at => from = n)
  BY <1>1 DEF Least
<1>. HIDE DEF from
<1>4. bits_left(view) = n - from
  <2>1. 0 \in Nat /\ from + 0 <= Len(got)
    BY <1>3 DEF n
  <2>. QED
    BY <1>1, <1>2, <1>3, <2>1, TakenTwice DEF n
<1>5. bits_left(view) >= 16
  <2>. DEFINE min == min_bit_count(type, channel)
  <2>1. min \in {16, 36, 37}
    BY DEF min_bit_count
  <2>2. bits_left(view) >= min
    BY DEF HasNextPdu
  <2>. HIDE DEF min
  <2>. QED
    BY <1>1, <1>3, <1>4, <2>1, <2>2
<1>6. from = at /\ at + 16 <= n
  BY <1>1, <1>3, <1>4, <1>5
<1>. QED
  BY <1>2, <1>6 DEF n, got

\* Behind the last PDU of a block it does not go on.
LEMMA OnlyFillLeft ==
  ASSUME NEW type, NEW channel, NEW info \in Seq(Bit), NEW flag \in BOOLEAN, flag => HasOnes(info),
         NEW at \in Nat, at <= Len(info), SubSeq(info, at + 1, Len(info)) = FillBits(Len(info) - at)
  PROVE  ~HasNextPdu(type, channel, LeftFrom(at, info, flag))
<1>. DEFINE view == LeftFrom(at, info, flag)
            n == Len(info) - at
<1>. SUFFICES ASSUME HasNextPdu(type, channel, view) PROVE FALSE
  OBVIOUS
<1>1. at + 16 <= Len(Source(info, flag)) /\ view = Taken(at, View(Source(info, flag), flag))
  BY EnoughLeft
<1>2. Len(info) \in Nat /\ Len(Source(info, flag)) \in Nat /\ Len(Source(info, flag)) <= Len(info)
  BY SourceFacts, LenProperties
<1>3. n \in Nat /\ 0 < n /\ at + n = Len(info)
  BY <1>1, <1>2
<1>4. HasOnes(info) /\ LastOne(info) = at + 1
  BY <1>3, FillEnds
<1>5. CASE flag
  <2>1. Len(Source(info, flag)) = LastOne(info) - 1
    BY <1>5, SourceFacts
  <2>. QED
    BY <1>1, <1>2, <1>4, <2>1
<1>6. CASE ~flag
  <2>1. Source(info, flag) = info
    BY <1>6 DEF Source
  <2>2. view = View(SubSeq(info, at + 1, Len(info)), flag)
    BY <1>1, <2>1, BitsTaken
  <2>3. view.bits = FillBits(n)
    BY <2>2 DEF View
  <2>. HIDE DEF view, n
  <2>4. Len(FillBits(n)) = n /\ \A i \in 1 .. n : FillBits(n)[i] = IF i = 1 THEN 1 ELSE 0
    <3>1. FillBits(n) \in [1 .. n -> Bit]
      BY DEF FillBits, Bit
    <3>2. Len(FillBits(n)) = n
      BY <1>3, <3>1, WordsOf
    <3>. QED
      BY <3>2 DEF FillBits
  <2>5. bits_left(view) = n
    BY <2>3, <2>4 DEF bits_left
  <2>6. is_mac_padding(view)
    BY <1>3, <2>3, <2>4, <2>5 DEF is_mac_padding
  <2>. QED
    BY <2>6 DEF HasNextPdu, view
<1>. QED
  BY <1>5, <1>6

\* As many PDUs read as are parsed, but for fill bits, and where the next is looked for.
NextIn(pdus, k, info, left) ==
    \E flag \in BOOLEAN : (flag => HasOnes(info)) /\ left = LeftFrom(Begins(pdus, k + 1), info, flag)

\* The next PDU that is parsed is the next that was sent.
LEMMA NextPdu ==
  ASSUME NEW type \in BurstTypes, NEW channel,
         channel = "SignallingChannelHalfUplink" <=> type = "ControlUplinkBurst",
         NEW info \in Seq(Bit), NEW pdus, PdusIn(pdus, type, info), NEW k \in 0 .. Len(pdus),
         NEW view, NextIn(pdus, k, info, view), HasNextPdu(type, channel, view),
         NEW parsed, parsed = parse_c_plane_signalling_packet(type, channel, view), parsed.ok
  PROVE  /\ k + 1 <= Len(pdus)
         /\ SameButForFill(parsed.packet, MeaningOf(pdus[k + 1]), k + 1 = Len(pdus))
         /\ is_null_pdu(parsed.packet) \/ NextIn(pdus, k + 1, info, parsed.data)
<1>. DEFINE n == Len(pdus)
            at == Begins(pdus, k + 1)
            p == pdus[k + 1]
            is_last == k + 1 = n
<1>1. /\ n \in Nat /\ Begins(pdus, n + 1) \in Nat /\ Begins(pdus, n + 1) <= Len(info)
      /\ SubSeq(info, Begins(pdus, n + 1) + 1, Len(info)) = FillBits(Len(info) - Begins(pdus, n + 1))
      /\ \A i \in 1 .. n : PduIn(pdus[i], type, info) /\ pdus[i].at = Begins(pdus, i)
  BY DEF PdusIn
<1>2. PICK flag \in BOOLEAN : (flag => HasOnes(info)) /\ view = LeftFrom(at, info, flag)
  BY DEF NextIn
<1>3. k # n
  <2>. SUFFICES ASSUME k = n PROVE FALSE
    OBVIOUS
  <2>1. view = LeftFrom(Begins(pdus, n + 1), info, flag)
    BY <1>2
  <2>. HIDE DEF n
  <2>2. ~HasNextPdu(type, channel, LeftFrom(Begins(pdus, n + 1), info, flag))
    BY <1>1, <1>2, OnlyFillLeft
  <2>. QED
    BY <2>1, <2>2
<1>4. k \in Nat /\ k + 1 \in 1 .. n /\ k + 1 <= n
  BY <1>1, <1>3
<1>5. PduIn(p, type, info) /\ p.at = at
  BY <1>1, <1>4
<1>. HIDE DEF at, n
<1>6. at \in Nat /\ p.end \in Nat
  BY <1>5, HeaderFacts DEF PduIn
<1>7. at + 16 <= Len(Source(info, flag)) /\ view = Taken(at, View(Source(info, flag), flag))
  BY <1>2, <1>6, EnoughLeft
<1>8. p.end = Begins(pdus, (k + 1) + 1)
  <2>1. (k + 1) + 1 # 1 /\ ((k + 1) + 1) - 1 = k + 1
    BY <1>4
  <2>. QED
    BY <2>1 DEF Begins
<1>9. is_last \/ p.end < Len(info)
  <2>. SUFFICES ASSUME ~is_last PROVE p.end < Len(info)
    OBVIOUS
  <2>. DEFINE q == pdus[(k + 1) + 1]
  <2>1. (k + 1) + 1 \in 1 .. n
    BY <1>1, <1>4
  <2>2. PduIn(q, type, info) /\ q.at = p.end
    BY <1>1, <1>8, <2>1
  <2>. HIDE DEF q, p
  <2>3. q.at + 1 <= HeaderEnd(q) /\ HeaderEnd(q) <= SduEnd(q) /\ SduEnd(q) <= q.end /\ q.end <= Len(info)
        /\ HeaderEnd(q) \in Nat /\ SduEnd(q) \in Nat /\ q.end \in Nat
    BY <2>2, HeaderFacts
  <2>4. Len(info) \in Nat
    BY LenProperties
  <2>. QED
    BY <1>6, <2>2, <2>3, <2>4
<1>10. is_last \in BOOLEAN
  OBVIOUS
<1>11. p.at + 3 <= Len(Source(info, flag))
  <2>1. Len(Source(info, flag)) \in Nat
    BY <1>2, SourceFacts
  <2>. QED
    BY <1>5, <1>6, <1>7, <2>1
<1>. HIDE DEF p, is_last
<1>12. IsPdu(parsed, p, info, is_last)
  <2>1. view = Taken(p.at, View(Source(info, flag), flag))
    BY <1>5, <1>7
  <2>. QED
    BY <1>2, <1>5, <1>9, <1>10, <1>11, <2>1, OnePdu
<1>13. SameButForFill(parsed.packet, MeaningOf(p), is_last)
  BY <1>12 DEF IsPdu
<1>14. is_null_pdu(parsed.packet) \/ NextIn(pdus, k + 1, info, parsed.data)
  BY <1>8, <1>12 DEF IsPdu, NextIn, LeftFrom
<1>. QED
  BY <1>4, <1>13, <1>14 DEF n, p, is_last

-----------------------------------------------------------------------------
(* The packets of a slot are those of its first PDUs.                      *)

\* The packets so far are those of the first PDUs of the block, but for fill bits, and
\* while there may be more the next one begins where it was sent.
PacketsSoFar(burst, i, read, left, more) ==
    \A pdus \in burst.blocks[BlockOf(burst, i)].pdus :
        /\ Len(read) <= Len(pdus)
        /\ \A k \in 1 .. Len(read) : SameButForFill(read[k], MeaningOf(pdus[k]), k = Len(pdus))
        /\ more => NextIn(pdus, Len(read), InfoOf(burst, i), left)

ParsedInv ==
    /\ pc \notin {"pdu", "parsed"} => current = Nothing
    /\ pc \in {"pdu", "parsed"} =>
          /\ "c_plane" \in DOMAIN current /\ \E S : current.c_plane \in Seq(S)
          /\ \A burst \in sent :
                OfThisCell(burst) /\ KnownPdus(burst, slot) =>
                    PacketsSoFar(burst, slot, current.c_plane, data, pc = "pdu")

\* It holds where nothing is read yet ...
LEMMA NothingRead ==
  ASSUME NEW burst \in Bursts, burst.burst_type \in BurstTypes, NEW i, NEW this, InPlace(this, burst, i, burst.cell),
         this.channel # "TrafficChannel", KnownPdus(burst, i)
  PROVE  PacketsSoFar(burst, i, <<>>, this.data, TRUE)
<1>. DEFINE info == InfoOf(burst, i)
<1>1. BlockOf(burst, i) \in BlocksOf(burst.burst_type)
  BY DEF InPlace
<1>2. this.data = View(info, FALSE) /\ info \in Seq(Bit)
  BY <1>1, SlotAsSent, InfoIsBits DEF KnownPdus
<1>. HIDE DEF info
<1>3. LeftFrom(0, info, FALSE) = View(info, FALSE)
  <2>1. Source(info, FALSE) = info
    BY DEF Source
  <2>2. Least(0, Len(info)) = 0 /\ Len(info) \in Nat
    BY <1>2, LenProperties DEF Least
  <2>3. Taken(0, View(info, FALSE)) = View(SubSeq(info, 0 + 1, Len(info)), FALSE)
    BY BitsTaken
  <2>4. SubSeq(info, 0 + 1, Len(info)) = info
    BY <1>2, SubSeqFull
  <2>. QED
    BY <2>1, <2>2, <2>3, <2>4 DEF LeftFrom
<1>. SUFFICES ASSUME NEW pdus \in burst.blocks[BlockOf(burst, i)].pdus
              PROVE  Len(<<>>) <= Len(pdus) /\ NextIn(pdus, Len(<<>>), info, this.data)
  BY EmptySeq DEF PacketsSoFar, info
<1>4. Len(pdus) \in Nat
  BY <1>1, PdusOfBlock DEF PdusIn
<1>5. Len(<<>>) = 0 /\ Begins(pdus, 0 + 1) = 0
  BY EmptySeq DEF Begins
<1>6. NextIn(pdus, 0, info, this.data)
  BY <1>2, <1>3, <1>5 DEF NextIn
<1>7. 0 <= Len(pdus)
  BY <1>4
<1>. QED
  BY <1>5, <1>6, <1>7

\* ... and where one more PDU is.
LEMMA OneMoreRead ==
  ASSUME NEW burst \in Bursts, burst.burst_type \in BurstTypes, NEW i, NEW this, InPlace(this, burst, i, burst.cell),
         KnownPdus(burst, i), NEW S, NEW read \in Seq(S), NEW left, PacketsSoFar(burst, i, read, left, TRUE),
         HasNextPdu(burst.burst_type, this.channel, left),
         NEW parsed, parsed = parse_c_plane_signalling_packet(burst.burst_type, this.channel, left), parsed.ok,
         NEW more, more => ~is_null_pdu(parsed.packet)
  PROVE  PacketsSoFar(burst, i, Append(read, parsed.packet), parsed.data, more)
<1>. DEFINE info == InfoOf(burst, i)
            type == burst.burst_type
            channel == this.channel
            k == Len(read)
            longer == Append(read, parsed.packet)
<1>1. BlockOf(burst, i) \in BlocksOf(type) /\ (channel = "SignallingChannelHalfUplink" <=> type = "ControlUplinkBurst")
  BY DEF InPlace
<1>2. info \in Seq(Bit)
  BY <1>1, InfoIsBits
<1>3. k \in Nat /\ Len(longer) = k + 1 /\ longer[k + 1] = parsed.packet
      /\ \A j \in 1 .. k : longer[j] = read[j]
  <2>1. read \in Seq(S \cup {parsed.packet}) /\ parsed.packet \in S \cup {parsed.packet}
    BY LenProperties
  <2>. QED
    BY <2>1, AppendProperties, LenProperties
<1>. HIDE DEF info, longer
<1>. SUFFICES ASSUME NEW pdus \in burst.blocks[BlockOf(burst, i)].pdus
              PROVE  /\ Len(longer) <= Len(pdus)
                     /\ \A j \in 1 .. Len(longer) : SameButForFill(longer[j], MeaningOf(pdus[j]), j = Len(pdus))
                     /\ more => NextIn(pdus, Len(longer), info, parsed.data)
  BY DEF PacketsSoFar, longer, info
<1>4. /\ k <= Len(pdus) /\ NextIn(pdus, k, info, left)
      /\ \A j \in 1 .. k : SameButForFill(read[j], MeaningOf(pdus[j]), j = Len(pdus))
  BY DEF PacketsSoFar, info
<1>5. PdusIn(pdus, type, info)
  BY <1>1, PdusOfBlock DEF info
<1>6. Len(pdus) \in Nat
  BY <1>5 DEF PdusIn
<1>. HIDE DEF k
<1>7. k \in 0 .. Len(pdus)
  BY <1>3, <1>4, <1>6
<1>8. /\ k + 1 <= Len(pdus)
      /\ SameButForFill(parsed.packet, MeaningOf(pdus[k + 1]), k + 1 = Len(pdus))
      /\ is_null_pdu(parsed.packet) \/ NextIn(pdus, k + 1, info, parsed.data)
  BY <1>1, <1>2, <1>4, <1>5, <1>7, NextPdu
<1>9. ASSUME NEW j \in 1 .. Len(longer) PROVE SameButForFill(longer[j], MeaningOf(pdus[j]), j = Len(pdus))
  <2>1. j \in 1 .. k \/ j = k + 1
    BY <1>3
  <2>. QED
    BY <1>3, <1>4, <1>8, <2>1
<1>. QED
  BY <1>3, <1>8, <1>9

\* Every step keeps what is known of the packets so far, and of what is left.
LEMMA NextParsedInv == BlocksInv /\ TypeInv /\ ParsedInv /\ [Next]_vars => ParsedInv'
<1>. SUFFICES ASSUME BlocksInv, TypeInv, ParsedInv, [Next]_vars PROVE ParsedInv'
  OBVIOUS
<1>1. ASSUME pc' \notin {"pdu", "parsed"}, current' = Nothing PROVE ParsedInv'
  BY <1>1 DEF ParsedInv
<1>2. pc \notin {"pdu", "parsed"} => current = Nothing
  BY DEF ParsedInv
<1>3. ASSUME NEW burst \in Bursts, Receive(burst) PROVE ParsedInv'
  <2>1. pc = "idle" /\ pc' \in {"synchronize", "channels"} /\ current' = current
    BY <1>3 DEF Receive, upperMac
  <2>. QED
    BY <1>1, <1>2, <2>1
<1>4. CASE Synchronize
  <2>1. pc = "synchronize" /\ pc' = "channels" /\ current' = current
    BY <1>4 DEF Synchronize, upperMac
  <2>. QED
    BY <1>1, <1>2, <2>1
<1>5. CASE Channels
  <2>1. pc = "channels" /\ pc' = "slot" /\ current' = current
    BY <1>5 DEF Channels, upperMac
  <2>. QED
    BY <1>1, <1>2, <2>1
<1>6. CASE Idle
  BY <1>1, <1>6 DEF Idle
<1>7. \A other : Merge(other) => pc' = "slot" /\ current' = Nothing
  BY DEF Merge, Fail, NextSlot
<1>8. Fail => pc' = "slot" /\ current' = Nothing
  BY DEF Fail, NextSlot
<1>9. CASE ParseSlot
  <2>1. pc = "slot" /\ slot <= Len(slots) /\ UNCHANGED <<sync_, slots, sent>>
    BY <1>9 DEF ParseSlot, lowerMac
  <2>2. \/ pc' = "slot" /\ current' = Nothing
        \/ \E burst \in sent :
              /\ KindOf(burst.burst_type, slots[slot]) = "c_plane"
              /\ data' = slots[slot].data /\ pc' = "pdu" /\ UNCHANGED <<slot, current>>
    BY <1>7, <1>8, <1>9 DEF ParseSlot
  <2>3. CASE pc' = "slot" /\ current' = Nothing
    BY <1>1, <2>3
  <2>4. ASSUME NEW one \in sent, KindOf(one.burst_type, slots[slot]) = "c_plane",
               data' = slots[slot].data, pc' = "pdu", UNCHANGED <<slot, current>>
        PROVE  ParsedInv'
    <3>1. slot \in 1 .. Len(slots)
      BY <2>1 DEF TypeInv, PlaceInv
    <3>2. current' = Nothing
      BY <1>2, <2>1, <2>4
    <3>3. "c_plane" \in DOMAIN current' /\ current'.c_plane = <<>>
      BY <3>2 DEF Nothing
    <3>4. \E S : current'.c_plane \in Seq(S)
      <4>1. <<>> \in Seq({})
        BY EmptySeq
      <4>. QED
        BY <3>3, <4>1
    <3>5. slots[slot].channel # "TrafficChannel"
      BY <2>4 DEF KindOf
    <3>6. ASSUME NEW burst \in sent, OfThisCell(burst), KnownPdus(burst, slot)
          PROVE  PacketsSoFar(burst, slot, <<>>, slots[slot].data, TRUE)
      <4>1. burst \in Bursts /\ burst.burst_type \in BurstTypes /\ InPlace(slots[slot], burst, slot, burst.cell)
        BY <3>1, <3>6, SlotOfCell
      <4>. QED
        BY <3>5, <3>6, <4>1, NothingRead
    <3>7. ASSUME NEW burst \in sent', OfThisCell(burst)', KnownPdus(burst, slot)'
          PROVE  PacketsSoFar(burst, slot, current.c_plane, data, pc = "pdu")'
      <4>1. burst \in sent /\ OfThisCell(burst)
        BY <2>1, <3>7 DEF OfThisCell
      <4>2. slot' = slot /\ (pc' = "pdu") = TRUE /\ data' = slots[slot].data /\ current'.c_plane = <<>>
        BY <2>4, <3>3
      <4>3. KnownPdus(burst, slot)
        BY <3>7, <4>2
      <4>4. PacketsSoFar(burst, slot, <<>>, slots[slot].data, TRUE)
        BY <3>6, <4>1, <4>3
      <4>. QED
        BY <4>2, <4>4
    <3>. QED
      BY <2>4, <3>3, <3>4, <3>7 DEF ParsedInv
  <2>. QED
    BY <2>2, <2>3, <2>4
<1>10. CASE ParsePdu
  <2>. DEFINE channel == slots[slot].channel
              Parse(type) == parse_c_plane_signalling_packet(type, channel, data)
  <2>1. pc = "pdu" /\ UNCHANGED <<sync_, slots, sent>>
    BY <1>10 DEF ParsePdu, lowerMac
  <2>2. PICK one \in sent :
           /\ HasNextPdu(one.burst_type, channel, data)
           /\ \/ pc' = "slot" /\ current' = Nothing
              \/ /\ Parse(one.burst_type).ok
                 /\ current' = [current EXCEPT !.c_plane = Append(@, Parse(one.burst_type).packet)]
                 /\ data' = Parse(one.burst_type).data
                 /\ pc' = IF is_null_pdu(Parse(one.burst_type).packet) THEN "parsed" ELSE "pdu"
                 /\ slot' = slot
    <3>. HIDE DEF Parse
    <3>. QED
      BY <1>8, <1>10 DEF ParsePdu, Parse
  <2>. DEFINE parsed == Parse(one.burst_type)
  <2>3. CASE pc' = "slot" /\ current' = Nothing
    BY <1>1, <2>3
  <2>4. ASSUME parsed.ok, current' = [current EXCEPT !.c_plane = Append(@, parsed.packet)],
               data' = parsed.data, slot' = slot,
               pc' = IF is_null_pdu(parsed.packet) THEN "parsed" ELSE "pdu"
        PROVE  ParsedInv'
    <3>1. slot \in 1 .. Len(slots)
      BY <2>1 DEF TypeInv, PlaceInv, PartInv
    <3>2. "c_plane" \in DOMAIN current
      BY <2>1 DEF ParsedInv
    <3>3. PICK S : current.c_plane \in Seq(S)
      BY <2>1 DEF ParsedInv
    <3>. HIDE DEF parsed
    <3>4. "c_plane" \in DOMAIN current' /\ current'.c_plane = Append(current.c_plane, parsed.packet)
      BY <2>4, <3>2
    <3>5. \E T : current'.c_plane \in Seq(T)
      <4>1. current.c_plane \in Seq(S \cup {parsed.packet}) /\ parsed.packet \in S \cup {parsed.packet}
        BY <3>3, LenProperties
      <4>2. Append(current.c_plane, parsed.packet) \in Seq(S \cup {parsed.packet})
        BY <4>1, AppendProperties
      <4>. QED
        BY <3>4, <4>2
    <3>6. ASSUME NEW burst \in sent, OfThisCell(burst), KnownPdus(burst, slot), NEW more,
                 more => ~is_null_pdu(parsed.packet)
          PROVE  PacketsSoFar(burst, slot, Append(current.c_plane, parsed.packet), parsed.data, more)
      <4>1. burst \in Bursts /\ burst.burst_type \in BurstTypes /\ InPlace(slots[slot], burst, slot, burst.cell)
        BY <3>1, <3>6, SlotOfCell
      <4>2. burst = one
        BY DEF BlocksInv, OneBurst
      <4>3. PacketsSoFar(burst, slot, current.c_plane, data, pc = "pdu")
        BY <2>1, <3>6 DEF ParsedInv
      <4>4. PacketsSoFar(burst, slot, current.c_plane, data, TRUE)
        <5>1. (pc = "pdu") = TRUE
          BY <2>1
        <5>. QED
          BY <4>3, <5>1
      <4>5. HasNextPdu(burst.burst_type, slots[slot].channel, data)
        BY <2>2, <4>2
      <4>6. parsed = parse_c_plane_signalling_packet(burst.burst_type, slots[slot].channel, data)
        BY <4>2 DEF parsed
      <4>. QED
        BY <2>4, <3>3, <3>6, <4>1, <4>4, <4>5, <4>6, OneMoreRead
    <3>7. ASSUME NEW burst \in sent', OfThisCell(burst)', KnownPdus(burst, slot)'
          PROVE  PacketsSoFar(burst, slot, current.c_plane, data, pc = "pdu")'
      <4>1. burst \in sent /\ OfThisCell(burst)
        BY <2>1, <3>7 DEF OfThisCell
      <4>2. KnownPdus(burst, slot)
        BY <2>4, <3>7
      <4>. DEFINE more == pc' = "pdu"
      <4>3. more => ~is_null_pdu(parsed.packet)
        BY <2>4
      <4>. HIDE DEF more
      <4>4. PacketsSoFar(burst, slot, Append(current.c_plane, parsed.packet), parsed.data, more)
        BY <3>6, <4>1, <4>2, <4>3
      <4>. QED
        BY <2>4, <3>4, <4>4 DEF more
    <3>8. pc' \in {"pdu", "parsed"}
      BY <2>4
    <3>. QED
      BY <3>4, <3>5, <3>7, <3>8 DEF ParsedInv
  <2>. QED
    BY <2>2, <2>3, <2>4
<1>11. CASE Parsed
  <2>1. pc' = "slot" /\ current' = Nothing
    BY <1>7, <1>11 DEF Parsed
  <2>. QED
    BY <1>1, <2>1
<1>12. CASE UNCHANGED vars
  <2>1. UNCHANGED <<pc, current, sent, sync_, slot, data>>
    BY <1>12 DEF vars, lowerMac, upperMac
  <2>2. ASSUME NEW burst \in sent', OfThisCell(burst)', KnownPdus(burst, slot)', pc \in {"pdu", "parsed"}
        PROVE  PacketsSoFar(burst, slot, current.c_plane, data, pc = "pdu")'
    <3>1. burst \in sent /\ OfThisCell(burst) /\ KnownPdus(burst, slot)
      BY <2>1, <2>2 DEF OfThisCell
    <3>2. PacketsSoFar(burst, slot, current.c_plane, data, pc = "pdu")
      BY <2>2, <3>1 DEF ParsedInv
    <3>. QED
      BY <2>1, <3>2
  <2>. QED
    BY <2>1, <2>2 DEF ParsedInv
<1>. QED
  BY <1>3, <1>4, <1>5, <1>6, <1>9, <1>10, <1>11, <1>12 DEF Next, Drop, Finish

\* Whatever PDUs share an undamaged block, of a network that sends them as it is said
\* in Network, those that are parsed are the ones sent, in order, and what is wrong
\* with a TM-SDU is only that it ends in fill bits or was cut like them.
THEOREM FillDamageCorrect == Spec => []FillDamageIsBounded
<1>1. Spec => []BlocksInv
  BY InitBlocksInv, NextBlocksInv, PTL DEF Spec
<1>2. Init => FitsInv
  BY DEF Init, FitsInv
<1>3. Spec => []FitsInv
  BY <1>2, NextFitsInv, PTL DEF Spec
<1>4. Spec => []TypeInv
  BY <1>1, <1>3, InitTypeInv, NextTypeInv, PTL DEF Spec
<1>5. Init => ParsedInv
  BY DEF Init, ParsedInv
<1>6. Spec => []ParsedInv
  BY <1>1, <1>4, <1>5, NextParsedInv, PTL DEF Spec
<1>7. BlocksInv /\ TypeInv /\ ParsedInv => FillDamageIsBounded
  <2>. SUFFICES ASSUME BlocksInv, TypeInv, ParsedInv, NEW burst \in sent, pc \in {"pdu", "parsed"},
                       OfThisCell(burst), KnownPdus(burst, slot)
                PROVE  /\ Len(current.c_plane) <= Len(Meant(burst, slot).c_plane)
                       /\ \A i \in DOMAIN current.c_plane :
                             SameButForFill(current.c_plane[i], Meant(burst, slot).c_plane[i],
                                            i = Len(Meant(burst, slot).c_plane))
    BY DEF FillDamageIsBounded
  <2>1. slot \in 1 .. Len(slots)
    BY DEF TypeInv, PlaceInv, PartInv
  <2>2. burst \in Bursts /\ BlockOf(burst, slot) \in BlocksOf(burst.burst_type)
    BY <2>1, SlotOfCell DEF InPlace
  <2>3. PacketsSoFar(burst, slot, current.c_plane, data, pc = "pdu")
    BY DEF ParsedInv
  <2>4. PICK pdus : pdus \in burst.blocks[BlockOf(burst, slot)].pdus
    BY DEF KnownPdus
  <2>5. /\ Len(current.c_plane) <= Len(pdus)
        /\ \A k \in 1 .. Len(current.c_plane) :
              SameButForFill(current.c_plane[k], MeaningOf(pdus[k]), k = Len(pdus))
    BY <2>3, <2>4 DEF PacketsSoFar
  <2>6. /\ Len(Meant(burst, slot).c_plane) = Len(pdus) /\ Len(pdus) \in Nat
        /\ \A k \in 1 .. Len(pdus) : Meant(burst, slot).c_plane[k] = MeaningOf(pdus[k])
    BY <2>2, <2>4, PdusOfBlock DEF PdusIn
  <2>7. DOMAIN current.c_plane = 1 .. Len(current.c_plane) /\ Len(current.c_plane) \in Nat
    <3>1. PICK S : current.c_plane \in Seq(S)
      BY DEF ParsedInv
    <3>. QED
      BY <3>1, LenProperties
  <2>8. ASSUME NEW i \in 1 .. Len(current.c_plane)
        PROVE  SameButForFill(current.c_plane[i], Meant(burst, slot).c_plane[i],
                              i = Len(Meant(burst, slot).c_plane))
    <3>1. i \in 1 .. Len(pdus)
      BY <2>5, <2>6, <2>7
    <3>2. Meant(burst, slot).c_plane[i] = MeaningOf(pdus[i])
      BY <2>6, <3>1
    <3>3. SameButForFill(current.c_plane[i], MeaningOf(pdus[i]), i = Len(pdus))
      BY <2>5
    <3>. QED
      BY <2>6, <3>2, <3>3
  <2>. QED
    BY <2>5, <2>6, <2>7, <2>8
<1>. QED
  BY <1>1, <1>4, <1>6, <1>7, PTL

=============================================================================
