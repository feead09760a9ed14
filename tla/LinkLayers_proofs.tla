-------------------------- MODULE LinkLayers_proofs --------------------------
(***************************************************************************)
(* What is proved of LinkLayers, for every TM-SDU and any bits in it.      *)
(* First the frame check sequence: the register of compute_fcs and the     *)
(* polynomial division of the network end with the same bits.  Then the    *)
(* parsers: what reading a layout leaves, the header of the link, and the  *)
(* invariant that every parser keeps.  Last, what the network sends: what  *)
(* was written field by field is read back, layer by layer, with fill bits *)
(* behind it, and without its end as far as it goes.                       *)
(***************************************************************************)
EXTENDS LinkLayers, SequenceTheorems, FiniteSetTheorems, WellFoundedInduction, TLAPS

-----------------------------------------------------------------------------
(* Induction and recursion, as facts about sets of numbers and functions.  *)

Bit == {0, 1}

LEMMA LeastNumber ==
  ASSUME NEW S, S \subseteq Nat, S # {}
  PROVE  \E m \in S : \A k \in S : m <= k
<1>1. PICK m \in S : \A k \in S : ~(<<k, m>> \in OpToRel(<, Nat))
  BY NatLessThanWellFounded, WFMin
<1>2. \A k \in S : ~(k < m)
  BY <1>1 DEF OpToRel
<1>. QED
  BY <1>2

\* A set with 0 that has with every number up to n the next one.
LEMMA Induction ==
  ASSUME NEW n \in Nat, NEW S, 0 \in S, \A i \in 1 .. n : i - 1 \in S => i \in S
  PROVE  \A i \in 0 .. n : i \in S
<1>. DEFINE Outside == {i \in 0 .. n : i \notin S}
<1>1. SUFFICES ASSUME Outside # {} PROVE FALSE
  OBVIOUS
<1>2. PICK m \in Outside : \A k \in Outside : m <= k
  <2>1. Outside \subseteq Nat
    OBVIOUS
  <2>. HIDE DEF Outside
  <2>. QED
    BY <2>1, <1>1, LeastNumber
<1>3. m \in 1 .. n /\ m - 1 \in 0 .. n /\ ~(m <= m - 1)
  BY <1>2
<1>4. m - 1 \notin Outside
  BY <1>2, <1>3
<1>. QED
  BY <1>2, <1>3, <1>4

\* A function over 0 .. n that is defined by recursion, by steps in V.
StepsIn(V, step, n) == step \in [(1 .. n) \X V -> V]
Recursive(f, first, step, n) == f[0] = first /\ \A i \in 1 .. n : f[i] = step[<<i, f[i - 1]>>]
RecursiveExists(V, first, step, n) == \E f \in [0 .. n -> V] : Recursive(f, first, step, n)

\* It exists, with its values in V.
LEMMA Recursion ==
  ASSUME NEW n \in Nat, NEW V, NEW first \in V, NEW step, StepsIn(V, step, n)
  PROVE  RecursiveExists(V, first, step, n)
<1>. USE DEF StepsIn, Recursive, RecursiveExists
<1>. DEFINE Follows(f, m) == f[0] = first /\ \A i \in 1 .. m : f[i] = step[<<i, f[i - 1]>>]
            S == {m \in 0 .. n : \E f \in [0 .. m -> V] : Follows(f, m)}
<1>1. 0 \in S
  <2>. DEFINE f == [i \in 0 .. 0 |-> first]
  <2>1. f \in [0 .. 0 -> V] /\ Follows(f, 0)
    OBVIOUS
  <2>. HIDE DEF f
  <2>. QED
    BY <2>1, 0 \in 0 .. n
<1>2. \A m \in 1 .. n : m - 1 \in S => m \in S
  <2>. SUFFICES ASSUME NEW m \in 1 .. n, m - 1 \in S PROVE m \in S
    OBVIOUS
  <2>3. PICK g \in [0 .. m - 1 -> V] : Follows(g, m - 1)
    OBVIOUS
  <2>. DEFINE last == step[<<m, g[m - 1]>>]
              f == [i \in 0 .. m |-> IF i = m THEN last ELSE g[i]]
  <2>4. last \in V
    BY <2>3
  <2>. HIDE DEF last
  <2>5. \A i \in 0 .. m : i # m => i \in 0 .. m - 1
    OBVIOUS
  <2>6. f \in [0 .. m -> V]
    BY <2>4, <2>5
  <2>7. f[m] = last /\ \A i \in 0 .. m - 1 : f[i] = g[i]
    OBVIOUS
  <2>. HIDE DEF f
  <2>8. \A i \in 1 .. m : f[i] = step[<<i, f[i - 1]>>]
    <3>. SUFFICES ASSUME NEW i \in 1 .. m PROVE f[i] = step[<<i, f[i - 1]>>]
      OBVIOUS
    <3>1. i - 1 \in 0 .. m - 1 /\ (i # m => i \in 1 .. m - 1 /\ i \in 0 .. m - 1)
      OBVIOUS
    <3>2. f[i - 1] = g[i - 1]
      BY <2>7, <3>1
    <3>3. CASE i = m
      BY <2>7, <3>2, <3>3 DEF last
    <3>4. CASE i # m
      BY <2>3, <2>7, <3>1, <3>2, <3>4
    <3>. QED
      BY <3>3, <3>4
  <2>9. Follows(f, m)
    BY <2>3, <2>7, <2>8
  <2>. QED
    BY <2>6, <2>9
<1>. HIDE DEF S
<1>3. \A m \in 0 .. n : m \in S
  BY <1>1, <1>2, Induction
<1>. QED
  BY <1>3, n \in 0 .. n DEF S

\* Every element is a bit.
LEMMA EveryBit ==
  ASSUME NEW bits \in Seq(Bit), NEW n, n = Len(bits)
  PROVE  \A i \in 1 .. n : bits[i] \in Bit
BY ElementOfSeq

-----------------------------------------------------------------------------
(* The frame check sequence: the register of the code is what is left of   *)
(* the division so far, before the bits that are still to come.            *)

Registers == [1 .. 32 -> Bit]

\* The polynomial of the code is the generator without its highest power.
LEMMA PolynomialOfGenerator ==
  /\ Generator(1) = 1
  /\ \A j \in 1 .. 32 : FcsPolynomial[j] \in Bit /\ FcsPolynomial[j] = Generator(j + 1)
  /\ FcsPolynomial[32] = 1
<1>1. \A j \in 1 .. 32 : FcsPolynomial[j] = Generator(j + 1)
  BY DEF FcsPolynomial, Generator, GeneratorPowers
<1>. QED
  BY <1>1 DEF Generator, GeneratorPowers, Bit

\* The register at first, and the steps of the code through the bits.
FirstRegister(n) == [j \in 1 .. 32 |-> IF j <= n THEN 1 ELSE 0]
IsRun(r, bits) ==
    /\ r \in [0 .. Len(bits) -> Registers]
    /\ r[0] = FirstRegister(Len(bits))
    /\ \A i \in 1 .. Len(bits) : r[i] = FcsStep(r[i - 1], bits[i])

LEMMA NextRegister ==
  ASSUME NEW crc \in Registers, NEW bit \in Bit
  PROVE  FcsStep(crc, bit) \in Registers
<1>1. \A x, y \in Bit : (x + y) % 2 \in Bit
  BY DEF Bit
<1>2. \A j \in 1 .. 32 : j < 32 => j + 1 \in 1 .. 32
  OBVIOUS
<1>3. \A j \in 1 .. 32 : /\ (IF j < 32 THEN crc[j + 1] ELSE 0) \in Bit
                         /\ (IF bit = crc[1] THEN 0 ELSE FcsPolynomial[j]) \in Bit
  BY <1>2, PolynomialOfGenerator DEF Registers, Bit
<1>. QED
  BY <1>1, <1>3 DEF FcsStep, Registers

\* compute_fcs is the complement of the last register of such a run.
LEMMA FcsOfRun ==
  ASSUME NEW bits \in Seq(Bit), bits # <<>>
  PROVE  \E r : IsRun(r, bits) /\ compute_fcs(bits) = {[j \in 1 .. 32 |-> 1 - r[Len(bits)][j]]}
<1>. DEFINE n == Len(bits)
            start == FirstRegister(n)
            Follows(g) == g = [i \in 0 .. n |-> IF i = 0 THEN {start}
                                                ELSE {FcsStep(before, bits[i]) : before \in g[i - 1]}]
            crc == CHOOSE g : Follows(g)
<1>1. n \in Nat /\ \A i \in 1 .. n : bits[i] \in Bit
  BY EveryBit
<1>2. compute_fcs(bits) = {[j \in 1 .. 32 |-> 1 - last[j]] : last \in crc[n]}
  BY DEF compute_fcs, FirstRegister
<1>. HIDE DEF n, start
<1>3. PICK r \in [0 .. n -> Registers] : r[0] = start /\ \A i \in 1 .. n : r[i] = FcsStep(r[i - 1], bits[i])
  <2>. DEFINE step == [p \in (1 .. n) \X Registers |-> FcsStep(p[2], bits[p[1]])]
  <2>1. step \in [(1 .. n) \X Registers -> Registers]
    BY <1>1, NextRegister
  <2>2. \A i \in 1 .. n : \A v \in Registers : step[<<i, v>>] = FcsStep(v, bits[i])
    OBVIOUS
  <2>. HIDE DEF step
  <2>3. start \in Registers
    BY <1>1 DEF start, FirstRegister, Registers, Bit
  <2>4. RecursiveExists(Registers, start, step, n)
    BY <1>1, <2>1, <2>3, Recursion DEF StepsIn
  <2>5. PICK f \in [0 .. n -> Registers] : f[0] = start /\ \A i \in 1 .. n : f[i] = step[<<i, f[i - 1]>>]
    BY <2>4 DEF Recursive, RecursiveExists
  <2>6. \A i \in 1 .. n : f[i - 1] \in Registers
    BY <1>1
  <2>. QED
    BY <2>2, <2>5, <2>6
<1>4. \E g : Follows(g)
  <2>. DEFINE g == [i \in 0 .. n |-> {r[i]}]
  <2>1. \A i \in 0 .. n : i # 0 => i \in 1 .. n /\ i - 1 \in 0 .. n
    BY <1>1
  <2>2. \A i \in 0 .. n : g[i] = IF i = 0 THEN {start} ELSE {FcsStep(before, bits[i]) : before \in g[i - 1]}
    BY <1>3, <2>1
  <2>3. Follows(g)
    BY <2>2
  <2>. QED
    BY <2>3
<1>5. Follows(crc)
  BY <1>4
<1>. HIDE DEF crc
<1>6. crc[0] = {start} /\ \A i \in 1 .. n : crc[i] = {FcsStep(before, bits[i]) : before \in crc[i - 1]}
  <2>1. 0 \in 0 .. n /\ \A i \in 1 .. n : i \in 0 .. n /\ i # 0
    BY <1>1
  <2>. QED
    BY <1>5, <2>1
<1>7. crc[n] = {r[n]}
  <2>. DEFINE S == {i \in 0 .. n : crc[i] = {r[i]}}
  <2>1. 0 \in S
    BY <1>1, <1>3, <1>6
  <2>2. ASSUME NEW i \in 1 .. n, i - 1 \in S PROVE i \in S
    <3>1. i \in 0 .. n /\ crc[i - 1] = {r[i - 1]}
      BY <1>1, <2>2
    <3>2. crc[i] = {FcsStep(before, bits[i]) : before \in {r[i - 1]}}
      BY <1>6, <3>1
    <3>3. crc[i] = {FcsStep(r[i - 1], bits[i])}
      BY <3>2
    <3>. QED
      BY <1>3, <3>1, <3>3
  <2>. HIDE DEF S
  <2>3. \A i \in 0 .. n : i \in S
    BY <1>1, <2>1, <2>2, Induction
  <2>4. n \in 0 .. n
    BY <1>1
  <2>. QED
    BY <2>3, <2>4 DEF S
<1>8. compute_fcs(bits) = {[j \in 1 .. 32 |-> 1 - r[n][j]]}
  BY <1>2, <1>7
<1>9. IsRun(r, bits)
  BY <1>3 DEF IsRun, n, start
<1>. QED
  BY <1>8, <1>9 DEF n

\* The same of the division: what is left of it after each step.
Dividends(bits) == [1 .. Len(bits) + 32 -> Bit]
IsDivision(p, bits) ==
    /\ p \in [0 .. Len(bits) -> Dividends(bits)]
    /\ p[0] = Dividend(bits)
    /\ \A i \in 1 .. Len(bits) : p[i] = Reduced(p[i - 1], i)

LEMMA NextDividend ==
  ASSUME NEW bits \in Seq(Bit), NEW p \in Dividends(bits), NEW i \in 1 .. Len(bits)
  PROVE  /\ Reduced(p, i) \in Dividends(bits)
         /\ p[i] = 0 => Reduced(p, i) = p
         /\ p[i] # 0 => \A j \in 1 .. Len(bits) + 32 :
                Reduced(p, i)[j] = IF j \in i .. i + 32 THEN (p[j] + Generator(j - i + 1)) % 2 ELSE p[j]
<1>1. \A x, y \in Bit : (x + y) % 2 \in Bit
  BY DEF Bit
<1>2. DOMAIN p = 1 .. Len(bits) + 32 /\ \A j \in 1 .. Len(bits) + 32 : p[j] \in Bit
  BY DEF Dividends
<1>3. \A j : Generator(j) \in Bit
  BY DEF Generator, Bit
<1>. QED
  BY <1>1, <1>2, <1>3 DEF Reduced, Dividends

LEMMA SequenceOfDivision ==
  ASSUME NEW bits \in Seq(Bit)
  PROVE  \E p : IsDivision(p, bits) /\ FrameCheckSequence(bits) = [j \in 1 .. 32 |-> 1 - p[Len(bits)][Len(bits) + j]]
<1>. DEFINE n == Len(bits)
            V == Dividends(bits)
            start == Dividend(bits)
            Follows(g) == g = [i \in 0 .. n |-> IF i = 0 THEN {start} ELSE {Reduced(p, i) : p \in g[i - 1]}]
            left == CHOOSE g : Follows(g)
            last == CHOOSE p \in left[n] : TRUE
<1>1. n \in Nat /\ \A i \in 1 .. n : bits[i] \in Bit
  BY EveryBit
<1>2. FrameCheckSequence(bits) = [j \in 1 .. 32 |-> 1 - last[n + j]]
  BY DEF FrameCheckSequence
<1>3. start \in V
  <2>1. \A x \in Bit : 1 - x \in Bit
    BY DEF Bit
  <2>2. \A j \in 1 .. n + 32 : ~(j > n) => j \in 1 .. n
    BY <1>1
  <2>3. \A j \in 1 .. n + 32 : (IF j > n THEN 0 ELSE IF j <= 32 THEN 1 - bits[j] ELSE bits[j]) \in Bit
    BY <1>1, <2>1, <2>2 DEF Bit
  <2>. QED
    BY <2>3 DEF Dividend, Dividends
<1>4. \A i \in 1 .. n : \A p \in V : Reduced(p, i) \in V
  BY NextDividend
<1>. HIDE DEF n, start, V
<1>5. PICK r \in [0 .. n -> V] : r[0] = start /\ \A i \in 1 .. n : r[i] = Reduced(r[i - 1], i)
  <2>. DEFINE step == [p \in (1 .. n) \X V |-> Reduced(p[2], p[1])]
  <2>1. step \in [(1 .. n) \X V -> V]
    BY <1>4
  <2>2. \A i \in 1 .. n : \A v \in V : step[<<i, v>>] = Reduced(v, i)
    OBVIOUS
  <2>. HIDE DEF step
  <2>4. RecursiveExists(V, start, step, n)
    BY <1>1, <2>1, <1>3, Recursion DEF StepsIn
  <2>5. PICK f \in [0 .. n -> V] : f[0] = start /\ \A i \in 1 .. n : f[i] = step[<<i, f[i - 1]>>]
    BY <2>4 DEF Recursive, RecursiveExists
  <2>6. \A i \in 1 .. n : f[i - 1] \in V
    BY <1>1
  <2>. QED
    BY <2>2, <2>5, <2>6
<1>6. \E g : Follows(g)
  <2>. DEFINE g == [i \in 0 .. n |-> {r[i]}]
  <2>1. \A i \in 0 .. n : i # 0 => i \in 1 .. n /\ i - 1 \in 0 .. n
    BY <1>1
  <2>2. \A i \in 0 .. n : g[i] = IF i = 0 THEN {start} ELSE {Reduced(p, i) : p \in g[i - 1]}
    BY <1>5, <2>1
  <2>3. Follows(g)
    BY <2>2
  <2>. QED
    BY <2>3
<1>7. Follows(left)
  BY <1>6
<1>. HIDE DEF left
<1>8. left[0] = {start} /\ \A i \in 1 .. n : left[i] = {Reduced(p, i) : p \in left[i - 1]}
  <2>1. 0 \in 0 .. n /\ \A i \in 1 .. n : i \in 0 .. n /\ i # 0
    BY <1>1
  <2>. QED
    BY <1>7, <2>1
<1>9. left[n] = {r[n]}
  <2>. DEFINE S == {i \in 0 .. n : left[i] = {r[i]}}
  <2>1. 0 \in S
    BY <1>1, <1>5, <1>8
  <2>2. ASSUME NEW i \in 1 .. n, i - 1 \in S PROVE i \in S
    <3>1. i \in 0 .. n /\ left[i - 1] = {r[i - 1]}
      BY <1>1, <2>2
    <3>2. left[i] = {Reduced(p, i) : p \in {r[i - 1]}}
      BY <1>8, <3>1
    <3>3. left[i] = {Reduced(r[i - 1], i)}
      BY <3>2
    <3>. QED
      BY <1>5, <3>1, <3>3
  <2>. HIDE DEF S
  <2>3. \A i \in 0 .. n : i \in S
    BY <1>1, <2>1, <2>2, Induction
  <2>4. n \in 0 .. n
    BY <1>1
  <2>. QED
    BY <2>3, <2>4 DEF S
<1>10. last = r[n]
  <2>1. last \in {r[n]}
    BY <1>9
  <2>. QED
    BY <2>1
<1>11. IsDivision(r, bits)
  BY <1>5 DEF IsDivision, n, V, start
<1>12. FrameCheckSequence(bits) = [j \in 1 .. 32 |-> 1 - r[n][n + j]]
  BY <1>2, <1>10
<1>. HIDE DEF last
<1>. QED
  BY <1>11, <1>12 DEF n

\* Where the step of the register and the step of the division lead.
LEMMA StepOfRegister ==
  ASSUME NEW crc \in Registers, NEW bit \in Bit, NEW j \in 1 .. 32
  PROVE  FcsStep(crc, bit)[j] = ((IF j < 32 THEN crc[j + 1] ELSE 0)
                                 + (IF bit = crc[1] THEN 0 ELSE FcsPolynomial[j])) % 2
BY DEF FcsStep

\* compute_fcs (bit_vector.cpp:18-32) is the division by the generator: it returns
\* the sequence that FrameCheckSequence defines, of any bits, but for none at all.
THEOREM ComputedAsSent ==
  ASSUME NEW bits \in Seq(Bit), bits # <<>>
  PROVE  compute_fcs(bits) = {FrameCheckSequence(bits)}
<1>. DEFINE n == Len(bits)
            Coming(k) == IF k <= n THEN bits[k] ELSE 0
<1>1. n \in Nat /\ n >= 1 /\ \A i \in 1 .. n : bits[i] \in Bit
  BY EveryBit, EmptySeq
<1>2. PICK r : IsRun(r, bits) /\ compute_fcs(bits) = {[j \in 1 .. 32 |-> 1 - r[n][j]]}
  BY FcsOfRun
<1>3. PICK p : IsDivision(p, bits) /\ FrameCheckSequence(bits) = [j \in 1 .. 32 |-> 1 - p[n][n + j]]
  BY SequenceOfDivision
<1>4. /\ r \in [0 .. n -> Registers] /\ r[0] = FirstRegister(n)
      /\ \A i \in 1 .. n : r[i] = FcsStep(r[i - 1], bits[i])
  BY <1>2 DEF IsRun
<1>5. /\ p \in [0 .. n -> Dividends(bits)] /\ p[0] = Dividend(bits)
      /\ \A i \in 1 .. n : p[i] = Reduced(p[i - 1], i)
  BY <1>3 DEF IsDivision
<1>6. \A k \in 1 .. n + 32 : Coming(k) \in Bit
  BY <1>1 DEF Bit
<1>7. \A k \in 1 .. n + 32 : Dividend(bits)[k] = IF k <= 32 /\ k <= n THEN 1 - Coming(k) ELSE Coming(k)
  BY <1>1 DEF Dividend
<1>. HIDE DEF n, Coming
<1>. DEFINE Left(i) ==
                /\ \A j \in 1 .. 32 : p[i][i + j] = (r[i][j] + Coming(i + j)) % 2
                /\ \A k \in i + 33 .. n + 32 : p[i][k] = Coming(k)
            S == {i \in 0 .. n : Left(i)}
<1>8. 0 \in S
  <2>1. \A j \in 1 .. 32 : j \in 1 .. n + 32 /\ 0 + j = j
    BY <1>1
  <2>2. \A j \in 1 .. 32 : r[0][j] = IF j <= n THEN 1 ELSE 0
    BY <1>4 DEF FirstRegister
  <2>3. \A x \in Bit : 1 - x = (1 + x) % 2 /\ x = (0 + x) % 2
    BY DEF Bit
  <2>4. \A j \in 1 .. 32 : p[0][j] = (r[0][j] + Coming(j)) % 2
    <3>. SUFFICES ASSUME NEW j \in 1 .. 32 PROVE p[0][j] = (r[0][j] + Coming(j)) % 2
      OBVIOUS
    <3>1. j \in 1 .. n + 32 /\ Coming(j) \in Bit
      BY <1>6, <2>1
    <3>2. CASE j <= n
      <4>1. r[0][j] = 1
        BY <2>2, <3>2
      <4>2. p[0][j] = 1 - Coming(j)
        <5>1. j <= 32
          OBVIOUS
        <5>2. Dividend(bits)[j] = 1 - Coming(j)
          BY <1>7, <3>1, <3>2, <5>1
        <5>. QED
          BY <1>5, <5>2
      <4>. QED
        BY <2>3, <3>1, <4>1, <4>2
    <3>3. CASE ~(j <= n)
      <4>1. p[0][j] = Coming(j) /\ r[0][j] = 0
        BY <1>5, <1>7, <2>2, <3>1, <3>3
      <4>. QED
        BY <2>3, <3>1, <4>1
    <3>. QED
      BY <3>2, <3>3
  <2>5. \A k \in 33 .. n + 32 : p[0][k] = Coming(k)
    BY <1>1, <1>5, <1>7
  <2>6. Left(0)
    BY <2>1, <2>4, <2>5
  <2>7. 0 \in 0 .. n
    BY <1>1
  <2>. QED
    BY <2>6, <2>7
<1>9. ASSUME NEW i \in 1 .. n, i - 1 \in S PROVE i \in S
  <2>. DEFINE c == r[i - 1]
              q == p[i - 1]
  <2>1. c \in Registers /\ q \in Dividends(bits) /\ Coming(i) \in Bit /\ Coming(i) = bits[i]
    <3>1. i - 1 \in 0 .. n /\ i <= n
      BY <1>1
    <3>. QED
      BY <1>1, <1>4, <1>5, <3>1 DEF Coming
  <2>2. r[i] = FcsStep(c, Coming(i)) /\ p[i] = Reduced(q, i)
    BY <1>4, <1>5, <2>1
  <2>3. /\ \A j \in 1 .. 32 : q[i - 1 + j] = (c[j] + Coming(i - 1 + j)) % 2
        /\ \A k \in i - 1 + 33 .. n + 32 : q[k] = Coming(k)
    BY <1>9
  <2>. HIDE DEF c, q
  <2>4. \A j \in 1 .. 32 : c[j] \in Bit
    BY <2>1 DEF Registers
  <2>5. q[i] = (c[1] + Coming(i)) % 2
    <3>1. i - 1 + 1 = i
      BY <1>1
    <3>. QED
      BY <2>1, <2>3, <3>1, 1 \in 1 .. 32
  <2>6. \A j \in 1 .. 32 : q[i + j] = ((IF j < 32 THEN c[j + 1] ELSE 0) + Coming(i + j)) % 2
    <3>. SUFFICES ASSUME NEW j \in 1 .. 32
                  PROVE  q[i + j] = ((IF j < 32 THEN c[j + 1] ELSE 0) + Coming(i + j)) % 2
      OBVIOUS
    <3>1. CASE j < 32
      <4>1. j + 1 \in 1 .. 32 /\ i - 1 + (j + 1) = i + j
        BY <1>1, <3>1
      <4>. QED
        BY <2>3, <3>1, <4>1
    <3>2. CASE j = 32
      <4>1. i + j \in i - 1 + 33 .. n + 32 /\ i + j \in 1 .. n + 32
        BY <1>1, <3>2
      <4>2. q[i + j] = Coming(i + j) /\ Coming(i + j) \in Bit
        BY <1>6, <2>3, <4>1
      <4>3. \A x \in Bit : x = (0 + x) % 2
        BY DEF Bit
      <4>. QED
        BY <3>2, <4>2, <4>3
    <3>. QED
      BY <3>1, <3>2
  <2>7. \A j \in 1 .. 32 : r[i][j] = ((IF j < 32 THEN c[j + 1] ELSE 0)
                                      + (IF q[i] = 0 THEN 0 ELSE FcsPolynomial[j])) % 2
    <3>1. \A x, y \in Bit : (x + y) % 2 = 0 <=> y = x
      BY DEF Bit
    <3>2. c[1] \in Bit
      BY <2>4, 1 \in 1 .. 32
    <3>3. q[i] = 0 <=> Coming(i) = c[1]
      BY <2>1, <2>5, <3>1, <3>2
    <3>. SUFFICES ASSUME NEW j \in 1 .. 32
                  PROVE  r[i][j] = ((IF j < 32 THEN c[j + 1] ELSE 0)
                                    + (IF q[i] = 0 THEN 0 ELSE FcsPolynomial[j])) % 2
      OBVIOUS
    <3>4. r[i][j] = ((IF j < 32 THEN c[j + 1] ELSE 0)
                     + (IF Coming(i) = c[1] THEN 0 ELSE FcsPolynomial[j])) % 2
      <4>1. FcsStep(c, Coming(i))[j] = ((IF j < 32 THEN c[j + 1] ELSE 0)
                                        + (IF Coming(i) = c[1] THEN 0 ELSE FcsPolynomial[j])) % 2
        BY <2>1, StepOfRegister
      <4>. QED
        BY <2>2, <4>1
    <3>. QED
      BY <3>3, <3>4
  <2>8. \A j \in 1 .. 32 : p[i][i + j] = IF q[i] = 0 THEN q[i + j] ELSE (q[i + j] + FcsPolynomial[j]) % 2
    <3>. SUFFICES ASSUME NEW j \in 1 .. 32
                  PROVE  p[i][i + j] = IF q[i] = 0 THEN q[i + j] ELSE (q[i + j] + FcsPolynomial[j]) % 2
      OBVIOUS
    <3>1. i + j \in 1 .. n + 32 /\ i + j \in i .. i + 32 /\ (i + j) - i + 1 = j + 1
      BY <1>1
    <3>2. i \in 1 .. Len(bits) /\ i + j \in 1 .. Len(bits) + 32
      BY <3>1 DEF n
    <3>3. FcsPolynomial[j] = Generator((i + j) - i + 1)
      BY <3>1, PolynomialOfGenerator
    <3>4. CASE q[i] = 0
      BY <2>1, <2>2, <3>2, <3>4, NextDividend
    <3>5. CASE q[i] # 0
      <4>1. Reduced(q, i)[i + j] = IF i + j \in i .. i + 32 THEN (q[i + j] + Generator((i + j) - i + 1)) % 2
                                   ELSE q[i + j]
        BY <2>1, <3>2, <3>5, NextDividend
      <4>. QED
        BY <2>2, <3>1, <3>3, <3>5, <4>1
    <3>. QED
      BY <3>4, <3>5
  <2>9. \A k \in i + 33 .. n + 32 : p[i][k] = Coming(k)
    <3>. SUFFICES ASSUME NEW k \in i + 33 .. n + 32 PROVE p[i][k] = Coming(k)
      OBVIOUS
    <3>1. k \in 1 .. n + 32 /\ k \notin i .. i + 32 /\ k \in i - 1 + 33 .. n + 32
      BY <1>1
    <3>2. p[i][k] = q[k]
      <4>1. i \in 1 .. Len(bits) /\ k \in 1 .. Len(bits) + 32
        BY <3>1 DEF n
      <4>2. CASE q[i] = 0
        BY <2>1, <2>2, <4>1, <4>2, NextDividend
      <4>3. CASE q[i] # 0
        <5>1. Reduced(q, i)[k] = IF k \in i .. i + 32 THEN (q[k] + Generator(k - i + 1)) % 2 ELSE q[k]
          BY <2>1, <4>1, <4>3, NextDividend
        <5>. QED
          BY <2>2, <3>1, <5>1
      <4>. QED
        BY <4>2, <4>3
    <3>. QED
      BY <2>3, <3>1, <3>2
  <2>10. \A j \in 1 .. 32 : p[i][i + j] = (r[i][j] + Coming(i + j)) % 2
    <3>1. \A x, y, z \in Bit : /\ (((x + 0) % 2) + y) % 2 = (x + y) % 2
                              /\ (((x + z) % 2) + y) % 2 = (((x + y) % 2) + z) % 2
      BY DEF Bit
    <3>. SUFFICES ASSUME NEW j \in 1 .. 32 PROVE p[i][i + j] = (r[i][j] + Coming(i + j)) % 2
      OBVIOUS
    <3>. DEFINE x == IF j < 32 THEN c[j + 1] ELSE 0
                y == Coming(i + j)
                z == FcsPolynomial[j]
    <3>2. x \in Bit
      <4>1. j < 32 => j + 1 \in 1 .. 32
        OBVIOUS
      <4>. QED
        BY <2>4, <4>1 DEF Bit
    <3>3. i + j \in 1 .. n + 32
      BY <1>1
    <3>4. y \in Bit /\ z \in Bit
      BY <1>6, <3>3, PolynomialOfGenerator
    <3>5. q[i + j] = (x + y) % 2 /\ r[i][j] = (x + (IF q[i] = 0 THEN 0 ELSE z)) % 2
      BY <2>6, <2>7
    <3>6. p[i][i + j] = IF q[i] = 0 THEN (x + y) % 2 ELSE (((x + y) % 2) + z) % 2
      BY <2>8, <3>5
    <3>. HIDE DEF x, y, z
    <3>7. CASE q[i] = 0
      <4>1. p[i][i + j] = (x + y) % 2 /\ r[i][j] = (x + 0) % 2
        BY <3>5, <3>6, <3>7
      <4>2. (((x + 0) % 2) + y) % 2 = (x + y) % 2
        BY <3>1, <3>2, <3>4
      <4>. QED
        BY <4>1, <4>2 DEF y
    <3>8. CASE q[i] # 0
      <4>1. p[i][i + j] = (((x + y) % 2) + z) % 2 /\ r[i][j] = (x + z) % 2
        BY <3>5, <3>6, <3>8
      <4>2. (((x + z) % 2) + y) % 2 = (((x + y) % 2) + z) % 2
        BY <3>1, <3>2, <3>4
      <4>. QED
        BY <4>1, <4>2 DEF y
    <3>. QED
      BY <3>7, <3>8
  <2>11. Left(i)
    BY <2>9, <2>10
  <2>12. i \in 0 .. n
    BY <1>1
  <2>. QED
    BY <2>11, <2>12
<1>10. Left(n)
  <2>. HIDE DEF S, Left
  <2>1. \A i \in 0 .. n : i \in S
    BY <1>1, <1>8, <1>9, Induction
  <2>2. n \in 0 .. n
    BY <1>1
  <2>. QED
    BY <2>1, <2>2 DEF S
<1>11. \A j \in 1 .. 32 : p[n][n + j] = r[n][j]
  <2>. SUFFICES ASSUME NEW j \in 1 .. 32 PROVE p[n][n + j] = r[n][j]
    OBVIOUS
  <2>1. Coming(n + j) = 0
    BY <1>1 DEF Coming
  <2>2. r[n][j] \in Bit
    <3>1. n \in 0 .. n
      BY <1>1
    <3>. QED
      BY <1>4, <3>1 DEF Registers
  <2>3. p[n][n + j] = (r[n][j] + Coming(n + j)) % 2
    BY <1>10
  <2>. QED
    BY <2>1, <2>2, <2>3 DEF Bit
<1>. QED
  BY <1>2, <1>3, <1>11

-----------------------------------------------------------------------------
(* What the checksum notices.  The registers of two frames differ as if    *)
(* their difference alone had been fed to a register that was clear.  From *)
(* the end of a burst of errors on the difference of the registers is the  *)
(* one of the bits to come, and this goes on back to where the burst       *)
(* begins, because the polynomial has its lowest power.                    *)

\* The difference of two registers, and of two sequences of bits.
Xor(a, b) == (a + b) % 2
Differs(rx, ry, n) == [i \in 0 .. n |-> [j \in 1 .. 32 |-> Xor(rx[i][j], ry[i][j])]]

\* The register is linear.
LEMMA StepOfDifference ==
  ASSUME NEW c \in Registers, NEW d \in Registers, NEW x \in Bit, NEW y \in Bit, NEW j \in 1 .. 32
  PROVE  Xor(FcsStep(c, x)[j], FcsStep(d, y)[j])
            = Xor(IF j < 32 THEN Xor(c[j + 1], d[j + 1]) ELSE 0,
                  IF Xor(c[1], d[1]) = Xor(x, y) THEN 0 ELSE FcsPolynomial[j])
<1>. DEFINE a == IF j < 32 THEN c[j + 1] ELSE 0
            b == IF j < 32 THEN d[j + 1] ELSE 0
            p == FcsPolynomial[j]
            f == c[1]
            g == d[1]
<1>1. FcsStep(c, x)[j] = (a + (IF x = f THEN 0 ELSE p)) % 2 /\ FcsStep(d, y)[j] = (b + (IF y = g THEN 0 ELSE p)) % 2
  BY StepOfRegister
<1>2. a \in Bit /\ b \in Bit /\ p \in Bit /\ f \in Bit /\ g \in Bit
  <2>1. (j < 32 => j + 1 \in 1 .. 32) /\ 1 \in 1 .. 32
    OBVIOUS
  <2>. QED
    BY <2>1, PolynomialOfGenerator DEF Registers, Bit
<1>3. Xor(a, b) = IF j < 32 THEN Xor(c[j + 1], d[j + 1]) ELSE 0
  BY DEF Xor
<1>4. Xor(FcsStep(c, x)[j], FcsStep(d, y)[j])
        = Xor((a + (IF x = f THEN 0 ELSE p)) % 2, (b + (IF y = g THEN 0 ELSE p)) % 2)
  BY <1>1
<1>5. Xor((a + (IF x = f THEN 0 ELSE p)) % 2, (b + (IF y = g THEN 0 ELSE p)) % 2)
        = Xor(Xor(a, b), IF Xor(f, g) = Xor(x, y) THEN 0 ELSE p)
  <2>. HIDE DEF a, b, p, f, g
  <2>. QED
    BY <1>2 DEF Xor, Bit
<1>. QED
  BY <1>3, <1>4, <1>5

\* A difference D of registers that is made of the difference e of two frames.
IsDifference(D, e, n) ==
    /\ \A i \in 0 .. n : \A j \in 1 .. 32 : D[i][j] \in Bit
    /\ \A k \in 1 .. n + 32 : e[k] \in Bit
    /\ \A j \in 1 .. 32 : D[0][j] = 0
    /\ \A i \in 1 .. n : \A j \in 1 .. 32 :
          D[i][j] = Xor(IF j < 32 THEN D[i - 1][j + 1] ELSE 0,
                        IF D[i - 1][1] = e[i] THEN 0 ELSE FcsPolynomial[j])
    /\ \A j \in 1 .. 32 : D[n][j] = e[n + j]

LEMMA NoBurst ==
  ASSUME NEW n \in Nat, NEW D, NEW e, IsDifference(D, e, n),
         NEW at \in Nat, \A k \in 1 .. n + 32 : k \notin at + 1 .. at + 32 => e[k] = 0
  PROVE  \A k \in 1 .. n + 32 : e[k] = 0
<1>1. /\ \A i \in 0 .. n : \A j \in 1 .. 32 : D[i][j] \in Bit
      /\ \A k \in 1 .. n + 32 : e[k] \in Bit
      /\ \A j \in 1 .. 32 : D[0][j] = 0
  BY DEF IsDifference
<1>2. \A i \in 1 .. n : \A j \in 1 .. 32 :
        D[i][j] = Xor(IF j < 32 THEN D[i - 1][j + 1] ELSE 0,
                      IF D[i - 1][1] = e[i] THEN 0 ELSE FcsPolynomial[j])
  BY DEF IsDifference
<1>3. \A j \in 1 .. 32 : D[n][j] = e[n + j]
  BY DEF IsDifference
<1>4. Xor(0, 0) = 0 /\ Xor(0, 1) # 0 /\ \A x \in Bit : Xor(x, 0) = x
  BY DEF Xor, Bit
<1>. DEFINE Clear(i) == i <= at => \A j \in 1 .. 32 : D[i][j] = 0
            S == {i \in 0 .. n : Clear(i)}
            Shifted(i) == i >= at => \A j \in 1 .. 32 : D[i][j] = e[i + j]
            T == {m \in 0 .. n : Shifted(n - m)}
<1>5. \A i \in 0 .. n : Clear(i)
  <2>1. 0 \in S
    BY <1>1
  <2>2. ASSUME NEW i \in 1 .. n, i - 1 \in S PROVE i \in S
    <3>. SUFFICES ASSUME i <= at, NEW j \in 1 .. 32 PROVE D[i][j] = 0
      OBVIOUS
    <3>1. i \in 1 .. n + 32 /\ i \notin at + 1 .. at + 32 /\ i - 1 <= at
      OBVIOUS
    <3>2. e[i] = 0 /\ \A m \in 1 .. 32 : D[i - 1][m] = 0
      BY <2>2, <3>1
    <3>3. D[i - 1][1] = e[i] /\ (j < 32 => D[i - 1][j + 1] = 0)
      <4>1. 1 \in 1 .. 32 /\ (j < 32 => j + 1 \in 1 .. 32)
        OBVIOUS
      <4>. QED
        BY <3>2, <4>1
    <3>4. D[i][j] = Xor(IF j < 32 THEN D[i - 1][j + 1] ELSE 0,
                        IF D[i - 1][1] = e[i] THEN 0 ELSE FcsPolynomial[j])
      BY <1>2
    <3>5. D[i][j] = Xor(0, 0)
      BY <3>3, <3>4
    <3>. QED
      BY <1>4, <3>5
  <2>. HIDE DEF S, Clear
  <2>3. \A i \in 0 .. n : i \in S
    BY <2>1, <2>2, Induction
  <2>. QED
    BY <2>3 DEF S
<1>6. \A m \in 0 .. n : Shifted(n - m)
  <2>1. 0 \in T
    BY <1>3
  <2>2. ASSUME NEW m \in 1 .. n, m - 1 \in T PROVE m \in T
    <3>. DEFINE i == n - (m - 1)
    <3>1. i \in 1 .. n /\ i - 1 = n - m /\ i - 1 \in 0 .. n
      OBVIOUS
    <3>2. Shifted(i)
      BY <2>2
    <3>. HIDE DEF i
    <3>3. ASSUME i - 1 >= at, NEW j \in 1 .. 32 PROVE D[i - 1][j] = e[i - 1 + j]
      <4>1. \A k \in 1 .. 32 : D[i][k] = e[i + k]
        BY <3>1, <3>2, <3>3
      <4>2. e[i + 32] = 0
        <5>1. i + 32 \in 1 .. n + 32 /\ i + 32 \notin at + 1 .. at + 32
          BY <3>1, <3>3
        <5>. QED
          BY <5>1
      <4>3. D[i - 1][1] = e[i]
        <5>1. D[i][32] = Xor(0, IF D[i - 1][1] = e[i] THEN 0 ELSE FcsPolynomial[32])
          BY <1>2, <3>1, 32 \in 1 .. 32
        <5>2. D[i][32] = 0
          BY <4>1, <4>2, 32 \in 1 .. 32
        <5>. QED
          BY <1>4, <5>1, <5>2, PolynomialOfGenerator
      <4>4. CASE j = 1
        <5>1. i - 1 + 1 = i
          BY <3>1
        <5>. QED
          BY <4>3, <4>4, <5>1
      <4>5. CASE j # 1
        <5>1. j - 1 \in 1 .. 32 /\ j - 1 < 32 /\ (j - 1) + 1 = j /\ i + (j - 1) = i - 1 + j
          BY <3>1, <4>5
        <5>2. D[i][j - 1] = Xor(D[i - 1][j], 0)
          BY <1>2, <3>1, <4>3, <5>1
        <5>3. D[i][j - 1] = D[i - 1][j]
          BY <1>1, <1>4, <3>1, <5>2
        <5>. QED
          BY <4>1, <5>1, <5>3
      <4>. QED
        BY <4>4, <4>5
    <3>4. Shifted(n - m)
      BY <3>1, <3>3
    <3>. QED
      BY <3>4
  <2>. HIDE DEF T, Shifted
  <2>3. \A m \in 0 .. n : m \in T
    BY <2>1, <2>2, Induction
  <2>. QED
    BY <2>3 DEF T
<1>7. SUFFICES ASSUME NEW k \in 1 .. n + 32, k \in at + 1 .. at + 32 PROVE e[k] = 0
  OBVIOUS
<1>8. CASE at >= n
  <2>1. Clear(n)
    BY <1>5, n \in 0 .. n
  <2>2. k - n \in 1 .. 32 /\ n + (k - n) = k
    BY <1>7, <1>8
  <2>. QED
    BY <1>3, <1>8, <2>1, <2>2
<1>9. CASE at < n
  <2>1. n - at \in 0 .. n /\ n - (n - at) = at /\ at \in 0 .. n
    BY <1>9
  <2>2. Clear(at) /\ Shifted(at)
    BY <1>5, <1>6, <2>1
  <2>3. k - at \in 1 .. 32 /\ at + (k - at) = k
    BY <1>7
  <2>. QED
    BY <2>2, <2>3
<1>. QED
  BY <1>8, <1>9

\* What the parser says of a TL-SDU and the sequence behind it (WithoutFcs).
FcsGood(frame) ==
    \E fcs \in compute_fcs(TakenLast(32, BitVec(frame)).bits) :
        SubSeq(frame, Len(frame) - 31, Len(frame)) = fcs

\* Two parts of a sequence.
LEMMA PartOf ==
  ASSUME NEW bits \in Seq(Bit), NEW from \in Nat, NEW n \in Nat, from + n <= Len(bits)
  PROVE  /\ SubSeq(bits, from + 1, from + n) \in Seq(Bit) /\ Len(SubSeq(bits, from + 1, from + n)) = n
         /\ \A i \in 1 .. n : SubSeq(bits, from + 1, from + n)[i] = bits[from + i]
<1>. DEFINE part == SubSeq(bits, from + 1, from + n)
<1>1. Len(bits) \in Nat /\ \A i \in from + 1 .. from + n : bits[i] \in Bit
  <2>1. Len(bits) \in Nat /\ from + 1 >= 1
    OBVIOUS
  <2>. QED
    BY <2>1
<1>2. part \in Seq(Bit) /\ Len(part) = IF from + 1 <= from + n THEN (from + n) - (from + 1) + 1 ELSE 0
  BY <1>1, SubSeqProperties
<1>3. \A i \in 1 .. n : part[i] = bits[(from + 1) + i - 1]
  BY <1>1, SubSeqProperties
<1>4. \A i \in 1 .. n : (from + 1) + i - 1 = from + i
  OBVIOUS
<1>. HIDE DEF part
<1>5. Len(part) = n
  BY <1>2
<1>. QED
  BY <1>2, <1>3, <1>4, <1>5 DEF part

\* A frame of n bits and their sequence, fed to the register.
IsGoodRun(r, frame, n) ==
    /\ r \in [0 .. n -> Registers] /\ r[0] = FirstRegister(n)
    /\ \A i \in 1 .. n : r[i] = FcsStep(r[i - 1], frame[i])
    /\ \A j \in 1 .. 32 : frame[n + j] = 1 - r[n][j]

LEMMA RunOfGood ==
  ASSUME NEW frame \in Seq(Bit), NEW n \in Nat, n >= 1, n + 32 = Len(frame), FcsGood(frame)
  PROVE  \E r : IsGoodRun(r, frame, n)
<1>. DEFINE bits == SubSeq(frame, 0 + 1, 0 + n)
            last == SubSeq(frame, n + 1, n + 32)
<1>1. bits \in Seq(Bit) /\ Len(bits) = n /\ \A i \in 1 .. n : bits[i] = frame[0 + i]
  <2>1. 0 \in Nat /\ 0 + n <= Len(frame)
    OBVIOUS
  <2>. QED
    BY <2>1, PartOf
<1>2. \A j \in 1 .. 32 : last[j] = frame[n + j]
  <2>1. 32 \in Nat /\ n + 32 <= Len(frame)
    OBVIOUS
  <2>. QED
    BY <2>1, PartOf
<1>3. TakenLast(32, BitVec(frame)).bits = bits /\ SubSeq(frame, Len(frame) - 31, Len(frame)) = last
  <2>1. \A m : m = n + 32 => m - 32 = n /\ m - 31 = n + 1
    OBVIOUS
  <2>2. Len(frame) - 32 = n /\ Len(frame) - 31 = n + 1 /\ Len(frame) = n + 32 /\ 0 + 1 = 1 /\ 0 + n = n
    BY <2>1
  <2>. QED
    BY <2>2 DEF TakenLast, BitVec
<1>. HIDE DEF bits, last
<1>4. last \in compute_fcs(bits)
  BY <1>3 DEF FcsGood
<1>5. bits # <<>>
  BY <1>1, EmptySeq
<1>6. PICK r : IsRun(r, bits) /\ compute_fcs(bits) = {[j \in 1 .. 32 |-> 1 - r[n][j]]}
  <2>1. \E r : IsRun(r, bits) /\ compute_fcs(bits) = {[j \in 1 .. 32 |-> 1 - r[Len(bits)][j]]}
    BY <1>1, <1>5, FcsOfRun
  <2>. QED
    BY <1>1, <2>1
<1>7. last = [j \in 1 .. 32 |-> 1 - r[n][j]]
  BY <1>4, <1>6
<1>8. \A j \in 1 .. 32 : frame[n + j] = 1 - r[n][j]
  BY <1>2, <1>7
<1>9. \A i \in 1 .. n : bits[i] = frame[i]
  BY <1>1
<1>10. /\ r \in [0 .. n -> Registers] /\ r[0] = FirstRegister(n)
       /\ \A i \in 1 .. n : r[i] = FcsStep(r[i - 1], frame[i])
  BY <1>1, <1>6, <1>9 DEF IsRun
<1>. QED
  BY <1>8, <1>10 DEF IsGoodRun

\* Two such frames do not differ in a burst.
LEMMA GoodRunsDiffer ==
  ASSUME NEW n \in Nat, NEW a, NEW b, \A k \in 1 .. n + 32 : a[k] \in Bit /\ b[k] \in Bit,
         NEW x, IsGoodRun(x, a, n), NEW y, IsGoodRun(y, b, n),
         NEW at \in Nat, \A k \in 1 .. n + 32 : k \notin at + 1 .. at + 32 => b[k] = a[k]
  PROVE  \A k \in 1 .. n + 32 : b[k] = a[k]
<1>. DEFINE e == [k \in 1 .. n + 32 |-> Xor(a[k], b[k])]
            D == Differs(x, y, n)
<1>1. \A i \in 0 .. n : \A j \in 1 .. 32 : D[i][j] = Xor(x[i][j], y[i][j])
  BY DEF Differs
<1>2. \A k \in 1 .. n + 32 : e[k] = Xor(a[k], b[k])
  OBVIOUS
<1>3. \A f, g \in Bit : Xor(f, g) \in Bit /\ Xor(f, f) = 0 /\ Xor(1 - f, 1 - g) = Xor(f, g) /\ (Xor(f, g) = 0 => f = g)
  BY DEF Xor, Bit
<1>4. x[0] = FirstRegister(n) /\ \A i \in 1 .. n : x[i] = FcsStep(x[i - 1], a[i])
  BY DEF IsGoodRun
<1>5. y[0] = FirstRegister(n) /\ \A i \in 1 .. n : y[i] = FcsStep(y[i - 1], b[i])
  BY DEF IsGoodRun
<1>6. \A i \in 0 .. n : /\ x[i] \in Registers /\ y[i] \in Registers
                        /\ \A j \in 1 .. 32 : x[i][j] \in Bit /\ y[i][j] \in Bit
  BY DEF IsGoodRun, Registers
<1>. HIDE DEF D, e
<1>7. IsDifference(D, e, n)
  <2>1. ASSUME NEW i \in 0 .. n, NEW j \in 1 .. 32 PROVE D[i][j] \in Bit
    <3>1. D[i][j] = Xor(x[i][j], y[i][j]) /\ x[i][j] \in Bit /\ y[i][j] \in Bit
      BY <1>1, <1>6
    <3>. QED
      BY <1>3, <3>1
  <2>2. \A k \in 1 .. n + 32 : e[k] \in Bit
    BY <1>2, <1>3
  <2>3. ASSUME NEW j \in 1 .. 32 PROVE D[0][j] = 0
    <3>1. 0 \in 0 .. n /\ x[0] = y[0]
      BY <1>4, <1>5
    <3>2. D[0][j] = Xor(x[0][j], x[0][j]) /\ x[0][j] \in Bit
      BY <1>1, <1>6, <3>1
    <3>. QED
      BY <1>3, <3>2
  <2>4. ASSUME NEW i \in 1 .. n, NEW j \in 1 .. 32
        PROVE  D[i][j] = Xor(IF j < 32 THEN D[i - 1][j + 1] ELSE 0,
                             IF D[i - 1][1] = e[i] THEN 0 ELSE FcsPolynomial[j])
    <3>1. i \in 0 .. n /\ i - 1 \in 0 .. n /\ i \in 1 .. n + 32 /\ 1 \in 1 .. 32 /\ (j < 32 => j + 1 \in 1 .. 32)
      OBVIOUS
    <3>2. D[i - 1][1] = Xor(x[i - 1][1], y[i - 1][1]) /\ e[i] = Xor(a[i], b[i])
      BY <1>1, <1>2, <3>1
    <3>3. j < 32 => D[i - 1][j + 1] = Xor(x[i - 1][j + 1], y[i - 1][j + 1])
      BY <1>1, <3>1
    <3>4. D[i][j] = Xor(FcsStep(x[i - 1], a[i])[j], FcsStep(y[i - 1], b[i])[j])
      <4>1. x[i] = FcsStep(x[i - 1], a[i]) /\ y[i] = FcsStep(y[i - 1], b[i])
        BY <1>4, <1>5
      <4>2. D[i][j] = Xor(x[i][j], y[i][j])
        BY <1>1, <3>1
      <4>. QED
        BY <4>1, <4>2
    <3>5. a[i] \in Bit /\ b[i] \in Bit /\ x[i - 1] \in Registers /\ y[i - 1] \in Registers
      BY <1>6, <3>1
    <3>6. D[i][j] = Xor(IF j < 32 THEN Xor(x[i - 1][j + 1], y[i - 1][j + 1]) ELSE 0,
                        IF Xor(x[i - 1][1], y[i - 1][1]) = Xor(a[i], b[i]) THEN 0 ELSE FcsPolynomial[j])
      <4>1. Xor(FcsStep(x[i - 1], a[i])[j], FcsStep(y[i - 1], b[i])[j])
              = Xor(IF j < 32 THEN Xor(x[i - 1][j + 1], y[i - 1][j + 1]) ELSE 0,
                    IF Xor(x[i - 1][1], y[i - 1][1]) = Xor(a[i], b[i]) THEN 0 ELSE FcsPolynomial[j])
        <5>. DEFINE c == x[i - 1]
                    d == y[i - 1]
                    f == a[i]
                    g == b[i]
        <5>1. c \in Registers /\ d \in Registers /\ f \in Bit /\ g \in Bit /\ j \in 1 .. 32
          BY <3>5
        <5>. HIDE DEF c, d, f, g
        <5>2. Xor(FcsStep(c, f)[j], FcsStep(d, g)[j])
                = Xor(IF j < 32 THEN Xor(c[j + 1], d[j + 1]) ELSE 0,
                      IF Xor(c[1], d[1]) = Xor(f, g) THEN 0 ELSE FcsPolynomial[j])
          BY <5>1, StepOfDifference
        <5>. QED
          BY <5>2 DEF c, d, f, g
      <4>. QED
        BY <3>4, <4>1
    <3>. QED
      BY <3>2, <3>3, <3>6
  <2>5. ASSUME NEW j \in 1 .. 32 PROVE D[n][j] = e[n + j]
    <3>1. n \in 0 .. n /\ n + j \in 1 .. n + 32
      OBVIOUS
    <3>2. D[n][j] = Xor(x[n][j], y[n][j]) /\ e[n + j] = Xor(a[n + j], b[n + j])
      BY <1>1, <1>2, <3>1
    <3>3. a[n + j] = 1 - x[n][j] /\ b[n + j] = 1 - y[n][j]
      BY DEF IsGoodRun
    <3>. QED
      <4>1. x[n][j] \in Bit /\ y[n][j] \in Bit
        BY <1>6, <3>1
      <4>. QED
        BY <1>3, <3>2, <3>3, <4>1
  <2>. QED
    BY <2>1, <2>2, <2>3, <2>4, <2>5 DEF IsDifference
<1>8. \A k \in 1 .. n + 32 : k \notin at + 1 .. at + 32 => e[k] = 0
  BY <1>2, <1>3
<1>9. \A k \in 1 .. n + 32 : e[k] = 0
  BY <1>7, <1>8, NoBurst
<1>. QED
  BY <1>2, <1>3, <1>9

\* A burst of errors in no more than 32 bits in a row, in the TL-SDU or in its
\* sequence or across both, is always noticed (logical_link_control_packet.cpp:
\* 45-54): no frame with a good sequence becomes another one.
THEOREM BurstIsNoticed ==
  ASSUME NEW frame \in Seq(Bit), NEW got \in Seq(Bit), Len(got) = Len(frame), Len(frame) > 32,
         FcsGood(frame), got # frame,
         NEW at \in Nat, \A k \in 1 .. Len(frame) : k \notin at + 1 .. at + 32 => got[k] = frame[k]
  PROVE  ~FcsGood(got)
<1>1. SUFFICES ASSUME FcsGood(got) PROVE got = frame
  OBVIOUS
<1>. DEFINE n == Len(frame) - 32
<1>2. n \in Nat /\ n >= 1 /\ n + 32 = Len(frame) /\ n + 32 = Len(got)
  BY LenProperties
<1>3. \A k \in 1 .. n + 32 : frame[k] \in Bit /\ got[k] \in Bit
  BY <1>2, EveryBit
<1>4. \A k \in 1 .. n + 32 : k \notin at + 1 .. at + 32 => got[k] = frame[k]
  BY <1>2
<1>. HIDE DEF n
<1>5. PICK x : IsGoodRun(x, frame, n)
  BY <1>2, RunOfGood
<1>6. PICK y : IsGoodRun(y, got, n)
  BY <1>1, <1>2, RunOfGood
<1>7. \A k \in 1 .. n + 32 : got[k] = frame[k]
  BY <1>2, <1>3, <1>4, <1>5, <1>6, GoodRunsDiffer
<1>8. \A k \in 1 .. Len(got) : got[k] = frame[k]
  BY <1>2, <1>7
<1>. QED
  BY <1>8, SeqEqual

-----------------------------------------------------------------------------
(* Reading: a layout is read field by field, and never lengthens the data. *)

\* The value of a few bits.
LEMMA ValueOfBits ==
  ASSUME NEW bits \in Seq(Bit)
  PROVE  \E number : /\ ToNat(bits) = number[Len(bits)] /\ number[0] = 0
                    /\ \A i \in 1 .. Len(bits) : number[i] = 2 * number[i - 1] + bits[i]
<1>. DEFINE n == Len(bits)
            Follows(g) == g = [i \in 0 .. n |-> IF i = 0 THEN 0 ELSE 2 * g[i - 1] + bits[i]]
            number == CHOOSE g : Follows(g)
<1>1. n \in Nat /\ \A i \in 1 .. n : bits[i] \in Bit
  OBVIOUS
<1>2. ToNat(bits) = number[n]
  BY DEF ToNat
<1>. HIDE DEF n
<1>3. \E f \in [0 .. n -> Nat] : Follows(f)
  <2>. DEFINE step == [p \in (1 .. n) \X Nat |-> 2 * p[2] + bits[p[1]]]
  <2>1. step \in [(1 .. n) \X Nat -> Nat]
    BY <1>1 DEF Bit
  <2>2. \A i \in 1 .. n : \A v \in Nat : step[<<i, v>>] = 2 * v + bits[i]
    OBVIOUS
  <2>. HIDE DEF step
  <2>. DEFINE V == Nat
              first == 0
  <2>3. n \in Nat /\ first \in V /\ StepsIn(V, step, n)
    BY <1>1, <2>1 DEF StepsIn
  <2>. HIDE DEF V, first
  <2>4. RecursiveExists(V, first, step, n)
    BY <2>3, Recursion
  <2>5. PICK f \in [0 .. n -> Nat] : f[0] = 0 /\ \A i \in 1 .. n : f[i] = step[<<i, f[i - 1]>>]
    BY <2>4 DEF V, first, Recursive, RecursiveExists
  <2>6. \A i \in 0 .. n : f[i] = IF i = 0 THEN 0 ELSE 2 * f[i - 1] + bits[i]
    <3>1. \A i \in 0 .. n : i # 0 => i \in 1 .. n /\ i - 1 \in 0 .. n
      BY <1>1
    <3>2. \A i \in 0 .. n : f[i] \in Nat
      OBVIOUS
    <3>. QED
      BY <2>2, <2>5, <3>1, <3>2
  <2>7. f = [i \in 0 .. n |-> f[i]]
    BY <2>5
  <2>. QED
    BY <2>6, <2>7
<1>4. Follows(number)
  BY <1>3
<1>. HIDE DEF number
<1>5. number[0] = 0 /\ \A i \in 1 .. n : number[i] = 2 * number[i - 1] + bits[i]
  <2>1. 0 \in 0 .. n /\ \A i \in 1 .. n : i \in 0 .. n /\ i # 0
    BY <1>1
  <2>. QED
    BY <1>4, <2>1
<1>. QED
  BY <1>2, <1>5 DEF n

\* A field has a width, and none of some names.  A layout is a sequence of fields.
IsField(field, without) ==
    "width" \in DOMAIN field /\ "name" \in DOMAIN field /\ field.width \in Nat /\ field.name \notin without
IsLayout(layout, without) ==
    /\ Len(layout) \in Nat
    /\ layout = [i \in 1 .. Len(layout) |-> layout[i]]
    /\ \A i \in 1 .. Len(layout) : IsField(layout[i], without)

\* A layout is a sequence of such fields, in the words of the library's facts on
\* sequences.
LEMMA FieldsOfLayout ==
  ASSUME NEW layout, NEW without
  PROVE  IsLayout(layout, without) <=> \E S : layout \in Seq(S) /\ \A field \in S : IsField(field, without)
<1>1. ASSUME IsLayout(layout, without) PROVE \E S : layout \in Seq(S) /\ \A field \in S : IsField(field, without)
  <2>. DEFINE S == {layout[i] : i \in 1 .. Len(layout)}
  <2>1. layout \in [1 .. Len(layout) -> S] /\ Len(layout) \in Nat
    BY <1>1 DEF IsLayout
  <2>2. layout \in Seq(S)
    BY <2>1, SeqDef
  <2>. QED
    BY <1>1, <2>2 DEF IsLayout
<1>2. ASSUME NEW S, layout \in Seq(S), \A field \in S : IsField(field, without) PROVE IsLayout(layout, without)
  <2>1. Len(layout) \in Nat /\ layout \in [1 .. Len(layout) -> S]
    BY <1>2, LenProperties
  <2>. QED
    BY <1>2, <2>1 DEF IsLayout
<1>. QED
  BY <1>1, <1>2

\* One layout behind another.
LEMMA Concatenated ==
  ASSUME NEW without, NEW first, IsLayout(first, without), NEW second, IsLayout(second, without)
  PROVE  IsLayout(first \o second, without)
<1>1. PICK S : first \in Seq(S) /\ \A field \in S : IsField(field, without)
  BY FieldsOfLayout
<1>2. PICK T : second \in Seq(T) /\ \A field \in T : IsField(field, without)
  BY FieldsOfLayout
<1>3. first \in Seq(S \cup T) /\ second \in Seq(S \cup T)
  BY <1>1, <1>2
<1>4. first \o second \in Seq(S \cup T)
  BY <1>3
<1>5. \A field \in S \cup T : IsField(field, without)
  BY <1>1, <1>2
<1>. QED
  BY <1>4, <1>5, FieldsOfLayout

\* A layout that is there under a condition.
LEMMA Conditional ==
  ASSUME NEW without, NEW when, NEW layout, IsLayout(layout, without)
  PROVE  IsLayout(Under(when, layout), without)
<1>1. PICK S : layout \in Seq(S) /\ \A field \in S : IsField(field, without)
  BY FieldsOfLayout
<1>. DEFINE T == {[field EXCEPT !.when = {when} \cup @] : field \in S}
<1>2. \A field \in T : IsField(field, without)
  BY <1>1 DEF IsField
<1>3. DOMAIN layout = 1 .. Len(layout) /\ Len(layout) \in Nat /\ \A i \in DOMAIN layout : layout[i] \in S
  BY <1>1
<1>4. Under(when, layout) \in [1 .. Len(layout) -> T]
  BY <1>3 DEF Under
<1>5. Under(when, layout) \in Seq(T)
  BY <1>3, <1>4, SeqDef
<1>. QED
  BY <1>2, <1>5, FieldsOfLayout

\* The views of data; those that are no longer than one; the values of fields.
BitVecs == [bits : Seq(Bit), fill_bits_removed_ : BOOLEAN]
PartsOf(view) == {rest \in BitVecs : bits_left(rest) <= bits_left(view)}
ValuesOf(names) == UNION {[present -> Nat] : present \in SUBSET names}

\* Bits are a number.
LEMMA NumberOfBits == ASSUME NEW bits \in Seq(Bit) PROVE ToNat(bits) \in Nat
<1>1. PICK number : /\ ToNat(bits) = number[Len(bits)] /\ number[0] = 0
                   /\ \A i \in 1 .. Len(bits) : number[i] = 2 * number[i - 1] + bits[i]
  BY ValueOfBits
<1>2. Len(bits) \in Nat /\ \A i \in 1 .. Len(bits) : bits[i] \in Nat
  BY DEF Bit
<1>. DEFINE n == Len(bits)
            S == {i \in 0 .. n : number[i] \in Nat}
<1>3. n \in Nat /\ n \in 0 .. n
  BY <1>2
<1>4. 0 \in S /\ \A i \in 1 .. n : i - 1 \in S => i \in S
  <2>1. 0 \in S
    BY <1>1, <1>2
  <2>2. ASSUME NEW i \in 1 .. n, number[i - 1] \in Nat PROVE number[i] \in Nat
    <3>1. number[i] = 2 * number[i - 1] + bits[i] /\ bits[i] \in Nat
      BY <1>1, <1>2
    <3>. QED
      BY <2>2, <3>1
  <2>. QED
    BY <1>2, <2>1, <2>2
<1>. HIDE DEF n, S
<1>5. \A i \in 0 .. n : i \in S
  BY <1>3, <1>4, Induction
<1>. QED
  BY <1>1, <1>3, <1>5 DEF n, S

\* Taking bits from the front (bit_vector.hpp, take): what is left is that much
\* shorter.
LEMMA PartTaken ==
  ASSUME NEW view \in BitVecs, NEW n \in Nat, n <= bits_left(view)
  PROVE  /\ Taken(n, view) \in BitVecs /\ bits_left(Taken(n, view)) = bits_left(view) - n
         /\ look(n, 0, view) \in Nat
<1>. DEFINE rest == SubSeq(view.bits, n + 1, Len(view.bits))
            head == SubSeq(view.bits, 1, n)
<1>1. view.bits \in Seq(Bit) /\ Len(view.bits) \in Nat /\ n <= Len(view.bits)
  BY DEF BitVecs, bits_left
<1>2. rest \in Seq(Bit) /\ Len(rest) = Len(view.bits) - n
  BY <1>1, SubSeqProperties
<1>3. head \in Seq(Bit)
  BY <1>1, SubSeqProperties
<1>. HIDE DEF rest, head
<1>4. Taken(n, view) \in BitVecs /\ Taken(n, view).bits = rest
  BY <1>2 DEF Taken, BitVecs, rest
<1>5. look(n, 0, view) \in Nat
  <2>1. 0 + 1 = 1 /\ 0 + n = n
    OBVIOUS
  <2>. QED
    BY <1>3, <2>1, NumberOfBits DEF look, head
<1>. QED
  BY <1>2, <1>4, <1>5 DEF bits_left

\* A value with one more field.
LEMMA FieldAdded ==
  ASSUME NEW names, NEW name \in names, NEW n \in Nat, NEW fields \in ValuesOf(names)
  PROVE  WithField(fields, name, n) \in ValuesOf(names)
<1>1. PICK present \in SUBSET names : fields \in [present -> Nat]
  BY DEF ValuesOf
<1>2. WithField(fields, name, n) \in [present \cup {name} -> Nat]
  BY <1>1 DEF WithField
<1>. QED
  BY <1>2 DEF ValuesOf

\* What is read so far, and one more field of it.
NamesOf(layout) == {layout[i].name : i \in 1 .. Len(layout)}
Reads(layout, view) == [ok : BOOLEAN, value : ValuesOf(NamesOf(layout)), data : PartsOf(view)]
ReadFirst(view) == [ok |-> TRUE, value |-> NoFields, data |-> view]
ReadStep(field, before) ==
    IF ~before.ok \/ ~IsPresent(field, before.value) THEN before
    ELSE IF bits_left(before.data) < field.width THEN [before EXCEPT !.ok = FALSE]
    ELSE [ok |-> TRUE,
          value |-> WithField(before.value, field.name, look(field.width, 0, before.data)),
          data |-> Taken(field.width, before.data)]

LEMMA ReadStepType ==
  ASSUME NEW layout, NEW without, IsLayout(layout, without), NEW view \in BitVecs,
         NEW i \in 1 .. Len(layout), NEW before \in Reads(layout, view)
  PROVE  ReadStep(layout[i], before) \in Reads(layout, view)
<1>. DEFINE width == layout[i].width
            name == layout[i].name
            names == NamesOf(layout)
            parts == PartsOf(view)
<1>1. width \in Nat /\ name \in names
  BY DEF IsLayout, IsField, NamesOf
<1>2. before.ok \in BOOLEAN /\ before.value \in ValuesOf(names) /\ before.data \in parts
  BY DEF Reads
<1>3. [before EXCEPT !.ok = FALSE] \in Reads(layout, view)
  BY DEF Reads
<1>4. ASSUME ~(bits_left(before.data) < width)
      PROVE  /\ WithField(before.value, name, look(width, 0, before.data)) \in ValuesOf(names)
             /\ Taken(width, before.data) \in parts
  <2>1. before.data \in BitVecs /\ bits_left(before.data) <= bits_left(view)
    BY <1>2 DEF PartsOf
  <2>2. bits_left(before.data) \in Nat /\ bits_left(view) \in Nat
    BY <2>1 DEF bits_left, BitVecs
  <2>. HIDE DEF width, name, names, parts
  <2>3. width <= bits_left(before.data)
    BY <1>1, <1>4, <2>2
  <2>4. /\ Taken(width, before.data) \in BitVecs
        /\ bits_left(Taken(width, before.data)) = bits_left(before.data) - width
        /\ look(width, 0, before.data) \in Nat
    BY <1>1, <2>1, <2>3, PartTaken
  <2>5. Taken(width, before.data) \in parts
    BY <1>1, <2>1, <2>2, <2>4 DEF PartsOf, parts
  <2>. QED
    BY <1>1, <1>2, <2>4, <2>5, FieldAdded
<1>. HIDE DEF names, parts
<1>5. ASSUME ~(bits_left(before.data) < width)
      PROVE  [ok |-> TRUE, value |-> WithField(before.value, name, look(width, 0, before.data)),
              data |-> Taken(width, before.data)] \in Reads(layout, view)
  BY <1>4, <1>5 DEF Reads, names, parts
<1>. QED
  BY <1>3, <1>5 DEF ReadStep

\* Read goes through its layout by such steps.
IsReading(after, layout, view) ==
    /\ after \in [0 .. Len(layout) -> Reads(layout, view)]
    /\ after[0] = ReadFirst(view)
    /\ \A i \in 1 .. Len(layout) : after[i] = ReadStep(layout[i], after[i - 1])

LEMMA FieldByField ==
  ASSUME NEW layout, NEW without, IsLayout(layout, without), NEW view \in BitVecs
  PROVE  \E after : IsReading(after, layout, view) /\ Read(layout, view) = after[Len(layout)]
<1>. DEFINE n == Len(layout)
            V == Reads(layout, view)
            first == ReadFirst(view)
            Step(i, before) == ReadStep(layout[i], before)
            Follows(g) == g = [i \in 0 .. n |-> IF i = 0 THEN first ELSE Step(i, g[i - 1])]
            after == CHOOSE g : Follows(g)
<1>1. n \in Nat
  BY DEF IsLayout
<1>2. Read(layout, view) = after[n]
  BY DEF Read, ReadStep, ReadFirst
<1>3. first \in V
  <2>1. NoFields \in [{} -> Nat]
    BY DEF NoFields
  <2>2. NoFields \in ValuesOf(NamesOf(layout))
    BY <2>1 DEF ValuesOf
  <2>3. view \in PartsOf(view)
    BY DEF PartsOf, bits_left, BitVecs
  <2>. QED
    BY <2>2, <2>3 DEF Reads, ReadFirst
<1>4. \A i \in 1 .. n : \A before \in V : Step(i, before) \in V
  BY ReadStepType
<1>. HIDE DEF n, V, first, Step
<1>5. \E f \in [0 .. n -> V] : Follows(f)
  <2>. DEFINE step == [p \in (1 .. n) \X V |-> Step(p[1], p[2])]
  <2>1. step \in [(1 .. n) \X V -> V]
    BY <1>4
  <2>2. \A i \in 1 .. n : \A v \in V : step[<<i, v>>] = Step(i, v)
    OBVIOUS
  <2>. HIDE DEF step
  <2>3. RecursiveExists(V, first, step, n)
    BY <1>1, <1>3, <2>1, Recursion DEF StepsIn
  <2>4. PICK f \in [0 .. n -> V] : f[0] = first /\ \A i \in 1 .. n : f[i] = step[<<i, f[i - 1]>>]
    BY <2>3 DEF Recursive, RecursiveExists
  <2>5. \A i \in 0 .. n : f[i] = IF i = 0 THEN first ELSE Step(i, f[i - 1])
    <3>1. \A i \in 0 .. n : i # 0 => i \in 1 .. n /\ i - 1 \in 0 .. n
      BY <1>1
    <3>2. \A i \in 0 .. n : f[i] \in V
      OBVIOUS
    <3>. QED
      BY <2>2, <2>4, <3>1, <3>2
  <2>6. f = [i \in 0 .. n |-> f[i]]
    BY <2>4
  <2>. QED
    BY <2>5, <2>6
<1>6. Follows(after)
  BY <1>5
<1>. HIDE DEF after
<1>7. after[0] = first /\ \A i \in 1 .. n : after[i] = Step(i, after[i - 1])
  <2>1. 0 \in 0 .. n /\ \A i \in 1 .. n : i \in 0 .. n /\ i # 0
    BY <1>1
  <2>. QED
    BY <1>6, <2>1
<1>8. after \in [0 .. n -> V]
  <2>. DEFINE S == {i \in 0 .. n : after[i] \in V}
  <2>1. 0 \in S /\ \A i \in 1 .. n : i - 1 \in S => i \in S
    BY <1>1, <1>3, <1>4, <1>7
  <2>. HIDE DEF S
  <2>2. \A i \in 0 .. n : i \in S
    BY <1>1, <2>1, Induction
  <2>. QED
    BY <1>6, <2>2 DEF S
<1>9. IsReading(after, layout, view)
  BY <1>7, <1>8 DEF IsReading, n, V, first, Step
<1>. QED
  BY <1>2, <1>9 DEF n

\* Reading a layout, complete or not, never makes the data longer, and reads the
\* fields of the layout only, as numbers.
LEMMA ReadTakes ==
  ASSUME NEW without, NEW layout, IsLayout(layout, without), NEW view \in BitVecs
  PROVE  /\ Read(layout, view) = [ok |-> Read(layout, view).ok, value |-> Read(layout, view).value,
                                  data |-> Read(layout, view).data]
         /\ Read(layout, view).ok \in BOOLEAN
         /\ \A name \in DOMAIN Read(layout, view).value :
               Read(layout, view).value[name] \in Nat /\ name \notin without
         /\ Read(layout, view).data \in PartsOf(view)
<1>. DEFINE n == Len(layout)
            names == NamesOf(layout)
            parts == PartsOf(view)
<1>1. PICK after : IsReading(after, layout, view) /\ Read(layout, view) = after[n]
  BY FieldByField
<1>2. n \in 0 .. n
  BY DEF IsLayout
<1>3. Read(layout, view) \in Reads(layout, view)
  BY <1>1, <1>2 DEF IsReading
<1>4. \A fields \in ValuesOf(names) : \A name \in DOMAIN fields : fields[name] \in Nat /\ name \notin without
  <2>1. \A name \in names : name \notin without
    BY DEF IsLayout, IsField, NamesOf
  <2>. QED
    BY <2>1 DEF ValuesOf
<1>. HIDE DEF names, parts
<1>5. /\ Read(layout, view) = [ok |-> Read(layout, view).ok, value |-> Read(layout, view).value,
                               data |-> Read(layout, view).data]
      /\ Read(layout, view).ok \in BOOLEAN /\ Read(layout, view).value \in ValuesOf(names)
      /\ Read(layout, view).data \in parts
  BY <1>3 DEF Reads, names, parts
<1>. QED
  BY <1>4, <1>5 DEF parts

-----------------------------------------------------------------------------
(* The layouts of the layers.                                              *)

\* None of them has a field of the name of the data, or of the outcome of the
\* comparison.
Computed == {"data", "fcs_good"}

LEMMA Layouts ==
  /\ IsLayout(BasicLinkInformation, Computed)
  /\ IsLayout(MobileLinkEntityPacket, Computed)
  /\ \A downlink \in BOOLEAN : /\ IsLayout(MobileManagementPacket(downlink), Computed)
                              /\ IsLayout(CircuitModeControlEntityPacket(downlink), Computed)
  /\ IsLayout(LocationUpdateAccept, Computed)
  /\ IsLayout(AttachDetachGroupIdentityAcknowledgement, Computed)
  /\ IsLayout(ShortDataServicePacket, Computed)
  /\ IsLayout(ElementHeader, Computed)
  /\ IsLayout(<< Field("repeated_elements", 6) >>, Computed)
  /\ IsLayout(<< Field("o_bit", 1) >>, Computed)
<1>. USE DEF Field, Optional, IsLayout, IsField, Computed
<1>1. IsLayout(<<>>, Computed)
  OBVIOUS
<1>2. IsLayout(BasicLinkInformation, Computed) /\ IsLayout(MobileLinkEntityPacket, Computed)
  BY DEF BasicLinkInformation, MobileLinkEntityPacket
<1>3. /\ IsLayout(<< Field("repeated_elements", 6) >>, Computed)
      /\ IsLayout(<< Field("o_bit", 1) >>, Computed) /\ IsLayout(ElementHeader, Computed)
  BY DEF ElementHeader
<1>4. IsLayout(LocationUpdateAccept, Computed)
  <2>. DEFINE first == << Field("location_update_accept_type", 4), Field("o_bit", 1) >>
              second == << Field("p_ssi", 1), Optional("ssi", 24, [p_ssi |-> {1}]),
                  Field("p_mni", 1), Optional("country_code", 10, [p_mni |-> {1}]),
                                     Optional("network_code", 14, [p_mni |-> {1}]),
                  Field("p_class", 1), Optional("subscriber_class", 16, [p_class |-> {1}]),
                  Field("p_saving", 1), Optional("energy_saving_information", 14, [p_saving |-> {1}]),
                  Field("p_scch", 1), Optional("scch_information", 4, [p_scch |-> {1}]),
                                      Optional("distribution_on_18th_frame", 2, [p_scch |-> {1}]) >>
  <2>1. IsLayout(first, Computed)
    OBVIOUS
  <2>2. IsLayout(second, Computed)
    OBVIOUS
  <2>. HIDE DEF first, second, IsLayout, Computed
  <2>3. IsLayout(Under([o_bit |-> {1}], second), Computed)
    BY <2>2, Conditional
  <2>4. LocationUpdateAccept = first \o Under([o_bit |-> {1}], second)
    BY DEF LocationUpdateAccept, first, second
  <2>. QED
    BY <2>1, <2>3, <2>4, Concatenated
<1>5. IsLayout(AttachDetachGroupIdentityAcknowledgement, Computed)
  BY DEF AttachDetachGroupIdentityAcknowledgement
<1>6. ASSUME NEW downlink \in BOOLEAN PROVE IsLayout(MobileManagementPacket(downlink), Computed)
  <2>. DEFINE first == << Field("mm_type", 4) >>
              accept == Under([mm_type |-> {kDLocationUpdateAccept}], LocationUpdateAccept)
              ack == Under([mm_type |-> {kDAttachDetachGroupIdentityAck}],
                           AttachDetachGroupIdentityAcknowledgement)
  <2>1. IsLayout(first, Computed)
    OBVIOUS
  <2>. HIDE DEF IsLayout, Computed
  <2>2. IsLayout(accept, Computed) /\ IsLayout(ack, Computed)
    BY <1>4, <1>5, Conditional
  <2>. HIDE DEF first, accept, ack
  <2>3. IsLayout(accept \o ack, Computed)
    BY <2>2, Concatenated
  <2>4. MobileManagementPacket(downlink) = first \o (IF ~downlink THEN <<>> ELSE accept \o ack)
    BY DEF MobileManagementPacket, first, accept, ack
  <2>5. IsLayout(IF ~downlink THEN <<>> ELSE accept \o ack, Computed)
    BY <1>1, <2>3
  <2>. QED
    BY <2>1, <2>4, <2>5, Concatenated
<1>7. ASSUME NEW downlink \in BOOLEAN PROVE IsLayout(CircuitModeControlEntityPacket(downlink), Computed)
  <2>. DEFINE first == << Field("cmce_type", 5) >>
              area == IF downlink THEN <<>> ELSE << Field("area_selection", 4) >>
              type == << Field("calling_party_type_identifier", 2) >>
              sna == IF downlink THEN <<>>
                     ELSE << Optional("sna", 8, [calling_party_type_identifier |-> {0}]) >>
              rest == << Optional("ssi", 24, [calling_party_type_identifier |-> {1, 2}]),
                 Optional("country_code", 10, [calling_party_type_identifier |-> {2}]),
                 Optional("network_code", 14, [calling_party_type_identifier |-> {2}]),
                 Field("short_data_type_identifier", 2),
                 Optional("length_identifier", 11, [short_data_type_identifier |-> {3}]) >>
              when == [cmce_type |-> {SdsData}]
  <2>1. IsLayout(first, Computed) /\ IsLayout(type, Computed) /\ IsLayout(rest, Computed)
    OBVIOUS
  <2>2. IsLayout(area, Computed) /\ IsLayout(sna, Computed)
    <3>1. IsLayout(<< Field("area_selection", 4) >>, Computed)
      OBVIOUS
    <3>2. IsLayout(<< Optional("sna", 8, [calling_party_type_identifier |-> {0}]) >>, Computed)
      OBVIOUS
    <3>. HIDE DEF IsLayout, Computed, Field, Optional
    <3>. QED
      BY <1>1, <3>1, <3>2
  <2>. HIDE DEF IsLayout, Computed, first, area, type, sna, rest, Field, Optional
  <2>3. CircuitModeControlEntityPacket(downlink) = first \o Under(when, area \o type \o sna \o rest)
    BY DEF CircuitModeControlEntityPacket, first, area, type, sna, rest
  <2>4. IsLayout(area \o type, Computed)
    BY <2>1, <2>2, Concatenated
  <2>5. IsLayout(area \o type \o sna, Computed)
    BY <2>2, <2>4, Concatenated
  <2>6. IsLayout(area \o type \o sna \o rest, Computed)
    BY <2>1, <2>5, Concatenated
  <2>7. IsLayout(Under(when, area \o type \o sna \o rest), Computed)
    BY <2>6, Conditional
  <2>. QED
    BY <2>1, <2>3, <2>7, Concatenated
<1>8. IsLayout(ShortDataServicePacket, Computed)
  <2>. DEFINE first == << Field("protocol_identifier", 8) >>
              place == << Field("location_type", 2) >>
              when == [protocol_identifier |-> {kLocationInformationProtocolIdentifier}]
              short == [location_type |-> {0}]
  <2>1. IsLayout(first, Computed) /\ IsLayout(place, Computed)
    OBVIOUS
  <2>2. IsLayout(ShortLocationReport, Computed)
    BY DEF ShortLocationReport
  <2>. HIDE DEF IsLayout, Computed, first, place
  <2>3. IsLayout(Under(short, ShortLocationReport), Computed)
    BY <2>2, Conditional
  <2>4. IsLayout(place \o Under(short, ShortLocationReport), Computed)
    BY <2>1, <2>3, Concatenated
  <2>5. IsLayout(Under(when, place \o Under(short, ShortLocationReport)), Computed)
    BY <2>4, Conditional
  <2>6. ShortDataServicePacket = first \o Under(when, place \o Under(short, ShortLocationReport))
    BY DEF ShortDataServicePacket, first, place
  <2>. QED
    BY <2>1, <2>5, <2>6, Concatenated
<1>. QED
  BY <1>2, <1>3, <1>4, <1>5, <1>6, <1>7, <1>8

-----------------------------------------------------------------------------
(* The header of a basic link PDU, and what the parser compares.           *)

\* A part of a part.
LEMMA PartOfPart ==
  ASSUME NEW bits \in Seq(Bit), NEW from \in Nat, NEW n \in Nat, from + n <= Len(bits),
         NEW at \in Nat, NEW m \in Nat, at + m <= n
  PROVE  SubSeq(SubSeq(bits, from + 1, from + n), at + 1, at + m)
            = SubSeq(bits, (from + at) + 1, (from + at) + m)
<1>. DEFINE part == SubSeq(bits, from + 1, from + n)
            one == SubSeq(part, at + 1, at + m)
            two == SubSeq(bits, (from + at) + 1, (from + at) + m)
<1>1. part \in Seq(Bit) /\ Len(part) = n /\ \A i \in 1 .. n : part[i] = bits[from + i]
  BY PartOf
<1>2. two \in Seq(Bit) /\ Len(two) = m /\ \A i \in 1 .. m : two[i] = bits[(from + at) + i]
  <2>1. \A len \in Nat : from + n <= len => from + at \in Nat /\ (from + at) + m <= len
    OBVIOUS
  <2>2. from + at \in Nat /\ (from + at) + m <= Len(bits)
    BY <2>1, LenProperties
  <2>. QED
    BY <2>2, PartOf
<1>. HIDE DEF part
<1>3. one \in Seq(Bit) /\ Len(one) = m /\ \A i \in 1 .. m : one[i] = part[at + i]
  <2>1. at + m <= Len(part)
    BY <1>1
  <2>. QED
    BY <1>1, <2>1, PartOf
<1>. HIDE DEF one, two
<1>4. \A i \in 1 .. m : at + i \in 1 .. n /\ from + (at + i) = (from + at) + i
  OBVIOUS
<1>5. \A i \in 1 .. m : one[i] = two[i]
  BY <1>1, <1>2, <1>3, <1>4
<1>6. one = two
  BY <1>2, <1>3, <1>5, SeqEqual
<1>. QED
  BY <1>6 DEF one, two, part

\* What is taken from a view, in terms of its bits.
LEMMA BitsTaken ==
  ASSUME NEW bits, NEW a
  PROVE  Taken(a, BitVec(bits)) = BitVec(SubSeq(bits, a + 1, Len(bits)))
<1>1. \A part : [BitVec(bits) EXCEPT !.bits = part] = BitVec(part)
  <2>1. \A part, flag : [[bits |-> bits, fill_bits_removed_ |-> flag] EXCEPT !.bits = part]
                            = [bits |-> part, fill_bits_removed_ |-> flag]
    OBVIOUS
  <2>. QED
    BY <2>1 DEF BitVec
<1>2. BitVec(bits).bits = bits
  BY DEF BitVec
<1>3. Taken(a, BitVec(bits)) = [BitVec(bits) EXCEPT !.bits = SubSeq(BitVec(bits).bits, a + 1, Len(BitVec(bits).bits))]
  BY DEF Taken
<1>. QED
  BY <1>1, <1>2, <1>3

\* Taking twice.
LEMMA TakenTwice ==
  ASSUME NEW bits \in Seq(Bit), NEW a \in Nat, NEW b \in Nat, a + b <= Len(bits)
  PROVE  /\ bits_left(Taken(a, BitVec(bits))) = Len(bits) - a
         /\ Taken(b, Taken(a, BitVec(bits))) = Taken(a + b, BitVec(bits))
<1>. DEFINE n == Len(bits) - a
            m == n - b
            part == SubSeq(bits, a + 1, a + n)
<1>1. \A len \in Nat : a + b <= len =>
         /\ len - a \in Nat /\ len - a - b \in Nat /\ a + (len - a) = len /\ a + (len - a) <= len
         /\ b + (len - a - b) = len - a /\ (a + b) + (len - a - b) = len
  OBVIOUS
<1>2. n \in Nat /\ m \in Nat /\ a + n = Len(bits) /\ a + n <= Len(bits) /\ b + m = n /\ b + m <= n
      /\ (a + b) + m = Len(bits)
  BY <1>1, LenProperties
<1>. HIDE DEF n, m
<1>3. part \in Seq(Bit) /\ Len(part) = n
  BY <1>2, PartOf
<1>4. SubSeq(part, b + 1, b + m) = SubSeq(bits, (a + b) + 1, (a + b) + m)
  BY <1>2, PartOfPart
<1>5. Taken(a, BitVec(bits)) = BitVec(part)
  BY <1>2, BitsTaken
<1>. HIDE DEF part
<1>6. Taken(b, BitVec(part)) = BitVec(SubSeq(part, b + 1, b + m))
  BY <1>2, <1>3, BitsTaken
<1>7. Taken(a + b, BitVec(bits)) = BitVec(SubSeq(bits, (a + b) + 1, (a + b) + m))
  BY <1>2, BitsTaken
<1>8. bits_left(BitVec(part)) = n
  BY <1>3 DEF bits_left, BitVec
<1>. QED
  BY <1>4, <1>5, <1>6, <1>7, <1>8 DEF n

\* The fields of a layout that a packet has, one after the other.
LaidFirst == [names |-> {}, width |-> 0]
LaidStep(layout, v, i, before) ==
    IF ~IsPresent(layout[i], Only(v, before.names)) THEN before
    ELSE [names |-> before.names \cup {layout[i].name}, width |-> before.width + layout[i].width]
LaidSet(layout) == [names : SUBSET NamesOf(layout), width : Nat]

LEMMA LaidFacts ==
  ASSUME NEW without, NEW layout, IsLayout(layout, without), NEW v
  PROVE  /\ Laid(layout, v) \in [0 .. Len(layout) -> LaidSet(layout)] /\ Laid(layout, v)[0] = LaidFirst
         /\ \A i \in 1 .. Len(layout) : Laid(layout, v)[i] = LaidStep(layout, v, i, Laid(layout, v)[i - 1])
<1>. DEFINE n == Len(layout)
            V == LaidSet(layout)
            Step(i, before) == LaidStep(layout, v, i, before)
            Follows(g) == g = [i \in 0 .. n |-> IF i = 0 THEN LaidFirst ELSE Step(i, g[i - 1])]
            laid == CHOOSE g : Follows(g)
<1>1. n \in Nat
  BY DEF IsLayout
<1>2. Laid(layout, v) = laid
  BY DEF Laid, LaidStep, LaidFirst
<1>3. LaidFirst \in V
  BY DEF LaidFirst, LaidSet
<1>4. \A i \in 1 .. n : \A before \in V : Step(i, before) \in V
  <2>. SUFFICES ASSUME NEW i \in 1 .. n, NEW before \in V PROVE Step(i, before) \in V
    OBVIOUS
  <2>1. layout[i].width \in Nat /\ layout[i].name \in NamesOf(layout)
    BY DEF IsLayout, IsField, NamesOf
  <2>2. before.names \in SUBSET NamesOf(layout) /\ before.width \in Nat
    BY DEF LaidSet
  <2>3. before.names \cup {layout[i].name} \in SUBSET NamesOf(layout) /\ before.width + layout[i].width \in Nat
    BY <2>1, <2>2
  <2>. QED
    BY <2>3 DEF LaidSet, LaidStep
<1>. HIDE DEF n, V, Step
<1>5. \E f \in [0 .. n -> V] : Follows(f)
  <2>. DEFINE step == [p \in (1 .. n) \X V |-> Step(p[1], p[2])]
  <2>1. step \in [(1 .. n) \X V -> V]
    BY <1>4
  <2>2. \A i \in 1 .. n : \A w \in V : step[<<i, w>>] = Step(i, w)
    OBVIOUS
  <2>. HIDE DEF step
  <2>3. RecursiveExists(V, LaidFirst, step, n)
    BY <1>1, <1>3, <2>1, Recursion DEF StepsIn
  <2>4. PICK f \in [0 .. n -> V] : f[0] = LaidFirst /\ \A i \in 1 .. n : f[i] = step[<<i, f[i - 1]>>]
    BY <2>3 DEF Recursive, RecursiveExists
  <2>5. \A i \in 0 .. n : f[i] = IF i = 0 THEN LaidFirst ELSE Step(i, f[i - 1])
    <3>1. \A i \in 0 .. n : i # 0 => i \in 1 .. n /\ i - 1 \in 0 .. n
      BY <1>1
    <3>2. \A i \in 0 .. n : f[i] \in V
      OBVIOUS
    <3>. QED
      BY <2>2, <2>4, <3>1, <3>2
  <2>6. f = [i \in 0 .. n |-> f[i]]
    BY <2>4
  <2>. QED
    BY <2>5, <2>6
<1>6. Follows(laid)
  BY <1>5
<1>. HIDE DEF laid
<1>7. laid[0] = LaidFirst /\ \A i \in 1 .. n : laid[i] = Step(i, laid[i - 1])
  <2>1. 0 \in 0 .. n /\ \A i \in 1 .. n : i \in 0 .. n /\ i # 0
    BY <1>1
  <2>. QED
    BY <1>6, <2>1
<1>8. laid \in [0 .. n -> V]
  <2>. DEFINE S == {i \in 0 .. n : laid[i] \in V}
  <2>1. 0 \in S /\ \A i \in 1 .. n : i - 1 \in S => i \in S
    BY <1>1, <1>3, <1>4, <1>7
  <2>. HIDE DEF S
  <2>2. \A i \in 0 .. n : i \in S
    BY <1>1, <2>1, Induction
  <2>. QED
    BY <1>6, <2>2 DEF S
<1>. QED
  BY <1>2, <1>7, <1>8 DEF n, V, Step

\* Fields are added one after the other, so that those of a part of the layout are
\* fields of the whole.
LEMMA LaidGrows ==
  ASSUME NEW without, NEW layout, IsLayout(layout, without), NEW v, NEW i \in 0 .. Len(layout)
  PROVE  /\ Laid(layout, v)[i].names \subseteq Fields(layout, v)
         /\ Laid(layout, v)[i].width \in Nat /\ Laid(layout, v)[i].width <= Width(layout, v)
         /\ Fields(layout, v) \subseteq NamesOf(layout) /\ Width(layout, v) \in Nat
<1>. DEFINE n == Len(layout)
            laid == Laid(layout, v)
            V == LaidSet(layout)
<1>1. n \in Nat
  BY DEF IsLayout
<1>2. /\ laid \in [0 .. n -> V] /\ \A j \in 1 .. n : laid[j] = LaidStep(layout, v, j, laid[j - 1])
  BY LaidFacts
<1>3. \A j \in 1 .. n : layout[j].width \in Nat
  BY DEF IsLayout, IsField
<1>. HIDE DEF laid
<1>4. \A j \in 0 .. n : laid[j].names \subseteq NamesOf(layout) /\ laid[j].width \in Nat
  BY <1>2 DEF LaidSet
<1>5. \A j \in 1 .. n : j - 1 \in 0 .. n /\ j \in 0 .. n
  BY <1>1
<1>6. \A j \in 1 .. n : /\ laid[j - 1].names \subseteq laid[j].names
                       /\ laid[j - 1].width <= laid[j].width
  <2>. SUFFICES ASSUME NEW j \in 1 .. n
                PROVE  laid[j - 1].names \subseteq laid[j].names /\ laid[j - 1].width <= laid[j].width
    OBVIOUS
  <2>1. laid[j] = laid[j - 1]
        \/ /\ laid[j].names = laid[j - 1].names \cup {layout[j].name}
           /\ laid[j].width = laid[j - 1].width + layout[j].width
    <3>1. \A before : \/ LaidStep(layout, v, j, before) = before
                      \/ /\ LaidStep(layout, v, j, before).names = before.names \cup {layout[j].name}
                         /\ LaidStep(layout, v, j, before).width = before.width + layout[j].width
      BY DEF LaidStep
    <3>2. laid[j] = LaidStep(layout, v, j, laid[j - 1])
      BY <1>2
    <3>. QED
      BY <3>1, <3>2
  <2>2. laid[j - 1].width \in Nat /\ layout[j].width \in Nat
    BY <1>3, <1>4, <1>5
  <2>. QED
    BY <2>1, <2>2
<1>. DEFINE S == {j \in 0 .. n : j >= i => laid[i].names \subseteq laid[j].names /\ laid[i].width <= laid[j].width}
<1>7. 0 \in S
  BY <1>1, <1>4
<1>8. ASSUME NEW j \in 1 .. n, j - 1 \in S PROVE j \in S
  <2>1. CASE j = i
    BY <1>4, <1>5, <2>1
  <2>2. CASE j # i
    <3>1. j >= i => j - 1 >= i
      BY <2>2
    <3>2. laid[i].width \in Nat /\ laid[j].width \in Nat /\ laid[j - 1].width \in Nat
      BY <1>4, <1>5
    <3>. QED
      BY <1>5, <1>6, <1>8, <3>1, <3>2
  <2>. QED
    BY <2>1, <2>2
<1>9. n \in S
  <2>1. n \in 0 .. n /\ \A j \in 1 .. n : j - 1 \in S => j \in S
    BY <1>1, <1>8
  <2>. HIDE DEF S
  <2>2. \A j \in 0 .. n : j \in S
    BY <1>1, <1>7, <2>1, Induction
  <2>. QED
    BY <2>1, <2>2
<1>10. n >= i /\ n \in 0 .. n
  BY <1>1
<1>. QED
  BY <1>4, <1>9, <1>10 DEF Fields, Width, laid

\* A field without a condition is there.
LEMMA FieldIsThere ==
  ASSUME NEW without, NEW layout, IsLayout(layout, without), NEW v, NEW i \in 1 .. Len(layout),
         layout[i].when = {}
  PROVE  layout[i].name \in Fields(layout, v)
<1>1. i \in 0 .. Len(layout)
  BY DEF IsLayout
<1>2. Laid(layout, v)[i] = LaidStep(layout, v, i, Laid(layout, v)[i - 1])
  BY LaidFacts
<1>3. layout[i].name \in Laid(layout, v)[i].names
  BY <1>2 DEF LaidStep, IsPresent
<1>. QED
  BY <1>1, <1>3, LaidGrows

Agree(one, other) == \A k \in 1 .. Len(one) : k <= Len(other) => one[k] = other[k]

\* A field of bits that agree is the same.
LEMMA SamePart ==
  ASSUME NEW one \in Seq(Bit), NEW other \in Seq(Bit), Agree(one, other),
         NEW from \in Nat, NEW n \in Nat, from + n <= Len(one), from + n <= Len(other)
  PROVE  SubSeq(one, from + 1, from + n) = SubSeq(other, from + 1, from + n)
<1>. DEFINE first == SubSeq(one, from + 1, from + n)
            second == SubSeq(other, from + 1, from + n)
<1>1. first \in Seq(Bit) /\ Len(first) = n /\ \A i \in 1 .. n : first[i] = one[from + i]
  BY PartOf
<1>2. second \in Seq(Bit) /\ Len(second) = n /\ \A i \in 1 .. n : second[i] = other[from + i]
  BY PartOf
<1>. HIDE DEF first, second
<1>3. \A i \in 1 .. n : one[from + i] = other[from + i]
  <2>1. \A length \in Nat : from + n <= length =>
           \A i \in 1 .. n : from + i \in 1 .. length /\ from + i <= length
    OBVIOUS
  <2>2. \A i \in 1 .. n : from + i \in 1 .. Len(one) /\ from + i <= Len(other)
    BY <2>1, LenProperties
  <2>. QED
    BY <2>2 DEF Agree
<1>4. first = second
  BY <1>1, <1>2, <1>3, SeqEqual
<1>. QED
  BY <1>4 DEF first, second

\* Some bits, looked at where they were written.
LEMMA LookAsWritten ==
  ASSUME NEW sent \in Seq(Bit), NEW got \in Seq(Bit), Agree(got, sent), NEW at \in Nat, NEW width \in Nat,
         at + width <= Len(sent), at + width <= Len(got)
  PROVE  /\ look(width, 0, Taken(at, BitVec(got))) = ToNat(SubSeq(sent, at + 1, at + width))
         /\ take_vector(width, Taken(at, BitVec(got))) = SubSeq(sent, at + 1, at + width)
<1>. DEFINE len == Len(got)
            n == len - at
            view == Taken(at, BitVec(got))
<1>1. len \in Nat /\ at + width <= len
  BY LenProperties
<1>2. n \in Nat /\ at + n = len /\ at + n <= len /\ width <= n /\ 0 + width = width /\ 0 + width <= n
      /\ 0 + 1 = 1 /\ at + 0 = at
  <2>. HIDE DEF len
  <2>. QED
    BY <1>1
<1>. HIDE DEF n
<1>3. view.bits = SubSeq(got, at + 1, at + n)
  <2>1. view = BitVec(SubSeq(got, at + 1, len))
    BY BitsTaken
  <2>2. \A part : BitVec(part).bits = part
    BY DEF BitVec
  <2>. QED
    BY <1>2, <2>1, <2>2
<1>4. SubSeq(SubSeq(got, at + 1, at + n), 0 + 1, 0 + width) = SubSeq(got, (at + 0) + 1, (at + 0) + width)
  BY <1>1, <1>2, PartOfPart, 0 \in Nat
<1>5. SubSeq(got, at + 1, at + width) = SubSeq(sent, at + 1, at + width)
  BY <1>1, SamePart
<1>6. SubSeq(view.bits, 1, width) = SubSeq(sent, at + 1, at + width)
  BY <1>2, <1>3, <1>4, <1>5
<1>. HIDE DEF view
<1>7. look(width, 0, view) = ToNat(SubSeq(view.bits, 1, width))
  BY <1>2 DEF look
<1>. QED
  BY <1>6, <1>7 DEF view, take_vector

\* One field, from where the bits are read as they were written.
ReadSoFar(v, names, at, got, read) ==
    IF at <= Len(got)
    THEN read = [ok |-> TRUE, value |-> Only(v, names), data |-> Taken(at, BitVec(got))]
    ELSE read.ok = FALSE

LEMMA FieldAsWritten ==
  ASSUME NEW sent \in Seq(Bit), NEW got \in Seq(Bit), Agree(got, sent), NEW v, NEW names,
         NEW field, field.width \in Nat, NEW at \in Nat, NEW before, ReadSoFar(v, names, at, got, before),
         IsPresent(field, Only(v, names)), at + field.width <= Len(sent),
         v[field.name] = ToNat(SubSeq(sent, at + 1, at + field.width))
  PROVE  ReadSoFar(v, names \cup {field.name}, at + field.width, got, ReadStep(field, before))
<1>. DEFINE width == field.width
            name == field.name
            len == Len(got)
<1>1. len \in Nat /\ width \in Nat
  BY LenProperties
<1>2. CASE ~(at <= len)
  <2>1. before.ok = FALSE
    BY <1>2 DEF ReadSoFar
  <2>2. ReadStep(field, before) = before
    BY <2>1 DEF ReadStep
  <2>3. ~(at + width <= len)
    <3>. HIDE DEF len, width
    <3>. QED
      BY <1>1, <1>2
  <2>. QED
    BY <2>1, <2>2, <2>3 DEF ReadSoFar
<1>3. CASE at <= len
  <2>1. before = [ok |-> TRUE, value |-> Only(v, names), data |-> Taken(at, BitVec(got))]
    BY <1>3 DEF ReadSoFar
  <2>2. bits_left(before.data) = len - at
    <3>1. \A number \in Nat : at <= number => at + 0 <= number
      OBVIOUS
    <3>2. at + 0 <= len /\ 0 \in Nat
      BY <1>1, <1>3, <3>1
    <3>. QED
      BY <2>1, <3>2, TakenTwice
  <2>3. CASE ~(at + width <= len)
    <3>1. bits_left(before.data) < width
      <4>. HIDE DEF len, width
      <4>. QED
        BY <1>1, <2>2, <2>3
    <3>2. ReadStep(field, before) = [before EXCEPT !.ok = FALSE]
      BY <2>1, <3>1 DEF ReadStep
    <3>3. ReadStep(field, before).ok = FALSE
      BY <2>1, <3>2
    <3>. QED
      BY <2>3, <3>3 DEF ReadSoFar
  <2>4. CASE at + width <= len
    <3>1. ~(bits_left(before.data) < width)
      <4>. HIDE DEF len, width
      <4>. QED
        BY <1>1, <2>2, <2>4
    <3>2. ReadStep(field, before)
             = [ok |-> TRUE, value |-> WithField(Only(v, names), name, look(width, 0, before.data)),
                data |-> Taken(width, before.data)]
      BY <2>1, <3>1 DEF ReadStep
    <3>3. Taken(width, before.data) = Taken(at + width, BitVec(got))
      BY <2>1, <2>4, TakenTwice
    <3>4. look(width, 0, before.data) = v[name]
      BY <1>1, <2>1, <2>4, LookAsWritten
    <3>5. WithField(Only(v, names), name, v[name]) = Only(v, names \cup {name})
      BY DEF WithField, Only
    <3>. QED
      BY <2>4, <3>2, <3>3, <3>4, <3>5 DEF ReadSoFar
  <2>. QED
    BY <2>3, <2>4
<1>. QED
  BY <1>2, <1>3

\* Reading a layout (bit_vector.hpp:51-66) gives back the value that was written with
\* it, whatever the value and whatever comes behind, and throws if the data ends
\* before the last of its fields: no field is read from elsewhere, and none is left
\* out for bits that are missing.
THEOREM ReadsAsWritten ==
  ASSUME NEW without, NEW layout, IsLayout(layout, without), NEW sent \in Seq(Bit), NEW v, NEW from \in Nat,
         Writes(layout, v, sent, from), NEW got \in Seq(Bit), Agree(got, sent), from <= Len(got)
  PROVE  LET end == from + Width(layout, v)
             read == Read(layout, Taken(from, BitVec(got)))
         IN IF end <= Len(got)
            THEN read = [ok |-> TRUE, value |-> Only(v, Fields(layout, v)), data |-> Taken(end, BitVec(got))]
            ELSE ~read.ok
<1>. DEFINE n == Len(layout)
            view == Taken(from, BitVec(got))
            laid == Laid(layout, v)
            at(i) == from + laid[i].width
<1>1. n \in Nat /\ \A i \in 1 .. n : layout[i].width \in Nat
  BY DEF IsLayout, IsField
<1>2. view \in BitVecs
  <2>1. BitVec(got) \in BitVecs /\ from <= bits_left(BitVec(got))
    BY DEF BitVec, BitVecs, bits_left
  <2>. QED
    BY <2>1, PartTaken
<1>3. PICK after : IsReading(after, layout, view) /\ Read(layout, view) = after[n]
  <2>. HIDE DEF view
  <2>. QED
    BY <1>2, FieldByField
<1>4. /\ laid[0] = LaidFirst /\ \A i \in 1 .. n : laid[i] = LaidStep(layout, v, i, laid[i - 1])
  BY LaidFacts
<1>5. \A i \in 0 .. n : laid[i].width \in Nat /\ laid[i].width <= Width(layout, v) /\ Width(layout, v) \in Nat
  BY LaidGrows
<1>6. after[0] = ReadFirst(view) /\ \A i \in 1 .. n : after[i] = ReadStep(layout[i], after[i - 1])
  BY <1>3 DEF IsReading
<1>7. /\ from + Width(layout, v) <= Len(sent)
      /\ \A i \in 1 .. n : IsPresent(layout[i], Only(v, laid[i - 1].names)) =>
            v[layout[i].name] = ToNat(SubSeq(sent, at(i - 1) + 1, at(i)))
  BY DEF Writes
<1>. HIDE DEF laid
<1>. DEFINE S == {i \in 0 .. n : ReadSoFar(v, laid[i].names, at(i), got, after[i])}
<1>8. 0 \in S
  <2>1. 0 \in 0 .. n /\ from + 0 = from
    BY <1>1
  <2>2. NoFields = Only(v, {})
    BY DEF NoFields, Only
  <2>3. laid[0].names = {} /\ at(0) = from
    BY <1>4, <2>1 DEF LaidFirst
  <2>. HIDE DEF at
  <2>4. after[0] = [ok |-> TRUE, value |-> Only(v, laid[0].names), data |-> Taken(at(0), BitVec(got))]
    BY <1>6, <2>2, <2>3 DEF ReadFirst, view
  <2>. QED
    BY <2>1, <2>3, <2>4 DEF ReadSoFar
<1>9. ASSUME NEW i \in 1 .. n, i - 1 \in S PROVE i \in S
  <2>. DEFINE field == layout[i]
              before == after[i - 1]
              present == laid[i - 1].names
              start == at(i - 1)
  <2>1. ReadSoFar(v, present, start, got, before)
    BY <1>9
  <2>2. i \in 0 .. n /\ i - 1 \in 0 .. n /\ field.width \in Nat /\ after[i] = ReadStep(field, before)
    BY <1>1, <1>6
  <2>3. laid[i] = LaidStep(layout, v, i, laid[i - 1])
    BY <1>4
  <2>4. CASE IsPresent(field, Only(v, present))
    <3>1. laid[i].names = present \cup {field.name} /\ laid[i].width = laid[i - 1].width + field.width
      BY <2>3, <2>4 DEF LaidStep
    <3>2. start \in Nat /\ at(i) = start + field.width /\ start + field.width <= Len(sent)
      <4>1. \A w, x, y, z, len \in Nat : w + z <= len /\ x + y <= z => w + x \in Nat /\ w + (x + y) = (w + x) + y /\ (w + x) + y <= len
        OBVIOUS
      <4>2. laid[i - 1].width \in Nat /\ laid[i].width <= Width(layout, v) /\ Width(layout, v) \in Nat /\ Len(sent) \in Nat
        BY <1>5, <2>2, LenProperties
      <4>. HIDE DEF field
      <4>. QED
        BY <1>7, <2>2, <3>1, <4>1, <4>2
    <3>3. v[field.name] = ToNat(SubSeq(sent, start + 1, start + field.width))
      BY <1>7, <2>4, <3>2
    <3>. HIDE DEF field, start, before, present, at
    <3>4. ReadSoFar(v, present \cup {field.name}, start + field.width, got, ReadStep(field, before))
      BY <2>1, <2>2, <2>4, <3>2, <3>3, FieldAsWritten
    <3>. QED
      BY <2>2, <3>1, <3>2, <3>4
  <2>5. CASE ~IsPresent(field, Only(v, present))
    <3>1. laid[i] = laid[i - 1]
      BY <2>3, <2>5 DEF LaidStep
    <3>2. after[i] = after[i - 1]
      BY <2>1, <2>2, <2>5 DEF ReadSoFar, ReadStep
    <3>. QED
      BY <2>1, <2>2, <3>1, <3>2
  <2>. QED
    BY <2>4, <2>5
<1>10. n \in S
  <2>1. n \in 0 .. n
    BY <1>1
  <2>2. \A i \in 1 .. n : i - 1 \in S => i \in S
    BY <1>9
  <2>. HIDE DEF S
  <2>3. \A i \in 0 .. n : i \in S
    BY <1>1, <1>8, <2>2, Induction
  <2>. QED
    BY <2>1, <2>3
<1>11. ReadSoFar(v, Fields(layout, v), from + Width(layout, v), got, after[n])
  BY <1>10 DEF Fields, Width, laid
<1>. QED
  BY <1>3, <1>11 DEF ReadSoFar, view

\* The first bits of a sequence of bits.
LEMMA FirstBits ==
  ASSUME NEW bits \in Seq(Bit), NEW n \in Nat, n <= Len(bits)
  PROVE  SubSeq(bits, 1, n) \in Seq(Bit) /\ Len(SubSeq(bits, 1, n)) = n
<1>1. 0 + 1 = 1 /\ 0 + n = n /\ 0 \in Nat
  OBVIOUS
<1>2. 0 + n <= Len(bits)
  BY <1>1
<1>. QED
  BY <1>1, <1>2, PartOf

\* Taking nothing.
LEMMA TakenNothing == ASSUME NEW bits \in Seq(Bit) PROVE Taken(0, BitVec(bits)) = BitVec(bits)
<1>. DEFINE len == Len(bits)
            all == SubSeq(bits, 1, len)
<1>1. len \in Nat /\ len <= len /\ Len(bits) = len
  BY LenProperties
<1>. HIDE DEF len
<1>2. 0 + 1 = 1 /\ 0 \in Nat /\ 0 + len = len /\ \A i \in 1 .. len : 0 + i = i
  BY <1>1
<1>3. all \in Seq(Bit) /\ Len(all) = len /\ \A i \in 1 .. len : all[i] = bits[i]
  <2>1. 0 + len <= Len(bits)
    BY <1>1, <1>2
  <2>. QED
    BY <1>1, <1>2, <2>1, PartOf
<1>. HIDE DEF all
<1>4. all = bits
  BY <1>1, <1>3, SeqEqual
<1>. QED
  BY <1>1, <1>2, <1>4, BitsTaken DEF all

\* The first field of a layout.
LEMMA FirstField ==
  ASSUME NEW without, NEW layout, IsLayout(layout, without), 1 \in 1 .. Len(layout), layout[1].when = {},
         NEW v, NEW bits, Len(bits) \in Nat, NEW from \in Nat, Writes(layout, v, bits, from)
  PROVE  /\ from + layout[1].width <= Len(bits)
         /\ v[layout[1].name] = ToNat(SubSeq(bits, from + 1, from + layout[1].width))
<1>. DEFINE width == layout[1].width
            laid == Laid(layout, v)
            all == Width(layout, v)
            len == Len(bits)
<1>1. width \in Nat /\ 0 \in 0 .. Len(layout) /\ 1 \in 0 .. Len(layout)
  BY DEF IsLayout, IsField
<1>2. laid[0] = LaidFirst /\ laid[1] = LaidStep(layout, v, 1, laid[0])
  <2>1. 1 - 1 = 0
    OBVIOUS
  <2>. QED
    BY <2>1, LaidFacts
<1>3. /\ from + all <= len
      /\ IsPresent(layout[1], Only(v, laid[1 - 1].names)) =>
            v[layout[1].name] = ToNat(SubSeq(bits, from + laid[1 - 1].width + 1, from + laid[1].width))
  BY DEF Writes
<1>4. laid[1].width <= all /\ all \in Nat
  BY <1>1, LaidGrows
<1>. HIDE DEF laid, all, len
<1>5. \A names : IsPresent(layout[1], Only(v, names))
  BY DEF IsPresent
<1>6. laid[0].width = 0 /\ laid[1].width = 0 + width
  BY <1>2, <1>5 DEF LaidFirst, LaidStep
<1>. HIDE DEF width
<1>7. 1 - 1 = 0 /\ from + 0 + 1 = from + 1 /\ laid[1].width = width
  BY <1>1, <1>6
<1>8. from + width <= len
  <2>. DEFINE first == laid[1].width
  <2>1. first = width /\ first <= all
    BY <1>4, <1>7
  <2>. HIDE DEF first
  <2>2. len \in Nat
    BY DEF len
  <2>. QED
    BY <1>1, <1>3, <1>4, <2>1, <2>2
<1>9. v[layout[1].name] = ToNat(SubSeq(bits, from + 1, from + width))
  BY <1>3, <1>5, <1>6, <1>7
<1>. QED
  BY <1>8, <1>9 DEF width, len

\* With the bits that were taken off.
LEMMA CompleteBits ==
  ASSUME NEW s \in Sdus
  PROVE  /\ s.bits \in Seq(Bit) /\ Len(s.bits) \in Nat /\ s.lost \in Nat
         /\ Complete(s) \in Seq(Bit) /\ Len(Complete(s)) = Len(s.bits) + s.lost
         /\ \A k \in 1 .. Len(s.bits) : Complete(s)[k] = s.bits[k]
         /\ \A k \in 1 .. Len(s.bits) + s.lost : k > Len(s.bits) + 1 => Complete(s)[k] = 0
         /\ s.lost = 0 => Complete(s) = s.bits
<1>. DEFINE bits == s.bits
            len == Len(bits)
            n == s.lost
            fill == FillBits(n)
            all == bits \o fill
<1>1. bits \in Seq(Bit) /\ len \in Nat /\ n \in Nat
  BY SdusAssumption, LenProperties DEF Bit
<1>. HIDE DEF bits, n
<1>2. fill \in Seq(Bit) /\ Len(fill) = n /\ \A i \in 1 .. n : i > 1 => fill[i] = 0
  BY <1>1 DEF FillBits, Bit
<1>. HIDE DEF fill
<1>3. /\ all \in Seq(Bit) /\ Len(all) = len + n
      /\ \A i \in 1 .. len + n : all[i] = IF i <= len THEN bits[i] ELSE fill[i - len]
  BY <1>1, <1>2, ConcatProperties
<1>4. \A k \in 1 .. len : k \in 1 .. len + n /\ k <= len
  <2>. HIDE DEF len
  <2>. QED
    BY <1>1
<1>5. \A k \in 1 .. len + n : k > len + 1 => ~(k <= len) /\ k - len \in 1 .. n /\ k - len > 1
  <2>. HIDE DEF len
  <2>. QED
    BY <1>1
<1>6. n = 0 => all = bits
  <2>. HIDE DEF len
  <2>1. n = 0 => len + n = len
    BY <1>1
  <2>. QED
    BY <1>1, <1>3, <1>4, <2>1, SeqEqual DEF len
<1>. HIDE DEF len, all
<1>7. \A k \in 1 .. len : all[k] = bits[k]
  BY <1>3, <1>4
<1>8. \A k \in 1 .. len + n : k > len + 1 => all[k] = 0
  BY <1>2, <1>3, <1>5
<1>. QED
  BY <1>1, <1>3, <1>6, <1>7, <1>8 DEF Complete, all, len, bits, n, fill

\* The header of a TM-SDU as it is read.
LEMMA LinkHeader ==
  ASSUME NEW s \in Sdus, SentLink(s), NEW read, read = Read(BasicLinkInformation, BitVec(s.bits))
  PROVE  /\ IF HeaderLength(s) <= Len(s.bits)
            THEN read = [ok |-> TRUE, value |-> Only(s.value, LinkNames(s)),
                         data |-> Taken(HeaderLength(s), BitVec(s.bits))]
            ELSE ~read.ok
         /\ "llc_type" \in LinkNames(s) /\ s.value.llc_type \in Nat
         /\ s.value.llc_type = ToNat(SubSeq(Complete(s), 0 + 1, 0 + 4)) /\ 4 <= HeaderLength(s)
         /\ LinkNames(s) \cap Computed = {} /\ HeaderLength(s) \in Nat
<1>. DEFINE bits == s.bits
            whole == Complete(s)
            layout == BasicLinkInformation
<1>1. /\ bits \in Seq(Bit) /\ Len(bits) \in Nat /\ whole \in Seq(Bit) /\ Len(whole) \in Nat
      /\ IsLayout(layout, Computed) /\ Agree(bits, whole) /\ 0 <= Len(bits) /\ 0 \in Nat
  <2>1. /\ bits \in Seq(Bit) /\ Len(bits) \in Nat /\ whole \in Seq(Bit)
        /\ \A k \in 1 .. Len(bits) : whole[k] = bits[k]
    BY CompleteBits
  <2>2. 0 <= Len(bits) /\ Len(whole) \in Nat
    BY <2>1, LenProperties
  <2>. QED
    BY <2>1, <2>2, Layouts DEF Agree
<1>2. /\ layout[1].when = {} /\ layout[1].name = "llc_type" /\ layout[1].width = 4
      /\ 1 \in 1 .. Len(layout) /\ 0 \in 0 .. Len(layout)
  BY DEF BasicLinkInformation, Field, Optional
<1>3. Writes(layout, s.value, whole, 0)
  BY DEF SentLink
<1>. HIDE DEF layout, whole, bits
<1>4. "llc_type" \in LinkNames(s)
  BY <1>1, <1>2, FieldIsThere DEF LinkNames, layout
<1>5. HeaderLength(s) \in Nat /\ LinkNames(s) \subseteq NamesOf(layout)
  BY <1>1, <1>2, LaidGrows DEF HeaderLength, LinkNames, layout
<1>6. LinkNames(s) \cap Computed = {}
  BY <1>1, <1>5 DEF NamesOf, IsLayout, IsField
<1>7. 0 + HeaderLength(s) = HeaderLength(s)
  BY <1>5
<1>8. IF HeaderLength(s) <= Len(bits)
      THEN read = [ok |-> TRUE, value |-> Only(s.value, LinkNames(s)), data |-> Taken(HeaderLength(s), BitVec(bits))]
      ELSE ~read.ok
  <2>1. read = Read(layout, Taken(0, BitVec(bits)))
    BY <1>1, TakenNothing DEF layout, bits
  <2>2. LET end == 0 + Width(layout, s.value)
        IN IF end <= Len(bits)
           THEN read = [ok |-> TRUE, value |-> Only(s.value, Fields(layout, s.value)),
                        data |-> Taken(end, BitVec(bits))]
           ELSE ~read.ok
    BY <1>1, <1>3, <2>1, ReadsAsWritten
  <2>. QED
    BY <1>7, <2>2 DEF HeaderLength, LinkNames, layout
<1>9. s.value.llc_type = ToNat(SubSeq(whole, 0 + 1, 0 + 4)) /\ 0 + 4 <= Len(whole)
  BY <1>1, <1>2, <1>3, FirstField
<1>10. s.value.llc_type \in Nat
  <2>1. SubSeq(whole, 0 + 1, 0 + 4) \in Seq(Bit)
    BY <1>1, <1>9, PartOf, 4 \in Nat
  <2>. QED
    BY <1>9, <2>1, NumberOfBits
<1>11. 4 <= HeaderLength(s)
  <2>. DEFINE laid == Laid(layout, s.value)
  <2>1. laid[0] = LaidFirst /\ laid[1] = LaidStep(layout, s.value, 1, laid[0])
    <3>1. 1 - 1 = 0
      OBVIOUS
    <3>. QED
      BY <1>1, <1>2, <3>1, LaidFacts
  <2>2. \A names : IsPresent(layout[1], Only(s.value, names))
    BY <1>2 DEF IsPresent
  <2>. HIDE DEF laid
  <2>3. laid[1].width = 0 + 4
    BY <1>2, <2>1, <2>2 DEF LaidFirst, LaidStep
  <2>4. laid[1].width <= Width(layout, s.value)
    <3>1. 1 \in 0 .. Len(layout)
      BY <1>1, <1>2 DEF IsLayout
    <3>. QED
      BY <1>1, <3>1, LaidGrows DEF laid
  <2>. QED
    BY <1>5, <2>3, <2>4 DEF HeaderLength, layout
<1>. QED
  BY <1>4, <1>5, <1>6, <1>8, <1>9, <1>10, <1>11 DEF whole, bits

\* Where the TL-SDU ends, and where the receiver looks for it.
LEMMA LinkNumbers ==
  ASSUME NEW len \in Nat, NEW lost \in Nat, NEW header \in Nat, NEW fill \in Nat, NEW has \in BOOLEAN,
         header + (fill + IF has THEN 32 ELSE 0) <= len + lost, fill = 0 \/ lost = 0
  PROVE  LET behind == fill + IF has THEN 32 ELSE 0
             m == len + lost - behind - header
             k == len - header - IF has THEN 32 ELSE 0
         IN /\ m \in Nat /\ k \in Int /\ m <= k + lost /\ (fill = 0 /\ lost = 0 => k = m)
            /\ (header + (IF has THEN 32 ELSE 0) <= len => lost <= m)
            /\ (k < 0 => m <= lost) /\ (lost = 0 => k \in Nat)
            /\ header + m = len + lost - behind /\ header + m <= len + lost
            /\ (k \in Nat => header + k <= len) /\ header + k = len - IF has THEN 32 ELSE 0
            /\ (~has => \A i \in Nat : i > k + 1 => header + i > len + 1)
            /\ (~(k \in Nat) => k < 0)
OBVIOUS

\* What the layers above the link receive: the TL-SDU, with the fill bits that are
\* left behind it or without its end.
WithTail(s) ==
    /\ Received(s) \in Seq(Bit) /\ TlSdu(s) \in Seq(Bit)
    /\ Agree(Received(s), TlSdu(s)) /\ Len(TlSdu(s)) <= Len(Received(s)) + s.lost
    /\ s.fill = 0 /\ s.lost = 0 => Received(s) = TlSdu(s)
    /\ ~HasSequence(s) =>
          \A k \in 1 .. Len(TlSdu(s)) : k > Len(Received(s)) + 1 => TlSdu(s)[k] = 0
    /\ s.lost \in Nat

\* The receiver finds the header and the checksum.
LinkIsThere(s) == HeaderLength(s) + (IF HasSequence(s) THEN 32 ELSE 0) <= Len(s.bits)

LEMMA NoPart ==
  ASSUME NEW bits, NEW a \in Int, NEW b \in Int, b < a
  PROVE  SubSeq(bits, a, b) = <<>>
OBVIOUS

LEMMA TlSduWithTail ==
  ASSUME NEW s \in Sdus, SentLink(s)
  PROVE  WithTail(s) /\ (s.lost = 0 => LinkIsThere(s)) /\ (LinkIsThere(s) => s.lost <= Len(TlSdu(s)))
<1>. DEFINE bits == s.bits
            whole == Complete(s)
            len == Len(bits)
            lost == s.lost
            header == HeaderLength(s)
            has == HasSequence(s)
            seq == IF has THEN 32 ELSE 0
            fill == s.fill
            behind == fill + seq
            m == len + lost - behind - header
            k == len - header - seq
            tl == SubSeq(whole, header + 1, header + m)
            got == SubSeq(bits, header + 1, header + k)
<1>1. /\ bits \in Seq(Bit) /\ len \in Nat /\ lost \in Nat /\ whole \in Seq(Bit) /\ Len(whole) = len + lost
      /\ \A i \in 1 .. len : whole[i] = bits[i]
      /\ \A i \in 1 .. len + lost : i > len + 1 => whole[i] = 0
  BY CompleteBits
<1>2. header \in Nat /\ has \in BOOLEAN /\ fill \in Nat /\ (fill = 0 \/ lost = 0)
  <2>1. s.fill \in 0 .. 7 /\ (s.fill = 0 \/ s.lost = 0)
    BY SdusAssumption
  <2>2. HasSequence(s) \in BOOLEAN
    BY DEF HasSequence
  <2>3. HeaderLength(s) \in Nat
    BY LinkHeader
  <2>. QED
    BY <2>1, <2>2, <2>3
<1>3. header + behind <= len + lost
  BY <1>1 DEF SentLink, LengthBehind
<1>4. /\ TlSdu(s) = SubSeq(whole, header + 1, len + lost - behind)
      /\ Received(s) = SubSeq(bits, header + 1, len - seq)
  <2>1. /\ TlSdu(s) = SubSeq(whole, header + 1, Len(whole) - behind)
        /\ Received(s) = SubSeq(bits, header + 1, len - seq)
    BY DEF TlSdu, LengthBehind, Received
  <2>. DEFINE end == Len(whole) - behind
              sent == len + lost - behind
  <2>. HIDE DEF whole, bits, header, lost, fill, len, has
  <2>2. end = sent
    BY <1>1, <1>2
  <2>. HIDE DEF end, sent
  <2>3. TlSdu(s) = SubSeq(whole, header + 1, sent)
    BY <2>1, <2>2 DEF end
  <2>. QED
    BY <2>1, <2>3 DEF sent
<1>. HIDE DEF bits, whole, lost, header, has, fill, len
<1>5. /\ m \in Nat /\ k \in Int /\ m <= k + lost /\ (fill = 0 /\ lost = 0 => k = m)
      /\ (header + seq <= len => lost <= m)
      /\ (k < 0 => m <= lost) /\ (lost = 0 => k \in Nat)
      /\ header + m = len + lost - behind /\ header + m <= len + lost
      /\ (k \in Nat => header + k <= len) /\ header + k = len - seq
      /\ (~has => \A i \in Nat : i > k + 1 => header + i > len + 1)
      /\ (~(k \in Nat) => k < 0)
  BY <1>1, <1>2, <1>3, LinkNumbers
<1>6. /\ lost = 0 => header + seq <= len
      /\ LinkIsThere(s) <=> header + seq <= len
  <2>1. lost = 0 => header + seq <= len
    BY <1>1, <1>2, <1>5
  <2>. QED
    BY <2>1 DEF LinkIsThere, header, len, bits, has
<1>7. TlSdu(s) = tl /\ Received(s) = got
  BY <1>4, <1>5
<1>. DEFINE there == header + seq <= len
<1>. HIDE DEF m, k, behind, seq, there
<1>8. tl \in Seq(Bit) /\ Len(tl) = m /\ \A i \in 1 .. m : tl[i] = whole[header + i]
  BY <1>1, <1>2, <1>5, PartOf
<1>9. got \in Seq(Bit) /\ Len(got) = (IF k \in Nat THEN k ELSE 0) /\ \A i \in 1 .. Len(got) : got[i] = bits[header + i]
  <2>1. CASE k \in Nat
    <3>1. header + k <= Len(bits)
      BY <1>5, <2>1 DEF len
    <3>2. bits \in Seq(Bit) /\ header \in Nat /\ k \in Nat
      BY <1>1, <1>2, <2>1
    <3>3. /\ SubSeq(bits, header + 1, header + k) \in Seq(Bit) /\ Len(SubSeq(bits, header + 1, header + k)) = k
          /\ \A i \in 1 .. k : SubSeq(bits, header + 1, header + k)[i] = bits[header + i]
      BY <3>1, <3>2, PartOf
    <3>4. got \in Seq(Bit) /\ Len(got) = k /\ \A i \in 1 .. k : got[i] = bits[header + i]
      BY <3>3 DEF got
    <3>. HIDE DEF got
    <3>. QED
      BY <2>1, <3>4
  <2>2. CASE ~(k \in Nat)
    <3>1. header + 1 \in Int /\ header + k \in Int /\ header + k < header + 1
      BY <1>2, <1>5, <2>2
    <3>2. got = <<>>
      BY <3>1, NoPart
    <3>3. got \in Seq(Bit) /\ Len(got) = 0
      BY <3>2, EmptySeq
    <3>4. \A i \in 1 .. 0 : FALSE
      OBVIOUS
    <3>. QED
      BY <2>2, <3>3, <3>4
  <2>. QED
    BY <2>1, <2>2
<1>. HIDE DEF tl, got
<1>10. Len(got) \in Nat /\ k <= Len(got) /\ m <= Len(got) + lost
  <2>1. CASE k \in Nat
    BY <1>5, <1>9, <2>1
  <2>2. CASE ~(k \in Nat)
    BY <1>1, <1>5, <1>9, <2>2
  <2>. QED
    BY <2>1, <2>2
<1>11. Agree(got, tl)
  <2>1. \A i \in 1 .. Len(got) : i <= m => i \in 1 .. m
    BY <1>5, <1>10
  <2>2. \A i \in 1 .. Len(got) : header + i \in 1 .. len
    <3>1. CASE k \in Nat
      BY <1>1, <1>2, <1>5, <1>9, <3>1
    <3>2. CASE ~(k \in Nat)
      BY <1>9, <3>2
    <3>. QED
      BY <3>1, <3>2
  <2>3. \A i \in 1 .. Len(got) : whole[header + i] = bits[header + i]
    BY <1>1, <2>2
  <2>. QED
    BY <1>8, <1>9, <2>1, <2>3 DEF Agree
<1>12. fill = 0 /\ lost = 0 => got = tl
  <2>. SUFFICES ASSUME fill = 0, lost = 0 PROVE got = tl
    OBVIOUS
  <2>1. k = m /\ Len(got) = m
    BY <1>5, <1>9
  <2>2. \A i \in 1 .. m : got[i] = tl[i]
    BY <1>8, <1>11, <2>1 DEF Agree
  <2>. QED
    BY <1>8, <1>9, <2>1, <2>2, SeqEqual
<1>13. ASSUME ~has, NEW i \in 1 .. Len(tl), i > Len(got) + 1 PROVE tl[i] = 0
  <2>1. i \in 1 .. m /\ i \in Nat /\ i > k + 1
    BY <1>5, <1>8, <1>10, <1>13
  <2>2. header + i > len + 1
    BY <1>5, <1>13, <2>1
  <2>3. header + i \in 1 .. len + lost
    BY <1>1, <1>2, <1>5, <2>1
  <2>. QED
    BY <1>1, <1>8, <2>1, <2>2, <2>3
<1>. QED
  BY <1>1, <1>5, <1>6, <1>7, <1>8, <1>9, <1>10, <1>11, <1>12, <1>13
     DEF WithTail, lost, fill, has, there

\* What the link layer makes of a TM-SDU as it is sent.
LinkResult(s, fcs, llc) ==
    /\ llc.ok = TRUE
    /\ llc.data = BitVec(Received(s))
    /\ s.value.llc_type >= 4 => fcs \in compute_fcs(Received(s))
    /\ DOMAIN llc.value \ {"fcs_good"} = LinkNames(s)
    /\ \A name \in LinkNames(s) : llc.value[name] = s.value[name]
    /\ s.value.llc_type >= 4 =>
          /\ llc.value.fcs_good \in BOOLEAN
          /\ llc.value.fcs_good <=> SubSeq(s.bits, Len(s.bits) - 31, Len(s.bits)) = fcs

LEMMA LinkAsSent ==
  ASSUME NEW s \in Sdus, SentLink(s), s.value.llc_type < 8, LinkIsThere(s),
         NEW read, read = Read(BasicLinkInformation, BitVec(s.bits)), NEW fcs \in FcsOf(read),
         NEW llc, llc = WithoutFcs(read, fcs)
  PROVE  LinkResult(s, fcs, llc)
<1>. DEFINE bits == s.bits
            len == Len(bits)
            header == HeaderLength(s)
            type == s.value.llc_type
            n == len - header
            k == IF type < 4 THEN len - header ELSE len - header - 32
            left == SubSeq(bits, header + 1, header + n)
            got == SubSeq(bits, header + 1, header + k)
<1>1. bits \in Seq(Bit) /\ len \in Nat /\ s.fill \in Nat
  BY SdusAssumption, LenProperties DEF Bit
<1>2. /\ type \in Nat /\ header \in Nat /\ "llc_type" \in LinkNames(s) /\ (HasSequence(s) <=> ~(type < 4))
      /\ header <= len
      /\ read = [ok |-> TRUE, value |-> Only(s.value, LinkNames(s)), data |-> Taken(header, BitVec(bits))]
  <2>1. type \in Nat /\ header \in Nat /\ type < 8
    BY LinkHeader
  <2>2. HasSequence(s) <=> ~(type < 4)
    BY <2>1 DEF HasSequence
  <2>3. header <= len
    <3>. HIDE DEF type, header, len
    <3>1. header + (IF HasSequence(s) THEN 32 ELSE 0) <= len
      BY DEF LinkIsThere, header, len, bits
    <3>. QED
      BY <1>1, <2>1, <3>1
  <2>. QED
    BY <2>1, <2>2, <2>3, LinkHeader
<1>3. /\ k \in Nat /\ n \in Nat /\ header + n = len /\ header + k <= len /\ header + 0 = header
      /\ header + n <= len /\ header + k = len - (IF type < 4 THEN 0 ELSE 32)
      /\ (~(type < 4) => /\ 32 <= n /\ k + 32 = n /\ n - 32 = k
                         /\ (header + k) + 1 = len - 31 /\ (header + k) + 32 = len
                         /\ n - 31 = k + 1 /\ k + 32 <= n /\ k <= n /\ 0 + k = k /\ 0 + k <= n)
  <2>1. header + (IF type < 4 THEN 0 ELSE 32) <= len
    BY <1>2 DEF LinkIsThere
  <2>. HIDE DEF header, type, len
  <2>. QED
    BY <1>1, <1>2, <2>1
<1>4. got = Received(s)
  BY <1>2, <1>3 DEF Received
<1>5. read.value.llc_type = type
  BY <1>2 DEF Only
<1>. HIDE DEF bits, header, type, n, k
<1>6. /\ Taken(header, BitVec(bits)) = BitVec(left) /\ left \in Seq(Bit) /\ Len(left) = n
      /\ BitVec(left).bits = left
  <2>1. \A part : BitVec(part).bits = part
    BY DEF BitVec
  <2>. QED
    BY <1>1, <1>2, <1>3, <2>1, BitsTaken, PartOf
<1>7. read.data = BitVec(left) /\ read.data.bits = left /\ bits_left(read.data) = n
  <2>1. read.data = Taken(header, BitVec(bits))
    BY <1>2
  <2>. HIDE DEF left
  <2>. QED
    BY <1>6, <2>1 DEF bits_left
<1>8. CASE type < 4
  <2>1. llc = read
    BY <1>5, <1>8 DEF WithoutFcs
  <2>2. got = left
    BY <1>8 DEF k, n
  <2>3. ~(type >= 4)
    BY <1>2, <1>8
  <2>4. llc.ok = TRUE /\ llc.value = Only(s.value, LinkNames(s)) /\ llc.data = BitVec(left)
    BY <1>2, <1>7, <2>1
  <2>. HIDE DEF got, left
  <2>5. llc.data = BitVec(Received(s))
    BY <1>4, <2>2, <2>4
  <2>6. DOMAIN llc.value = LinkNames(s) /\ \A name \in LinkNames(s) : llc.value[name] = s.value[name]
    BY <2>4 DEF Only
  <2>7. "fcs_good" \notin LinkNames(s)
    BY LinkHeader DEF Computed
  <2>. QED
    BY <1>8, <2>3, <2>4, <2>5, <2>6, <2>7 DEF type, LinkResult
<1>9. CASE ~(type < 4)
  <2>. DEFINE last == SubSeq(left, n - 31, n)
  <2>1. ~(bits_left(read.data) < 32)
    BY <1>3, <1>7, <1>9
  <2>2. llc = [read EXCEPT !.data = TakenLast(32, @), !.value = WithField(@, "fcs_good", last = fcs)]
    BY <1>5, <1>7, <1>9, <2>1 DEF WithoutFcs
  <2>3. last = SubSeq(bits, len - 31, len)
    <3>1. SubSeq(left, k + 1, k + 32) = SubSeq(bits, (header + k) + 1, (header + k) + 32)
      <4>1. header + n <= Len(bits) /\ k + 32 <= n /\ header \in Nat /\ n \in Nat /\ k \in Nat
        BY <1>2, <1>3, <1>9
      <4>2. SubSeq(SubSeq(bits, header + 1, header + n), k + 1, k + 32)
               = SubSeq(bits, (header + k) + 1, (header + k) + 32)
        BY <1>1, <4>1, PartOfPart, 32 \in Nat
      <4>. QED
        BY <4>2
    <3>. QED
      BY <1>3, <1>9, <3>1
  <2>4. TakenLast(32, read.data) = BitVec(got)
    <3>1. SubSeq(left, 0 + 1, 0 + k) = SubSeq(bits, (header + 0) + 1, (header + 0) + k)
      <4>1. header + n <= Len(bits) /\ 0 + k <= n
        BY <1>3, <1>9
      <4>. QED
        BY <1>1, <1>2, <1>3, <4>1, PartOfPart, 0 \in Nat
    <3>2. SubSeq(left, 1, Len(left) - 32) = got
      <4>1. 0 + 1 = 1 /\ Len(left) - 32 = k
        BY <1>3, <1>6, <1>9
      <4>. QED
        BY <1>3, <1>9, <3>1, <4>1
    <3>3. \A part, other : [BitVec(part) EXCEPT !.bits = other] = BitVec(other)
      <4>. SUFFICES ASSUME NEW part, NEW other PROVE [BitVec(part) EXCEPT !.bits = other] = BitVec(other)
        OBVIOUS
      <4>1. \A flag : [[bits |-> part, fill_bits_removed_ |-> flag] EXCEPT !.bits = other]
                          = [bits |-> other, fill_bits_removed_ |-> flag]
        OBVIOUS
      <4>. QED
        BY <4>1 DEF BitVec
    <3>4. TakenLast(32, BitVec(left)) = [BitVec(left) EXCEPT !.bits = SubSeq(left, 1, Len(left) - 32)]
      BY <1>6 DEF TakenLast
    <3>5. read.data = BitVec(left)
      BY <1>7
    <3>. HIDE DEF got, left
    <3>. QED
      BY <3>2, <3>3, <3>4, <3>5
  <2>5. BitVec(got).bits = got
    BY DEF BitVec
  <2>. HIDE DEF got, last
  <2>6. /\ llc.data = BitVec(got) /\ llc.ok = TRUE
        /\ llc.value = WithField(Only(s.value, LinkNames(s)), "fcs_good", last = fcs)
    <3>1. read = [ok |-> read.ok, value |-> read.value, data |-> read.data]
      BY <1>2
    <3>2. /\ llc.data = TakenLast(32, read.data) /\ llc.ok = read.ok
          /\ llc.value = WithField(read.value, "fcs_good", last = fcs)
      BY <2>2, <3>1
    <3>3. read.ok = TRUE /\ read.value = Only(s.value, LinkNames(s))
      BY <1>2
    <3>. QED
      BY <2>4, <3>2, <3>3
  <2>7. fcs \in compute_fcs(got)
    BY <1>5, <1>9, <2>1, <2>4, <2>5 DEF FcsOf
  <2>8. "fcs_good" \notin LinkNames(s)
    BY LinkHeader DEF Computed
  <2>9. /\ DOMAIN llc.value = LinkNames(s) \cup {"fcs_good"}
        /\ \A name \in LinkNames(s) : llc.value[name] = s.value[name]
        /\ llc.value.fcs_good = (last = fcs)
    BY <2>6, <2>8 DEF WithField, Only
  <2>10. /\ llc.ok = TRUE /\ llc.data = BitVec(Received(s)) /\ fcs \in compute_fcs(Received(s))
         /\ DOMAIN llc.value \ {"fcs_good"} = LinkNames(s)
         /\ llc.value.fcs_good \in BOOLEAN /\ (llc.value.fcs_good <=> SubSeq(bits, len - 31, len) = fcs)
    BY <1>4, <2>3, <2>6, <2>7, <2>8, <2>9
  <2>. QED
    BY <2>9, <2>10 DEF bits, len, type, LinkResult
<1>. QED
  BY <1>8, <1>9

\* It is refused if it has lost so much that the header or the checksum is not there.
LEMMA LinkRefused ==
  ASSUME NEW s \in Sdus, SentLink(s), s.value.llc_type < 8, ~LinkIsThere(s),
         NEW read, read = Read(BasicLinkInformation, BitVec(s.bits)), read.ok, NEW fcs \in FcsOf(read)
  PROVE  ~WithoutFcs(read, fcs).ok
<1>. DEFINE len == Len(s.bits)
            header == HeaderLength(s)
            type == s.value.llc_type
<1>1. s.bits \in Seq(Bit) /\ len \in Nat
  BY SdusAssumption, LenProperties DEF Bit
<1>2. /\ type \in Nat /\ header \in Nat /\ "llc_type" \in LinkNames(s) /\ header <= len
      /\ read = [ok |-> TRUE, value |-> Only(s.value, LinkNames(s)), data |-> Taken(header, BitVec(s.bits))]
  BY LinkHeader
<1>3. read.value.llc_type = type /\ read.data = Taken(header, BitVec(s.bits))
  BY <1>2 DEF Only
<1>. HIDE DEF header, type, len
<1>4. header + (IF HasSequence(s) THEN 32 ELSE 0) > len
  <2>1. ~(header + (IF HasSequence(s) THEN 32 ELSE 0) <= len)
    BY DEF LinkIsThere, header, len
  <2>. QED
    BY <1>1, <1>2, <2>1
<1>5. HasSequence(s) /\ len - header < 32 /\ ~(type < 4) /\ header + (len - header) = len /\ len - header \in Nat
  <2>1. HasSequence(s) /\ len - header < 32 /\ header + (len - header) = len /\ len - header \in Nat
    BY <1>1, <1>2, <1>4
  <2>. QED
    BY <1>2, <2>1 DEF HasSequence, type
<1>6. bits_left(read.data) = len - header
  <2>. DEFINE part == SubSeq(s.bits, header + 1, header + (len - header))
  <2>1. header + (len - header) <= Len(s.bits)
    BY <1>1, <1>5 DEF len
  <2>2. Len(part) = len - header
    BY <1>1, <1>2, <1>5, <2>1, PartOf
  <2>3. read.data = BitVec(part)
    BY <1>3, <1>5, BitsTaken DEF len
  <2>4. \A some : BitVec(some).bits = some
    BY DEF BitVec
  <2>. QED
    BY <2>2, <2>3, <2>4 DEF bits_left
<1>7. WithoutFcs(read, fcs) = [read EXCEPT !.ok = FALSE]
  BY <1>3, <1>5, <1>6 DEF WithoutFcs
<1>8. [read EXCEPT !.ok = FALSE].ok = FALSE
  BY <1>2
<1>. QED
  BY <1>7, <1>8

-----------------------------------------------------------------------------
(* The invariant: what is left is always a view; elements are there only   *)
(* once they are parsed, and are allowed by the layer that has them; the   *)
(* outcome of the comparison is the one of the TM-SDU, and is kept.        *)

BeforeElements == {"idle", "llc", "mle", "mm", "cmce"}

PlaceInv ==
    /\ metrics_ \in BOOLEAN
    /\ pc \in {"idle", "llc", "mle", "mm", "cmce", "sds", "elements", "whole", "failed"}
    /\ IF pc = "idle" THEN sdu = {} ELSE \E s \in Sdus : sdu = {s}
    /\ layer \in Layers
    /\ data \in BitVecs

\* The short data is there when its layer is next.
ShortDataInv ==
    /\ pc = "sds" => layer = "cmce"
    /\ pc = "sds" \/ (pc = "elements" /\ layer = "cmce") => "data" \in DOMAIN value /\ value.data \in Seq(Bit)

ElementsInv ==
    /\ pc \in BeforeElements => elements = NoFields
    /\ DOMAIN elements \subseteq Allowed(layer, value).type3 \cup Allowed(layer, value).type4

FcsInv ==
    /\ pc \in {"idle", "llc"} => value = NoFields
    /\ \A s \in sdu : Judged(s) =>
          /\ pc = "llc" => data = BitVec(s.bits)
          /\ "fcs_good" \in Names => value.fcs_good = s.value.fcs_good

TypeInv == PlaceInv /\ ShortDataInv /\ ElementsInv /\ FcsInv

LEMMA NoBits == BitVec(<<>>) \in BitVecs
BY EmptySeq DEF BitVec, BitVecs

LEMMA SdusBits ==
  ASSUME NEW s \in Sdus
  PROVE  BitVec(s.bits) \in BitVecs /\ s.downlink \in BOOLEAN
<1>1. s.bits \in Seq(Bit) /\ {s.downlink, s.understood, s.changed} \subseteq BOOLEAN
  BY SdusAssumption DEF Bit
<1>. QED
  BY <1>1 DEF BitVec, BitVecs

LEMMA InitTypeInv == Init => TypeInv
<1>. SUFFICES ASSUME Init PROVE TypeInv
  OBVIOUS
<1>1. DOMAIN NoFields = {}
  BY DEF NoFields
<1>2. PlaceInv
  BY NoBits DEF Init, PlaceInv, Layers
<1>3. ShortDataInv /\ ElementsInv /\ FcsInv
  BY <1>1 DEF Init, ShortDataInv, ElementsInv, FcsInv
<1>. QED
  BY <1>2, <1>3 DEF TypeInv

\* An exception keeps what is parsed so far.
LEMMA FailKeeps == TypeInv /\ pc # "idle" /\ Fail => TypeInv'
<1>. SUFFICES ASSUME TypeInv, pc # "idle", Fail PROVE TypeInv'
  OBVIOUS
<1>1. /\ pc' = "failed" /\ metrics_' = metrics_ /\ sdu' = sdu /\ data' = data /\ layer' = layer
      /\ value' = value /\ elements' = elements
  BY DEF Fail
<1>2. PlaceInv'
  BY <1>1 DEF TypeInv, PlaceInv
<1>3. ShortDataInv'
  BY <1>1 DEF ShortDataInv
<1>4. ElementsInv'
  BY <1>1 DEF TypeInv, ElementsInv, BeforeElements, Allowed
<1>5. FcsInv'
  BY <1>1 DEF TypeInv, FcsInv, Names
<1>. QED
  BY <1>2, <1>3, <1>4, <1>5 DEF TypeInv

\* The fields of two values are from the first or from the second.
LEMMA Merged ==
  ASSUME NEW first, NEW second
  PROVE  /\ \A field \in DOMAIN first : /\ field \in DOMAIN Over(first, second)
                                       /\ Over(first, second)[field] = first[field]
         /\ \A field \in DOMAIN Over(first, second) :
               \/ field \in DOMAIN first /\ Over(first, second)[field] = first[field]
               \/ field \in DOMAIN second /\ Over(first, second)[field] = second[field]
BY DEF Over

\* What the packet of a layer has to be for the invariant to stay.
Fits(name, read, next) ==
    /\ name \in Layers /\ next \in {"mle", "mm", "cmce", "sds", "elements", "whole"}
    /\ read.data \in BitVecs
    /\ next = "sds" => name = "cmce"
    /\ next = "sds" \/ (next = "elements" /\ name = "cmce") =>
          "data" \in DOMAIN read.value /\ read.value.data \in Seq(Bit)
    /\ pc = "sds" => name = "sds" /\ next = "whole"
    /\ \A s \in sdu : Judged(s) /\ "fcs_good" \in DOMAIN read.value => read.value.fcs_good = s.value.fcs_good

LEMMA ParseKeeps ==
  ASSUME TypeInv, pc \in {"llc", "mle", "mm", "cmce", "sds"},
         NEW name, NEW read, NEW named, NEW next, Fits(name, read, next), Parse(name, read, named, next)
  PROVE  TypeInv'
<1>1. CASE ~read.ok \/ (metrics_ /\ ~named)
  BY <1>1, FailKeeps DEF Parse
<1>2. CASE ~(~read.ok \/ (metrics_ /\ ~named))
  <2>1. /\ layer' = name /\ value' = Over(read.value, value) /\ data' = read.data /\ pc' = next
        /\ metrics_' = metrics_ /\ sdu' = sdu /\ elements' = elements
    BY <1>2 DEF Parse
  <2>2. \A field \in DOMAIN read.value : field \in DOMAIN value' /\ value'[field] = read.value[field]
    BY <2>1, Merged
  <2>3. \A field \in DOMAIN value' :
           \/ field \in DOMAIN read.value /\ value'[field] = read.value[field]
           \/ field \in DOMAIN value /\ value'[field] = value[field]
    BY <2>1, Merged
  <2>4. PlaceInv'
    BY <2>1 DEF TypeInv, PlaceInv, Fits
  <2>5. ShortDataInv'
    BY <2>1, <2>2 DEF ShortDataInv, Fits
  <2>6. ElementsInv'
    <3>1. CASE pc = "sds"
      <4>1. layer = "cmce" /\ layer' = "sds" /\ pc' = "whole"
        BY <2>1, <3>1 DEF TypeInv, ShortDataInv, Fits
      <4>2. \A v : Allowed("cmce", v) = [type3 |-> {2, 6}, type4 |-> {}] /\ Allowed("sds", v) = Allowed("cmce", v)
        BY DEF Allowed
      <4>3. DOMAIN elements \subseteq Allowed(layer, value).type3 \cup Allowed(layer, value).type4
        BY DEF TypeInv, ElementsInv
      <4>4. Allowed(layer', value') = Allowed(layer, value)
        BY <4>1, <4>2
      <4>. QED
        BY <2>1, <4>1, <4>3, <4>4 DEF ElementsInv, BeforeElements
    <3>2. CASE pc # "sds"
      <4>1. elements = NoFields /\ DOMAIN NoFields = {}
        BY <3>2 DEF TypeInv, ElementsInv, BeforeElements, NoFields
      <4>. QED
        BY <2>1, <4>1 DEF ElementsInv
    <3>. QED
      BY <3>1, <3>2
  <2>7. FcsInv'
    BY <2>1, <2>3 DEF TypeInv, FcsInv, Names, Fits
  <2>. QED
    BY <2>4, <2>5, <2>6, <2>7 DEF TypeInv
<1>. QED
  BY <1>1, <1>2

\* The first step with a TM-SDU, and the last.
LEMMA ReceiveKeeps == ASSUME TypeInv, NEW s \in Sdus, Receive(s) PROVE TypeInv'
<1>1. /\ pc = "idle" /\ metrics_' \in BOOLEAN /\ sdu' = {s} /\ data' = BitVec(s.bits) /\ pc' = "llc"
      /\ layer' = layer /\ value' = value /\ elements' = elements
  BY DEF Receive
<1>2. value = NoFields /\ elements = NoFields /\ DOMAIN NoFields = {}
  BY <1>1 DEF TypeInv, FcsInv, ElementsInv, BeforeElements, NoFields
<1>3. PlaceInv'
  BY <1>1, SdusBits DEF TypeInv, PlaceInv
<1>4. ShortDataInv'
  BY <1>1 DEF ShortDataInv
<1>5. ElementsInv'
  BY <1>1, <1>2 DEF ElementsInv
<1>6. FcsInv'
  BY <1>1, <1>2 DEF FcsInv, Names
<1>. QED
  BY <1>3, <1>4, <1>5, <1>6 DEF TypeInv

LEMMA DoneKeeps == ASSUME TypeInv, Done PROVE TypeInv'
<1>1. /\ metrics_' = FALSE /\ sdu' = {} /\ pc' = "idle" /\ data' = BitVec(<<>>)
      /\ layer' = "llc" /\ value' = NoFields /\ elements' = NoFields
  BY DEF Done
<1>2. DOMAIN NoFields = {}
  BY DEF NoFields
<1>3. PlaceInv'
  BY <1>1, NoBits DEF PlaceInv, Layers
<1>4. ShortDataInv' /\ ElementsInv' /\ FcsInv'
  BY <1>1, <1>2 DEF ShortDataInv, ElementsInv, FcsInv
<1>. QED
  BY <1>3, <1>4 DEF TypeInv

\* What is read from a layout does not have the names that are computed.
LEMMA ReadPart ==
  ASSUME NEW layout, IsLayout(layout, Computed), NEW view \in BitVecs, NEW read, read = Read(layout, view)
  PROVE  /\ read.data \in BitVecs /\ read.data \in PartsOf(view)
         /\ DOMAIN read.value \cap Computed = {}
         /\ read = [ok |-> read.ok, value |-> read.value, data |-> read.data]
BY ReadTakes DEF PartsOf

\* The link layer, without a frame check sequence or with one.
LEMMA WithoutFcsFits ==
  ASSUME TypeInv, pc = "llc", NEW read, read = Read(BasicLinkInformation, data),
         read.ok, ~(read.value.llc_type >= 8), NEW fcs \in FcsOf(read), NEW next \in {"mle", "whole"}
  PROVE  \/ ~WithoutFcs(read, fcs).ok
         \/ Fits("llc", WithoutFcs(read, fcs), next)
<1>. DEFINE llc == WithoutFcs(read, fcs)
            left == read.data.bits
            last == SubSeq(left, bits_left(read.data) - 31, bits_left(read.data))
<1>1. data \in BitVecs /\ read.data \in BitVecs /\ "fcs_good" \notin DOMAIN read.value
      /\ read = [ok |-> read.ok, value |-> read.value, data |-> read.data]
  <2>1. data \in BitVecs
    BY DEF TypeInv, PlaceInv
  <2>. QED
    BY <2>1, Layouts, ReadPart DEF Computed
<1>2. CASE read.value.llc_type < 4
  <2>1. llc = read
    BY <1>2 DEF WithoutFcs
  <2>. QED
    BY <1>1, <2>1 DEF Fits, Layers
<1>3. CASE ~(read.value.llc_type < 4) /\ bits_left(read.data) < 32
  <2>1. llc = [read EXCEPT !.ok = FALSE]
    BY <1>3 DEF WithoutFcs
  <2>2. ~llc.ok
    BY <1>1, <2>1
  <2>. QED
    BY <2>2
<1>4. CASE ~(read.value.llc_type < 4) /\ ~(bits_left(read.data) < 32)
  <2>1. llc = [read EXCEPT !.data = TakenLast(32, @), !.value = WithField(@, "fcs_good", last = fcs)]
    BY <1>4 DEF WithoutFcs
  <2>2. llc.data = TakenLast(32, read.data) /\ llc.value = WithField(read.value, "fcs_good", last = fcs)
    BY <1>1, <2>1
  <2>3. left \in Seq(Bit) /\ bits_left(read.data) = Len(left) /\ Len(left) \in Nat
    BY <1>1 DEF BitVecs, bits_left
  <2>4. TakenLast(32, read.data) \in BitVecs
    <3>1. Len(left) - 32 \in 0 .. Len(left)
      BY <1>4, <2>3
    <3>2. SubSeq(left, 1, Len(left) - 32) \in Seq(Bit)
      <4>1. Len(left) - 32 \in Nat /\ Len(left) - 32 <= Len(left)
        BY <2>3, <3>1
      <4>. QED
        BY <2>3, <4>1, FirstBits
    <3>. QED
      BY <1>1, <3>2 DEF TakenLast, BitVecs
  <2>5. ASSUME NEW s \in sdu, Judged(s) PROVE llc.value.fcs_good = s.value.fcs_good
    <3>1. s \in Sdus /\ data = BitVec(s.bits)
      BY <2>5 DEF TypeInv, PlaceInv, FcsInv
    <3>2. /\ SentLink(s) /\ s.value.llc_type \in 4 .. 7 /\ TlSdu(s) # <<>> /\ s.fill = 0 /\ s.lost = 0
          /\ s.value.fcs_good = (SubSeq(s.bits, Len(s.bits) - 31, Len(s.bits)) = FrameCheckSequence(TlSdu(s)))
      BY <2>5, <3>1, FcsAssumption DEF Judged, HasSequence
    <3>. DEFINE sequence == SubSeq(s.bits, Len(s.bits) - 31, Len(s.bits))
    <3>3. /\ WithTail(s) /\ fcs \in compute_fcs(Received(s))
          /\ llc.value.fcs_good \in BOOLEAN /\ (llc.value.fcs_good <=> sequence = fcs)
      <4>1. s.value.llc_type < 8 /\ s.value.llc_type >= 4 /\ ~(s.value.llc_type < 4)
        BY <3>2
      <4>2. read = Read(BasicLinkInformation, BitVec(s.bits)) /\ fcs \in FcsOf(read)
        BY <3>1
      <4>3. llc = WithoutFcs(read, fcs)
        OBVIOUS
      <4>4. s \in Sdus /\ SentLink(s) /\ s.value.llc_type < 8
        BY <3>1, <3>2, <4>1
      <4>. HIDE DEF llc
      <4>5. WithTail(s) /\ LinkIsThere(s)
        BY <3>2, <4>4, TlSduWithTail
      <4>6. LinkResult(s, fcs, llc)
        BY <4>2, <4>3, <4>4, <4>5, LinkAsSent
      <4>. QED
        BY <4>1, <4>5, <4>6 DEF LinkResult
    <3>4. fcs \in compute_fcs(TlSdu(s)) /\ TlSdu(s) \in Seq(Bit)
      BY <3>2, <3>3 DEF WithTail
    <3>5. TlSdu(s) # <<>>
      BY <3>2
    <3>6. fcs = FrameCheckSequence(TlSdu(s))
      BY <3>4, <3>5, ComputedAsSent
    <3>. HIDE DEF llc
    <3>. QED
      BY <3>2, <3>3, <3>6
  <2>. HIDE DEF llc
  <2>6. Fits("llc", llc, next)
    BY <1>4, <2>2, <2>4, <2>5 DEF Fits, Layers
  <2>. QED
    BY <2>6 DEF llc
<1>. QED
  BY <1>2, <1>3, <1>4

LEMMA LinkKeeps == ASSUME TypeInv, LogicalLinkControl PROVE TypeInv'
<1>. DEFINE read == Read(BasicLinkInformation, data)
<1>1. pc = "llc" /\ data \in BitVecs
  BY DEF LogicalLinkControl, TypeInv, PlaceInv
<1>2. CASE ~read.ok
  BY <1>1, <1>2, FailKeeps DEF LogicalLinkControl
<1>3. CASE read.ok /\ read.value.llc_type >= 8
  <2>1. Parse("llc", read, HasLlcName, "whole")
    BY <1>3 DEF LogicalLinkControl
  <2>2. read.data \in BitVecs /\ DOMAIN read.value \cap Computed = {}
    BY <1>1, Layouts, ReadPart
  <2>. HIDE DEF read
  <2>3. Fits("llc", read, "whole")
    BY <1>1, <2>2 DEF Fits, Layers, Computed
  <2>. QED
    BY <1>1, <2>1, <2>3, ParseKeeps
<1>4. CASE read.ok /\ ~(read.value.llc_type >= 8)
  <2>1. PICK fcs \in FcsOf(read) :
            Parse("llc", WithoutFcs(read, fcs), TRUE,
                  IF bits_left(WithoutFcs(read, fcs).data) > 0 THEN "mle" ELSE "whole")
    BY <1>4 DEF LogicalLinkControl
  <2>. DEFINE llc == WithoutFcs(read, fcs)
              next == IF bits_left(llc.data) > 0 THEN "mle" ELSE "whole"
  <2>2. next \in {"mle", "whole"}
    OBVIOUS
  <2>. HIDE DEF next
  <2>3. ~llc.ok \/ Fits("llc", llc, next)
    BY <1>1, <1>4, <2>2, WithoutFcsFits
  <2>. HIDE DEF read, llc
  <2>4. Parse("llc", llc, TRUE, next)
    BY <2>1 DEF llc, next
  <2>5. CASE ~llc.ok
    <3>1. Fail
      BY <2>4, <2>5 DEF Parse
    <3>. QED
      BY <1>1, <3>1, FailKeeps
  <2>6. CASE Fits("llc", llc, next)
    BY <1>1, <2>4, <2>6, ParseKeeps
  <2>. QED
    BY <2>3, <2>5, <2>6
<1>. QED
  BY <1>2, <1>3, <1>4

LEMMA EntityKeeps == ASSUME TypeInv, MobileLinkEntity PROVE TypeInv'
<1>. DEFINE read == Read(MobileLinkEntityPacket, data)
            next == CASE read.ok /\ read.value.discriminator = kMmProtocol -> "mm"
                      [] read.ok /\ read.value.discriminator = kCmceProtocol -> "cmce"
                      [] OTHER -> "whole"
<1>1. pc = "mle" /\ data \in BitVecs /\ Parse("mle", read, HasMleName(read), next)
  BY DEF MobileLinkEntity, TypeInv, PlaceInv
<1>2. read.data \in BitVecs /\ DOMAIN read.value \cap Computed = {}
  BY <1>1, Layouts, ReadPart
<1>. HIDE DEF read
<1>3. next \in {"mm", "cmce", "whole"}
  OBVIOUS
<1>. HIDE DEF next
<1>4. Fits("mle", read, next)
  BY <1>1, <1>2, <1>3 DEF Fits, Layers, Computed
<1>. QED
  BY <1>1, <1>4, ParseKeeps

LEMMA ManagementKeeps == ASSUME TypeInv, MobileManagement PROVE TypeInv'
<1>1. PICK s \in sdu :
          Parse("mm", Read(MobileManagementPacket(s.downlink), data), TRUE,
                IF Has(Read(MobileManagementPacket(s.downlink), data).value, "o_bit", {1})
                THEN "elements" ELSE "whole")
  BY DEF MobileManagement
<1>. DEFINE layout == MobileManagementPacket(s.downlink)
            read == Read(layout, data)
            next == IF Has(read.value, "o_bit", {1}) THEN "elements" ELSE "whole"
<1>2. pc = "mm" /\ data \in BitVecs /\ s \in Sdus
  BY DEF MobileManagement, TypeInv, PlaceInv
<1>3. IsLayout(layout, Computed)
  BY <1>2, SdusBits, Layouts
<1>. HIDE DEF layout
<1>4. read.data \in BitVecs /\ DOMAIN read.value \cap Computed = {}
  BY <1>2, <1>3, ReadPart
<1>5. Parse("mm", read, TRUE, next)
  BY <1>1 DEF layout
<1>. HIDE DEF read
<1>6. next \in {"elements", "whole"}
  OBVIOUS
<1>. HIDE DEF next
<1>7. Fits("mm", read, next)
  BY <1>2, <1>4, <1>6 DEF Fits, Layers, Computed
<1>. QED
  BY <1>2, <1>5, <1>7, ParseKeeps

\* The short data is taken out of what is left, and no more than that.
LEMMA ShortDataFits ==
  ASSUME TypeInv, pc = "cmce", NEW read, read.data \in BitVecs, DOMAIN read.value \cap Computed = {},
         NEW length \in 0 .. bits_left(read.data), NEW next \in {"elements", "sds"}, NEW rest,
         rest = Read(<< Field("o_bit", 1) >>, Taken(length, read.data))
  PROVE  Fits("cmce",
              [rest EXCEPT !.value = WithField(Over(@, read.value), "data", take_vector(length, read.data))],
              next)
<1>. DEFINE taken == take_vector(length, read.data)
            with == WithField(Over(rest.value, read.value), "data", taken)
            packet == [rest EXCEPT !.value = WithField(Over(@, read.value), "data", taken)]
<1>1. length \in Nat /\ length <= bits_left(read.data)
  BY DEF BitVecs, bits_left
<1>2. taken \in Seq(Bit)
  <2>1. read.data.bits \in Seq(Bit) /\ length <= Len(read.data.bits)
    BY <1>1 DEF BitVecs, bits_left
  <2>. QED
    BY <1>1, <2>1, FirstBits DEF take_vector
<1>3. /\ rest.data \in BitVecs /\ DOMAIN rest.value \cap Computed = {}
      /\ rest = [ok |-> rest.ok, value |-> rest.value, data |-> rest.data]
  <2>1. Taken(length, read.data) \in BitVecs
    BY <1>1, PartTaken
  <2>. QED
    BY <2>1, Layouts, ReadPart
<1>4. packet.value = with /\ packet.data = rest.data
  BY <1>3
<1>5. "data" \in DOMAIN with /\ with.data = taken /\ "fcs_good" \notin DOMAIN with
  <2>1. "fcs_good" \notin DOMAIN Over(rest.value, read.value)
    BY <1>3 DEF Over, Computed
  <2>. QED
    BY <2>1 DEF WithField
<1>. HIDE DEF packet, with, taken
<1>6. Fits("cmce", packet, next)
  BY <1>2, <1>3, <1>4, <1>5 DEF Fits, Layers
<1>. QED
  BY <1>6 DEF packet, taken

LEMMA ControlKeeps == ASSUME TypeInv, CircuitModeControlEntity PROVE TypeInv'
<1>1. pc = "cmce" /\ data \in BitVecs
  BY DEF CircuitModeControlEntity, TypeInv, PlaceInv
<1>2. PICK s \in sdu :
          LET read == Read(CircuitModeControlEntityPacket(s.downlink), data)
              length == LengthOfData(read.value)
              rest == Read(<< Field("o_bit", 1) >>, Taken(length, read.data))
          IN IF ~read.ok \/ read.value.cmce_type # SdsData THEN Parse("cmce", read, TRUE, "whole")
             ELSE IF length \notin 0 .. bits_left(read.data) THEN Fail
             ELSE Parse("cmce",
                        [rest EXCEPT !.value = WithField(Over(@, read.value), "data",
                                                         take_vector(length, read.data))],
                        TRUE, IF Has(rest.value, "o_bit", {1}) THEN "elements" ELSE "sds")
  BY DEF CircuitModeControlEntity
<1>. DEFINE layout == CircuitModeControlEntityPacket(s.downlink)
            read == Read(layout, data)
            length == LengthOfData(read.value)
            rest == Read(<< Field("o_bit", 1) >>, Taken(length, read.data))
            packet == [rest EXCEPT !.value = WithField(Over(@, read.value), "data",
                                                       take_vector(length, read.data))]
            next == IF Has(rest.value, "o_bit", {1}) THEN "elements" ELSE "sds"
<1>3. IsLayout(layout, Computed)
  <2>1. s \in Sdus
    BY <1>1 DEF TypeInv, PlaceInv
  <2>. QED
    BY <2>1, SdusBits, Layouts
<1>4. \/ ~(~read.ok \/ read.value.cmce_type # SdsData) /\ length \notin 0 .. bits_left(read.data) /\ Fail
      \/ Parse("cmce", read, TRUE, "whole")
      \/ length \in 0 .. bits_left(read.data) /\ Parse("cmce", packet, TRUE, next)
  BY <1>2
<1>. HIDE DEF layout
<1>5. read.data \in BitVecs /\ DOMAIN read.value \cap Computed = {}
  BY <1>1, <1>3, ReadPart
<1>. HIDE DEF read
<1>6. CASE Parse("cmce", read, TRUE, "whole")
  <2>1. Fits("cmce", read, "whole")
    BY <1>1, <1>5 DEF Fits, Layers, Computed
  <2>. QED
    BY <1>1, <1>6, <2>1, ParseKeeps
<1>7. CASE length \in 0 .. bits_left(read.data) /\ Parse("cmce", packet, TRUE, next)
  <2>1. next \in {"elements", "sds"}
    OBVIOUS
  <2>. HIDE DEF next
  <2>2. Fits("cmce", packet, next)
    <3>. HIDE DEF length
    <3>. QED
      BY <1>1, <1>5, <1>7, <2>1, ShortDataFits
  <2>. HIDE DEF packet
  <2>. QED
    BY <1>1, <1>7, <2>2, ParseKeeps
<1>8. CASE Fail
  BY <1>1, <1>8, FailKeeps
<1>. QED
  BY <1>4, <1>6, <1>7, <1>8

LEMMA ServiceKeeps == ASSUME TypeInv, ShortDataService PROVE TypeInv'
<1>. DEFINE read == Read(ShortDataServicePacket, BitVec(value.data))
            packet == [read EXCEPT !.value = Converted(@), !.data = data]
<1>1. /\ pc = "sds" /\ data \in BitVecs /\ BitVec(value.data) \in BitVecs
      /\ Parse("sds", packet, TRUE, "whole")
  BY DEF ShortDataService, TypeInv, PlaceInv, ShortDataInv, BitVec, BitVecs
<1>2. /\ DOMAIN read.value \cap Computed = {}
      /\ read = [ok |-> read.ok, value |-> read.value, data |-> read.data]
  BY <1>1, Layouts, ReadPart
<1>. HIDE DEF read
<1>3. packet.value = Converted(read.value) /\ packet.data = data
  BY <1>2
<1>4. \A v : DOMAIN Converted(v) = DOMAIN v
  BY DEF Converted
<1>. HIDE DEF packet
<1>5. Fits("sds", packet, "whole")
  BY <1>1, <1>2, <1>3, <1>4 DEF Fits, Layers, Computed
<1>. QED
  BY <1>1, <1>5, ParseKeeps

\* An element more: it is one that is allowed, and its bits are taken.
LEMMA ElementKeeps == ASSUME TypeInv, Element PROVE TypeInv'
<1>. DEFINE read == Read(ElementHeader, data)
            id == read.value.element_identifier
            is_type4 == id \in Allowed(layer, value).type4
            head == IF is_type4 THEN Read(<< Field("repeated_elements", 6) >>, read.data) ELSE read
            length == read.value.length_indicator - (IF is_type4 THEN 6 ELSE 0)
            one == [unparsed_bits |-> take_vector(length, head.data),
                    repeated_elements |-> IF is_type4 THEN head.value.repeated_elements ELSE 1]
<1>1. pc = "elements" /\ data \in BitVecs
  BY DEF Element, TypeInv, PlaceInv
<1>2. \/ Fail
      \/ /\ length \in 0 .. bits_left(head.data) /\ IsAllowed(id)
         /\ elements' = WithField(elements, id, one) /\ data' = Taken(length, head.data)
         /\ metrics_' = metrics_ /\ sdu' = sdu /\ pc' = pc /\ layer' = layer /\ value' = value
  BY DEF Element
<1>3. read.data \in BitVecs
  BY <1>1, Layouts, ReadPart
<1>. HIDE DEF read
<1>4. head.data \in BitVecs
  <2>1. Read(<< Field("repeated_elements", 6) >>, read.data).data \in BitVecs
    BY <1>3, Layouts, ReadPart
  <2>. HIDE DEF is_type4
  <2>. QED
    BY <1>3, <2>1
<1>. HIDE DEF id, is_type4, head, length, one
<1>5. CASE Fail
  BY <1>1, <1>5, FailKeeps
<1>6. CASE /\ length \in 0 .. bits_left(head.data) /\ IsAllowed(id)
           /\ elements' = WithField(elements, id, one) /\ data' = Taken(length, head.data)
           /\ metrics_' = metrics_ /\ sdu' = sdu /\ pc' = pc /\ layer' = layer /\ value' = value
  <2>1. data' \in BitVecs
    <3>1. length \in Nat /\ length <= bits_left(head.data)
      BY <1>4, <1>6 DEF BitVecs, bits_left
    <3>. QED
      BY <1>4, <1>6, <3>1, PartTaken
  <2>2. PlaceInv'
    BY <1>6, <2>1 DEF TypeInv, PlaceInv
  <2>3. ShortDataInv'
    BY <1>6 DEF TypeInv, ShortDataInv
  <2>4. ElementsInv'
    <3>1. DOMAIN elements' = DOMAIN elements \cup {id}
      BY <1>6 DEF WithField
    <3>2. Allowed(layer', value') = Allowed(layer, value)
      BY <1>6
    <3>. QED
      BY <1>1, <1>6, <3>1, <3>2 DEF TypeInv, ElementsInv, BeforeElements, IsAllowed
  <2>5. FcsInv'
    BY <1>1, <1>6 DEF TypeInv, FcsInv, Names
  <2>. QED
    BY <2>2, <2>3, <2>4, <2>5 DEF TypeInv
<1>. QED
  BY <1>2, <1>5, <1>6

\* The end of the elements: the short data, if there is any, is parsed next.
LEMMA LastElementKeeps == ASSUME TypeInv, LastElement PROVE TypeInv'
<1>1. /\ pc = "elements" /\ data \in BitVecs
      /\ data' = IF MoreElements THEN Taken(1, data) ELSE data
      /\ pc' = IF layer = "cmce" THEN "sds" ELSE "whole"
      /\ metrics_' = metrics_ /\ sdu' = sdu /\ layer' = layer /\ value' = value /\ elements' = elements
  BY DEF LastElement, TypeInv, PlaceInv
<1>2. data' \in BitVecs
  <2>1. MoreElements => 1 \in Nat /\ 1 <= bits_left(data)
    BY <1>1 DEF MoreElements, BitVecs, bits_left
  <2>. QED
    BY <1>1, <2>1, PartTaken
<1>3. PlaceInv'
  BY <1>1, <1>2 DEF TypeInv, PlaceInv
<1>4. ShortDataInv'
  BY <1>1 DEF TypeInv, ShortDataInv
<1>5. ElementsInv'
  <2>1. Allowed(layer', value') = Allowed(layer, value)
    BY <1>1
  <2>. QED
    BY <1>1, <2>1 DEF TypeInv, ElementsInv, BeforeElements
<1>6. FcsInv'
  BY <1>1 DEF TypeInv, FcsInv, Names
<1>. QED
  BY <1>3, <1>4, <1>5, <1>6 DEF TypeInv

LEMMA NextTypeInv == TypeInv /\ [Next]_vars => TypeInv'
<1>. SUFFICES ASSUME TypeInv, [Next]_vars PROVE TypeInv'
  OBVIOUS
<1>1. ASSUME NEW s \in Sdus, Receive(s) PROVE TypeInv'
  BY <1>1, ReceiveKeeps
<1>2. CASE Parsing
  BY <1>2, LinkKeeps, EntityKeeps, ManagementKeeps, ControlKeeps, ServiceKeeps, ElementKeeps,
     LastElementKeeps DEF Parsing
<1>3. CASE Done
  BY <1>3, DoneKeeps
<1>4. CASE UNCHANGED vars
  <2>1. /\ metrics_' = metrics_ /\ sdu' = sdu /\ pc' = pc /\ data' = data /\ layer' = layer
        /\ value' = value /\ elements' = elements
    BY <1>4 DEF vars
  <2>2. Allowed(layer', value') = Allowed(layer, value)
    BY <2>1
  <2>. QED
    BY <2>1, <2>2 DEF TypeInv, PlaceInv, ShortDataInv, ElementsInv, FcsInv, Names
<1>. QED
  BY <1>1, <1>2, <1>3, <1>4 DEF Next

LEMMA TypeInvHolds == Spec => []TypeInv
BY InitTypeInv, NextTypeInv, PTL DEF Spec

-----------------------------------------------------------------------------
(* A TM-SDU as the network sends it, layer by layer: what is left is the   *)
(* TL-SDU from where the next layer begins, with its fill bits or without  *)
(* its end, and the packet has the fields that were sent up to there.      *)

\* Fill bits are a TL-SDU to the parsers if there is no other.
IsSent(s) ==
    /\ ~s.changed /\ (s.fill = 0 \/ s.layer # "llc" \/ s.value.llc_type >= 8)
    /\ s.lost > 0 => s.understood /\ CanBeNoticed(s)

IsUpper(s) ==
    s.value.llc_type < 8 /\ TlSdu(s) # <<>> /\ Writes(MobileLinkEntityPacket, s.value, TlSdu(s), 0)

\* The fields of a packet, but for the outcome of the comparison.
Holds(v, s, names) ==
    DOMAIN v \ {"fcs_good"} = names /\ \A name \in names : v[name] = s.value[name]

From(s, at) == Taken(at, BitVec(Received(s)))
LeftFrom(s, at, left) == at \in Nat /\ at <= Len(Received(s)) /\ left = From(s, at)

MmNames(s) == Fields(MobileManagementPacket(s.downlink), s.value)
MmEnd(s) == MleWidth(s) + Width(MobileManagementPacket(s.downlink), s.value)

DataLength(s) == LengthOfData(Only(s.value, CmceNames(s)))
DataEnd(s) == CmceEnd(s) + DataLength(s)
ControlNames(s) == (MleNames(s) \cup CmceNames(s)) \cup {"o_bit", "data"}

\* The first elements are taken.
ElementsAre(s, from, taken, left) ==
    \E n \in 0 .. Len(s.in_order) :
       /\ \A i \in 1 .. n : IsKnown(s, i)
       /\ taken = Collected(s.in_order, n)
       /\ LeftFrom(s, Ends(s.in_order, from)[n], left)

ElementsFrom(s, from) == SentElements(s, from) /\ from \in Nat /\ ElementsAre(s, from, elements, data)

BeforeLink(s) == data = BitVec(s.bits)

BeforeEntity(s) ==
    /\ IsUpper(s) /\ (SentMle(s) \/ SentMm(s) \/ SentCmce(s))
    /\ Holds(value, s, LinkNames(s)) /\ data = From(s, 0)

BeforeManagement(s) ==
    IsUpper(s) /\ SentMm(s) /\ Holds(value, s, MleNames(s)) /\ LeftFrom(s, MleWidth(s), data)

BeforeControl(s) ==
    IsUpper(s) /\ SentCmce(s) /\ Holds(value, s, MleNames(s)) /\ LeftFrom(s, MleWidth(s), data)

InElements(s) ==
    /\ IsUpper(s)
    /\ \/ /\ layer = "mm" /\ SentMm(s)
          /\ Holds(value, s, MleNames(s) \cup MmNames(s)) /\ ElementsFrom(s, MmEnd(s))
          /\ Sent(s, MleNames(s) \cup MmNames(s))
       \/ /\ layer = "cmce" /\ s.layer = "sds" /\ SentShortData(s) /\ s.value.discriminator = kCmceProtocol
          /\ Holds(value, s, ControlNames(s)) /\ ElementsFrom(s, DataEnd(s) + 1)

BeforeShortData(s) ==
    /\ layer = "cmce" /\ s.layer = "sds" /\ SentShortData(s) /\ Holds(value, s, ControlNames(s))
    /\ s.understood /\ elements = s.elements

Within(s) ==
    /\ pc = "llc" => BeforeLink(s)
    /\ pc = "mle" => BeforeEntity(s)
    /\ pc = "mm" => BeforeManagement(s)
    /\ pc = "cmce" => BeforeControl(s)
    /\ pc = "elements" => InElements(s)
    /\ pc = "sds" => BeforeShortData(s)
    /\ pc = "whole" => s.understood /\ AsSent(s) /\ (s.lost = 0 => (metrics_ => HasName(s)))
    /\ pc = "failed" => ~s.understood \/ s.lost > 0 \/ (metrics_ /\ ~HasName(s))

SentInv == \A s \in sdu : IsSent(s) => Within(s)

LEMMA SentLayers ==
  ASSUME NEW s \in Sdus, IsSent(s)
  PROVE  /\ SentLink(s)
         /\ SentLlc(s) \/ (IsUpper(s) /\ (SentMle(s) \/ SentMm(s) \/ SentCmce(s)))
BY SentAssumption DEF IsSent, IsUpper

\* A layout, read from where it was written.
ReadResult(s, layout, v, at, read, end) ==
    /\ read = [ok |-> TRUE, value |-> Only(v, Fields(layout, v)), data |-> From(s, end)]
    /\ Fields(layout, v) \cap Computed = {}
    /\ end \in Nat /\ at <= end /\ end <= Len(TlSdu(s)) /\ end <= Len(Received(s))

LEMMA ReadFrom ==
  ASSUME NEW s, WithTail(s), NEW layout, IsLayout(layout, Computed), NEW v,
         NEW at \in Nat, at <= Len(Received(s)),
         Writes(layout, v, TlSdu(s), at), NEW read, read = Read(layout, From(s, at)),
         NEW end, end = at + Width(layout, v)
  PROVE  ReadResult(s, layout, v, at, read, end) \/ (~read.ok /\ s.lost > 0)
<1>. DEFINE got == Received(s)
            sent == TlSdu(s)
            width == Width(layout, v)
            lost == s.lost
<1>1. /\ got \in Seq(Bit) /\ sent \in Seq(Bit) /\ Agree(got, sent)
      /\ Len(sent) <= Len(got) + lost /\ lost \in Nat
  BY DEF WithTail
<1>2. Len(got) \in Nat /\ Len(sent) \in Nat /\ width \in Nat /\ at + width <= Len(sent)
  <2>1. 0 \in 0 .. Len(layout)
    BY DEF IsLayout
  <2>. QED
    BY <1>1, <2>1, LenProperties, LaidGrows DEF Writes
<1>. HIDE DEF width, got, sent, lost
<1>3. /\ end \in Nat /\ at <= end /\ end <= Len(sent) /\ at <= Len(got)
      /\ end <= Len(got) \/ lost > 0
  <2>1. \A x, y, z \in Nat : at + width <= x /\ x <= y + z =>
           at + width \in Nat /\ at <= at + width /\ (at + width <= y \/ z > 0)
    BY <1>2
  <2>2. end = at + width
    BY DEF width
  <2>3. at <= Len(got)
    BY DEF got
  <2>. QED
    BY <1>1, <1>2, <2>1, <2>2, <2>3
<1>4. LET last == at + Width(layout, v)
          result == Read(layout, Taken(at, BitVec(got)))
      IN IF last <= Len(got)
         THEN result = [ok |-> TRUE, value |-> Only(v, Fields(layout, v)), data |-> Taken(last, BitVec(got))]
         ELSE ~result.ok
  <2>1. Writes(layout, v, sent, at)
    BY DEF sent
  <2>. QED
    BY <1>1, <1>3, <2>1, ReadsAsWritten
<1>5. CASE ~(end <= Len(got))
  BY <1>3, <1>4, <1>5 DEF From, got, lost, width
<1>6. CASE end <= Len(got)
  <2>1. read = [ok |-> TRUE, value |-> Only(v, Fields(layout, v)), data |-> From(s, end)]
    BY <1>4, <1>6 DEF From, got, width
  <2>2. Fields(layout, v) \cap Computed = {}
    <3>1. 0 \in 0 .. Len(layout)
      BY DEF IsLayout
    <3>2. Fields(layout, v) \subseteq NamesOf(layout)
      BY <3>1, LaidGrows
    <3>. QED
      BY <3>2 DEF NamesOf, IsLayout, IsField
  <2>. QED
    BY <1>3, <1>6, <2>1, <2>2 DEF got, sent, ReadResult
<1>. QED
  BY <1>5, <1>6

LEMMA HoldsOnly ==
  ASSUME NEW s, NEW names, names \cap Computed = {}
  PROVE  Holds(Only(s.value, names), s, names)
BY DEF Holds, Only, Computed

LEMMA HoldsBoth ==
  ASSUME NEW s, NEW first, NEW some, Holds(first, s, some), NEW second, NEW others, Holds(second, s, others)
  PROVE  Holds(Over(first, second), s, others \cup some)
<1>. DEFINE both == Over(first, second)
<1>1. /\ DOMAIN both = DOMAIN first \cup DOMAIN second
      /\ \A name \in DOMAIN first : both[name] = first[name]
      /\ \A name \in DOMAIN second : name \notin DOMAIN first => both[name] = second[name]
  BY DEF Over
<1>. HIDE DEF both
<1>2. /\ DOMAIN first \ {"fcs_good"} = some /\ \A name \in some : first[name] = s.value[name]
      /\ DOMAIN second \ {"fcs_good"} = others /\ \A name \in others : second[name] = s.value[name]
  BY DEF Holds
<1>3. DOMAIN both \ {"fcs_good"} = others \cup some
  BY <1>1, <1>2
<1>4. ASSUME NEW name \in others \cup some PROVE both[name] = s.value[name]
  <2>1. name # "fcs_good"
    BY <1>2
  <2>2. CASE name \in DOMAIN first
    <3>1. name \in some
      BY <1>2, <2>1, <2>2
    <3>2. both[name] = first[name] /\ first[name] = s.value[name]
      BY <1>1, <1>2, <2>2, <3>1
    <3>. QED
      BY <3>2
  <2>3. CASE name \notin DOMAIN first
    <3>1. name \in others /\ name \in DOMAIN second /\ name \notin DOMAIN first
      BY <1>2, <2>1, <2>3
    <3>2. both[name] = second[name]
      BY <1>1, <3>1
    <3>3. second[name] = s.value[name]
      BY <1>2, <3>1
    <3>. QED
      BY <3>2, <3>3
  <2>. QED
    BY <2>2, <2>3
<1>5. Holds(both, s, others \cup some)
  BY <1>3, <1>4 DEF Holds
<1>. QED
  BY <1>5 DEF both

\* The packet of a layer more.
LEMMA LayerAsSent ==
  ASSUME NEW s, NEW others, Holds(value, s, others), NEW read, read.ok = TRUE,
         NEW names, Holds(read.value, s, names), NEW name, NEW named, ~metrics_ \/ named, NEW next,
         Parse(name, read, named, next)
  PROVE  /\ pc' = next /\ layer' = name /\ data' = read.data /\ sdu' = sdu /\ elements' = elements
         /\ Holds(value', s, others \cup names)
<1>1. /\ pc' = next /\ layer' = name /\ data' = read.data /\ sdu' = sdu /\ elements' = elements
      /\ value' = Over(read.value, value)
  BY DEF Parse
<1>. QED
  BY <1>1, HoldsBoth

\* The packet is complete.
LEMMA WholeAsSent ==
  ASSUME NEW s, NEW names, Sent(s, names), Holds(value', s, names), layer' = s.layer, elements' = s.elements,
         pc' = "whole", s.understood, s.lost = 0 => (metrics_' => HasName(s))
  PROVE  Within(s)'
<1>1. AsSent(s)'
  BY DEF AsSent, Names, Sent, Holds
<1>. QED
  BY <1>1 DEF Within

\* One that has lost its end may be refused.
LEMMA RefusedAsCut ==
  ASSUME NEW s, s.lost > 0, NEW name, NEW read, NEW named, NEW next, Parse(name, read, named, next),
         ~read.ok \/ (metrics_ /\ ~named)
  PROVE  Within(s)' /\ sdu' = sdu
<1>1. pc' = "failed" /\ sdu' = sdu
  BY DEF Parse, Fail
<1>. QED
  BY <1>1 DEF Within

\* One whose name is not there is refused where packets are counted.
LEMMA RefusedNameless ==
  ASSUME NEW s, ~HasName(s), NEW name, NEW read, NEW named, NEW next, Parse(name, read, named, next),
         metrics_ /\ ~named
  PROVE  Within(s)' /\ sdu' = sdu
<1>1. pc' = "failed" /\ sdu' = sdu /\ metrics_' = metrics_
  BY DEF Parse, Fail
<1>. QED
  BY <1>1 DEF Within

\* The layers above have a name for every type.
LEMMA UpperHasName ==
  ASSUME NEW s, s.layer \in {"mm", "cmce", "sds"}
  PROVE  HasName(s)
BY DEF HasName

LEMMA LinkStep ==
  ASSUME TypeInv, NEW s \in sdu, IsSent(s), Within(s), LogicalLinkControl
  PROVE  Within(s)' /\ sdu' = sdu
<1>. DEFINE read == Read(BasicLinkInformation, data)
            type == s.value.llc_type
            names == LinkNames(s)
            len == Len(s.bits)
            header == HeaderLength(s)
<1>1. /\ pc = "llc" /\ s \in Sdus /\ data = BitVec(s.bits) /\ value = NoFields /\ elements = NoFields
      /\ s.bits \in Seq(Bit) /\ metrics_ \in BOOLEAN
  <2>1. pc = "llc"
    BY DEF LogicalLinkControl
  <2>2. s \in Sdus
    BY <2>1 DEF TypeInv, PlaceInv
  <2>. QED
    BY <2>1, <2>2, SdusAssumption DEF TypeInv, PlaceInv, FcsInv, ElementsInv, BeforeElements, Within,
       BeforeLink, Bit
<1>2. SentLink(s) /\ (SentLlc(s) \/ (IsUpper(s) /\ (SentMle(s) \/ SentMm(s) \/ SentCmce(s))))
  BY <1>1, SentLayers
<1>3. /\ IF header <= len
         THEN read = [ok |-> TRUE, value |-> Only(s.value, names), data |-> Taken(header, BitVec(s.bits))]
         ELSE ~read.ok
      /\ "llc_type" \in names /\ type \in Nat /\ names \cap Computed = {}
      /\ type = ToNat(SubSeq(Complete(s), 0 + 1, 0 + 4)) /\ 4 <= header /\ header \in Nat
  BY <1>1, <1>2, LinkHeader
<1>4. /\ WithTail(s) /\ (s.lost = 0 => LinkIsThere(s)) /\ (LinkIsThere(s) => s.lost <= Len(TlSdu(s)))
      /\ s.lost \in Nat /\ len \in Nat /\ (LinkIsThere(s) => header <= len)
  <2>1. WithTail(s) /\ (s.lost = 0 => LinkIsThere(s)) /\ (LinkIsThere(s) => s.lost <= Len(TlSdu(s)))
    BY <1>1, <1>2, TlSduWithTail
  <2>2. s.lost \in Nat /\ len \in Nat
    BY <1>1, CompleteBits
  <2>. HIDE DEF header, len
  <2>3. LinkIsThere(s) => header <= len
    BY <1>3, <2>2 DEF LinkIsThere, header, len
  <2>. QED
    BY <2>1, <2>2, <2>3
<1>5. {} \cup names = names
  OBVIOUS
<1>6. CASE ~(header <= len)
  <2>1. s.lost > 0
    BY <1>4, <1>6
  <2>2. Fail
    BY <1>1, <1>3, <1>6 DEF LogicalLinkControl
  <2>3. pc' = "failed" /\ sdu' = sdu
    BY <2>2 DEF Fail
  <2>. QED
    BY <2>1, <2>3 DEF Within
<1>. SUFFICES ASSUME header <= len PROVE Within(s)' /\ sdu' = sdu
  BY <1>6
<1>7. read.ok = TRUE /\ read.value.llc_type = type /\ Holds(read.value, s, names) /\ Holds(value, s, {})
  <2>1. Holds(NoFields, s, {})
    BY DEF Holds, NoFields
  <2>. HIDE DEF read, names, type, header, len
  <2>2. read.ok = TRUE /\ read.value = Only(s.value, names)
    BY <1>3
  <2>3. Only(s.value, names).llc_type = s.value.llc_type
    BY <1>3 DEF Only
  <2>. QED
    BY <1>1, <1>3, <2>1, <2>2, <2>3, HoldsOnly DEF type
<1>8. CASE type >= 8
  <2>1. Parse("llc", read, HasLlcName, "whole")
    BY <1>1, <1>7, <1>8 DEF LogicalLinkControl
  <2>2. ~(type < 8)
    BY <1>3, <1>8
  <2>3. SentLlc(s)
    BY <1>2, <2>2 DEF IsUpper
  <2>4. s.lost = 0 => (HasLlcName <=> HasName(s))
    <3>. SUFFICES ASSUME s.lost = 0 PROVE HasLlcName <=> HasName(s)
      OBVIOUS
    <3>1. Complete(s) = s.bits
      BY <1>1, CompleteBits
    <3>2. look(4, 0, data) = type
      <4>1. look(4, 0, BitVec(s.bits)) = ToNat(SubSeq(s.bits, 0 + 1, 0 + 4))
        <5>1. \A part : BitVec(part).bits = part
          BY DEF BitVec
        <5>. QED
          BY <5>1 DEF look
      <4>. QED
        BY <1>1, <1>3, <3>1, <4>1
    <3>3. bits_left(data) = Len(s.bits)
      BY <1>1 DEF bits_left, BitVec
    <3>4. s.layer = "llc"
      BY <2>3 DEF SentLlc
    <3>. QED
      BY <3>2, <3>3, <3>4 DEF HasLlcName, HasName
  <2>. DEFINE named == HasLlcName
  <2>. HIDE DEF read, names, type, named
  <2>5. CASE metrics_ /\ ~named
    <3>1. s.lost > 0 \/ ~HasName(s)
      BY <1>4, <2>4, <2>5 DEF named
    <3>. QED
      BY <2>1, <2>5, <3>1, RefusedAsCut, RefusedNameless DEF named
  <2>6. CASE ~metrics_ \/ named
    <3>1. /\ pc' = "whole" /\ layer' = "llc" /\ sdu' = sdu /\ elements' = elements
          /\ Holds(value', s, {} \cup names)
      BY <1>7, <2>1, <2>6, LayerAsSent DEF named
    <3>4. s.lost = 0 => (metrics_' => HasName(s))
      <4>1. metrics_' = metrics_
        BY <1>7, <2>1, <2>6 DEF Parse, named
      <4>. QED
        BY <2>4, <2>6, <4>1 DEF named
    <3>2. Sent(s, names) /\ s.layer = "llc" /\ s.understood /\ s.elements = NoFields
      BY <2>3 DEF SentLlc, SentWithout, names
    <3>3. Within(s)'
      BY <1>1, <1>5, <3>1, <3>2, <3>4, WholeAsSent
    <3>. QED
      BY <3>1, <3>3
  <2>. QED
    BY <2>5, <2>6
<1>9. CASE ~(type >= 8)
  <2>0. type < 8
    BY <1>3, <1>9
  <2>1. PICK fcs \in FcsOf(read) :
            Parse("llc", WithoutFcs(read, fcs), TRUE,
                  IF bits_left(WithoutFcs(read, fcs).data) > 0 THEN "mle" ELSE "whole")
    BY <1>7, <1>9 DEF LogicalLinkControl
  <2>. DEFINE llc == WithoutFcs(read, fcs)
              next == IF bits_left(llc.data) > 0 THEN "mle" ELSE "whole"
  <2>2. /\ s \in Sdus /\ SentLink(s) /\ s.value.llc_type < 8 /\ fcs \in FcsOf(read) /\ read.ok
        /\ read = Read(BasicLinkInformation, BitVec(s.bits)) /\ llc = WithoutFcs(read, fcs)
    BY <1>1, <1>2, <1>7, <2>0
  <2>3. Parse("llc", llc, TRUE, next)
    BY <2>1 DEF llc
  <2>. HIDE DEF llc, read, names, next
  <2>4. CASE ~LinkIsThere(s)
    <3>1. ~llc.ok
      BY <2>2, <2>4, LinkRefused
    <3>2. s.lost > 0
      BY <1>4, <2>4
    <3>. QED
      BY <2>3, <3>1, <3>2, RefusedAsCut
  <2>. SUFFICES ASSUME LinkIsThere(s) PROVE Within(s)' /\ sdu' = sdu
    BY <2>4
  <2>5. LinkResult(s, fcs, llc)
    BY <2>2, LinkAsSent
  <2>6. llc.ok = TRUE /\ llc.data = BitVec(Received(s))
    BY <2>5 DEF LinkResult
  <2>7. Holds(llc.value, s, names)
    BY <2>5 DEF LinkResult, Holds, names
  <2>8. bits_left(llc.data) = Len(Received(s))
    BY <2>6 DEF bits_left, BitVec
  <2>9. /\ pc' = next /\ layer' = "llc" /\ data' = llc.data /\ sdu' = sdu /\ elements' = elements
        /\ Holds(value', s, {} \cup names)
    BY <1>7, <2>3, <2>6, <2>7, LayerAsSent
  <2>10. CASE SentLlc(s)
    <3>1. /\ s.layer = "llc" /\ Sent(s, names) /\ s.understood /\ s.elements = NoFields /\ TlSdu(s) = <<>>
      BY <2>0, <2>10 DEF SentLlc, SentWithout, names
    <3>2. s.fill = 0 /\ s.lost = 0
      <4>1. ~(type >= 8)
        BY <1>9
      <4>2. Len(TlSdu(s)) = 0
        BY <3>1, EmptySeq
      <4>3. s.lost <= 0
        BY <1>4, <4>2
      <4>. QED
        BY <1>4, <3>1, <4>1, <4>3 DEF IsSent
    <3>3. Received(s) = <<>>
      BY <1>4, <3>1, <3>2 DEF WithTail
    <3>4. next = "whole"
      BY <2>8, <3>3, EmptySeq DEF next
    <3>6. HasName(s)
      <4>1. s.value.llc_type # 13 /\ s.value.llc_type # 14
        BY <1>3, <2>0
      <4>2. s.layer # "mle"
        BY <3>1
      <4>. QED
        BY <4>1, <4>2 DEF HasName
    <3>5. Within(s)'
      BY <1>1, <1>5, <2>9, <3>1, <3>4, <3>6, WholeAsSent
    <3>. QED
      BY <2>9, <3>5
  <2>11. CASE IsUpper(s) /\ (SentMle(s) \/ SentMm(s) \/ SentCmce(s))
    <3>1. TlSdu(s) # <<>>
      BY <2>11 DEF IsUpper
    <3>2. Len(Received(s)) > 0
      <4>1. /\ TlSdu(s) \in Seq(Bit) /\ Len(TlSdu(s)) \in Nat /\ Received(s) \in Seq(Bit)
            /\ Len(Received(s)) \in Nat /\ Len(TlSdu(s)) <= Len(Received(s)) + s.lost
        BY <1>4, LenProperties DEF WithTail
      <4>2. CASE s.lost = 0
        <5>1. Len(TlSdu(s)) # 0
          BY <3>1, <4>1
        <5>2. \A x, y, z \in Nat : x # 0 /\ z = 0 /\ x <= y + z => y > 0
          OBVIOUS
        <5>. QED
          BY <1>4, <4>1, <4>2, <5>1, <5>2
      <4>3. CASE s.lost # 0
        <5>1. s.layer # "llc"
          BY <2>11 DEF SentMle, SentMm, SentCmce, SentShortData
        <5>2. s.lost > 0
          BY <1>4, <4>3
        <5>3. Received(s) # <<>>
          BY <5>1, <5>2 DEF IsSent, CanBeNoticed
        <5>. QED
          BY <4>1, <5>3
      <4>. QED
        BY <4>2, <4>3
    <3>3. next = "mle"
      BY <2>8, <3>2 DEF next
    <3>4. data' = From(s, 0)
      BY <1>4, <2>6, <2>9, TakenNothing DEF From, WithTail
    <3>5. BeforeEntity(s)'
      BY <1>5, <2>9, <2>11, <3>4 DEF BeforeEntity, names
    <3>. QED
      BY <2>9, <3>3, <3>5 DEF Within
  <2>. QED
    BY <1>2, <2>10, <2>11
<1>. QED
  BY <1>8, <1>9

LEMMA BitsLeft ==
  ASSUME NEW s, WithTail(s), NEW at \in Nat, at <= Len(Received(s))
  PROVE  bits_left(From(s, at)) = Len(Received(s)) - at
<1>1. Received(s) \in Seq(Bit) /\ 0 \in Nat /\ at + 0 <= Len(Received(s))
  <2>1. at + 0 = at
    OBVIOUS
  <2>. QED
    BY <2>1 DEF WithTail
<1>. QED
  BY <1>1, TakenTwice DEF From

\* The packet of the MLE.
EntityResult(s, read) ==
    /\ WithTail(s)
    /\ read.ok = TRUE /\ read.data = From(s, MleWidth(s))
    /\ Holds(read.value, s, Fields(MobileLinkEntityPacket, s.value))
    /\ read.value.discriminator = s.value.discriminator
    /\ MleWidth(s) \in Nat /\ MleWidth(s) <= Len(TlSdu(s)) /\ MleWidth(s) <= Len(Received(s))

LEMMA EntityAsSent ==
  ASSUME NEW s \in Sdus, SentLink(s), IsUpper(s), NEW read, read = Read(MobileLinkEntityPacket, From(s, 0))
  PROVE  EntityResult(s, read) \/ (~read.ok /\ s.lost > 0)
<1>. DEFINE layout == MobileLinkEntityPacket
            names == Fields(layout, s.value)
            width == Width(layout, s.value)
<1>1. WithTail(s) /\ Writes(layout, s.value, TlSdu(s), 0)
  BY TlSduWithTail DEF IsUpper
<1>2. IsLayout(layout, Computed) /\ 1 \in 1 .. Len(layout) /\ 0 \in 0 .. Len(layout)
      /\ layout[1].when = {} /\ layout[1].name = "discriminator"
  BY Layouts DEF MobileLinkEntityPacket, Field
<1>. HIDE DEF layout
<1>3. "discriminator" \in names
  BY <1>2, FieldIsThere
<1>4. width \in Nat
  BY <1>2, LaidGrows
<1>. HIDE DEF width
<1>5. width = 0 + width /\ MleWidth(s) = width
  BY <1>4 DEF MleWidth, width, layout
<1>6. 0 \in Nat /\ 0 <= Len(Received(s))
  BY <1>1, LenProperties DEF WithTail
<1>. SUFFICES ASSUME ReadResult(s, layout, s.value, 0, read, width) PROVE EntityResult(s, read)
  BY <1>1, <1>2, <1>5, <1>6, ReadFrom DEF width, layout
<1>. HIDE DEF names
<1>7. /\ read.ok = TRUE /\ read.value = Only(s.value, names) /\ read.data = From(s, width)
      /\ names \cap Computed = {} /\ width \in Nat /\ width <= Len(TlSdu(s)) /\ width <= Len(Received(s))
  BY DEF ReadResult, names
<1>8. read.value.discriminator = s.value.discriminator
  BY <1>3, <1>7 DEF Only
<1>9. Holds(read.value, s, names)
  BY <1>7, HoldsOnly
<1>. QED
  BY <1>1, <1>5, <1>7, <1>8, <1>9 DEF EntityResult, names, layout

LEMMA EntityStep ==
  ASSUME TypeInv, NEW s \in sdu, IsSent(s), Within(s), MobileLinkEntity
  PROVE  Within(s)' /\ sdu' = sdu
<1>. DEFINE read == Read(MobileLinkEntityPacket, data)
            type == s.value.discriminator
            names == Fields(MobileLinkEntityPacket, s.value)
            next == CASE read.ok /\ read.value.discriminator = kMmProtocol -> "mm"
                      [] read.ok /\ read.value.discriminator = kCmceProtocol -> "cmce"
                      [] OTHER -> "whole"
            named == HasMleName(read)
<1>1. /\ pc = "mle" /\ s \in Sdus /\ elements = NoFields /\ Parse("mle", read, named, next)
      /\ IsUpper(s) /\ (SentMle(s) \/ SentMm(s) \/ SentCmce(s))
      /\ Holds(value, s, LinkNames(s)) /\ data = From(s, 0)
  <2>1. pc = "mle" /\ Parse("mle", read, named, next)
    BY DEF MobileLinkEntity
  <2>2. s \in Sdus /\ elements = NoFields
    BY <2>1 DEF TypeInv, PlaceInv, ElementsInv, BeforeElements
  <2>3. BeforeEntity(s)
    BY <2>1 DEF Within
  <2>. QED
    BY <2>1, <2>2, <2>3 DEF BeforeEntity
<1>. SUFFICES ASSUME EntityResult(s, read) PROVE Within(s)' /\ sdu' = sdu
  <2>1. SentLink(s) /\ read = Read(MobileLinkEntityPacket, From(s, 0))
    BY <1>1, SentLayers
  <2>. HIDE DEF read
  <2>2. EntityResult(s, read) \/ (~read.ok /\ s.lost > 0)
    BY <1>1, <2>1, EntityAsSent
  <2>. HIDE DEF next, named
  <2>3. CASE ~read.ok /\ s.lost > 0
    BY <1>1, <2>3, RefusedAsCut
  <2>. QED
    BY <2>2, <2>3
<1>. HIDE DEF read, names, named
<1>3. /\ read.ok = TRUE /\ Holds(read.value, s, names) /\ read.value.discriminator = type
      /\ read.data = From(s, MleWidth(s))
  BY DEF EntityResult, names
<1>. HIDE DEF type
<1>4. LinkNames(s) \cup names = MleNames(s)
  BY DEF MleNames, names
<1>5. ASSUME ~metrics_ \/ named
      PROVE  /\ pc' = next /\ layer' = "mle" /\ data' = From(s, MleWidth(s)) /\ sdu' = sdu /\ elements' = elements
             /\ Holds(value', s, MleNames(s))
  <2>. HIDE DEF next
  <2>. QED
    BY <1>1, <1>3, <1>4, <1>5, LayerAsSent
<1>6. CASE SentMle(s)
  <2>1. /\ s.layer = "mle" /\ Sent(s, MleNames(s)) /\ s.understood /\ s.elements = NoFields
        /\ type \notin {kMmProtocol, kCmceProtocol}
    BY <1>6 DEF SentMle, SentWithout, type
  <2>2. named <=> HasName(s)
    <3>. DEFINE at == MleWidth(s)
                len == Len(Received(s))
    <3>1. at \in Nat /\ at <= len /\ len \in Nat /\ Received(s) \in Seq(Bit)
      BY LenProperties DEF EntityResult, WithTail
    <3>2. bits_left(read.data) = len - at
      <4>1. WithTail(s)
        BY DEF EntityResult
      <4>. QED
        BY <1>3, <3>1, <4>1, BitsLeft
    <3>3. len >= at + 3 => look(3, 0, read.data) = ToNat(SubSeq(Received(s), at + 1, at + 3))
      <4>1. Agree(Received(s), Received(s))
        BY <3>1 DEF Agree
      <4>2. ASSUME len >= at + 3
            PROVE  look(3, 0, Taken(at, BitVec(Received(s)))) = ToNat(SubSeq(Received(s), at + 1, at + 3))
        <5>1. at + 3 <= len
          BY <3>1, <4>2
        <5>. HIDE DEF at
        <5>. QED
          BY <3>1, <4>1, <5>1, LookAsWritten, 3 \in Nat
      <4>. HIDE DEF at, len
      <4>. QED
        BY <1>3, <4>2 DEF From, at
    <3>4. (len - at >= 3 <=> len >= at + 3) /\ (len - at >= 7 <=> len >= at + 7)
      <4>. HIDE DEF at, len
      <4>. QED
        BY <3>1
    <3>5. s.layer = "mle"
      BY <2>1
    <3>6. named <=> (type = kMleProtocol => /\ len - at >= 3
                                            /\ look(3, 0, read.data) = 7 => len - at >= 7)
      BY <1>3, <3>2 DEF named, HasMleName
    <3>7. HasName(s) <=> (type = kMleProtocol => /\ len >= at + 3
                                                 /\ ToNat(SubSeq(Received(s), at + 1, at + 3)) = 7 => len >= at + 7)
      BY <3>5 DEF HasName, type
    <3>. HIDE DEF at, len
    <3>. QED
      BY <3>3, <3>4, <3>6, <3>7
  <2>3. next = "whole"
    <3>1. read.value.discriminator # kMmProtocol /\ read.value.discriminator # kCmceProtocol
      BY <1>3, <2>1
    <3>. QED
      BY <3>1
  <2>. HIDE DEF next
  <2>4. CASE metrics_ /\ ~named
    BY <1>1, <2>2, <2>4, RefusedNameless
  <2>5. CASE ~metrics_ \/ named
    <3>2. metrics_' => HasName(s)
      <4>1. metrics_' = metrics_
        BY <1>1, <1>3, <2>5 DEF Parse
      <4>. QED
        BY <2>2, <2>5, <4>1
    <3>1. Within(s)'
      BY <1>1, <1>5, <2>1, <2>3, <2>5, <3>2, WholeAsSent
    <3>. QED
      BY <1>5, <2>5, <3>1
  <2>. QED
    BY <2>4, <2>5
<1>7. CASE SentMm(s)
  <2>1. type = kMmProtocol
    BY <1>7 DEF SentMm, type
  <2>2. named /\ next = "mm"
    <3>1. named
      BY <1>3, <2>1 DEF named, HasMleName, kMmProtocol, kMleProtocol
    <3>2. read.value.discriminator = kMmProtocol /\ read.ok
      BY <1>3, <2>1
    <3>3. kMmProtocol # kCmceProtocol
      BY DEF kMmProtocol, kCmceProtocol
    <3>4. next = "mm"
      BY <3>2, <3>3
    <3>. QED
      BY <3>1, <3>4
  <2>3. BeforeManagement(s)'
    BY <1>1, <1>5, <1>7, <2>2 DEF BeforeManagement, EntityResult, LeftFrom
  <2>. QED
    BY <1>5, <2>2, <2>3 DEF Within
<1>8. CASE SentCmce(s)
  <2>1. type = kCmceProtocol
    BY <1>8 DEF SentCmce, type
  <2>2. named /\ next = "cmce"
    BY <1>3, <2>1 DEF named, HasMleName, kMmProtocol, kCmceProtocol, kMleProtocol
  <2>3. BeforeControl(s)'
    BY <1>1, <1>5, <1>8, <2>2 DEF BeforeControl, EntityResult, LeftFrom
  <2>. QED
    BY <1>5, <2>2, <2>3 DEF Within
<1>. QED
  BY <1>1, <1>6, <1>7, <1>8

\* Where the elements end, one after the other.
LEMMA EndsFacts ==
  ASSUME NEW els, Len(els) \in Nat, \A i \in 1 .. Len(els) : ElementWidth(els[i]) \in Nat, NEW from \in Nat
  PROVE  /\ Ends(els, from) \in [0 .. Len(els) -> Nat] /\ Ends(els, from)[0] = from
         /\ \A i \in 1 .. Len(els) : Ends(els, from)[i] = Ends(els, from)[i - 1] + ElementWidth(els[i])
<1>. DEFINE n == Len(els)
            Step(i, before) == before + ElementWidth(els[i])
            Follows(g) == g = [i \in 0 .. n |-> IF i = 0 THEN from ELSE Step(i, g[i - 1])]
            end == CHOOSE g : Follows(g)
<1>1. n \in Nat
  OBVIOUS
<1>2. Ends(els, from) = end
  BY DEF Ends
<1>3. \A i \in 1 .. n : \A before \in Nat : Step(i, before) \in Nat
  OBVIOUS
<1>. HIDE DEF n, Step
<1>4. \E f \in [0 .. n -> Nat] : Follows(f)
  <2>. DEFINE step == [p \in (1 .. n) \X Nat |-> Step(p[1], p[2])]
  <2>1. step \in [(1 .. n) \X Nat -> Nat]
    BY <1>3
  <2>2. \A i \in 1 .. n : \A w \in Nat : step[<<i, w>>] = Step(i, w)
    OBVIOUS
  <2>. HIDE DEF step
  <2>3. RecursiveExists(Nat, from, step, n)
    BY <1>1, <2>1, Recursion DEF StepsIn
  <2>4. PICK f \in [0 .. n -> Nat] : f[0] = from /\ \A i \in 1 .. n : f[i] = step[<<i, f[i - 1]>>]
    BY <2>3 DEF Recursive, RecursiveExists
  <2>5. \A i \in 0 .. n : f[i] = IF i = 0 THEN from ELSE Step(i, f[i - 1])
    <3>1. \A i \in 0 .. n : i # 0 => i \in 1 .. n /\ i - 1 \in 0 .. n
      BY <1>1
    <3>2. \A i \in 0 .. n : f[i] \in Nat
      OBVIOUS
    <3>. QED
      BY <2>2, <2>4, <3>1, <3>2
  <2>6. f = [i \in 0 .. n |-> f[i]]
    BY <2>4
  <2>. QED
    BY <2>5, <2>6
<1>5. Follows(end)
  BY <1>4
<1>. HIDE DEF end
<1>6. end[0] = from /\ \A i \in 1 .. n : end[i] = Step(i, end[i - 1])
  <2>1. 0 \in 0 .. n /\ \A i \in 1 .. n : i \in 0 .. n /\ i # 0
    BY <1>1
  <2>. QED
    BY <1>5, <2>1
<1>7. end \in [0 .. n -> Nat]
  <2>. DEFINE S == {i \in 0 .. n : end[i] \in Nat}
  <2>1. 0 \in S /\ \A i \in 1 .. n : i - 1 \in S => i \in S
    <3>1. 0 \in 0 .. n /\ \A i \in 1 .. n : i \in 0 .. n
      BY <1>1
    <3>2. 0 \in S
      BY <1>6, <3>1
    <3>3. ASSUME NEW i \in 1 .. n, i - 1 \in S PROVE i \in S
      <4>1. end[i - 1] \in Nat /\ end[i] = Step(i, end[i - 1])
        BY <1>6, <3>3
      <4>. QED
        BY <1>3, <3>1, <4>1
    <3>. QED
      BY <3>2, <3>3
  <2>. HIDE DEF S
  <2>2. \A i \in 0 .. n : i \in S
    BY <1>1, <2>1, Induction
  <2>. QED
    BY <1>5, <2>2 DEF S
<1>. QED
  BY <1>2, <1>6, <1>7 DEF n, Step

LEMMA SduElements ==
  ASSUME NEW s \in Sdus
  PROVE  /\ Len(s.in_order) \in Nat
         /\ \A i \in 1 .. Len(s.in_order) :
               /\ s.in_order[i].bits \in Seq(Bit) /\ Len(s.in_order[i].bits) \in Nat
               /\ s.in_order[i].count \in Nat /\ CountWidth(s.in_order[i]) \in Nat
               /\ ElementWidth(s.in_order[i]) \in Nat
<1>. DEFINE els == s.in_order
            El == [id : 0 .. 15, count : 0 .. 63, bits : Seq(Bit)]
<1>1. els \in Seq(El)
  BY SdusAssumption DEF Bit
<1>. HIDE DEF els, El
<1>2. Len(els) \in Nat /\ \A i \in 1 .. Len(els) : els[i] \in El
  BY <1>1, LenProperties, ElementOfSeq
<1>3. ASSUME NEW el \in El
      PROVE  /\ el.bits \in Seq(Bit) /\ Len(el.bits) \in Nat /\ el.count \in Nat
             /\ CountWidth(el) \in Nat /\ ElementWidth(el) \in Nat
  <2>1. el.bits \in Seq(Bit) /\ el.count \in Nat
    <3>1. \A S : el \in [id : 0 .. 15, count : 0 .. 63, bits : S] => el.bits \in S /\ el.count \in 0 .. 63
      OBVIOUS
    <3>2. el \in [id : 0 .. 15, count : 0 .. 63, bits : Seq(Bit)]
      BY DEF El
    <3>3. \A count \in 0 .. 63 : count \in Nat
      OBVIOUS
    <3>. QED
      BY <3>1, <3>2, <3>3
  <2>2. Len(el.bits) \in Nat
    BY <2>1, LenProperties
  <2>3. CountWidth(el) \in Nat
    BY DEF CountWidth
  <2>. DEFINE width == CountWidth(el)
              len == Len(el.bits)
  <2>. HIDE DEF width, len
  <2>4. 16 + width + len \in Nat
    <3>1. width \in Nat
      BY <2>3 DEF width
    <3>2. len \in Nat
      BY <2>2 DEF len
    <3>. QED
      BY <3>1, <3>2
  <2>5. ElementWidth(el) \in Nat
    BY <2>4 DEF ElementWidth, width, len
  <2>. QED
    BY <2>1, <2>2, <2>3, <2>5
<1>. QED
  BY <1>2, <1>3 DEF els

LEMMA OneField ==
  ASSUME NEW name, name \notin Computed, NEW width \in Nat, NEW v
  PROVE  /\ IsLayout(<< Field(name, width) >>, Computed)
         /\ Fields(<< Field(name, width) >>, v) = {name} /\ Width(<< Field(name, width) >>, v) = width
<1>. DEFINE layout == << Field(name, width) >>
<1>1. Len(layout) = 1 /\ layout[1] = [name |-> name, width |-> width, when |-> {}]
  BY DEF Field
<1>2. IsLayout(layout, Computed)
  <2>1. layout = [i \in 1 .. Len(layout) |-> layout[i]]
    OBVIOUS
  <2>2. \A i \in 1 .. Len(layout) : i = 1
    BY <1>1
  <2>3. IsField(layout[1], Computed)
    BY <1>1 DEF IsField
  <2>. QED
    BY <1>1, <2>1, <2>2, <2>3 DEF IsLayout
<1>. HIDE DEF layout
<1>3. Laid(layout, v)[0] = LaidFirst /\ Laid(layout, v)[1] = LaidStep(layout, v, 1, Laid(layout, v)[0])
  <2>1. 1 \in 1 .. Len(layout) /\ 1 - 1 = 0
    BY <1>1
  <2>. QED
    BY <1>2, <2>1, LaidFacts
<1>4. \A names : IsPresent(layout[1], Only(v, names))
  BY <1>1 DEF IsPresent
<1>5. LaidStep(layout, v, 1, LaidFirst) = [names |-> {} \cup {name}, width |-> 0 + width]
  BY <1>1, <1>4 DEF LaidStep, LaidFirst
<1>6. Laid(layout, v)[1].names = {name} /\ Laid(layout, v)[1].width = width
  BY <1>3, <1>5
<1>. QED
  BY <1>1, <1>2, <1>6 DEF Fields, Width, layout

LEMMA HoldsWith ==
  ASSUME NEW s, NEW v, NEW names, Holds(v, s, names), NEW name, name # "fcs_good"
  PROVE  Holds(WithField(v, name, s.value[name]), s, names \cup {name})
<1>. DEFINE with == WithField(v, name, s.value[name])
<1>1. /\ DOMAIN with = DOMAIN v \cup {name} /\ with[name] = s.value[name]
      /\ \A other \in DOMAIN v : other # name => with[other] = v[other]
  BY DEF WithField
<1>2. /\ DOMAIN v \ {"fcs_good"} = names
      /\ \A other \in names : v[other] = s.value[other]
  BY DEF Holds
<1>. HIDE DEF with
<1>3. DOMAIN with \ {"fcs_good"} = names \cup {name}
  BY <1>1, <1>2
<1>4. \A other \in names \cup {name} : with[other] = s.value[other]
  BY <1>1, <1>2
<1>. QED
  BY <1>3, <1>4 DEF Holds, with

\* None of the elements is taken yet.
LEMMA ElementsBegin ==
  ASSUME NEW s \in Sdus, NEW from \in Nat, from <= Len(Received(s))
  PROVE  ElementsAre(s, from, NoFields, From(s, from))
<1>. DEFINE els == s.in_order
<1>1. Len(els) \in Nat /\ \A i \in 1 .. Len(els) : ElementWidth(els[i]) \in Nat
  BY SduElements
<1>2. Ends(els, from)[0] = from
  BY <1>1, EndsFacts
<1>3. Collected(els, 0) = NoFields
  <2>1. {els[i].id : i \in 1 .. 0} = {}
    OBVIOUS
  <2>. QED
    BY <2>1 DEF Collected, NoFields
<1>4. 0 \in 0 .. Len(els) /\ \A i \in 1 .. 0 : IsKnown(s, i)
  BY <1>1
<1>. QED
  BY <1>2, <1>3, <1>4 DEF ElementsAre, LeftFrom

LEMMA ManagementStep ==
  ASSUME TypeInv, NEW s \in sdu, IsSent(s), Within(s), MobileManagement
  PROVE  Within(s)' /\ sdu' = sdu
<1>. DEFINE layout == MobileManagementPacket(s.downlink)
            read == Read(layout, data)
            names == MmNames(s)
            next == IF Has(read.value, "o_bit", {1}) THEN "elements" ELSE "whole"
<1>1. /\ pc = "mm" /\ s \in Sdus /\ sdu = {s} /\ elements = NoFields
      /\ IsUpper(s) /\ SentMm(s) /\ Holds(value, s, MleNames(s)) /\ data = From(s, MleWidth(s))
      /\ MleWidth(s) \in Nat /\ MleWidth(s) <= Len(Received(s))
  <2>1. pc = "mm"
    BY DEF MobileManagement
  <2>2. s \in Sdus /\ sdu = {s} /\ elements = NoFields
    BY <2>1 DEF TypeInv, PlaceInv, ElementsInv, BeforeElements
  <2>3. BeforeManagement(s)
    BY <2>1 DEF Within
  <2>. QED
    BY <2>1, <2>2, <2>3 DEF BeforeManagement, LeftFrom
<1>2. Parse("mm", read, TRUE, next)
  BY <1>1 DEF MobileManagement
<1>3. WithTail(s)
  BY <1>1, SentLayers, TlSduWithTail
<1>4. IsLayout(layout, Computed)
  BY <1>1, SdusBits, Layouts
<1>5. /\ s.layer = "mm" /\ Sent(s, MleNames(s) \cup names) /\ Writes(layout, s.value, TlSdu(s), MleWidth(s))
      /\ SentOptional(s, names, MmEnd(s))
  BY <1>1 DEF SentMm, MmNames, MmEnd
<1>. DEFINE end == MmEnd(s)
<1>6. end = MleWidth(s) + Width(layout, s.value) /\ names = Fields(layout, s.value)
      /\ read = Read(layout, From(s, MleWidth(s)))
  BY <1>1 DEF MmEnd, MmNames
<1>. HIDE DEF layout, end, names, read
<1>. HIDE DEF next
<1>. SUFFICES ASSUME ReadResult(s, layout, s.value, MleWidth(s), read, end) PROVE Within(s)' /\ sdu' = sdu
  <2>1. ReadResult(s, layout, s.value, MleWidth(s), read, end) \/ (~read.ok /\ s.lost > 0)
    BY <1>1, <1>3, <1>4, <1>5, <1>6, ReadFrom
  <2>2. CASE ~read.ok /\ s.lost > 0
    BY <1>2, <2>2, RefusedAsCut
  <2>. QED
    BY <2>1, <2>2
<1>8. /\ read.ok = TRUE /\ read.value = Only(s.value, names) /\ read.data = From(s, end)
      /\ names \cap Computed = {} /\ end \in Nat /\ end <= Len(Received(s))
  BY <1>6 DEF ReadResult
<1>9. Holds(read.value, s, names)
  BY <1>8, HoldsOnly
<1>10. Has(read.value, "o_bit", {1}) <=> "o_bit" \in names /\ s.value.o_bit = 1
  BY <1>8 DEF Has, Only
<1>11. /\ pc' = next /\ layer' = "mm" /\ data' = From(s, end) /\ sdu' = sdu /\ elements' = elements
       /\ Holds(value', s, MleNames(s) \cup names)
  BY <1>1, <1>2, <1>8, <1>9, LayerAsSent
<1>12. CASE "o_bit" \in names /\ s.value.o_bit = 1
  <2>1. SentElements(s, end) /\ next = "elements"
    BY <1>5, <1>10, <1>12 DEF SentOptional, next, end
  <2>2. ElementsAre(s, end, NoFields, From(s, end))
    BY <1>1, <1>8, <2>1, ElementsBegin
  <2>3. ElementsFrom(s, end)'
    BY <1>1, <1>8, <1>11, <2>1, <2>2 DEF ElementsFrom
  <2>4. InElements(s)'
    BY <1>1, <1>5, <1>11, <2>3 DEF InElements, names, end
  <2>. QED
    BY <1>11, <2>1, <2>4 DEF Within
<1>13. CASE ~("o_bit" \in names /\ s.value.o_bit = 1)
  <2>1. s.understood /\ s.elements = NoFields /\ next = "whole"
    BY <1>5, <1>10, <1>13 DEF SentOptional, SentWithout, next
  <2>2. Within(s)'
    <3>1. s.layer = "mm"
      BY <1>1 DEF SentMm
    <3>. QED
      BY <1>1, <1>5, <1>11, <2>1, <3>1, WholeAsSent, UpperHasName
  <2>. QED
    BY <1>11, <2>2
<1>. QED
  BY <1>12, <1>13

\* What is behind the first field of a layout is a layout.
LEMMA ControlTail ==
  ASSUME NEW downlink \in BOOLEAN
  PROVE  \E tail : /\ IsLayout(tail, Computed)
                   /\ CircuitModeControlEntityPacket(downlink) = << Field("cmce_type", 5) >> \o tail
<1>. DEFINE area == IF downlink THEN <<>> ELSE << Field("area_selection", 4) >>
            type == << Field("calling_party_type_identifier", 2) >>
            sna == IF downlink THEN <<>>
                   ELSE << Optional("sna", 8, [calling_party_type_identifier |-> {0}]) >>
            rest == << Optional("ssi", 24, [calling_party_type_identifier |-> {1, 2}]),
               Optional("country_code", 10, [calling_party_type_identifier |-> {2}]),
               Optional("network_code", 14, [calling_party_type_identifier |-> {2}]),
               Field("short_data_type_identifier", 2),
               Optional("length_identifier", 11, [short_data_type_identifier |-> {3}]) >>
            when == [cmce_type |-> {SdsData}]
<1>. USE DEF IsLayout, IsField, Field, Optional, Computed
<1>0. IsLayout(<<>>, Computed)
  OBVIOUS
<1>1. IsLayout(type, Computed) /\ IsLayout(rest, Computed)
  OBVIOUS
<1>2. IsLayout(area, Computed) /\ IsLayout(sna, Computed)
  <2>1. IsLayout(<< Field("area_selection", 4) >>, Computed)
    OBVIOUS
  <2>2. IsLayout(<< Optional("sna", 8, [calling_party_type_identifier |-> {0}]) >>, Computed)
    OBVIOUS
  <2>. HIDE DEF IsLayout, Computed, Field, Optional
  <2>. QED
    BY <1>0, <2>1, <2>2
<1>. HIDE DEF IsLayout, IsField, Computed, area, type, sna, rest, Field, Optional
<1>3. CircuitModeControlEntityPacket(downlink) =
         << Field("cmce_type", 5) >> \o Under(when, area \o type \o sna \o rest)
  BY DEF CircuitModeControlEntityPacket, area, type, sna, rest
<1>4. IsLayout(area \o type, Computed)
  BY <1>1, <1>2, Concatenated
<1>5. IsLayout(area \o type \o sna, Computed)
  BY <1>2, <1>4, Concatenated
<1>6. IsLayout(area \o type \o sna \o rest, Computed)
  BY <1>1, <1>5, Concatenated
<1>7. IsLayout(Under(when, area \o type \o sna \o rest), Computed)
  BY <1>6, Conditional
<1>. QED
  BY <1>3, <1>7

LEMMA FirstOfLayout ==
  ASSUME NEW name, NEW width, NEW without, NEW tail, IsLayout(tail, without),
         NEW layout, layout = << Field(name, width) >> \o tail
  PROVE  layout[1].when = {} /\ layout[1].name = name /\ 1 \in 1 .. Len(layout)
<1>1. PICK S : tail \in Seq(S)
  BY FieldsOfLayout
<1>. DEFINE first == Field(name, width)
            T == S \cup {first}
<1>2. first.when = {} /\ first.name = name
  BY DEF Field
<1>. HIDE DEF first
<1>3. tail \in Seq(T) /\ << first >> \in Seq(T)
  BY <1>1
<1>4. (<< first >> \o tail)[1] = first /\ 1 \in 1 .. Len(<< first >> \o tail)
  BY <1>3
<1>. QED
  BY <1>2, <1>4 DEF first

\* The short data, and the O-bit behind it.
ShortDataResult(s, packet) ==
    /\ packet.ok = TRUE /\ packet.data = From(s, DataEnd(s) + 1)
    /\ Holds(packet.value, s, (CmceNames(s) \cup {"o_bit"}) \cup {"data"})
    /\ DataEnd(s) + 1 \in Nat /\ DataEnd(s) + 1 <= Len(Received(s))

LEMMA ShortDataAsSent ==
  ASSUME NEW s, WithTail(s), SentShortData(s), NEW read, read.data = From(s, CmceEnd(s)),
         read.value = Only(s.value, CmceNames(s)), CmceNames(s) \cap Computed = {},
         CmceEnd(s) \in Nat, CmceEnd(s) <= Len(Received(s)),
         NEW rest, rest = Read(<< Field("o_bit", 1) >>, Taken(DataLength(s), read.data)),
         NEW taken, taken = take_vector(DataLength(s), read.data)
  PROVE  LET packet == [rest EXCEPT !.value = WithField(Over(@, read.value), "data", taken)]
         IN \/ /\ ShortDataResult(s, packet) /\ rest.value = Only(s.value, {"o_bit"})
               /\ DataLength(s) \in 0 .. bits_left(read.data)
            \/ s.lost > 0 /\ (DataLength(s) \notin 0 .. bits_left(read.data) \/ ~packet.ok)
<1>. DEFINE length == DataLength(s)
            start == CmceEnd(s)
            end == DataEnd(s)
            len == Len(Received(s))
            inner == Len(TlSdu(s))
            lost == s.lost
            layout == << Field("o_bit", 1) >>
            packet == [rest EXCEPT !.value = WithField(Over(@, read.value), "data", taken)]
<1>1. /\ length \in Nat /\ start \in Nat /\ Writes(layout, s.value, TlSdu(s), end)
      /\ s.value.data = SubSeq(TlSdu(s), start + 1, end) /\ end = start + length
  BY DEF SentShortData, DataLength, DataEnd
<1>2. /\ Received(s) \in Seq(Bit) /\ TlSdu(s) \in Seq(Bit) /\ Agree(Received(s), TlSdu(s))
      /\ len \in Nat /\ inner \in Nat /\ lost \in Nat /\ inner <= len + lost /\ start <= len
  BY LenProperties DEF WithTail
<1>3. IsLayout(layout, Computed) /\ Fields(layout, s.value) = {"o_bit"} /\ Width(layout, s.value) = 1
  <2>1. "o_bit" \notin Computed /\ 1 \in Nat
    BY DEF Computed
  <2>. QED
    BY <2>1, OneField
<1>. HIDE DEF layout, length, start, end, packet
<1>4. end \in Nat
  BY <1>1
<1>5. end + 1 <= inner
  BY <1>1, <1>3 DEF Writes
<1>. HIDE DEF len, inner, lost
<1>9. bits_left(read.data) = len - start
  BY <1>1, <1>2, BitsLeft DEF len, start
<1>0. CASE ~(start + length <= len)
  <2>1. \A w, x, y, z \in Nat : x + w + 1 <= y /\ y <= z + lost /\ ~(x + w <= z) => lost > 0 /\ w \notin 0 .. z - x
    BY <1>2
  <2>2. start + length + 1 <= inner
    BY <1>1, <1>5
  <2>3. lost > 0 /\ length \notin 0 .. len - start
    BY <1>0, <1>1, <1>2, <2>1, <2>2
  <2>. QED
    BY <1>9, <2>3 DEF length, lost
<1>. SUFFICES ASSUME start + length <= len
     PROVE  \/ /\ ShortDataResult(s, packet) /\ rest.value = Only(s.value, {"o_bit"})
               /\ length \in 0 .. bits_left(read.data)
            \/ lost > 0 /\ (length \notin 0 .. bits_left(read.data) \/ ~packet.ok)
  BY <1>0 DEF packet, length, lost
<1>6. start + length <= inner /\ length <= len - start /\ end + 1 \in Nat /\ end <= len
  <2>1. \A x, y \in Nat : start + length + 1 <= x /\ start + length <= y =>
           start + length <= x /\ length <= y - start
    BY <1>1
  <2>2. start + length + 1 <= inner
    BY <1>1, <1>5
  <2>. QED
    BY <1>1, <1>2, <1>4, <2>1, <2>2
<1>7. taken = s.value.data
  <2>1. take_vector(length, Taken(start, BitVec(Received(s)))) = SubSeq(TlSdu(s), start + 1, start + length)
    BY <1>1, <1>2, <1>6, LookAsWritten DEF len, inner
  <2>. QED
    BY <1>1, <2>1 DEF From, length, start
<1>8. Taken(length, read.data) = From(s, end)
  <2>1. Taken(length, Taken(start, BitVec(Received(s)))) = Taken(start + length, BitVec(Received(s)))
    BY <1>1, <1>2, <1>6, TakenTwice DEF len
  <2>. QED
    BY <1>1, <2>1 DEF From, start
<1>10. length \in 0 .. bits_left(read.data)
  <2>1. \A m, n \in Int : m \in Nat /\ m <= n => m \in 0 .. n
    OBVIOUS
  <2>2. len - start \in Int /\ length \in Int
    BY <1>1, <1>2
  <2>. QED
    BY <1>1, <1>6, <1>9, <2>1, <2>2
<1>11. ReadResult(s, layout, s.value, end, rest, end + 1) \/ (~rest.ok /\ lost > 0)
  <2>1. rest = Read(layout, From(s, end)) /\ end + 1 = end + Width(layout, s.value)
    BY <1>3, <1>8 DEF layout, length
  <2>2. end <= Len(Received(s))
    BY <1>6 DEF len
  <2>. QED
    BY <1>1, <1>3, <1>4, <2>1, <2>2, ReadFrom DEF lost
<1>16. CASE ~rest.ok /\ lost > 0
  <2>1. rest = Read(layout, From(s, end)) /\ From(s, end) \in BitVecs
    <3>1. BitVec(Received(s)) \in BitVecs /\ end <= bits_left(BitVec(Received(s)))
      BY <1>2, <1>6 DEF BitVec, BitVecs, bits_left, len
    <3>2. Taken(end, BitVec(Received(s))) \in BitVecs
      BY <1>4, <3>1, PartTaken
    <3>. QED
      BY <1>8, <3>2 DEF From, layout, length
  <2>2. rest = [ok |-> rest.ok, value |-> rest.value, data |-> rest.data]
    BY <1>3, <2>1, ReadPart
  <2>3. packet.ok = rest.ok
    BY <2>2 DEF packet
  <2>. QED
    BY <1>16, <2>3
<1>. SUFFICES ASSUME ReadResult(s, layout, s.value, end, rest, end + 1)
     PROVE  /\ ShortDataResult(s, packet) /\ rest.value = Only(s.value, {"o_bit"})
            /\ length \in 0 .. bits_left(read.data)
  BY <1>11, <1>16
<1>12. rest = [ok |-> TRUE, value |-> Only(s.value, {"o_bit"}), data |-> From(s, end + 1)]
  BY <1>3 DEF ReadResult
<1>13. /\ packet.ok = TRUE /\ packet.data = From(s, end + 1)
       /\ packet.value = WithField(Over(rest.value, read.value), "data", s.value.data)
  <2>1. rest = [ok |-> rest.ok, value |-> rest.value, data |-> rest.data] /\ rest.ok = TRUE
        /\ rest.data = From(s, end + 1)
    BY <1>12
  <2>. QED
    BY <1>7, <2>1 DEF packet
<1>14. Holds(packet.value, s, (CmceNames(s) \cup {"o_bit"}) \cup {"data"})
  <2>1. {"o_bit"} \cap Computed = {}
    BY DEF Computed
  <2>2. Holds(Only(s.value, {"o_bit"}), s, {"o_bit"}) /\ Holds(Only(s.value, CmceNames(s)), s, CmceNames(s))
    BY <2>1, HoldsOnly
  <2>3. Holds(rest.value, s, {"o_bit"}) /\ Holds(read.value, s, CmceNames(s))
    BY <1>12, <2>2
  <2>4. Holds(Over(rest.value, read.value), s, CmceNames(s) \cup {"o_bit"})
    BY <2>3, HoldsBoth
  <2>5. Holds(WithField(Over(rest.value, read.value), "data", s.value["data"]), s,
              (CmceNames(s) \cup {"o_bit"}) \cup {"data"})
    BY <2>4, HoldsWith, "data" # "fcs_good"
  <2>. QED
    BY <1>13, <2>5
<1>15. ShortDataResult(s, packet)
  <2>1. end + 1 <= Len(Received(s))
    BY DEF ReadResult
  <2>. QED
    BY <1>6, <1>13, <1>14, <2>1 DEF ShortDataResult, end
<1>. QED
  BY <1>10, <1>12, <1>15

LEMMA ControlStep ==
  ASSUME TypeInv, NEW s \in sdu, IsSent(s), Within(s), CircuitModeControlEntity
  PROVE  Within(s)' /\ sdu' = sdu
<1>. DEFINE layout == CircuitModeControlEntityPacket(s.downlink)
            read == Read(layout, data)
            names == CmceNames(s)
            length == LengthOfData(read.value)
            taken == take_vector(length, read.data)
            rest == Read(<< Field("o_bit", 1) >>, Taken(length, read.data))
            packet == [rest EXCEPT !.value = WithField(Over(@, read.value), "data", taken)]
            next == IF Has(rest.value, "o_bit", {1}) THEN "elements" ELSE "sds"
<1>1. /\ pc = "cmce" /\ s \in Sdus /\ sdu = {s} /\ elements = NoFields
      /\ IsUpper(s) /\ SentCmce(s) /\ Holds(value, s, MleNames(s)) /\ data = From(s, MleWidth(s))
      /\ MleWidth(s) \in Nat /\ MleWidth(s) <= Len(Received(s))
  <2>1. pc = "cmce"
    BY DEF CircuitModeControlEntity
  <2>2. s \in Sdus /\ sdu = {s} /\ elements = NoFields
    BY <2>1 DEF TypeInv, PlaceInv, ElementsInv, BeforeElements
  <2>3. BeforeControl(s)
    BY <2>1 DEF Within
  <2>. QED
    BY <2>1, <2>2, <2>3 DEF BeforeControl, LeftFrom
<1>2. IF ~read.ok \/ read.value.cmce_type # SdsData THEN Parse("cmce", read, TRUE, "whole")
      ELSE IF length \notin 0 .. bits_left(read.data) THEN Fail
      ELSE Parse("cmce", packet, TRUE, next)
  BY <1>1 DEF CircuitModeControlEntity
<1>3. WithTail(s)
  BY <1>1, SentLayers, TlSduWithTail
<1>4. IsLayout(layout, Computed)
  BY <1>1, SdusBits, Layouts
<1>5. layout[1].when = {} /\ layout[1].name = "cmce_type" /\ 1 \in 1 .. Len(layout)
  <2>1. \E tail : IsLayout(tail, Computed) /\ layout = << Field("cmce_type", 5) >> \o tail
    BY <1>1, SdusBits, ControlTail DEF CircuitModeControlEntityPacket
  <2>. QED
    BY <2>1, FirstOfLayout
<1>6. /\ s.value.discriminator = kCmceProtocol /\ Writes(layout, s.value, TlSdu(s), MleWidth(s))
      /\ IF s.value.cmce_type = SdsData THEN s.layer = "sds" /\ SentShortData(s)
         ELSE s.layer = "cmce" /\ Sent(s, MleNames(s) \cup names) /\ SentWithout(s)
  BY <1>1 DEF SentCmce
<1>. DEFINE end == CmceEnd(s)
<1>7. end = MleWidth(s) + Width(layout, s.value) /\ names = Fields(layout, s.value)
      /\ read = Read(layout, From(s, MleWidth(s)))
  BY <1>1 DEF CmceEnd, CmceNames
<1>. HIDE DEF layout, end, names, read
<1>8. ReadResult(s, layout, s.value, MleWidth(s), read, end) \/ (~read.ok /\ s.lost > 0)
  BY <1>1, <1>3, <1>4, <1>6, <1>7, ReadFrom
<1>14. CASE ~read.ok /\ s.lost > 0
  <2>1. Parse("cmce", read, TRUE, "whole")
    BY <1>2, <1>14
  <2>. QED
    BY <1>14, <2>1, RefusedAsCut
<1>. SUFFICES ASSUME ReadResult(s, layout, s.value, MleWidth(s), read, end) PROVE Within(s)' /\ sdu' = sdu
  BY <1>8, <1>14
<1>9. /\ read.ok = TRUE /\ read.value = Only(s.value, names) /\ read.data = From(s, end)
      /\ names \cap Computed = {} /\ end \in Nat /\ end <= Len(Received(s))
  BY <1>7 DEF ReadResult
<1>10. Holds(read.value, s, names)
  BY <1>9, HoldsOnly
<1>11. read.value.cmce_type = s.value.cmce_type
  <2>1. "cmce_type" \in names
    BY <1>4, <1>5, <1>7, FieldIsThere
  <2>. QED
    BY <1>9, <2>1 DEF Only
<1>12. CASE s.value.cmce_type # SdsData
  <2>1. Parse("cmce", read, TRUE, "whole")
    BY <1>2, <1>9, <1>11, <1>12
  <2>2. /\ pc' = "whole" /\ layer' = "cmce" /\ sdu' = sdu /\ elements' = elements
        /\ Holds(value', s, MleNames(s) \cup names)
    BY <1>1, <1>9, <1>10, <2>1, LayerAsSent
  <2>3. s.layer = "cmce" /\ Sent(s, MleNames(s) \cup names) /\ s.understood /\ s.elements = NoFields
    BY <1>6, <1>12 DEF SentWithout
  <2>. QED
    BY <1>1, <2>2, <2>3, WholeAsSent, UpperHasName
<1>13. CASE s.value.cmce_type = SdsData
  <2>1. s.layer = "sds" /\ SentShortData(s)
    BY <1>6, <1>13
  <2>2. length = DataLength(s)
    BY <1>9 DEF DataLength, names
  <2>3. \/ /\ ShortDataResult(s, packet) /\ rest.value = Only(s.value, {"o_bit"})
           /\ length \in 0 .. bits_left(read.data)
        \/ s.lost > 0 /\ (length \notin 0 .. bits_left(read.data) \/ ~packet.ok)
    <3>. HIDE DEF length
    <3>. QED
      BY <1>3, <1>9, <2>1, <2>2, ShortDataAsSent DEF end, names
  <2>. HIDE DEF length, taken, rest, next, packet
  <2>12. CASE s.lost > 0 /\ (length \notin 0 .. bits_left(read.data) \/ ~packet.ok)
    <3>1. Fail \/ (Parse("cmce", packet, TRUE, next) /\ ~packet.ok)
      BY <1>2, <1>9, <1>11, <1>13, <2>12
    <3>2. CASE Fail
      <4>1. pc' = "failed" /\ sdu' = sdu
        BY <3>2 DEF Fail
      <4>. QED
        BY <2>12, <4>1 DEF Within
    <3>3. CASE Parse("cmce", packet, TRUE, next) /\ ~packet.ok
      BY <2>12, <3>3, RefusedAsCut
    <3>. QED
      BY <3>1, <3>2, <3>3
  <2>. SUFFICES ASSUME ShortDataResult(s, packet), rest.value = Only(s.value, {"o_bit"}),
                       length \in 0 .. bits_left(read.data)
       PROVE  Within(s)' /\ sdu' = sdu
    BY <2>3, <2>12
  <2>4. Parse("cmce", packet, TRUE, next)
    BY <1>2, <1>9, <1>11, <1>13
  <2>. DEFINE upper == (names \cup {"o_bit"}) \cup {"data"}
              stop == DataEnd(s) + 1
  <2>5. packet.ok = TRUE /\ Holds(packet.value, s, upper) /\ packet.data = From(s, stop)
        /\ stop \in Nat /\ stop <= Len(Received(s))
    BY DEF ShortDataResult, names
  <2>6. MleNames(s) \cup upper = ControlNames(s)
    BY DEF ControlNames, names
  <2>. HIDE DEF upper
  <2>7. /\ pc' = next /\ layer' = "cmce" /\ data' = From(s, stop) /\ sdu' = sdu /\ elements' = elements
        /\ Holds(value', s, ControlNames(s))
    <3>. HIDE DEF stop
    <3>1. packet.ok = TRUE /\ Holds(packet.value, s, upper) /\ Holds(value, s, MleNames(s))
      BY <1>1, <2>5
    <3>2. /\ pc' = next /\ layer' = "cmce" /\ data' = packet.data /\ sdu' = sdu /\ elements' = elements
          /\ Holds(value', s, MleNames(s) \cup upper)
      BY <2>4, <3>1, LayerAsSent
    <3>. QED
      BY <2>5, <2>6, <3>2
  <2>8. SentOptional(s, {"o_bit"}, stop)
    BY <2>1 DEF SentShortData, DataEnd, DataLength
  <2>9. Has(rest.value, "o_bit", {1}) <=> s.value.o_bit = 1
    BY DEF Has, Only
  <2>10. CASE s.value.o_bit = 1
    <3>1. SentElements(s, stop) /\ next = "elements"
      BY <2>8, <2>9, <2>10 DEF SentOptional, next
    <3>. HIDE DEF stop
    <3>2. ElementsAre(s, stop, NoFields, From(s, stop))
      BY <1>1, <2>5, <3>1, ElementsBegin
    <3>3. ElementsFrom(s, stop)'
      BY <1>1, <2>5, <2>7, <3>1, <3>2 DEF ElementsFrom
    <3>4. InElements(s)'
      BY <1>1, <1>6, <2>1, <2>7, <3>3 DEF InElements, stop
    <3>. QED
      BY <2>7, <3>1, <3>4 DEF Within
  <2>11. CASE s.value.o_bit # 1
    <3>1. s.understood /\ s.elements = NoFields /\ next = "sds"
      BY <2>8, <2>9, <2>11 DEF SentOptional, SentWithout, next
    <3>2. BeforeShortData(s)'
      BY <1>1, <2>1, <2>7, <3>1 DEF BeforeShortData
    <3>. QED
      BY <2>7, <3>1, <3>2 DEF Within
  <2>. QED
    BY <2>10, <2>11
<1>. QED
  BY <1>12, <1>13

\* The conversion gives back a position.
LEMMA PositionAsSent ==
  ASSUME NEW v, Position \subseteq DOMAIN v, IsPosition(v), NEW names, Position \subseteq names,
         names \subseteq DOMAIN v
  PROVE  Converted(Only(Unsigned(v), names)) = Only(v, names)
<1>. DEFINE u == Unsigned(v)
            sent == Only(u, names)
            got == Converted(sent)
            Longitude(n) == IF n < 0 THEN n + 2 ^ 25 ELSE n
            Latitude(n) == IF n < 0 THEN n + 2 ^ 24 ELSE n
            Velocity(n) == CHOOSE step \in 0 .. 127 : SpeedAt(step) = n
            Known(n) == decode_horizontal_velocity(n)
<1>1. "longitude" \in DOMAIN v /\ "latitude" \in DOMAIN v /\ "horizontal_velocity" \in DOMAIN v
      /\ "longitude" \in names /\ "latitude" \in names /\ "horizontal_velocity" \in names
  BY DEF Position
<1>2. \A n \in -(2 ^ 24) .. 2 ^ 24 - 1 : integer_to_double(Longitude(n), 25) = n
  <2>1. 2 ^ 24 = 16777216 /\ 2 ^ 25 = 33554432 /\ 2 ^ (25 - 1) = 16777216
    OBVIOUS
  <2>. QED
    BY <2>1 DEF integer_to_double
<1>3. \A n \in -(2 ^ 23) .. 2 ^ 23 - 1 : integer_to_double(Latitude(n), 24) = n
  <2>1. 2 ^ 23 = 8388608 /\ 2 ^ 24 = 16777216 /\ 2 ^ (24 - 1) = 8388608
    OBVIOUS
  <2>. QED
    BY <2>1 DEF integer_to_double
<1>4. \A n \in {SpeedAt(step) : step \in 0 .. 127} : Known(Velocity(n)) = n
  <2>1. \A step : decode_horizontal_velocity(step) = SpeedAt(step)
    BY DEF decode_horizontal_velocity, SpeedAt
  <2>2. \A n \in {SpeedAt(step) : step \in 0 .. 127} : SpeedAt(Velocity(n)) = n
    OBVIOUS
  <2>. QED
    BY <2>1, <2>2
<1>. HIDE DEF Longitude, Latitude, Velocity, Known
<1>5. /\ u = [v EXCEPT !.longitude = Longitude(@), !.latitude = Latitude(@), !.horizontal_velocity = Velocity(@)]
  BY <1>1 DEF Unsigned, Longitude, Latitude, Velocity
<1>. HIDE DEF u
<1>6. /\ DOMAIN u = DOMAIN v
      /\ u.longitude = Longitude(v.longitude) /\ u.latitude = Latitude(v.latitude)
      /\ u.horizontal_velocity = Velocity(v.horizontal_velocity)
      /\ \A name \in DOMAIN v : name \notin Position => u[name] = v[name]
  BY <1>1, <1>5 DEF Position
<1>7. DOMAIN sent = names /\ \A name \in names : sent[name] = u[name]
  BY DEF Only
<1>8. got = [sent EXCEPT !.longitude = integer_to_double(@, 25), !.latitude = integer_to_double(@, 24),
                         !.horizontal_velocity = Known(@)]
  BY <1>1, <1>7 DEF Converted, Known
<1>. HIDE DEF sent, got
<1>9. /\ DOMAIN got = names /\ got = [name \in names |-> got[name]]
      /\ got.longitude = integer_to_double(sent.longitude, 25)
      /\ got.latitude = integer_to_double(sent.latitude, 24)
      /\ got.horizontal_velocity = Known(sent.horizontal_velocity)
      /\ \A name \in names : name \notin Position => got[name] = sent[name]
  BY <1>1, <1>7, <1>8 DEF Position
<1>10. /\ sent.longitude = Longitude(v.longitude) /\ sent.latitude = Latitude(v.latitude)
       /\ sent.horizontal_velocity = Velocity(v.horizontal_velocity)
  BY <1>1, <1>6, <1>7
<1>11. /\ got.longitude = v.longitude /\ got.latitude = v.latitude
       /\ got.horizontal_velocity = v.horizontal_velocity
  BY <1>2, <1>3, <1>4, <1>9, <1>10 DEF IsPosition
<1>12. ASSUME NEW name \in names PROVE got[name] = v[name]
  <2>1. CASE name \in Position
    BY <1>11, <2>1 DEF Position
  <2>2. CASE name \notin Position
    <3>1. got[name] = sent[name] /\ sent[name] = u[name] /\ u[name] = v[name]
      BY <1>6, <1>7, <1>9, <2>2
    <3>. QED
      BY <3>1
  <2>. QED
    BY <2>1, <2>2
<1>13. got = Only(v, names)
  BY <1>9, <1>12 DEF Only
<1>. QED
  BY <1>13 DEF got, sent, u

LEMMA ShortDataStep ==
  ASSUME TypeInv, NEW s \in sdu, IsSent(s), Within(s), ShortDataService
  PROVE  Within(s)' /\ sdu' = sdu
<1>. DEFINE bits == s.value.data
            names == SdsNames(s)
            v == Unsigned(s.value)
            layout == ShortDataServicePacket
            read == Read(layout, BitVec(value.data))
            packet == [read EXCEPT !.value = Converted(@), !.data = data]
<1>1. /\ pc = "sds" /\ layer = "cmce" /\ s.layer = "sds" /\ SentShortData(s)
      /\ Holds(value, s, ControlNames(s)) /\ s.understood /\ elements = s.elements
  <2>1. pc = "sds"
    BY DEF ShortDataService
  <2>2. BeforeShortData(s)
    BY <2>1 DEF Within
  <2>. QED
    BY <2>1, <2>2 DEF BeforeShortData
<1>2. value.data = bits /\ bits \in Seq(Bit)
  <2>1. "data" \in ControlNames(s)
    BY DEF ControlNames
  <2>2. value.data \in Seq(Bit)
    BY <1>1 DEF TypeInv, ShortDataInv
  <2>. QED
    BY <1>1, <2>1, <2>2 DEF Holds
<1>3. Parse("sds", packet, TRUE, "whole")
  BY DEF ShortDataService
<1>4. /\ Writes(layout, v, bits, 0)
      /\ Sent(s, MleNames(s) \cup CmceNames(s) \cup {"o_bit", "data"} \cup names)
      /\ Position \cap DOMAIN s.value = {} \/ (Position \subseteq names /\ IsPosition(s.value))
  BY <1>1 DEF SentShortData
<1>5. IsLayout(layout, Computed) /\ names = Fields(layout, v)
  BY Layouts DEF SdsNames
<1>6. names \cap Computed = {}
  <2>. HIDE DEF layout, v, names
  <2>1. 0 \in 0 .. Len(layout)
    BY <1>5 DEF IsLayout
  <2>2. Fields(layout, v) \subseteq NamesOf(layout)
    BY <1>5, <2>1, LaidGrows
  <2>. QED
    BY <1>5, <2>2 DEF NamesOf, IsLayout, IsField
<1>. HIDE DEF layout, v, names, bits, read
<1>7. read.ok = TRUE /\ read.value = Only(v, names) /\ read = [ok |-> read.ok, value |-> read.value, data |-> read.data]
  <2>. DEFINE end == 0 + Width(layout, v)
  <2>1. end <= Len(bits)
    BY <1>4 DEF Writes
  <2>2. 0 <= Len(bits) /\ Agree(bits, bits)
    <3>1. Len(bits) \in Nat
      BY <1>2, LenProperties
    <3>. QED
      BY <3>1 DEF Agree
  <2>3. LET last == 0 + Width(layout, v)
            result == Read(layout, Taken(0, BitVec(bits)))
        IN IF last <= Len(bits)
           THEN result = [ok |-> TRUE, value |-> Only(v, Fields(layout, v)), data |-> Taken(last, BitVec(bits))]
           ELSE ~result.ok
    BY <1>2, <1>4, <1>5, <2>2, ReadsAsWritten, 0 \in Nat
  <2>4. Taken(0, BitVec(bits)) = BitVec(bits)
    BY <1>2, TakenNothing
  <2>5. read = [ok |-> TRUE, value |-> Only(v, names), data |-> Taken(end, BitVec(bits))]
    BY <1>2, <1>5, <2>1, <2>3, <2>4 DEF read
  <2>. QED
    BY <2>5
<1>8. packet.ok = TRUE /\ packet.value = Converted(Only(v, names)) /\ packet.data = data
  BY <1>7
<1>. HIDE DEF packet
<1>9. names \subseteq DOMAIN s.value
  BY <1>4 DEF Sent
<1>10. Converted(Only(v, names)) = Only(s.value, names)
  <2>1. CASE Position \cap DOMAIN s.value = {}
    <3>1. "longitude" \notin DOMAIN s.value /\ "longitude" \notin names
      BY <1>9, <2>1 DEF Position
    <3>2. v = s.value
      BY <3>1 DEF Unsigned, v
    <3>3. DOMAIN Only(s.value, names) = names
      BY DEF Only
    <3>. QED
      BY <3>1, <3>2, <3>3 DEF Converted
  <2>2. CASE Position \subseteq names /\ IsPosition(s.value)
    <3>1. Position \subseteq DOMAIN s.value
      BY <1>9, <2>2
    <3>. QED
      BY <1>9, <2>2, <3>1, PositionAsSent DEF v
  <2>. QED
    BY <1>4, <2>1, <2>2
<1>11. Holds(packet.value, s, names)
  BY <1>6, <1>8, <1>10, HoldsOnly
<1>12. /\ pc' = "whole" /\ layer' = "sds" /\ sdu' = sdu /\ elements' = elements
       /\ Holds(value', s, ControlNames(s) \cup names)
  BY <1>1, <1>3, <1>8, <1>11, LayerAsSent
<1>13. ControlNames(s) \cup names = MleNames(s) \cup CmceNames(s) \cup {"o_bit", "data"} \cup names
  BY DEF ControlNames
<1>14. Sent(s, ControlNames(s) \cup names)
  BY <1>4, <1>13
<1>. QED
  BY <1>1, <1>12, <1>14, WholeAsSent, UpperHasName

\* The header of an element has all of its fields.
LEMMA HeaderFields ==
  ASSUME NEW v
  PROVE  /\ IsLayout(ElementHeader, Computed) /\ Width(ElementHeader, v) = 16
         /\ Fields(ElementHeader, v) = {"m_bit", "element_identifier", "length_indicator"}
         /\ Laid(ElementHeader, v)[1].width = 1 /\ Laid(ElementHeader, v)[2].width = 5
         /\ \A names : IsPresent(ElementHeader[2], Only(v, names))
<1>. DEFINE layout == ElementHeader
            laid == Laid(layout, v)
<1>1. /\ Len(layout) = 3
      /\ layout[1] = [name |-> "m_bit", width |-> 1, when |-> {}]
      /\ layout[2] = [name |-> "element_identifier", width |-> 4, when |-> {}]
      /\ layout[3] = [name |-> "length_indicator", width |-> 11, when |-> {}]
  BY DEF ElementHeader, Field
<1>2. IsLayout(layout, Computed)
  BY Layouts
<1>. HIDE DEF layout
<1>3. laid[0] = LaidFirst /\ \A i \in 1 .. 3 : laid[i] = LaidStep(layout, v, i, laid[i - 1])
  <2>1. laid[0] = LaidFirst /\ \A i \in 1 .. Len(layout) : laid[i] = LaidStep(layout, v, i, laid[i - 1])
    BY <1>2, LaidFacts
  <2>2. 1 .. Len(layout) = 1 .. 3
    BY <1>1
  <2>. HIDE DEF laid
  <2>. QED
    BY <2>1, <2>2
<1>. HIDE DEF laid
<1>4. \A i \in 1 .. 3 : \A names : IsPresent(layout[i], Only(v, names))
  <2>1. \A i \in 1 .. 3 : i = 1 \/ i = 2 \/ i = 3
    OBVIOUS
  <2>2. \A i \in 1 .. 3 : layout[i].when = {}
    BY <1>1, <2>1
  <2>. QED
    BY <2>2 DEF IsPresent
<1>5. \A i \in 1 .. 3 : laid[i].names = laid[i - 1].names \cup {layout[i].name}
                        /\ laid[i].width = laid[i - 1].width + layout[i].width
  BY <1>3, <1>4 DEF LaidStep
<1>6. laid[0].names = {} /\ laid[0].width = 0
  BY <1>3 DEF LaidFirst
<1>7. laid[1].names = {"m_bit"} /\ laid[1].width = 1
  <2>1. 1 - 1 = 0 /\ 1 \in 1 .. 3
    OBVIOUS
  <2>. QED
    BY <1>1, <1>5, <1>6, <2>1
<1>8. laid[2].names = {"m_bit", "element_identifier"} /\ laid[2].width = 5
  <2>1. 2 - 1 = 1 /\ 2 \in 1 .. 3
    OBVIOUS
  <2>. QED
    BY <1>1, <1>5, <1>7, <2>1
<1>9. laid[3].names = {"m_bit", "element_identifier", "length_indicator"} /\ laid[3].width = 16
  <2>1. 3 - 1 = 2 /\ 3 \in 1 .. 3
    OBVIOUS
  <2>. QED
    BY <1>1, <1>5, <1>8, <2>1
<1>10. \A names : IsPresent(layout[2], Only(v, names))
  BY <1>4, 2 \in 1 .. 3
<1>. QED
  BY <1>1, <1>2, <1>7, <1>8, <1>9, <1>10 DEF Fields, Width, laid, layout

\* The bits of its identifier.
LEMMA IdentifierBits ==
  ASSUME NEW v, NEW bits, NEW at, Writes(ElementHeader, v, bits, at)
  PROVE  at + 16 <= Len(bits) /\ v.element_identifier = ToNat(SubSeq(bits, at + 1 + 1, at + 5))
<1>. DEFINE layout == ElementHeader
            laid == Laid(layout, v)
<1>1. Len(layout) = 3 /\ layout[2].name = "element_identifier"
  BY DEF ElementHeader, Field
<1>2. /\ Width(layout, v) = 16 /\ laid[1].width = 1 /\ laid[2].width = 5
      /\ IsPresent(layout[2], Only(v, laid[1].names))
  BY HeaderFields
<1>3. /\ at + Width(layout, v) <= Len(bits)
      /\ \A i \in 1 .. Len(layout) : IsPresent(layout[i], Only(v, laid[i - 1].names)) =>
            v[layout[i].name] = ToNat(SubSeq(bits, at + laid[i - 1].width + 1, at + laid[i].width))
  BY DEF Writes
<1>. HIDE DEF layout, laid
<1>4. 2 \in 1 .. Len(layout) /\ 2 - 1 = 1
  BY <1>1
<1>5. v[layout[2].name] = ToNat(SubSeq(bits, at + laid[1].width + 1, at + laid[2].width))
  BY <1>2, <1>3, <1>4
<1>. QED
  BY <1>1, <1>2, <1>3, <1>5

\* The M-bit of an element, or the one behind the last.
LEMMA NextBit ==
  ASSUME NEW s, WithTail(s), NEW layout, IsLayout(layout, Computed), 1 \in 1 .. Len(layout),
         layout[1].when = {}, layout[1].name = "m_bit", layout[1].width = 1,
         NEW v, NEW at \in Nat, Writes(layout, v, TlSdu(s), at), at < Len(Received(s))
  PROVE  look(1, 0, From(s, at)) = v.m_bit /\ bits_left(From(s, at)) > 0
<1>1. /\ Received(s) \in Seq(Bit) /\ TlSdu(s) \in Seq(Bit) /\ Agree(Received(s), TlSdu(s))
      /\ Len(Received(s)) \in Nat /\ Len(TlSdu(s)) \in Nat
  BY LenProperties DEF WithTail
<1>2. at + 1 <= Len(TlSdu(s)) /\ v.m_bit = ToNat(SubSeq(TlSdu(s), at + 1, at + 1))
  BY <1>1, FirstField
<1>. DEFINE len == Len(Received(s))
<1>3. at + 1 <= len /\ at <= len /\ len - at > 0
  <2>1. \A x \in Nat : at < x => at + 1 <= x /\ at <= x /\ x - at > 0
    OBVIOUS
  <2>2. len \in Nat /\ at < len
    BY <1>1
  <2>. HIDE DEF len
  <2>. QED
    BY <2>1, <2>2
<1>. HIDE DEF len
<1>4. look(1, 0, Taken(at, BitVec(Received(s)))) = ToNat(SubSeq(TlSdu(s), at + 1, at + 1))
  <2>1. 1 \in Nat
    OBVIOUS
  <2>2. at + 1 <= Len(TlSdu(s)) /\ at + 1 <= Len(Received(s))
    BY <1>2, <1>3 DEF len
  <2>. QED
    BY <1>1, <2>1, <2>2, LookAsWritten
<1>5. bits_left(From(s, at)) = len - at
  BY <1>3, BitsLeft DEF len
<1>. HIDE DEF len
<1>. QED
  BY <1>2, <1>3, <1>4, <1>5 DEF From

\* The header of an element.
HeaderResult(s, el, at, read) ==
    /\ read.ok = TRUE /\ read.value.element_identifier = el.id
    /\ read.value.length_indicator = CountWidth(el) + Len(el.bits)
    /\ read.data = From(s, at + 16) /\ at + 16 \in Nat /\ at + 16 <= Len(Received(s))

LEMMA HeaderAsSent ==
  ASSUME NEW s, WithTail(s), NEW el, NEW at \in Nat, SentElement(el, TlSdu(s), at),
         at <= Len(Received(s)), NEW read, read = Read(ElementHeader, From(s, at))
  PROVE  /\ HeaderResult(s, el, at, read) \/ (~read.ok /\ s.lost > 0)
         /\ at < Len(Received(s)) => look(1, 0, From(s, at)) = 1 /\ bits_left(From(s, at)) > 0
<1>. DEFINE v == [m_bit |-> 1, element_identifier |-> el.id, length_indicator |-> CountWidth(el) + Len(el.bits)]
            end == at + 16
            names == {"m_bit", "element_identifier", "length_indicator"}
<1>1. Writes(ElementHeader, v, TlSdu(s), at)
  BY DEF SentElement
<1>2. /\ v.m_bit = 1 /\ v.element_identifier = el.id
      /\ v.length_indicator = CountWidth(el) + Len(el.bits)
  OBVIOUS
<1>. HIDE DEF v
<1>3. IsLayout(ElementHeader, Computed) /\ Width(ElementHeader, v) = 16 /\ Fields(ElementHeader, v) = names
  BY HeaderFields
<1>4. end = at + Width(ElementHeader, v)
  BY <1>3
<1>. HIDE DEF end
<1>5. ReadResult(s, ElementHeader, v, at, read, end) \/ (~read.ok /\ s.lost > 0)
  BY <1>1, <1>3, <1>4, ReadFrom
<1>6. ASSUME ReadResult(s, ElementHeader, v, at, read, end) PROVE HeaderResult(s, el, at, read)
  <2>1. /\ read.ok = TRUE /\ read.value = Only(v, names) /\ read.data = From(s, end) /\ end \in Nat
        /\ end <= Len(Received(s))
    BY <1>3, <1>6 DEF ReadResult
  <2>2. read.value.element_identifier = el.id /\ read.value.length_indicator = CountWidth(el) + Len(el.bits)
    BY <1>2, <2>1 DEF Only
  <2>. QED
    BY <2>1, <2>2 DEF HeaderResult, end
<1>8. ASSUME at < Len(Received(s)) PROVE look(1, 0, From(s, at)) = 1 /\ bits_left(From(s, at)) > 0
  <2>1. 1 \in 1 .. Len(ElementHeader) /\ ElementHeader[1].when = {} /\ ElementHeader[1].name = "m_bit"
        /\ ElementHeader[1].width = 1
    BY DEF ElementHeader, Field
  <2>2. look(1, 0, From(s, at)) = v.m_bit /\ bits_left(From(s, at)) > 0
    BY <1>1, <1>3, <1>8, <2>1, NextBit
  <2>. QED
    BY <1>2, <2>2
<1>. QED
  BY <1>5, <1>6, <1>8

\* The number of elements in an element of type 4, and the bits of an element.
ElementResult(s, el, at, is_type4, head, length) ==
    /\ head.ok = TRUE /\ (is_type4 => head.value.repeated_elements = el.count)
    /\ length \in 0 .. bits_left(head.data) /\ take_vector(length, head.data) = el.bits
    /\ Taken(length, head.data) = From(s, at + ElementWidth(el)) /\ at + ElementWidth(el) <= Len(Received(s))

LEMMA ElementAsSent ==
  ASSUME NEW s, WithTail(s), NEW el, el.bits \in Seq(Bit), NEW at \in Nat, SentElement(el, TlSdu(s), at),
         NEW is_type4 \in BOOLEAN, is_type4 <=> el.count # 0,
         NEW read, HeaderResult(s, el, at, read),
         NEW head, head = IF is_type4 THEN Read(<< Field("repeated_elements", 6) >>, read.data) ELSE read,
         NEW length, length = read.value.length_indicator - (IF is_type4 THEN 6 ELSE 0)
  PROVE  \/ ElementResult(s, el, at, is_type4, head, length)
         \/ s.lost > 0 /\ (~head.ok \/ length \notin 0 .. bits_left(head.data))
<1>. DEFINE width == CountWidth(el)
            len == Len(el.bits)
            first == at + 16 + width
            got == Len(Received(s))
            inner == Len(TlSdu(s))
            lost == s.lost
            layout == << Field("repeated_elements", 6) >>
            v == [repeated_elements |-> el.count]
<1>1. /\ width = IF is_type4 THEN 6 ELSE 0
      /\ is_type4 => Writes(layout, v, TlSdu(s), at + 16)
      /\ first + len <= inner /\ el.bits = SubSeq(TlSdu(s), first + 1, first + len)
  BY DEF SentElement, CountWidth
<1>2. /\ Received(s) \in Seq(Bit) /\ TlSdu(s) \in Seq(Bit) /\ Agree(Received(s), TlSdu(s))
      /\ got \in Nat /\ inner \in Nat /\ lost \in Nat /\ inner <= got + lost /\ len \in Nat
  BY LenProperties DEF WithTail
<1>3. /\ read.ok = TRUE /\ read.value.length_indicator = width + len /\ read.data = From(s, at + 16)
      /\ at + 16 \in Nat /\ at + 16 <= got
  BY DEF HeaderResult
<1>4. v.repeated_elements = el.count
  OBVIOUS
<1>. HIDE DEF width, len, got, inner, lost, v
<1>5. length = len
  <2>1. \A n \in Nat : 6 + n - 6 = n /\ 0 + n - 0 = n
    OBVIOUS
  <2>2. CASE is_type4
    BY <1>1, <1>2, <1>3, <2>1, <2>2
  <2>3. CASE ~is_type4
    BY <1>1, <1>2, <1>3, <2>1, <2>3
  <2>. QED
    BY <2>2, <2>3
<1>6. first \in Nat /\ first + len <= inner /\ first = (at + 16) + width /\ first + len \in Nat
  <2>1. width \in Nat
    BY <1>1
  <2>2. first \in Nat /\ first + len \in Nat
    BY <1>2, <2>1
  <2>. QED
    BY <1>1, <2>2
<1>. HIDE DEF first
<1>7. \/ /\ head.ok = TRUE /\ head.data = From(s, first) /\ first <= got
         /\ is_type4 => head.value.repeated_elements = el.count
      \/ ~head.ok /\ lost > 0
  <2>1. CASE is_type4
    <3>1. 6 \in Nat /\ "repeated_elements" \notin Computed
      BY DEF Computed
    <3>2. IsLayout(layout, Computed) /\ Fields(layout, v) = {"repeated_elements"} /\ Width(layout, v) = 6
      BY <3>1, OneField
    <3>3. Writes(layout, v, TlSdu(s), at + 16) /\ head = Read(layout, From(s, at + 16))
      BY <1>1, <1>3, <2>1
    <3>. HIDE DEF layout
    <3>. DEFINE start == at + 16
    <3>4. start \in Nat /\ first = start + Width(layout, v) /\ start <= Len(Received(s))
      BY <1>1, <1>3, <1>6, <2>1, <3>2 DEF got
    <3>. HIDE DEF start
    <3>5. ReadResult(s, layout, v, start, head, first) \/ (~head.ok /\ lost > 0)
      BY <3>2, <3>3, <3>4, ReadFrom DEF start, lost
    <3>. SUFFICES ASSUME ReadResult(s, layout, v, start, head, first)
         PROVE  /\ head.ok = TRUE /\ head.data = From(s, first) /\ first <= got
                /\ is_type4 => head.value.repeated_elements = el.count
      BY <3>5
    <3>6. head.ok = TRUE /\ head.value = Only(v, {"repeated_elements"}) /\ head.data = From(s, first)
          /\ first <= got
      BY <3>2 DEF ReadResult, got
    <3>7. head.value.repeated_elements = el.count
      BY <1>4, <3>6 DEF Only
    <3>. QED
      BY <3>6, <3>7
  <2>2. CASE ~is_type4
    <3>1. head = read /\ first = at + 16
      BY <1>1, <1>3, <1>6, <2>2
    <3>. QED
      BY <1>3, <2>2, <3>1
  <2>. QED
    BY <2>1, <2>2
<1>. SUFFICES ASSUME head.ok = TRUE, head.data = From(s, first), first <= got,
                     is_type4 => head.value.repeated_elements = el.count
     PROVE  \/ ElementResult(s, el, at, is_type4, head, length)
            \/ lost > 0 /\ (~head.ok \/ length \notin 0 .. bits_left(head.data))
  BY <1>7 DEF lost
<1>8. bits_left(head.data) = got - first
  BY <1>6, BitsLeft DEF got
<1>12. CASE ~(first + len <= got)
  <2>1. \A x, y, z \in Nat : x + y <= inner /\ ~(x + y <= z) /\ inner <= z + lost => lost > 0 /\ y \notin 0 .. z - x
    BY <1>2
  <2>2. lost > 0 /\ len \notin 0 .. got - first
    BY <1>2, <1>6, <1>12, <2>1
  <2>. QED
    BY <1>5, <1>8, <2>2
<1>. SUFFICES ASSUME first + len <= got PROVE ElementResult(s, el, at, is_type4, head, length)
  BY <1>12
<1>9. length \in 0 .. bits_left(head.data)
  <2>1. \A m, n \in Int : m \in Nat /\ m <= n => m \in 0 .. n
    OBVIOUS
  <2>2. got - first \in Int /\ len \in Int /\ len <= got - first
    BY <1>2, <1>6
  <2>. QED
    BY <1>2, <1>5, <1>8, <2>1, <2>2
<1>10. take_vector(length, head.data) = el.bits
  <2>1. first + len <= Len(TlSdu(s)) /\ first + len <= Len(Received(s))
    BY <1>6 DEF inner, got
  <2>2. take_vector(len, Taken(first, BitVec(Received(s)))) = SubSeq(TlSdu(s), first + 1, first + len)
    <3>1. Received(s) \in Seq(Bit) /\ TlSdu(s) \in Seq(Bit) /\ Agree(Received(s), TlSdu(s))
          /\ first \in Nat /\ len \in Nat
      BY <1>2, <1>6
    <3>. QED
      BY <2>1, <3>1, LookAsWritten
  <2>. QED
    BY <1>1, <1>5, <1>7, <2>2 DEF From
<1>11. Taken(length, head.data) = From(s, at + ElementWidth(el))
  <2>1. first + len <= Len(Received(s))
    BY <1>6 DEF got
  <2>2. Taken(len, Taken(first, BitVec(Received(s)))) = Taken(first + len, BitVec(Received(s)))
    BY <1>2, <1>6, <2>1, TakenTwice
  <2>3. first + len = at + ElementWidth(el)
    <3>1. \A x, y \in Nat : at + 16 + x + y = at + (16 + x + y)
      OBVIOUS
    <3>2. width \in Nat
      BY <1>1
    <3>. QED
      BY <1>2, <3>1, <3>2 DEF first, ElementWidth, width, len
  <2>. QED
    BY <1>5, <1>7, <2>2, <2>3 DEF From
<1>13. at + ElementWidth(el) <= Len(Received(s))
  <2>1. width \in Nat /\ \A x, y \in Nat : at + 16 + x + y = at + (16 + x + y)
    BY <1>1
  <2>2. first + len = at + ElementWidth(el)
    BY <1>2, <2>1 DEF first, ElementWidth, width, len
  <2>. QED
    BY <2>2 DEF got
<1>. QED
  BY <1>9, <1>10, <1>11, <1>13 DEF ElementResult

\* What is known of an element, and one element more.
Entry(el) == [unparsed_bits |-> el.bits, repeated_elements |-> IF el.count = 0 THEN 1 ELSE el.count]
Distinct(els, n) == \A i, j \in 1 .. n : els[i].id = els[j].id => i = j

LEMMA CollectedAll ==
  ASSUME NEW els, NEW n \in Nat, Distinct(els, n)
  PROVE  /\ Collected(els, n) = [id \in {els[i].id : i \in 1 .. n} |-> Collected(els, n)[id]]
         /\ \A i \in 1 .. n : Collected(els, n)[els[i].id] = Entry(els[i])
<1>. DEFINE At(id) == CHOOSE i \in 1 .. n : els[i].id = id
<1>1. Collected(els, n) = [id \in {els[i].id : i \in 1 .. n} |-> Entry(els[At(id)])]
  BY DEF Collected, Entry
<1>2. ASSUME NEW i \in 1 .. n PROVE At(els[i].id) = i
  <2>1. At(els[i].id) \in 1 .. n /\ els[At(els[i].id)].id = els[i].id
    OBVIOUS
  <2>. HIDE DEF At
  <2>. QED
    BY <2>1 DEF Distinct
<1>. HIDE DEF At
<1>3. \A i \in 1 .. n : Collected(els, n)[els[i].id] = Entry(els[i])
  BY <1>1, <1>2
<1>4. Collected(els, n) = [id \in {els[i].id : i \in 1 .. n} |-> Collected(els, n)[id]]
  BY <1>1
<1>. QED
  BY <1>3, <1>4

LEMMA CollectedNext ==
  ASSUME NEW els, NEW n \in Nat, Distinct(els, n + 1)
  PROVE  /\ Collected(els, n + 1) = WithField(Collected(els, n), els[n + 1].id, Entry(els[n + 1]))
         /\ DOMAIN Collected(els, n) = {els[i].id : i \in 1 .. n}
<1>. DEFINE next == els[n + 1].id
            ids == {els[i].id : i \in 1 .. n}
            all == {els[i].id : i \in 1 .. n + 1}
            with == WithField(Collected(els, n), next, Entry(els[n + 1]))
            more == Collected(els, n + 1)
            some == Collected(els, n)
<1>1. /\ n + 1 \in Nat /\ n + 1 \in 1 .. n + 1
      /\ \A i \in 1 .. n : i \in 1 .. n + 1 /\ i # n + 1
      /\ \A i \in 1 .. n + 1 : i \in 1 .. n \/ i = n + 1
  OBVIOUS
<1>2. Distinct(els, n)
  BY <1>1 DEF Distinct
<1>3. /\ some = [id \in ids |-> some[id]] /\ \A i \in 1 .. n : some[els[i].id] = Entry(els[i])
  BY <1>2, CollectedAll
<1>4. /\ more = [id \in all |-> more[id]] /\ \A i \in 1 .. n + 1 : more[els[i].id] = Entry(els[i])
  <2>. DEFINE m == n + 1
  <2>1. m \in Nat /\ Distinct(els, m)
    BY <1>1
  <2>. HIDE DEF m
  <2>2. /\ Collected(els, m) = [id \in {els[i].id : i \in 1 .. m} |-> Collected(els, m)[id]]
        /\ \A i \in 1 .. m : Collected(els, m)[els[i].id] = Entry(els[i])
    BY <2>1, CollectedAll
  <2>. QED
    BY <2>2 DEF m
<1>. HIDE DEF more, some
<1>5. all = ids \cup {next}
  BY <1>1
<1>6. DOMAIN some = ids
  BY <1>3
<1>7. with = [id \in all |-> with[id]] /\ with[next] = Entry(els[n + 1])
      /\ \A id \in ids : id # next => with[id] = some[id]
  BY <1>5, <1>6 DEF WithField, some
<1>. HIDE DEF with
<1>8. ASSUME NEW id \in all PROVE with[id] = more[id]
  <2>1. PICK i \in 1 .. n + 1 : id = els[i].id
    OBVIOUS
  <2>2. CASE i = n + 1
    BY <1>4, <1>7, <2>1, <2>2
  <2>3. CASE i \in 1 .. n
    <3>1. id \in ids /\ id # next
      BY <1>1, <2>1, <2>3 DEF Distinct
    <3>2. with[id] = some[id] /\ some[id] = Entry(els[i]) /\ more[id] = Entry(els[i])
      BY <1>1, <1>3, <1>4, <1>7, <2>1, <2>3, <3>1
    <3>. QED
      BY <3>2
  <2>. QED
    BY <1>1, <2>2, <2>3
<1>9. more = with
  BY <1>4, <1>7, <1>8
<1>. QED
  BY <1>6, <1>9 DEF more, with, some

\* The type of a packet of the mobile management is always there.
LEMMA ManagementTail ==
  ASSUME NEW downlink \in BOOLEAN
  PROVE  \E tail : /\ IsLayout(tail, Computed)
                   /\ MobileManagementPacket(downlink) = << Field("mm_type", 4) >> \o tail
<1>. DEFINE accept == Under([mm_type |-> {kDLocationUpdateAccept}], LocationUpdateAccept)
            ack == Under([mm_type |-> {kDAttachDetachGroupIdentityAck}],
                         AttachDetachGroupIdentityAcknowledgement)
            tail == IF ~downlink THEN <<>> ELSE accept \o ack
<1>1. IsLayout(<<>>, Computed)
  BY DEF IsLayout
<1>2. IsLayout(LocationUpdateAccept, Computed) /\ IsLayout(AttachDetachGroupIdentityAcknowledgement, Computed)
  BY Layouts
<1>3. IsLayout(accept, Computed) /\ IsLayout(ack, Computed)
  BY <1>2, Conditional
<1>4. MobileManagementPacket(downlink) = << Field("mm_type", 4) >> \o tail
  BY DEF MobileManagementPacket
<1>. HIDE DEF accept, ack
<1>5. IsLayout(accept \o ack, Computed)
  BY <1>3, Concatenated
<1>6. IsLayout(tail, Computed)
  BY <1>1, <1>5
<1>. QED
  BY <1>4, <1>6

\* The layer that has elements, and where they begin.
ElementsOf(s, from) ==
    /\ IsUpper(s) /\ from \in Nat /\ SentElements(s, from)
    /\ \/ /\ layer = "mm" /\ SentMm(s) /\ from = MmEnd(s)
          /\ Holds(value, s, MleNames(s) \cup MmNames(s)) /\ Sent(s, MleNames(s) \cup MmNames(s))
       \/ /\ layer = "cmce" /\ s.layer = "sds" /\ SentShortData(s) /\ s.value.discriminator = kCmceProtocol
          /\ from = DataEnd(s) + 1 /\ Holds(value, s, ControlNames(s))

\* The elements that are taken, and those that are left.
Taking(s, from, n, taken, left) ==
    /\ \A i \in 1 .. n : IsKnown(s, i)
    /\ taken = Collected(s.in_order, n) /\ LeftFrom(s, Ends(s.in_order, from)[n], left)

LEMMA SameAllowed ==
  ASSUME NEW s \in Sdus, NEW from, ElementsOf(s, from)
  PROVE  Allowed(layer, value) = Allowed(s.layer, s.value)
<1>1. CASE layer = "cmce" /\ s.layer = "sds"
  BY <1>1 DEF Allowed
<1>2. CASE layer = "mm" /\ SentMm(s) /\ Holds(value, s, MleNames(s) \cup MmNames(s))
  <2>. DEFINE layout == MobileManagementPacket(s.downlink)
  <2>1. s.layer = "mm"
    BY <1>2 DEF SentMm
  <2>2. s.downlink \in BOOLEAN
    BY SdusBits
  <2>3. PICK tail : IsLayout(tail, Computed) /\ layout = << Field("mm_type", 4) >> \o tail
    BY <2>2, ManagementTail
  <2>4. IsLayout(layout, Computed)
    BY <2>2, Layouts
  <2>5. MmNames(s) = Fields(layout, s.value)
    BY DEF MmNames
  <2>. HIDE DEF layout
  <2>6. layout[1].when = {} /\ layout[1].name = "mm_type" /\ 1 \in 1 .. Len(layout)
    BY <2>3, FirstOfLayout
  <2>7. "mm_type" \in MmNames(s)
    BY <2>4, <2>5, <2>6, FieldIsThere
  <2>8. value.mm_type = s.value.mm_type
    BY <1>2, <2>7 DEF Holds
  <2>. QED
    BY <1>2, <2>1, <2>8 DEF Allowed
<1>. QED
  BY <1>1, <1>2 DEF ElementsOf

LEMMA ElementsTaken ==
  ASSUME TypeInv, NEW s \in sdu, IsSent(s), Within(s), pc = "elements"
  PROVE  /\ s \in Sdus /\ WithTail(s)
         /\ \E from : /\ ElementsOf(s, from)
                      /\ \E n \in 0 .. Len(s.in_order) : Taking(s, from, n, elements, data)
<1>1. s \in Sdus
  BY DEF TypeInv, PlaceInv
<1>2. InElements(s)
  BY DEF Within
<1>3. IsUpper(s)
  BY <1>2 DEF InElements
<1>4. WithTail(s)
  BY <1>1, SentLayers, TlSduWithTail
<1>5. \E from : ElementsOf(s, from) /\ ElementsAre(s, from, elements, data)
  <2>1. CASE /\ layer = "mm" /\ SentMm(s)
             /\ Holds(value, s, MleNames(s) \cup MmNames(s)) /\ ElementsFrom(s, MmEnd(s))
             /\ Sent(s, MleNames(s) \cup MmNames(s))
    <3>1. ElementsOf(s, MmEnd(s)) /\ ElementsAre(s, MmEnd(s), elements, data)
      BY <1>3, <2>1 DEF ElementsOf, ElementsFrom
    <3>. QED
      BY <3>1
  <2>2. CASE /\ layer = "cmce" /\ s.layer = "sds" /\ SentShortData(s) /\ s.value.discriminator = kCmceProtocol
             /\ Holds(value, s, ControlNames(s)) /\ ElementsFrom(s, DataEnd(s) + 1)
    <3>1. ElementsOf(s, DataEnd(s) + 1) /\ ElementsAre(s, DataEnd(s) + 1, elements, data)
      BY <1>3, <2>2 DEF ElementsOf, ElementsFrom
    <3>. QED
      BY <3>1
  <2>. QED
    BY <1>2, <2>1, <2>2 DEF InElements
<1>. QED
  BY <1>1, <1>4, <1>5 DEF ElementsAre, Taking

\* Bits that are not set are the number 0, which identifies no element.
LEMMA NoBitIsSet ==
  ASSUME NEW bits \in Seq(Bit), \A i \in 1 .. Len(bits) : bits[i] = 0
  PROVE  ToNat(bits) = 0
<1>1. PICK number : /\ ToNat(bits) = number[Len(bits)] /\ number[0] = 0
                    /\ \A i \in 1 .. Len(bits) : number[i] = 2 * number[i - 1] + bits[i]
  BY ValueOfBits
<1>. DEFINE n == Len(bits)
            S == {i \in 0 .. n : number[i] = 0}
<1>2. n \in Nat /\ n \in 0 .. n /\ 0 \in 0 .. n /\ \A i \in 1 .. n : i \in 0 .. n
  BY LenProperties
<1>3. 0 \in S /\ \A i \in 1 .. n : i - 1 \in S => i \in S
  <2>1. 0 \in S
    BY <1>1, <1>2
  <2>2. ASSUME NEW i \in 1 .. n, number[i - 1] = 0 PROVE number[i] = 0
    BY <1>1, <2>2
  <2>. QED
    BY <1>2, <2>1, <2>2
<1>. HIDE DEF n, S
<1>4. \A i \in 0 .. n : i \in S
  BY <1>2, <1>3, Induction
<1>. QED
  BY <1>1, <1>2, <1>4 DEF n, S

LEMMA NotAllowed ==
  ASSUME NEW where, NEW v
  PROVE  0 \notin Allowed(where, v).type3 \cup Allowed(where, v).type4
<1>1. CASE where \in {"cmce", "sds"}
  <2>1. Allowed(where, v) = [type3 |-> {2, 6}, type4 |-> {}]
    BY <1>1 DEF Allowed
  <2>. QED
    BY <2>1
<1>2. CASE where = "mm" /\ v.mm_type = kDLocationUpdateAccept
  <2>1. Allowed(where, v) = [type3 |-> {1, 3, 5, 10, 13, 15}, type4 |-> {2, 12}]
    BY <1>2 DEF Allowed, kDLocationUpdateAccept, kDAttachDetachGroupIdentityAck
  <2>. QED
    BY <2>1
<1>3. CASE where = "mm" /\ v.mm_type = kDAttachDetachGroupIdentityAck
  <2>1. Allowed(where, v) = [type3 |-> {15}, type4 |-> {7, 12}]
    BY <1>3 DEF Allowed, kDLocationUpdateAccept, kDAttachDetachGroupIdentityAck
  <2>. QED
    BY <2>1
<1>4. CASE /\ where \notin {"cmce", "sds"} /\ ~(where = "mm" /\ v.mm_type = kDLocationUpdateAccept)
           /\ ~(where = "mm" /\ v.mm_type = kDAttachDetachGroupIdentityAck)
  <2>1. Allowed(where, v) = NoElements
    BY <1>4 DEF Allowed
  <2>. QED
    BY <2>1 DEF NoElements
<1>. QED
  BY <1>1, <1>2, <1>3, <1>4

\* An element does not end behind the last one.
LEMMA EndsGrow ==
  ASSUME NEW s \in Sdus, NEW from \in Nat, NEW n \in 0 .. Len(s.in_order)
  PROVE  Ends(s.in_order, from)[n] <= Ends(s.in_order, from)[Len(s.in_order)]
<1>. DEFINE els == s.in_order
            m == Len(els)
            end == Ends(els, from)
            S == {k \in 0 .. m : n <= k => end[n] <= end[k]}
<1>1. m \in Nat /\ \A i \in 1 .. m : ElementWidth(els[i]) \in Nat
  BY SduElements
<1>2. end \in [0 .. m -> Nat] /\ \A i \in 1 .. m : end[i] = end[i - 1] + ElementWidth(els[i])
  BY <1>1, EndsFacts
<1>. HIDE DEF els, m, end
<1>3. n \in 0 .. m
  BY DEF m, els
<1>4. ASSUME NEW i \in 0 .. m, i # 0, n < i => end[n] <= end[i - 1] PROVE n <= i => end[n] <= end[i]
  <2>1. i \in 1 .. m /\ i - 1 \in 0 .. m /\ (n <= i => n = i \/ n < i)
    BY <1>1, <1>3, <1>4
  <2>2. end[i] = end[i - 1] + ElementWidth(els[i]) /\ ElementWidth(els[i]) \in Nat
    BY <1>1, <1>2, <2>1
  <2>3. end[n] \in Nat /\ end[i - 1] \in Nat
    BY <1>2, <1>3, <2>1
  <2>4. \A x, y, z \in Nat : x <= y => x <= y + z
    OBVIOUS
  <2>5. end[n] <= end[n]
    BY <2>3
  <2>. QED
    BY <1>4, <2>1, <2>2, <2>3, <2>4, <2>5
<1>5. 0 \in S /\ \A i \in 1 .. m : i - 1 \in S => i \in S
  <2>1. 0 \in S
    <3>1. n <= 0 => n = 0
      BY <1>1, <1>3
    <3>2. end[0] \in Nat /\ 0 \in 0 .. m
      BY <1>1, <1>2
    <3>3. end[0] <= end[0]
      BY <3>2
    <3>. QED
      BY <3>1, <3>2, <3>3
  <2>2. ASSUME NEW i \in 1 .. m, i - 1 \in S PROVE i \in S
    <3>1. i \in 0 .. m /\ i # 0 /\ (n < i => n <= i - 1)
      BY <1>1, <1>3
    <3>. QED
      BY <1>4, <2>2, <3>1
  <2>. QED
    BY <2>1, <2>2
<1>. HIDE DEF S
<1>6. \A i \in 0 .. m : i \in S
  BY <1>1, <1>5, Induction
<1>7. m \in 0 .. m /\ n <= m
  BY <1>1, <1>3
<1>. QED
  BY <1>6, <1>7 DEF S, end, m, els

\* The data of a TM-SDU that lost its end never ends where an element should begin:
\* with a checksum the M-bit behind the last element would be lost as well, and
\* without one all bits but the first are known to be 0.
LEMMA NoElementIsHidden ==
  ASSUME NEW s \in Sdus, IsSent(s), WithTail(s), NEW from, ElementsOf(s, from), NEW n \in 0 .. Len(s.in_order),
         n # Len(s.in_order), Ends(s.in_order, from)[n] = Len(Received(s))
  PROVE  FALSE
<1>. DEFINE els == s.in_order
            m == Len(els)
            end == Ends(els, from)
            at == end[n]
            el == els[n + 1]
            sent == TlSdu(s)
            inner == Len(sent)
            lost == s.lost
            v == [m_bit |-> 1, element_identifier |-> el.id, length_indicator |-> CountWidth(el) + Len(el.bits)]
<1>1. /\ m \in Nat /\ \A i \in 1 .. m : /\ ElementWidth(els[i]) \in Nat /\ CountWidth(els[i]) \in Nat
                                        /\ Len(els[i].bits) \in Nat
  BY SduElements
<1>2. from \in Nat /\ SentElements(s, from)
  BY DEF ElementsOf
<1>3. /\ end \in [0 .. m -> Nat] /\ \A i \in 1 .. m : end[i] = end[i - 1] + ElementWidth(els[i])
      /\ \A k \in 0 .. m : end[k] <= end[m]
  BY <1>1, <1>2, EndsFacts, EndsGrow
<1>4. /\ Writes(<< Field("m_bit", 1) >>, [m_bit |-> 0], sent, end[m])
      /\ \A i \in 1 .. m : SentElement(els[i], sent, end[i - 1])
      /\ s.understood => \A i \in 1 .. m : IsKnown(s, i)
  BY <1>2 DEF SentElements
<1>5. /\ sent \in Seq(Bit) /\ inner \in Nat /\ lost \in Nat /\ inner <= at + lost
      /\ ~HasSequence(s) => \A k \in 1 .. inner : k > at + 1 => sent[k] = 0
  BY LenProperties DEF WithTail
<1>6. lost > 0 => s.understood /\ (HasSequence(s) => lost <= 16)
  BY DEF IsSent, CanBeNoticed
<1>. HIDE DEF els, end, sent, inner, lost
<1>7. n + 1 \in 1 .. m /\ (n + 1) - 1 = n /\ n + 1 \in 0 .. m /\ m \in 0 .. m
  <2>1. n # m /\ n \in 0 .. m
    BY DEF m, els
  <2>. HIDE DEF m
  <2>. QED
    BY <1>1, <2>1
<1>8. at \in Nat /\ end[m] \in Nat
  BY <1>3, <1>7 DEF m, els
<1>9. SentElement(el, sent, at) /\ end[n + 1] = at + ElementWidth(el) /\ el \in {els[n + 1]}
  <2>1. SentElement(els[n + 1], sent, end[(n + 1) - 1]) /\ end[n + 1] = end[(n + 1) - 1] + ElementWidth(els[n + 1])
    BY <1>3, <1>4, <1>7
  <2>. QED
    BY <1>7, <2>1
<1>10. Writes(ElementHeader, v, sent, at) /\ v.element_identifier = el.id
  BY <1>9 DEF SentElement
<1>. HIDE DEF v, at
<1>11. at + 16 <= inner /\ el.id = ToNat(SubSeq(sent, at + 1 + 1, at + 5))
  BY <1>10, IdentifierBits DEF inner
<1>12. lost > 0
  BY <1>5, <1>8, <1>11
<1>13. IsKnown(s, n + 1)
  BY <1>4, <1>6, <1>7, <1>12
<1>14. CASE HasSequence(s)
  <2>1. end[m] + 1 <= inner
    <3>. DEFINE layout == << Field("m_bit", 1) >>
                bit == [m_bit |-> 0]
    <3>1. "m_bit" \notin Computed /\ 1 \in Nat
      BY DEF Computed
    <3>2. Width(layout, bit) = 1
      BY <3>1, OneField
    <3>3. Writes(layout, bit, sent, end[m])
      BY <1>4
    <3>. HIDE DEF layout, bit
    <3>. QED
      BY <3>2, <3>3 DEF Writes, inner
  <2>2. at + 16 <= end[n + 1] /\ end[n + 1] <= end[m] /\ end[n + 1] \in Nat
    <3>1. ElementWidth(el) >= 16
      <4>1. \A x, y \in Nat : 16 + x + y >= 16
        OBVIOUS
      <4>2. CountWidth(el) \in Nat /\ Len(el.bits) \in Nat
        BY <1>1, <1>7
      <4>. QED
        BY <4>1, <4>2 DEF ElementWidth
    <3>2. ElementWidth(el) \in Nat
      BY <1>1, <1>7
    <3>3. end[n + 1] = at + ElementWidth(el) /\ end[n + 1] <= end[m] /\ end[n + 1] \in Nat
      BY <1>3, <1>7, <1>9
    <3>. HIDE DEF el, m
    <3>. QED
      BY <1>8, <3>1, <3>2, <3>3
  <2>3. lost <= 16
    BY <1>6, <1>12, <1>14
  <2>. HIDE DEF m
  <2>. QED
    BY <1>5, <1>8, <2>1, <2>2, <2>3
<1>15. CASE ~HasSequence(s)
  <2>. DEFINE start == at + 1
              part == SubSeq(sent, start + 1, start + 4)
  <2>1. start \in Nat /\ start + 4 = at + 5 /\ start + 4 <= Len(sent) /\ 4 \in Nat
    BY <1>5, <1>8, <1>11 DEF inner
  <2>2. \A i \in 1 .. 4 : start + i \in 1 .. inner /\ start + i > at + 1
    BY <1>5, <1>8, <1>11
  <2>. HIDE DEF start
  <2>3. part \in Seq(Bit) /\ Len(part) = 4 /\ \A i \in 1 .. 4 : part[i] = sent[start + i]
    BY <1>5, <2>1, PartOf
  <2>4. \A i \in 1 .. 4 : part[i] = 0
    BY <1>5, <1>15, <2>2, <2>3
  <2>. HIDE DEF part
  <2>5. ToNat(part) = 0
    BY <2>3, <2>4, NoBitIsSet
  <2>6. el.id = 0
    BY <1>11, <2>1, <2>5 DEF part, start
  <2>. QED
    BY <1>13, <2>6, NotAllowed DEF IsKnown, els
<1>. QED
  BY <1>14, <1>15

\* The next element, or the M-bit behind the last one.
LEMMA ElementsLeft ==
  ASSUME NEW s \in Sdus, IsSent(s), WithTail(s), NEW from, ElementsOf(s, from), NEW n \in 0 .. Len(s.in_order),
         NEW taken, NEW left, Taking(s, from, n, taken, left)
  PROVE  /\ n = Len(s.in_order) => (bits_left(left) > 0 => look(1, 0, left) = 0)
         /\ n # Len(s.in_order) =>
               /\ n \in Nat /\ n + 1 \in 1 .. Len(s.in_order) /\ bits_left(left) > 0 /\ look(1, 0, left) = 1
               /\ \/ HeaderResult(s, s.in_order[n + 1], Ends(s.in_order, from)[n], Read(ElementHeader, left))
                  \/ ~Read(ElementHeader, left).ok /\ s.lost > 0
               /\ Ends(s.in_order, from)[n] \in Nat
               /\ SentElement(s.in_order[n + 1], TlSdu(s), Ends(s.in_order, from)[n])
               /\ Ends(s.in_order, from)[n + 1] =
                     Ends(s.in_order, from)[n] + ElementWidth(s.in_order[n + 1])
<1>. DEFINE els == s.in_order
            m == Len(els)
            end == Ends(els, from)
            at == end[n]
<1>1. /\ m \in Nat /\ \A i \in 1 .. m : ElementWidth(els[i]) \in Nat
  BY SduElements
<1>2. from \in Nat /\ SentElements(s, from)
  BY DEF ElementsOf
<1>3. /\ end \in [0 .. m -> Nat] /\ \A i \in 1 .. m : end[i] = end[i - 1] + ElementWidth(els[i])
  BY <1>1, <1>2, EndsFacts
<1>4. /\ Writes(<< Field("m_bit", 1) >>, [m_bit |-> 0], TlSdu(s), end[m])
      /\ \A i \in 1 .. m : SentElement(els[i], TlSdu(s), end[i - 1])
  BY <1>2 DEF SentElements
<1>5. left = From(s, at) /\ n \in 0 .. m /\ at <= Len(Received(s)) /\ at \in Nat
  BY DEF Taking, LeftFrom
<1>9. n # m => at < Len(Received(s))
  <2>1. n # m => at # Len(Received(s))
    BY NoElementIsHidden
  <2>2. Len(Received(s)) \in Nat
    BY LenProperties DEF WithTail
  <2>3. \A x, y \in Nat : x <= y /\ x # y => x < y
    OBVIOUS
  <2>. HIDE DEF at, m
  <2>. QED
    BY <1>5, <2>1, <2>2, <2>3
<1>. HIDE DEF els, end
<1>6. at \in Nat /\ n \in Nat
  BY <1>1, <1>5
<1>10. bits_left(left) > 0 => at < Len(Received(s))
  <2>1. bits_left(left) = Len(Received(s)) - at /\ Len(Received(s)) \in Nat
    BY <1>5, BitsLeft, LenProperties DEF WithTail
  <2>2. \A x, y \in Nat : x - y > 0 => y < x
    OBVIOUS
  <2>. HIDE DEF at
  <2>. QED
    BY <1>6, <2>1, <2>2
<1>7. CASE n = m
  <2>. DEFINE layout == << Field("m_bit", 1) >>
              v == [m_bit |-> 0]
  <2>1. /\ 1 \in 1 .. Len(layout) /\ layout[1].when = {} /\ layout[1].name = "m_bit" /\ layout[1].width = 1
        /\ v.m_bit = 0
    BY DEF Field
  <2>2. IsLayout(layout, Computed)
    <3>1. "m_bit" \notin Computed /\ 1 \in Nat
      BY DEF Computed
    <3>. QED
      BY <3>1, OneField
  <2>3. Writes(layout, v, TlSdu(s), at)
    BY <1>4, <1>7
  <2>. HIDE DEF layout, v, at
  <2>4. at < Len(Received(s)) => look(1, 0, From(s, at)) = v.m_bit
    BY <1>6, <2>1, <2>2, <2>3, NextBit
  <2>. QED
    BY <1>5, <1>7, <1>10, <2>1, <2>4 DEF els
<1>8. CASE n # m
  <2>. DEFINE el == els[n + 1]
              read == Read(ElementHeader, left)
  <2>1. n + 1 \in 1 .. m /\ (n + 1) - 1 = n
    BY <1>1, <1>5, <1>8
  <2>2. SentElement(el, TlSdu(s), at) /\ end[n + 1] = at + ElementWidth(el)
    <3>1. SentElement(els[n + 1], TlSdu(s), end[(n + 1) - 1])
      BY <1>4, <2>1
    <3>2. end[n + 1] = end[(n + 1) - 1] + ElementWidth(els[n + 1])
      BY <1>3, <2>1
    <3>. QED
      BY <2>1, <3>1, <3>2
  <2>3. read = Read(ElementHeader, From(s, at))
    BY <1>5
  <2>. HIDE DEF el, read, at
  <2>4. /\ HeaderResult(s, el, at, read) \/ (~read.ok /\ s.lost > 0)
        /\ at < Len(Received(s)) => look(1, 0, From(s, at)) = 1 /\ bits_left(From(s, at)) > 0
    BY <1>5, <1>6, <2>2, <2>3, HeaderAsSent
  <2>5. look(1, 0, left) = 1 /\ bits_left(left) > 0
    BY <1>5, <1>8, <1>9, <2>4
  <2>. QED
    BY <1>6, <1>8, <2>1, <2>2, <2>4, <2>5 DEF el, read, at, end, els
<1>. QED
  BY <1>7, <1>8 DEF els

LEMMA ElementStep ==
  ASSUME TypeInv, NEW s \in sdu, IsSent(s), Within(s), Element
  PROVE  Within(s)' /\ sdu' = sdu
<1>. DEFINE read == Read(ElementHeader, data)
            id == read.value.element_identifier
            is_type4 == id \in Allowed(layer, value).type4
            head == IF is_type4 THEN Read(<< Field("repeated_elements", 6) >>, read.data) ELSE read
            length == read.value.length_indicator - (IF is_type4 THEN 6 ELSE 0)
            one == [unparsed_bits |-> take_vector(length, head.data),
                    repeated_elements |-> IF is_type4 THEN head.value.repeated_elements ELSE 1]
            refused == \/ ~read.ok \/ ~head.ok \/ length \notin 0 .. bits_left(head.data)
                       \/ ~IsAllowed(id) \/ id \in DOMAIN elements
<1>1. /\ pc = "elements" /\ look(1, 0, data) = 1 /\ bits_left(data) > 0
      /\ IF refused THEN Fail
         ELSE /\ elements' = WithField(elements, id, one) /\ data' = Taken(length, head.data)
              /\ metrics_' = metrics_ /\ sdu' = sdu /\ pc' = pc /\ layer' = layer /\ value' = value
  BY DEF Element, MoreElements
<1>2. /\ s \in Sdus /\ WithTail(s)
      /\ \E from : /\ ElementsOf(s, from)
                   /\ \E k \in 0 .. Len(s.in_order) : Taking(s, from, k, elements, data)
  BY <1>1, ElementsTaken
<1>3. PICK from : /\ ElementsOf(s, from)
                  /\ \E k \in 0 .. Len(s.in_order) : Taking(s, from, k, elements, data)
  BY <1>2
<1>4. PICK n \in 0 .. Len(s.in_order) : Taking(s, from, n, elements, data)
  BY <1>3
<1>. DEFINE els == s.in_order
            m == Len(els)
            at == Ends(els, from)[n]
            el == els[n + 1]
            all == Ends(els, from)[n + 1]
<1>5. /\ n # m /\ n \in Nat /\ n + 1 \in 1 .. m /\ at \in Nat
      /\ HeaderResult(s, el, at, read) \/ (~read.ok /\ s.lost > 0)
      /\ SentElement(el, TlSdu(s), at) /\ all = at + ElementWidth(el)
  <2>1. n = m => look(1, 0, data) = 0
    BY <1>1, <1>2, <1>3, <1>4, ElementsLeft
  <2>2. n # m
    BY <1>1, <2>1
  <2>. HIDE DEF m
  <2>3. n # Len(s.in_order)
    BY <2>2 DEF m
  <2>. QED
    BY <1>2, <1>3, <1>4, <2>2, <2>3, ElementsLeft DEF m
<1>13. ASSUME refused, s.lost > 0 PROVE Within(s)' /\ sdu' = sdu
  <2>. HIDE DEF refused
  <2>1. pc' = "failed" /\ sdu' = sdu
    BY <1>1, <1>13 DEF Fail
  <2>. QED
    BY <1>13, <2>1 DEF Within
<1>. SUFFICES ASSUME HeaderResult(s, el, at, read) PROVE Within(s)' /\ sdu' = sdu
  BY <1>5, <1>13
<1>6. id = el.id /\ read.ok = TRUE
  BY DEF HeaderResult
<1>7. Allowed(layer, value) = Allowed(s.layer, s.value)
  BY <1>2, <1>3, SameAllowed
<1>8. /\ m \in Nat
      /\ \A i \in 1 .. m : els[i].bits \in Seq(Bit) /\ els[i].count \in Nat
  BY <1>2, SduElements
<1>9. /\ \A i \in 1 .. m : IsKnown(s, i) =>
            (els[i].id \in Allowed(s.layer, s.value).type4 <=> els[i].count # 0)
      /\ \A i \in 1 .. m : IsTooShort(s, i) => Len(els[i].bits) < 6
      /\ s.understood <=> \A i \in 1 .. m : IsKnown(s, i)
  <2>. HIDE DEF m
  <2>1. /\ \A i \in 1 .. m : /\ els[i].id \in Allowed(s.layer, s.value).type3 => els[i].count = 0
                             /\ IsTooShort(s, i) => Len(els[i].bits) < 6
        /\ s.understood <=> \A i \in 1 .. m : IsKnown(s, i)
    BY <1>3 DEF ElementsOf, SentElements, m
  <2>. QED
    BY <2>1 DEF IsKnown, IsTooShort
<1>10. /\ \A i \in 1 .. n : IsKnown(s, i)
       /\ elements = Collected(els, n)
  BY <1>4 DEF Taking
<1>. HIDE DEF read, at, all
<1>11. CASE IsKnown(s, n + 1)
  <2>1. /\ id \in Allowed(layer, value).type3 \cup Allowed(layer, value).type4
        /\ \A j \in 1 .. n : els[j].id # id
    <3>1. (n + 1) - 1 = n
      BY <1>5
    <3>. QED
      BY <1>6, <1>7, <1>11, <3>1 DEF IsKnown
  <2>2. is_type4 <=> el.count # 0
    BY <1>5, <1>6, <1>7, <1>9, <1>11
  <2>3. is_type4 \in BOOLEAN
    OBVIOUS
  <2>4. el.bits \in Seq(Bit) /\ el.count \in Nat
    BY <1>5, <1>8
  <2>5. Distinct(els, n + 1)
    <3>1. \A j \in 1 .. n + 1 : \A i \in 1 .. j - 1 : els[i].id # els[j].id
      <4>1. \A j \in 1 .. n + 1 : j \in 1 .. n \/ j = n + 1
        BY <1>5
      <4>2. \A j \in 1 .. n + 1 : IsKnown(s, j)
        BY <1>10, <1>11, <4>1
      <4>. QED
        BY <4>2 DEF IsKnown
    <3>2. \A i, j \in 1 .. n + 1 : i # j => i \in 1 .. j - 1 \/ j \in 1 .. i - 1
      BY <1>5
    <3>. QED
      BY <3>1, <3>2 DEF Distinct
  <2>6. /\ Collected(els, n + 1) = WithField(Collected(els, n), el.id, Entry(el))
        /\ DOMAIN Collected(els, n) = {els[i].id : i \in 1 .. n}
    <3>. HIDE DEF els
    <3>. QED
      BY <1>5, <2>5, CollectedNext
  <2>7. id \notin DOMAIN elements
    BY <1>10, <2>1, <2>6
  <2>8. IsAllowed(id)
    BY <2>1 DEF IsAllowed
  <2>9. \/ ElementResult(s, el, at, is_type4, head, length)
        \/ s.lost > 0 /\ (~head.ok \/ length \notin 0 .. bits_left(head.data))
    <3>. HIDE DEF el, is_type4
    <3>. QED
      BY <1>2, <1>5, <2>2, <2>3, <2>4, ElementAsSent
  <2>. SUFFICES ASSUME ElementResult(s, el, at, is_type4, head, length) PROVE Within(s)' /\ sdu' = sdu
    <3>1. ASSUME s.lost > 0, ~head.ok \/ length \notin 0 .. bits_left(head.data) PROVE Within(s)' /\ sdu' = sdu
      <4>1. refused
        BY <3>1
      <4>. QED
        BY <1>13, <3>1, <4>1
    <3>. HIDE DEF id, is_type4, head, length, el, els
    <3>. QED
      BY <2>9, <3>1
  <2>. HIDE DEF id, is_type4, head, length, el, els
  <2>10. /\ head.ok = TRUE /\ (is_type4 => head.value.repeated_elements = el.count)
         /\ length \in 0 .. bits_left(head.data) /\ take_vector(length, head.data) = el.bits
         /\ Taken(length, head.data) = From(s, at + ElementWidth(el))
         /\ at + ElementWidth(el) <= Len(Received(s))
    BY DEF ElementResult
  <2>11. ~refused
    BY <1>6, <2>7, <2>8, <2>10
  <2>12. /\ elements' = WithField(elements, id, one) /\ data' = Taken(length, head.data)
         /\ sdu' = sdu /\ pc' = "elements" /\ layer' = layer /\ value' = value
    <3>. HIDE DEF refused
    <3>. QED
      BY <1>1, <2>11
  <2>13. one = Entry(el)
    <3>1. one.unparsed_bits = el.bits /\ one.repeated_elements = IF el.count = 0 THEN 1 ELSE el.count
      BY <2>2, <2>10
    <3>. QED
      BY <2>2, <2>10, <3>1 DEF Entry
  <2>. HIDE DEF one
  <2>14. elements' = Collected(els, n + 1) /\ data' = From(s, all) /\ all <= Len(Received(s))
    BY <1>5, <1>6, <1>10, <2>6, <2>10, <2>12, <2>13
  <2>15. /\ n + 1 \in 0 .. m /\ \A i \in 1 .. n + 1 : IsKnown(s, i)
    <3>1. \A j \in 1 .. n + 1 : j \in 1 .. n \/ j = n + 1
      BY <1>5
    <3>2. n + 1 \in 0 .. m
      <4>. HIDE DEF m
      <4>. QED
        BY <1>5, <1>8
    <3>. QED
      BY <1>10, <1>11, <3>1, <3>2
  <2>16. ElementsAre(s, from, elements, data)'
    <3>1. all \in Nat
      <4>1. from \in Nat /\ n + 1 \in 0 .. Len(s.in_order)
        BY <1>3, <2>15 DEF ElementsOf, m, els
      <4>2. /\ Len(s.in_order) \in Nat
            /\ \A i \in 1 .. Len(s.in_order) : ElementWidth(s.in_order[i]) \in Nat
        BY <1>2, SduElements
      <4>3. Ends(s.in_order, from) \in [0 .. Len(s.in_order) -> Nat]
        BY <4>1, <4>2, EndsFacts
      <4>. QED
        BY <4>1, <4>3 DEF all, els
    <3>. QED
      BY <2>14, <2>15, <3>1 DEF ElementsAre, LeftFrom, all, els, m
  <2>17. InElements(s)'
    BY <1>3, <2>12, <2>16 DEF InElements, ElementsOf, ElementsFrom
  <2>. QED
    BY <2>12, <2>17 DEF Within
<1>12. CASE ~IsKnown(s, n + 1)
  <2>1. ~IsAllowed(id) \/ id \in DOMAIN elements \/ length \notin 0 .. bits_left(head.data)
    <3>1. CASE el.id \notin Allowed(s.layer, s.value).type3 \cup Allowed(s.layer, s.value).type4
      BY <1>6, <1>7, <3>1 DEF IsAllowed
    <3>2. CASE ~\A j \in 1 .. (n + 1) - 1 : els[j].id # el.id
      <4>1. (n + 1) - 1 = n
        BY <1>5
      <4>2. PICK j \in 1 .. n : els[j].id = el.id
        BY <3>2, <4>1
      <4>3. DOMAIN Collected(els, n) = {els[i].id : i \in 1 .. n}
        BY DEF Collected
      <4>. QED
        BY <1>6, <1>10, <4>2, <4>3
    <3>3. CASE IsTooShort(s, n + 1)
      <4>1. is_type4 /\ el.count = 0 /\ Len(el.bits) < 6 /\ Len(el.bits) \in Nat
        <5>1. el.bits \in Seq(Bit)
          BY <1>5, <1>8
        <5>. QED
          BY <1>5, <1>6, <1>7, <1>9, <3>3, <5>1, LenProperties DEF IsTooShort
      <4>2. read.value.length_indicator = Len(el.bits)
        <5>1. read.value.length_indicator = CountWidth(el) + Len(el.bits) /\ CountWidth(el) = 0
          BY <4>1 DEF HeaderResult, CountWidth
        <5>. HIDE DEF el
        <5>. QED
          BY <4>1, <5>1
      <4>3. length = Len(el.bits) - 6
        BY <4>1, <4>2
      <4>. HIDE DEF el, length
      <4>. QED
        BY <4>1, <4>3
    <3>. QED
      BY <1>12, <3>1, <3>2, <3>3 DEF IsKnown
  <2>2. refused
    BY <2>1
  <2>. HIDE DEF refused
  <2>3. pc' = "failed" /\ sdu' = sdu
    BY <1>1, <2>2 DEF Fail
  <2>4. ~s.understood
    BY <1>5, <1>9, <1>12
  <2>. QED
    BY <2>3, <2>4 DEF Within
<1>. QED
  BY <1>11, <1>12

LEMMA LastElementStep ==
  ASSUME TypeInv, NEW s \in sdu, IsSent(s), Within(s), LastElement
  PROVE  Within(s)' /\ sdu' = sdu
<1>1. /\ pc = "elements" /\ (bits_left(data) > 0 => look(1, 0, data) = 0)
      /\ pc' = IF layer = "cmce" THEN "sds" ELSE "whole"
      /\ sdu' = sdu /\ layer' = layer /\ value' = value /\ elements' = elements
  BY DEF LastElement, MoreElements
<1>2. /\ s \in Sdus /\ WithTail(s)
      /\ \E from : /\ ElementsOf(s, from)
                   /\ \E k \in 0 .. Len(s.in_order) : Taking(s, from, k, elements, data)
  BY <1>1, ElementsTaken
<1>3. PICK from : /\ ElementsOf(s, from)
                  /\ \E k \in 0 .. Len(s.in_order) : Taking(s, from, k, elements, data)
  BY <1>2
<1>4. PICK n \in 0 .. Len(s.in_order) : Taking(s, from, n, elements, data)
  BY <1>3
<1>5. n = Len(s.in_order)
  <2>1. n # Len(s.in_order) => bits_left(data) > 0 /\ look(1, 0, data) = 1
    BY <1>2, <1>3, <1>4, ElementsLeft
  <2>. QED
    BY <1>1, <2>1
<1>6. s.understood /\ elements = s.elements
  BY <1>3, <1>4, <1>5 DEF ElementsOf, SentElements, Taking
<1>7. CASE layer = "mm" /\ SentMm(s) /\ Holds(value, s, MleNames(s) \cup MmNames(s))
           /\ Sent(s, MleNames(s) \cup MmNames(s))
  <2>1. /\ pc' = "whole" /\ layer' = s.layer /\ elements' = s.elements
        /\ Holds(value', s, MleNames(s) \cup MmNames(s))
    BY <1>1, <1>6, <1>7 DEF SentMm
  <2>2. Within(s)'
    <3>1. s.layer = "mm"
      BY <1>7 DEF SentMm
    <3>. QED
      BY <1>6, <1>7, <2>1, <3>1, WholeAsSent, UpperHasName
  <2>. QED
    BY <1>1, <2>2
<1>8. CASE layer = "cmce" /\ s.layer = "sds" /\ SentShortData(s) /\ Holds(value, s, ControlNames(s))
  <2>1. BeforeShortData(s)' /\ pc' = "sds"
    BY <1>1, <1>6, <1>8 DEF BeforeShortData
  <2>. QED
    BY <1>1, <2>1 DEF Within
<1>. QED
  BY <1>3, <1>7, <1>8 DEF ElementsOf

\* A step keeps what is left and the fields as they were sent.
LEMMA NextSentInv == TypeInv /\ SentInv /\ [Next]_vars => SentInv'
<1>. SUFFICES ASSUME TypeInv, SentInv, [Next]_vars PROVE SentInv'
  OBVIOUS
<1>1. ASSUME NEW s \in Sdus, Receive(s) PROVE SentInv'
  <2>1. sdu' = {s} /\ pc' = "llc" /\ data' = BitVec(s.bits)
    BY <1>1 DEF Receive
  <2>. QED
    BY <2>1 DEF SentInv, Within, BeforeLink
<1>2. CASE Parsing
  <2>1. ASSUME NEW s \in sdu, IsSent(s) PROVE Within(s)'
    <3>1. Within(s)
      BY <2>1 DEF SentInv
    <3>. QED
      BY <1>2, <2>1, <3>1, LinkStep, EntityStep, ManagementStep, ControlStep, ShortDataStep, ElementStep,
         LastElementStep DEF Parsing
  <2>2. sdu' = sdu
    BY <1>2 DEF Parsing, LogicalLinkControl, MobileLinkEntity, MobileManagement, CircuitModeControlEntity,
       ShortDataService, Element, LastElement, Parse, Fail
  <2>. QED
    BY <2>1, <2>2 DEF SentInv
<1>3. CASE Done
  BY <1>3 DEF Done, SentInv
<1>4. CASE UNCHANGED vars
  <2>1. /\ metrics_' = metrics_ /\ sdu' = sdu /\ pc' = pc /\ data' = data /\ layer' = layer
        /\ value' = value /\ elements' = elements
    BY <1>4 DEF vars
  <2>2. ASSUME NEW s \in sdu, IsSent(s) PROVE Within(s)'
    <3>1. Within(s)
      BY <2>2 DEF SentInv
    <3>2. Within(s)' <=> Within(s)
      BY <2>1 DEF Within, BeforeLink, BeforeEntity, BeforeManagement, BeforeControl, InElements, ElementsFrom,
         BeforeShortData, AsSent, Names
    <3>. QED
      BY <3>1, <3>2
  <2>. QED
    BY <2>1, <2>2 DEF SentInv
<1>. QED
  BY <1>1, <1>2, <1>3, <1>4 DEF Next

LEMMA SentInvHolds == Spec => []SentInv
<1>1. Init => SentInv
  BY DEF Init, SentInv
<1>. QED
  BY <1>1, TypeInvHolds, NextSentInv, PTL DEF Spec

-----------------------------------------------------------------------------
(* The results.                                                            *)

\* Whatever TM-SDUs arrive, the parsers have one of them at most, what is left of it
\* is always a view of bits, and a packet has elements only that the parser of its
\* layer allows: the tables of Type234Parser (type234_parser.hpp:65-108) are used
\* for the packet that they belong to.
THEOREM TypeCorrect == Spec => []TypeOK
<1>1. TypeInv => TypeOK
  <2>. SUFFICES ASSUME TypeInv PROVE TypeOK
    OBVIOUS
  <2>1. Cardinality(sdu) = IF pc = "idle" THEN 0 ELSE 1
    BY FS_EmptySet, FS_Singleton DEF TypeInv, PlaceInv
  <2>2. data.bits \in Seq({0, 1})
    BY DEF TypeInv, PlaceInv, BitVecs, Bit
  <2>3. DOMAIN elements \subseteq Allowed(layer, value).type3 \cup Allowed(layer, value).type4
    BY DEF TypeInv, ElementsInv
  <2>. QED
    BY <2>1, <2>2, <2>3 DEF TypeInv, PlaceInv, TypeOK
<1>. QED
  BY <1>1, TypeInvHolds, PTL

\* A frame check sequence is said to be good (logical_link_control_packet.cpp:50-54)
\* if and only if the TL-SDU and the sequence behind it are as the network made
\* them, for TL-SDUs of any content and any length but none.
THEOREM FcsTellsDamageCorrect == Spec => []FcsTellsDamage
<1>1. TypeInv => FcsTellsDamage
  BY DEF TypeInv, FcsInv, FcsTellsDamage
<1>. QED
  BY <1>1, TypeInvHolds, PTL

\* A TM-SDU as the network sends it, whatever its fields and its elements, comes out
\* of the uppermost layer that knows it with all of them, a position and a speed of
\* any value converted: the fields of a layer are never taken from the bits of
\* another, no element is lost or gets the bits of the one behind it, and it is
\* refused if and only if an element is not allowed, is a second one of a kind or is
\* too short for its count, or if its name is asked for and is not there
\* (packet_parser.hpp:35-46, type234_parser.hpp:70-108).
THEOREM ForwardedAsSentCorrect == Spec => []ForwardedAsSent
<1>1. SentInv => ForwardedAsSent
  <2>. SUFFICES ASSUME SentInv, pc \in {"whole", "failed"}, NEW s \in sdu, s.fill = 0, s.lost = 0, ~s.changed
                PROVE  IF s.understood /\ (metrics_ => HasName(s)) THEN AsSent(s) ELSE pc = "failed"
    BY DEF ForwardedAsSent
  <2>1. Within(s)
    BY DEF SentInv, IsSent
  <2>. QED
    BY <2>1 DEF Within
<1>. QED
  BY <1>1, SentInvHolds, PTL

\* The same with fill bits behind the TL-SDU, which are never read as a field or as
\* an element, unless they are all that a PDU without a TL-SDU has
\* (upper_mac_packet_builder.cpp:116-119, logical_link_control_parser.hpp:74-78).
THEOREM FillBitsCorrect == Spec => []FillBitsAreHarmless
<1>1. TypeInv /\ SentInv => FillBitsAreHarmless
  <2>. SUFFICES ASSUME TypeInv, SentInv, pc \in {"whole", "failed"}, NEW s \in sdu, s.fill > 0, ~s.changed, s.understood,
                       s.layer # "llc" \/ s.value.llc_type >= 8, metrics_ => HasName(s)
                PROVE  AsSent(s)
    BY DEF FillBitsAreHarmless
  <2>1. s \in Sdus
    BY DEF TypeInv, PlaceInv
  <2>2. s.lost = 0
    <3>1. s.fill \in 0 .. 7 /\ (s.fill = 0 \/ s.lost = 0)
      BY <2>1, SdusAssumption
    <3>. QED
      BY <3>1
  <2>3. Within(s)
    BY <2>2 DEF SentInv, IsSent
  <2>. QED
    BY <2>2, <2>3 DEF Within
<1>. QED
  BY <1>1, TypeInvHolds, SentInvHolds, PTL

\* A TM-SDU whose end was taken off, however much of it, is refused or parsed as it
\* was sent: the data that is left never ends where the next element would begin, so
\* that the end of the data is never taken for the end of the elements
\* (type234_parser.hpp:65-108), and what is missing from a field or from an element
\* is noticed (bit_vector.hpp).
THEOREM CutIsNoticedCorrect == Spec => []CutIsNoticed
<1>1. TypeInv /\ SentInv => CutIsNoticed
  <2>. SUFFICES ASSUME TypeInv, SentInv, pc = "whole", NEW s \in sdu, s.lost > 0, ~s.changed, s.understood,
                       CanBeNoticed(s)
                PROVE  AsSent(s)
    BY DEF CutIsNoticed
  <2>1. s \in Sdus
    BY DEF TypeInv, PlaceInv
  <2>2. s.fill = 0
    <3>1. s.lost \in Nat /\ (s.fill = 0 \/ s.lost = 0)
      BY <2>1, SdusAssumption
    <3>. QED
      BY <3>1
  <2>3. Within(s)
    BY <2>2 DEF SentInv, IsSent
  <2>. QED
    BY <2>3 DEF Within
<1>. QED
  BY <1>1, TypeInvHolds, SentInvHolds, PTL

=============================================================================
