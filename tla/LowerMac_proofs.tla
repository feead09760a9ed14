--------------------------- MODULE LowerMac_proofs ---------------------------
(***************************************************************************)
(* Proofs about LowerMac.                                                  *)
(***************************************************************************)
EXTENDS LowerMac, TLAPS

-----------------------------------------------------------------------------
(* Counting in a mixed radix.                                              *)

LEMMA DivMod ==
    ASSUME NEW n \in Nat, NEW d \in Nat \ {0}
    PROVE  /\ n \div d \in Nat
           /\ n % d \in 0 .. d - 1
           /\ n = d * (n \div d) + (n % d)
OBVIOUS

LEMMA NextMultiple ==
    ASSUME NEW d \in Nat \ {0}, NEW a \in Int, NEW b \in Int, a < b
    PROVE  d * b >= d * a + d
<1>1. d * b = d * a + d * (b - a)
  OBVIOUS
<1>2. d * (b - a) >= d
  OBVIOUS
<1>. QED
  BY <1>1, <1>2

LEMMA Digits ==
    ASSUME NEW d \in Nat \ {0}, NEW q \in Nat, NEW r \in 0 .. d - 1, NEW n, n = d * q + r
    PROVE  n \in Nat /\ n \div d = q /\ n % d = r
<1>1. n \in Nat
  <2>1. d * q \in Nat
    OBVIOUS
  <2>. QED
    BY <2>1
<1>2. /\ n \div d \in Nat
      /\ n % d \in 0 .. d - 1
      /\ n = d * (n \div d) + (n % d)
  BY <1>1, DivMod
<1>3. n \div d = q
  <2> DEFINE e == n \div d
  <2>1. e \in Nat
    BY <1>2
  <2>2. ~(e < q)
    <3>1. SUFFICES ASSUME e < q PROVE FALSE
      OBVIOUS
    <3>2. d * q >= d * e + d
      BY <2>1, <3>1, NextMultiple
    <3>. QED
      BY <1>2, <3>2
  <2>3. ~(q < e)
    <3>1. SUFFICES ASSUME q < e PROVE FALSE
      OBVIOUS
    <3>2. d * e >= d * q + d
      BY <2>1, <3>1, NextMultiple
    <3>. QED
      BY <1>2, <3>2
  <2>. QED
    BY <2>1, <2>2, <2>3
<1>4. d * (n \div d) = d * q
  BY <1>3
<1>. QED
  BY <1>1, <1>2, <1>3, <1>4

-----------------------------------------------------------------------------
(* The time of the network is counted by increment().                      *)

NumberAt(m, f, s) == TimeSlots * (FrameNumbers * m + f) + s

Slots == 0 .. TimeSlots - 1
Frames == 0 .. FrameNumbers - 1
Multis == 0 .. MultiFrames - 1
TimeAt(m, f, s) ==
    [time_slot_ |-> s + 1, frame_number_ |-> f + 1, multi_frame_number_ |-> m + 1]

LEMMA FrameSize == TimeSlots * FrameNumbers \in Nat \ {0}
<1>1. ASSUME NEW a \in Nat \ {0}, NEW b \in Nat \ {0} PROVE a * b \in Nat \ {0}
  <2>1. a * b >= a * 0 + a
    BY NextMultiple
  <2>. QED
    BY <2>1
<1>. QED
  BY <1>1, TimeAssumption

LEMMA ThreeDigits ==
    ASSUME NEW m \in Multis, NEW f \in Frames, NEW s \in Slots, NEW n, n = NumberAt(m, f, s)
    PROVE  n \in Nat /\ NetworkTime(n) = TimeAt(m, f, s)
<1>. DEFINE q == FrameNumbers * m + f
<1>1. /\ TimeSlots \in Nat \ {0} /\ FrameNumbers \in Nat \ {0} /\ MultiFrames \in Nat \ {0}
      /\ m \in Nat /\ f \in 0 .. FrameNumbers - 1 /\ s \in 0 .. TimeSlots - 1
  BY TimeAssumption DEF Multis, Frames, Slots
<1>2. q \in Nat /\ q \div FrameNumbers = m /\ q % FrameNumbers = f
  BY <1>1, Digits
<1>3. n = TimeSlots * q + s
  BY DEF NumberAt
<1>. HIDE DEF q
<1>4. n \in Nat /\ n \div TimeSlots = q /\ n % TimeSlots = s
  BY <1>1, <1>2, <1>3, Digits
<1>5. n \div (TimeSlots * FrameNumbers) = m
  <2>. DEFINE d == TimeSlots * FrameNumbers
              r == TimeSlots * f + s
  <2>1. d \in Nat \ {0}
    BY FrameSize
  <2>2. n = d * m + r
    <3>1. TimeSlots * (FrameNumbers * m + f) = TimeSlots * FrameNumbers * m + TimeSlots * f
      BY <1>1
    <3>. QED
      BY <1>1, <3>1 DEF NumberAt
  <2>3. r \in 0 .. d - 1
    <3>1. d >= TimeSlots * f + TimeSlots
      BY <1>1, NextMultiple
    <3>2. TimeSlots * f \in Nat
      BY <1>1
    <3>. QED
      BY <1>1, <2>1, <3>1, <3>2
  <2>. HIDE DEF d, r
  <2>4. n \div d = m
    BY <1>1, <2>1, <2>2, <2>3, Digits
  <2>. QED
    BY <2>4 DEF d
<1>. QED
  BY <1>2, <1>4, <1>5 DEF NetworkTime, TimeAt

LEMMA HasDigits ==
    ASSUME NEW n \in Numbers
    PROVE  \E m \in Multis, f \in Frames, s \in Slots : n = NumberAt(m, f, s)
<1>. DEFINE q == n \div TimeSlots
            s == n % TimeSlots
            m == q \div FrameNumbers
            f == q % FrameNumbers
<1>1. TimeSlots \in Nat \ {0} /\ FrameNumbers \in Nat \ {0} /\ MultiFrames \in Nat \ {0}
  BY TimeAssumption
<1>2. n \in Nat /\ n < TimeSlots * FrameNumbers * MultiFrames
  <2>1. TimeSlots * FrameNumbers * MultiFrames \in Nat
    BY <1>1
  <2>. QED
    BY <2>1 DEF Numbers
<1>3. q \in Nat /\ s \in Slots /\ n = TimeSlots * q + s
  BY <1>1, <1>2, DivMod DEF Slots
<1>. HIDE DEF q, s
<1>4. m \in Nat /\ f \in Frames /\ q = FrameNumbers * m + f
  BY <1>1, <1>3, DivMod DEF Frames
<1>. HIDE DEF m, f
<1>5. m < MultiFrames
  <2>1. SUFFICES ASSUME MultiFrames <= m PROVE FALSE
    BY <1>1, <1>4
  <2>2. m \in Int /\ f >= 0 /\ s >= 0 /\ q \in Int /\ FrameNumbers * m \in Int
    BY <1>1, <1>3, <1>4 DEF Slots, Frames
  <2>3. FrameNumbers * m >= FrameNumbers * MultiFrames
    BY <1>1, <2>1, <2>2, NextMultiple
  <2>4. q >= FrameNumbers * MultiFrames
    <3>1. FrameNumbers * MultiFrames \in Int /\ f \in Int
      BY <1>1, <1>4 DEF Frames
    <3>. QED
      BY <1>4, <2>2, <2>3, <3>1
  <2>5. TimeSlots * q >= TimeSlots * (FrameNumbers * MultiFrames)
    <3>1. FrameNumbers * MultiFrames \in Int
      BY <1>1
    <3>. QED
      BY <1>1, <2>2, <2>4, <3>1, NextMultiple
  <2>6. TimeSlots * (FrameNumbers * MultiFrames) = TimeSlots * FrameNumbers * MultiFrames
    BY <1>1
  <2>7. TimeSlots * q \in Int /\ TimeSlots * FrameNumbers * MultiFrames \in Int /\ s \in Int
    BY <1>1, <1>3 DEF Slots
  <2>. QED
    BY <1>2, <1>3, <2>2, <2>5, <2>6, <2>7
<1>6. m \in Multis
  BY <1>1, <1>4, <1>5 DEF Multis
<1>. QED
  BY <1>3, <1>4, <1>6 DEF NumberAt

LEMMA NumberBound ==
    ASSUME NEW m \in Multis, NEW f \in Frames, NEW s \in Slots
    PROVE  NumberAt(m, f, s) \in Numbers
<1>1. TimeSlots \in Nat \ {0} /\ FrameNumbers \in Nat \ {0} /\ MultiFrames \in Nat \ {0}
  BY TimeAssumption
<1>2. /\ m \in Int /\ m < MultiFrames /\ f \in Int /\ f < FrameNumbers
      /\ s \in Int /\ s < TimeSlots
  BY <1>1 DEF Multis, Frames, Slots
<1>. DEFINE q == FrameNumbers * m + f
<1>3. q \in Int /\ q < FrameNumbers * MultiFrames
  <2>1. FrameNumbers * MultiFrames >= FrameNumbers * m + FrameNumbers
    BY <1>1, <1>2, NextMultiple
  <2>2. FrameNumbers * m \in Int /\ FrameNumbers * MultiFrames \in Int
    BY <1>1, <1>2
  <2>. QED
    BY <1>1, <1>2, <2>1, <2>2
<1>. HIDE DEF q
<1>4. TimeSlots * (FrameNumbers * MultiFrames) >= TimeSlots * q + TimeSlots
  <2>1. FrameNumbers * MultiFrames \in Int
    BY <1>1
  <2>. QED
    BY <1>1, <1>3, <2>1, NextMultiple
<1>5. TimeSlots * (FrameNumbers * MultiFrames) = TimeSlots * FrameNumbers * MultiFrames
  BY <1>1
<1>6. NumberAt(m, f, s) \in Nat /\ NumberAt(m, f, s) = TimeSlots * q + s
  BY ThreeDigits DEF NumberAt, q
<1>7. TimeSlots * q \in Int /\ TimeSlots * FrameNumbers * MultiFrames \in Int
  BY <1>1, <1>3
<1>. QED
  BY <1>1, <1>2, <1>4, <1>5, <1>6, <1>7 DEF Numbers

\* The time after that of burst n is that of the burst after n, over the carry to
\* the next frame, to the next multi-frame and the wrap.
LEMMA IncrementFollows ==
    ASSUME NEW n \in Numbers
    PROVE  After(n) \in Numbers /\ Increment(NetworkTime(n)) = NetworkTime(After(n))
<1>1. PICK m \in Multis, f \in Frames, s \in Slots : n = NumberAt(m, f, s)
  BY HasDigits
<1>2. /\ TimeSlots \in Nat \ {0} /\ FrameNumbers \in Nat \ {0} /\ MultiFrames \in Nat \ {0}
      /\ m \in Int /\ f \in Int /\ s \in Int
      /\ 0 \in Multis /\ 0 \in Frames /\ 0 \in Slots
  BY TimeAssumption DEF Multis, Frames, Slots
<1>. DEFINE total == TimeSlots * FrameNumbers * MultiFrames
<1>3. n \in Nat /\ NetworkTime(n) = TimeAt(m, f, s)
  BY <1>1, ThreeDigits
<1>4. total \in Nat \ {0}
  <2>1. total \in Int
    BY <1>2
  <2>. QED
    BY <1>3, <2>1 DEF Numbers
<1>5. ASSUME NEW k \in Numbers, n + 1 = k PROVE After(n) = k
  <2>1. k \in 0 .. total - 1
    BY DEF Numbers
  <2>2. (n + 1) % total = k
    <3>. HIDE DEF total
    <3>. QED
      BY <1>4, <1>5, <2>1
  <2>. QED
    BY <2>2 DEF After
<1>6. ASSUME NEW a \in Multis, NEW b \in Frames, NEW c \in Slots,
             n + 1 = NumberAt(a, b, c)
      PROVE  After(n) \in Numbers /\ NetworkTime(After(n)) = TimeAt(a, b, c)
  BY <1>5, <1>6, NumberBound, ThreeDigits
<1>7. CASE s + 1 < TimeSlots
  <2>1. s + 1 \in Slots
    BY <1>2, <1>7 DEF Slots
  <2>2. n + 1 = NumberAt(m, f, s + 1)
    <3>1. TimeSlots * (FrameNumbers * m + f) \in Int
      BY <1>2
    <3>. QED
      BY <1>1, <1>2, <3>1 DEF NumberAt
  <2>3. Increment(TimeAt(m, f, s)) = TimeAt(m, f, s + 1)
    BY <1>2, <1>7 DEF Increment, TimeAt
  <2>. QED
    BY <1>3, <1>6, <2>1, <2>2, <2>3
<1>8. CASE s + 1 = TimeSlots /\ f + 1 < FrameNumbers
  <2>1. f + 1 \in Frames
    BY <1>2, <1>8 DEF Frames
  <2>2. n + 1 = NumberAt(m, f + 1, 0)
    <3>. DEFINE q == FrameNumbers * m + f
    <3>1. q \in Int /\ FrameNumbers * m + (f + 1) = q + 1
      <4>1. FrameNumbers * m \in Int
        BY <1>2
      <4>. QED
        BY <1>2, <4>1
    <3>. HIDE DEF q
    <3>2. TimeSlots * (q + 1) = TimeSlots * q + TimeSlots
      BY <1>2, <3>1
    <3>3. TimeSlots * q \in Int
      BY <1>2, <3>1
    <3>4. n = TimeSlots * q + s
      BY <1>1 DEF NumberAt, q
    <3>. QED
      BY <1>2, <1>8, <3>1, <3>2, <3>3, <3>4 DEF NumberAt
  <2>3. Increment(TimeAt(m, f, s)) = TimeAt(m, f + 1, 0)
    BY <1>2, <1>8 DEF Increment, TimeAt
  <2>. QED
    BY <1>2, <1>3, <1>6, <2>1, <2>2, <2>3
<1>9. CASE s + 1 = TimeSlots /\ f + 1 = FrameNumbers
  <2>1. n + 1 = TimeSlots * (FrameNumbers * (m + 1))
    <3>. DEFINE q == FrameNumbers * m + f
    <3>1. q \in Int /\ FrameNumbers * (m + 1) = q + 1
      <4>1. FrameNumbers * m \in Int /\ FrameNumbers * (m + 1) = FrameNumbers * m + FrameNumbers
        BY <1>2
      <4>. QED
        BY <1>2, <1>9, <4>1
    <3>. HIDE DEF q
    <3>2. TimeSlots * (q + 1) = TimeSlots * q + TimeSlots /\ TimeSlots * q \in Int
      BY <1>2, <3>1
    <3>3. n = TimeSlots * q + s
      BY <1>1 DEF NumberAt, q
    <3>. QED
      BY <1>2, <1>9, <3>1, <3>2, <3>3
  <2>2. CASE m + 1 < MultiFrames
    <3>1. m + 1 \in Multis
      BY <1>2, <2>2 DEF Multis
    <3>2. n + 1 = NumberAt(m + 1, 0, 0)
      <4>1. FrameNumbers * (m + 1) \in Int /\ TimeSlots * (FrameNumbers * (m + 1)) \in Int
        BY <1>2
      <4>. QED
        BY <2>1, <4>1 DEF NumberAt
    <3>3. Increment(TimeAt(m, f, s)) = TimeAt(m + 1, 0, 0)
      BY <1>2, <1>9, <2>2 DEF Increment, TimeAt
    <3>. QED
      BY <1>2, <1>3, <1>6, <3>1, <3>2, <3>3
  <2>3. CASE m + 1 = MultiFrames
    <3>1. n + 1 = total
      BY <1>2, <2>1, <2>3
    <3>2. After(n) = 0
      <4>1. (n + 1) % total = 0
        <5>. HIDE DEF total
        <5>1. n + 1 = total * 1 + 0 /\ 0 \in 0 .. total - 1
          BY <1>3, <1>4, <3>1
        <5>. QED
          BY <1>4, <5>1, Digits
      <4>. QED
        BY <4>1 DEF After
    <3>3. 0 = NumberAt(0, 0, 0)
      BY <1>2 DEF NumberAt
    <3>4. Increment(TimeAt(m, f, s)) = TimeAt(0, 0, 0)
      BY <1>2, <1>9, <2>3 DEF Increment, TimeAt
    <3>. QED
      BY <1>2, <1>3, <3>2, <3>3, <3>4, NumberBound, ThreeDigits
  <2>. QED
    BY <1>2, <2>2, <2>3 DEF Multis
<1>. QED
  BY <1>2, <1>7, <1>8, <1>9 DEF Slots, Frames

LEMMA NetworkTimeTyped == \A n \in Numbers : NetworkTime(n) \in Time
<1>. SUFFICES ASSUME NEW n \in Numbers PROVE NetworkTime(n) \in Time
  OBVIOUS
<1>1. PICK m \in Multis, f \in Frames, s \in Slots : n = NumberAt(m, f, s)
  BY HasDigits
<1>2. NetworkTime(n) = TimeAt(m, f, s)
  BY <1>1, ThreeDigits
<1>. QED
  BY <1>2, TimeAssumption DEF TimeAt, Time, Multis, Frames, Slots

LEMMA IncrementTyped == \A t \in Time : Increment(t) \in Time
BY TimeAssumption DEF Time, Increment

LEMMA FirstTimeTyped == FirstTime \in Time /\ 0 \in Numbers
<1>1. FirstTime \in Time
  BY TimeAssumption DEF FirstTime, Time
<1>2. 0 = NumberAt(0, 0, 0) /\ 0 \in Multis /\ 0 \in Frames /\ 0 \in Slots
  BY TimeAssumption DEF NumberAt, Multis, Frames, Slots
<1>. QED
  BY <1>1, <1>2, NumberBound

-----------------------------------------------------------------------------
(* The inductive invariant.                                                *)

Busy(t) == pc[t] # "idle"

\* What was received or injected stays, and is there before anything is decoded.
CodeKept ==
    /\ engaged => code # NoCode
    /\ \A t \in Threads : pc[t] = "channels" => code # NoCode
    /\ known => engaged /\ ~Uplink

\* Without overlap, at most one worker is in process().
OneBusy == ~overlapped => \A t, u \in Threads : Busy(t) /\ Busy(u) => t = u

\* The worker that has the last burst on the air.
LatestIsLast == \A t \in latest : Busy(t) /\ \A b \in burst[t] : next = After(b.number)

\* How far the time has been counted, at each place in process().
InStep(t, b) ==
    /\ next = After(b.number)
    /\ pc[t] \in {"begin", "read"} => Increment(time) = NetworkTime(b.number)
    /\ pc[t] = "write" => Increment(read[t]) = NetworkTime(b.number)
    /\ pc[t] \in {"check", "channels"} => time = NetworkTime(b.number)

TimeCounted ==
    known /\ ~overlapped =>
        /\ (\A t \in Threads : ~Busy(t)) => Increment(time) = NetworkTime(next)
        /\ \A t \in Threads : \A b \in burst[t] : InStep(t, b)

IInv == TypeOK /\ CodeKept /\ OneBusy /\ LatestIsLast /\ TimeCounted

LEMMA InitIInv == Init => IInv
<1>. SUFFICES ASSUME Init PROVE IInv
  OBVIOUS
<1>1. TypeOK
  BY FirstTimeTyped, CodeAssumption DEF Init, TypeOK, Uplink
<1>2. CodeKept /\ OneBusy /\ LatestIsLast /\ TimeCounted
  BY CodeAssumption DEF Init, CodeKept, OneBusy, LatestIsLast, TimeCounted, Busy, Uplink
<1>. QED
  BY <1>1, <1>2 DEF IInv

\* What a worker and its burst look like.
LEMMA BurstOf ==
    ASSUME TypeOK, NEW t \in Threads, pc[t] # "idle"
    PROVE  \E b \in Burst : burst[t] = {b}
BY DEF TypeOK

LEMMA BurstKept == code' = code => Burst' = Burst
BY DEF Burst, Kinds, Uplink, Numbers

LEMMA LosePreserves == IInv /\ Lose => IInv'
<1>. SUFFICES ASSUME IInv, Lose PROVE IInv'
  OBVIOUS
<1>1. TypeOK'
  <2>1. next' \in Numbers
    BY IncrementFollows DEF IInv, TypeOK, Lose
  <2>2. Burst' = Burst
    BY BurstKept DEF Lose, sync_
  <2>. QED
    BY <2>1, <2>2 DEF IInv, TypeOK, Lose, sync_
<1>2. CodeKept' /\ OneBusy' /\ LatestIsLast' /\ TimeCounted'
  BY DEF IInv, CodeKept, OneBusy, LatestIsLast, TimeCounted, Busy, Uplink, Lose, sync_
<1>. QED
  BY <1>1, <1>2 DEF IInv

LEMMA BeginPreserves ==
    ASSUME IInv, NEW t \in Threads, NEW kind \in Kinds, Begin(t, kind)
    PROVE  IInv'
<1>. DEFINE new == [number |-> next, kind |-> kind, counted |-> known]
<1>1. /\ next \in Numbers /\ next' = After(next) /\ next' \in Numbers
      /\ Increment(NetworkTime(next)) = NetworkTime(next')
  BY IncrementFollows DEF IInv, TypeOK, Begin
<1>2. Burst' = Burst /\ new \in Burst
  BY <1>1, BurstKept DEF Begin, sync_, Burst, IInv, TypeOK
<1>3. burst'[t] = {new} /\ pc'[t] = "begin"
  BY DEF Begin, IInv, TypeOK
<1>4. \A u \in Threads \ {t} : burst'[u] = burst[u] /\ pc'[u] = pc[u]
  BY DEF Begin, IInv, TypeOK
<1>5. TypeOK'
  <2>1. burst' \in [Threads -> SUBSET Burst]
    BY <1>2 DEF Begin, IInv, TypeOK
  <2>2. pc' \in [Threads -> {"idle", "begin", "read", "write", "sync", "check", "channels"}]
    BY DEF Begin, IInv, TypeOK
  <2>3. \A u \in Threads : IF pc'[u] = "idle" THEN burst'[u] = {}
                           ELSE \E b \in Burst : burst'[u] = {b}
    BY <1>2, <1>3, <1>4 DEF IInv, TypeOK
  <2>. QED
    BY <1>1, <1>2, <2>1, <2>2, <2>3 DEF Begin, sync_, IInv, TypeOK
<1>6. CodeKept'
  BY <1>3, <1>4 DEF IInv, CodeKept, Uplink, Begin, sync_
<1>7. OneBusy'
  BY <1>3, <1>4 DEF IInv, OneBusy, Busy, Begin, Alone
<1>8. LatestIsLast'
  BY <1>1, <1>3 DEF LatestIsLast, Busy, Begin
<1>9. TimeCounted'
  <2>1. SUFFICES ASSUME known, ~overlapped'
                 PROVE  \A u \in Threads : \A b \in burst'[u] : InStep(u, b)'
    BY <1>3 DEF TimeCounted, Busy, Begin
  <2>2. ~overlapped /\ \A u \in Threads \ {t} : pc[u] = "idle"
    BY <2>1 DEF Begin, Alone
  <2>3. Increment(time) = NetworkTime(next)
    BY <2>1, <2>2 DEF IInv, TimeCounted, Busy, Begin
  <2>4. \A b \in burst'[t] : InStep(t, b)'
    BY <1>1, <1>3, <2>3 DEF InStep, Begin, sync_
  <2>5. \A u \in Threads \ {t} : burst'[u] = {}
    BY <1>4, <2>2 DEF IInv, TypeOK
  <2>. QED
    BY <2>4, <2>5
<1>. QED
  BY <1>5, <1>6, <1>7, <1>8, <1>9 DEF IInv

\* A step inside process() that leaves the synchronisation's flag and code, the
\* bursts and the air alone; what is left to show is how far the time has come.
LEMMA InsidePreserves ==
    ASSUME IInv, NEW t \in Threads, pc[t] # "idle",
           NEW l \in {"begin", "read", "write", "sync", "check", "channels"}, Goto(t, l),
           UNCHANGED <<engaged, code, burst, histories>>,
           l = "channels" => engaged,
           time' \in Time, read' \in [Threads -> Time],
           \A b \in burst[t] : known /\ ~overlapped /\ InStep(t, b) => InStep(t, b)'
    PROVE  IInv'
<1>1. pc'[t] = l /\ \A u \in Threads \ {t} : pc'[u] = pc[u]
  BY DEF Goto, IInv, TypeOK
<1>2. TypeOK'
  <2>1. Burst' = Burst
    BY BurstKept
  <2>2. pc' \in [Threads -> {"idle", "begin", "read", "write", "sync", "check", "channels"}]
    BY DEF Goto, IInv, TypeOK
  <2>3. \A u \in Threads : pc'[u] = "idle" <=> pc[u] = "idle"
    BY <1>1
  <2>. QED
    BY <2>1, <2>2, <2>3 DEF IInv, TypeOK, histories
<1>3. CodeKept'
  BY <1>1 DEF IInv, CodeKept, Uplink, histories
<1>4. OneBusy'
  BY <1>1 DEF IInv, OneBusy, Busy, histories
<1>5. LatestIsLast'
  BY <1>1 DEF IInv, TypeOK, LatestIsLast, Busy, histories
<1>6. TimeCounted'
  <2>1. SUFFICES ASSUME known, ~overlapped
                 PROVE  \A u \in Threads : \A b \in burst[u] : InStep(u, b)'
    BY <1>1 DEF TimeCounted, Busy, histories
  <2>2. \A b \in burst[t] : InStep(t, b)'
    BY <2>1 DEF IInv, TimeCounted
  <2>3. \A u \in Threads \ {t} : burst[u] = {}
    BY <2>1 DEF IInv, OneBusy, Busy, TypeOK
  <2>. QED
    BY <2>2, <2>3
<1>. QED
  BY <1>2, <1>3, <1>4, <1>5, <1>6 DEF IInv

\* The places to which a worker may go are not "idle".
LEMMA InsideProcess == \A t \in Threads : AfterTime(t) \in {"sync", "check"}
BY DEF AfterTime

LEMMA CheckTimePreserves == ASSUME IInv, NEW t \in Threads, CheckTime(t) PROVE IInv'
<1>. DEFINE l == IF engaged /\ ~Uplink THEN "read" ELSE AfterTime(t)
<1>1. /\ pc[t] = "begin" /\ l \in {"read", "sync", "check"} /\ Goto(t, l)
      /\ UNCHANGED <<engaged, time, code, burst, read, histories>>
  BY InsideProcess DEF CheckTime, sync_
<1>2. pc'[t] = l
  BY <1>1 DEF Goto, IInv, TypeOK
<1>3. known => l = "read"
  BY DEF IInv, CodeKept
<1>. HIDE DEF l
<1>4. \A b \in burst[t] : known /\ ~overlapped /\ InStep(t, b) => InStep(t, b)'
  BY <1>1, <1>2, <1>3 DEF InStep, histories
<1>. QED
  BY <1>1, <1>4, InsidePreserves DEF IInv, TypeOK

LEMMA ReadTimePreserves == ASSUME IInv, NEW t \in Threads, ReadTime(t) PROVE IInv'
<1>1. /\ pc[t] = "read" /\ Goto(t, "write")
      /\ UNCHANGED <<engaged, time, code, burst, histories>>
  BY DEF ReadTime, sync_
<1>2. pc'[t] = "write" /\ read'[t] = time /\ read' \in [Threads -> Time]
  BY DEF ReadTime, Goto, IInv, TypeOK
<1>3. \A b \in burst[t] : known /\ ~overlapped /\ InStep(t, b) => InStep(t, b)'
  BY <1>1, <1>2 DEF InStep, histories
<1>. QED
  BY <1>1, <1>2, <1>3, InsidePreserves DEF IInv, TypeOK

LEMMA WriteTimePreserves == ASSUME IInv, NEW t \in Threads, WriteTime(t) PROVE IInv'
<1>1. /\ pc[t] = "write" /\ AfterTime(t) \in {"sync", "check"} /\ Goto(t, AfterTime(t))
      /\ UNCHANGED <<engaged, code, burst, histories>> /\ time' = Increment(read[t])
  BY InsideProcess DEF WriteTime
<1>2. time' \in Time /\ read' \in [Threads -> Time]
  BY <1>1, IncrementTyped, FirstTimeTyped DEF WriteTime, IInv, TypeOK
<1>3. pc'[t] = AfterTime(t)
  BY <1>1 DEF Goto, IInv, TypeOK
<1>4. \A b \in burst[t] : known /\ ~overlapped /\ InStep(t, b) => InStep(t, b)'
  BY <1>1, <1>3 DEF InStep, histories
<1>. QED
  BY <1>1, <1>2, <1>4, InsidePreserves

LEMMA EnterPreserves == ASSUME IInv, NEW t \in Threads, Enter(t) PROVE IInv'
<1>1. /\ pc[t] = "check" /\ engaged /\ Goto(t, "channels")
      /\ UNCHANGED <<engaged, time, code, burst, read, histories>>
  BY DEF Enter, sync_
<1>2. pc'[t] = "channels"
  BY <1>1 DEF Goto, IInv, TypeOK
<1>3. \A b \in burst[t] : known /\ ~overlapped /\ InStep(t, b) => InStep(t, b)'
  BY <1>1, <1>2 DEF InStep, histories
<1>. QED
  BY <1>1, <1>3, InsidePreserves DEF IInv, TypeOK

LEMMA SynchronizePreserves ==
    ASSUME IInv, NEW t \in Threads, Synchronize(t)
    PROVE  IInv'
<1>1. PICK b \in burst[t] :
         /\ engaged' = (b.kind = "sync")
         /\ IF b.kind = "sync" THEN time' = NetworkTime(b.number) /\ code' = Cell
                               ELSE UNCHANGED <<time, code>>
         /\ Known(t, b.kind = "sync")
  BY DEF Synchronize
<1>2. pc[t] = "sync" /\ Goto(t, "check") /\ read' = read
  BY DEF Synchronize
<1>3. b \in Burst /\ burst[t] = {b}
  BY <1>1, <1>2 DEF IInv, TypeOK
<1>4. pc'[t] = "check" /\ \A u \in Threads \ {t} : pc'[u] = pc[u]
  BY <1>2 DEF Goto, IInv, TypeOK
<1>5. burst'[t] = {[b EXCEPT !.counted = known']} /\ \A u \in Threads \ {t} : burst'[u] = burst[u]
  BY <1>1, <1>3 DEF Known, IInv, TypeOK
<1>6. Burst' = Burst /\ (Uplink' <=> Uplink) /\ (b.kind = "sync" => ~Uplink)
  BY <1>1, <1>3, CodeAssumption DEF Burst, Kinds, Uplink, Numbers
<1>7. known' \in BOOLEAN /\ [b EXCEPT !.counted = known'] \in Burst
  <2>1. known' \in BOOLEAN
    BY <1>1 DEF Known
  <2>. QED
    BY <2>1, <1>3 DEF Burst
<1>8. TypeOK'
  <2>1. burst' \in [Threads -> SUBSET Burst]
    BY <1>1, <1>3, <1>7 DEF Known, IInv, TypeOK
  <2>2. pc' \in [Threads -> {"idle", "begin", "read", "write", "sync", "check", "channels"}]
    BY <1>2 DEF Goto, IInv, TypeOK
  <2>3. \A u \in Threads : IF pc'[u] = "idle" THEN burst'[u] = {}
                           ELSE \E c \in Burst : burst'[u] = {c}
    BY <1>4, <1>5, <1>7 DEF IInv, TypeOK
  <2>4. time' \in Time /\ code' \in {Cell, Injected, NoCode}
    BY <1>1, <1>3, NetworkTimeTyped DEF IInv, TypeOK, Burst
  <2>5. engaged' \in BOOLEAN /\ overlapped' \in BOOLEAN /\ next' \in Numbers /\ latest' \subseteq Threads
    BY <1>1 DEF Known, IInv, TypeOK
  <2>. QED
    BY <1>2, <1>6, <1>7, <2>1, <2>2, <2>3, <2>4, <2>5 DEF IInv, TypeOK
<1>9. CodeKept'
  <2>1. code' # NoCode \/ code' = code
    BY <1>1, CodeAssumption
  <2>2. engaged' => code' # NoCode
    BY <1>1, CodeAssumption
  <2>3. \A u \in Threads : pc'[u] = "channels" => code' # NoCode
    BY <1>4, <2>1 DEF IInv, CodeKept
  <2>4. known' => engaged' /\ ~Uplink'
    BY <1>1, <1>6 DEF Known
  <2>. QED
    BY <2>2, <2>3, <2>4 DEF CodeKept
<1>10. ~overlapped' => \A u \in Threads : u # t => ~Busy(u)'
  <2>1. CASE Alone(t)
    BY <1>4, <2>1 DEF Alone, Busy
  <2>2. CASE ~overlapped
    BY <1>2, <1>4, <2>2 DEF IInv, OneBusy, Busy
  <2>. QED
    BY <1>1, <2>1, <2>2 DEF Known
<1>11. OneBusy'
  BY <1>10 DEF OneBusy
<1>12. LatestIsLast'
  <2>1. latest' = latest /\ next' = next /\ latest \subseteq Threads
    BY <1>1 DEF Known, IInv, TypeOK
  <2>2. ASSUME t \in latest PROVE \A c \in burst'[t] : next' = After(c.number)
    BY <1>3, <1>5, <2>1, <2>2 DEF IInv, LatestIsLast, Burst
  <2>. QED
    BY <1>4, <1>5, <2>1, <2>2 DEF IInv, LatestIsLast, Busy
<1>13. TimeCounted'
  <2>1. SUFFICES ASSUME known', ~overlapped'
                 PROVE  \A u \in Threads : \A c \in burst'[u] : InStep(u, c)'
    BY <1>4 DEF TimeCounted, Busy
  <2>2. b.kind = "sync" /\ latest = {t} /\ time' = NetworkTime(b.number) /\ next' = next
    BY <1>1, <2>1 DEF Known
  <2>3. next = After(b.number)
    BY <1>3, <2>2 DEF IInv, LatestIsLast
  <2>4. \A c \in burst'[t] : c.number = b.number
    BY <1>3, <1>5 DEF Burst
  <2>5. \A c \in burst'[t] : InStep(t, c)'
    BY <1>4, <2>2, <2>3, <2>4 DEF InStep
  <2>6. \A u \in Threads \ {t} : burst'[u] = {}
    BY <1>8, <1>10, <2>1 DEF Busy, TypeOK
  <2>. QED
    BY <2>5, <2>6
<1>. QED
  BY <1>8, <1>9, <1>11, <1>12, <1>13 DEF IInv

LEMMA ReturnPreserves ==
    ASSUME IInv, NEW t \in Threads, pc[t] \in {"check", "channels"}, Return(t)
    PROVE  IInv'
<1>1. /\ pc'[t] = "idle" /\ burst'[t] = {}
      /\ \A u \in Threads \ {t} : pc'[u] = pc[u] /\ burst'[u] = burst[u]
      /\ UNCHANGED <<engaged, time, code, read, next, known, overlapped>>
      /\ latest' = latest \ {t}
  BY DEF Return, Goto, IInv, TypeOK, sync_
<1>2. TypeOK'
  <2>1. Burst' = Burst
    BY <1>1, BurstKept
  <2>2. burst' \in [Threads -> SUBSET Burst]
    BY DEF Return, IInv, TypeOK
  <2>3. pc' \in [Threads -> {"idle", "begin", "read", "write", "sync", "check", "channels"}]
    BY DEF Return, Goto, IInv, TypeOK
  <2>4. \A u \in Threads : IF pc'[u] = "idle" THEN burst'[u] = {}
                           ELSE \E c \in Burst : burst'[u] = {c}
    BY <1>1 DEF IInv, TypeOK
  <2>. QED
    BY <1>1, <2>1, <2>2, <2>3, <2>4 DEF IInv, TypeOK
<1>3. CodeKept'
  BY <1>1 DEF IInv, CodeKept, Uplink
<1>4. OneBusy'
  BY <1>1 DEF IInv, OneBusy, Busy
<1>5. LatestIsLast'
  BY <1>1 DEF IInv, TypeOK, LatestIsLast, Busy
<1>6. TimeCounted'
  <2>1. SUFFICES ASSUME known, ~overlapped
                 PROVE  /\ Increment(time) = NetworkTime(next)
                        /\ \A u \in Threads : burst'[u] = {}
    BY <1>1 DEF TimeCounted
  <2>2. \A u \in Threads : burst'[u] = {}
    BY <1>1, <2>1 DEF IInv, OneBusy, Busy, TypeOK
  <2>3. PICK b \in Burst : burst[t] = {b}
    BY DEF IInv, TypeOK
  <2>4. next = After(b.number) /\ time = NetworkTime(b.number)
    BY <2>1, <2>3 DEF IInv, TimeCounted, InStep
  <2>5. b.number \in Numbers
    BY DEF Burst
  <2>. QED
    BY <2>2, <2>4, <2>5, IncrementFollows
<1>. QED
  BY <1>2, <1>3, <1>4, <1>5, <1>6 DEF IInv

LEMMA NextPreserves == IInv /\ [Next]_vars => IInv'
<1>. SUFFICES ASSUME IInv, [Next]_vars PROVE IInv'
  OBVIOUS
<1>1. CASE Lose
  BY <1>1, LosePreserves
<1>2. ASSUME NEW t \in Threads, Worker(t) PROVE IInv'
  <2>1. ASSUME NEW kind \in Kinds, Begin(t, kind) PROVE IInv'
    BY <2>1, BeginPreserves
  <2>2. CASE CheckTime(t)
    BY <2>2, CheckTimePreserves
  <2>3. CASE ReadTime(t)
    BY <2>3, ReadTimePreserves
  <2>4. CASE WriteTime(t)
    BY <2>4, WriteTimePreserves
  <2>5. CASE Synchronize(t)
    BY <2>5, SynchronizePreserves
  <2>6. CASE Drop(t)
    BY <2>6, ReturnPreserves DEF Drop
  <2>7. CASE Enter(t)
    BY <2>7, EnterPreserves
  <2>8. CASE Channels(t)
    BY <2>8, ReturnPreserves DEF Channels
  <2>. QED
    BY <1>2, <2>1, <2>2, <2>3, <2>4, <2>5, <2>6, <2>7, <2>8 DEF Worker
<1>3. CASE UNCHANGED vars
  <2>1. UNCHANGED <<engaged, time, code, pc, burst, read, next, latest, known, overlapped>>
    BY <1>3 DEF vars, sync_, histories
  <2>2. Burst' = Burst
    BY <2>1, BurstKept
  <2>3. TypeOK'
    BY <2>1, <2>2 DEF IInv, TypeOK
  <2>4. CodeKept' /\ OneBusy' /\ LatestIsLast' /\ TimeCounted'
    BY <2>1 DEF IInv, CodeKept, OneBusy, LatestIsLast, TimeCounted, InStep, Busy, Uplink
  <2>. QED
    BY <2>3, <2>4 DEF IInv
<1>. QED
  BY <1>1, <1>2, <1>3 DEF Next

-----------------------------------------------------------------------------
(* The theorems.                                                           *)

\* The conjunction from which the theorems follow is an invariant.
THEOREM Invariance == Spec => []IInv
BY InitIInv, NextPreserves, PTL DEF Spec

\* However many workers share sync_, its time stays one the network can have and
\* a worker inside process() has its burst.
THEOREM TypeCorrect == Spec => []TypeOK
<1>1. IInv => TypeOK
  BY DEF IInv
<1>. QED
  BY <1>1, Invariance, PTL

\* No worker ever descrambles a burst with a code that was neither received nor
\* injected, for any number of workers.
THEOREM CodeIsKnownCorrect == Spec => []CodeIsKnown
<1>1. IInv => CodeIsKnown
  BY DEF IInv, CodeKept, CodeIsKnown
<1>. QED
  BY <1>1, Invariance, PTL

\* While bursts are processed one at a time and none is lost, each is decoded with
\* its own time, for every number of slots, frames and multi-frames.
THEOREM TimeIsExactCorrect == Spec => []TimeIsExact
<1>1. IInv => TimeIsExact
  BY DEF IInv, TimeCounted, InStep, TimeIsExact, Counted, Exact
<1>. QED
  BY <1>1, Invariance, PTL

=============================================================================
