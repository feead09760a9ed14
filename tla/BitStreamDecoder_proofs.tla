------------------------ MODULE BitStreamDecoder_proofs ------------------------
(***************************************************************************)
(* Proofs about BitStreamDecoder, for every length of a frame, every       *)
(* number of missing frames and whatever the bits match; and, in the last  *)
(* part, about DownlinkSignal, for every signal of downlink bursts.        *)
(***************************************************************************)
EXTENDS DownlinkSignal, TLAPS

\* While synchronised, every bit is paid for: the counter has come down by one
\* for at least every other bit since the burst was found, but for those that
\* fill the frame.  The rest modulo FrameLen says how far the frame has slid
\* since it was full, which is what the bits of the next filling are paid with.
Paid ==
    is_synchronized_ =>
        /\ ~is_uplink_
        /\ since_found <= 2 * (SyncBits - 1 - sync_bit_counter_)
                          - (FrameLen - 1 - (sync_bit_counter_ % FrameLen)) + frame_

\* The bits in the frame have come since the last burst was queued, but for
\* what a control burst leaves.
Fresh ==
    IF is_uplink_
    THEN queued = "ControlUplinkBurst" => frame_ + ControlLen <= since_queued + FrameLen
    ELSE frame_ <= since_queued

IInv == TypeOK /\ CounterInRange /\ Paid /\ Fresh

-----------------------------------------------------------------------------
(* Arithmetic.                                                             *)

LEMMA ModOfSum ==
  \A m \in Nat \ {0}, q \in Int : \A r \in 0 .. m - 1 : (m * q + r) % m = r
BY SMT

LEMMA DivMod ==
  \A m \in Nat \ {0}, n \in Int :
     n = m * (n \div m) + (n % m) /\ n \div m \in Int /\ n % m \in 0 .. m - 1
BY SMT

LEMMA ModOfPredecessor ==
  ASSUME NEW m \in Nat \ {0}, NEW n \in Int
  PROVE  (n - 1) % m = IF n % m = 0 THEN m - 1 ELSE (n % m) - 1
<1> DEFINE q == n \div m
           r == n % m
<1>1. n = m * q + r /\ q \in Int /\ r \in 0 .. m - 1
  BY DivMod
<1> HIDE DEF q, r
<1>2. CASE r = 0
  <2>1. n - 1 = m * (q - 1) + (m - 1)
    BY <1>1, <1>2
  <2>2. (m * (q - 1) + (m - 1)) % m = m - 1
    BY <1>1, ModOfSum
  <2>. QED
    BY <2>1, <2>2, <1>2 DEF r
<1>3. CASE r # 0
  <2>1. n - 1 = m * q + (r - 1)
    BY <1>1
  <2>2. (m * q + (r - 1)) % m = r - 1
    BY <1>1, <1>3, ModOfSum
  <2>. QED
    BY <2>1, <2>2, <1>3 DEF r
<1>. QED
  BY <1>2, <1>3

LEMMA ModSmall == \A m \in Nat \ {0} : \A n \in 0 .. m - 1 : n % m = n
BY SMT

LEMMA Times ==
  \A m \in Nat \ {0}, n \in Nat \ {0} : m * n \in Nat /\ m * n >= m /\ (m * n) % m = 0
BY SMT

\* A synchroniser that has just been reset, and counted the bit.
LEMMA SyncBitsFacts ==
  /\ SyncBits \in Nat /\ SyncBits >= FrameLen
  /\ CounterMod \in Nat /\ SyncBits < CounterMod
  /\ HeldLimit \in Nat /\ HeldLimit = 2 * SyncBits
  /\ (SyncBits - 1) % FrameLen = FrameLen - 1
<1>1. SyncBits \in Nat /\ SyncBits >= FrameLen /\ SyncBits % FrameLen = 0
  BY Times, FrameLenAssumption, MissingFramesAssumption DEF SyncBits
<1>2. CounterMod \in Nat /\ SyncBits < CounterMod
  BY CounterModAssumption DEF SyncBits
<1>3. (SyncBits - 1) % FrameLen = FrameLen - 1
  <2>1. FrameLen \in Nat \ {0} /\ SyncBits \in Int
    BY <1>1, FrameLenAssumption
  <2>. QED
    BY <1>1, <2>1, ModOfPredecessor
<1>. QED
  BY <1>1, <1>2, <1>3 DEF HeldLimit

LEMMA CounterRest ==
  ASSUME TypeOK
  PROVE  /\ sync_bit_counter_ % FrameLen \in 0 .. FrameLen - 1
         /\ (sync_bit_counter_ - 1) % FrameLen =
               IF sync_bit_counter_ % FrameLen = 0 THEN FrameLen - 1
                                                   ELSE (sync_bit_counter_ % FrameLen) - 1
<1>1. sync_bit_counter_ \in Int /\ FrameLen \in Nat \ {0}
  BY FrameLenAssumption, SyncBitsFacts DEF TypeOK
<1>. QED
  BY <1>1, DivMod, ModOfPredecessor

LEMMA ElapsedType ==
  ASSUME NEW limit \in Nat, NEW n \in 0 .. limit
  PROVE  Elapsed(n, limit) \in 0 .. limit /\ Elapsed(n, limit) <= n + 1
BY DEF Elapsed

-----------------------------------------------------------------------------
(* What the helpers do.                                                    *)

LEMMA CountdownFacts ==
  ASSUME NEW n \in 0 .. CounterMod - 1, NEW s \in BOOLEAN, Countdown(n, s)
  PROVE  /\ sync_bit_counter_' \in 0 .. CounterMod - 1
         /\ is_synchronized_' \in BOOLEAN
         /\ n > 0 => sync_bit_counter_' = n - 1
         /\ is_synchronized_' => s /\ sync_bit_counter_' > 0
<1>1. CounterMod \in Nat \ {0}
  BY SyncBitsFacts, CounterModAssumption
<1>2. (n - 1) % CounterMod \in 0 .. CounterMod - 1
  BY <1>1, DivMod
<1>3. n > 0 => (n - 1) % CounterMod = n - 1
  BY <1>1, ModSmall
<1>. QED
  BY <1>2, <1>3 DEF Countdown

LEMMA QueueFacts ==
  ASSUME TypeOK, NEW burst, Queue(burst)
  PROVE  /\ since_queued' \in 0 .. FrameLen
         /\ queued' \in {queued, burst}
         /\ burst = "none" => NotQueued
         /\ burst # "none" => queued' = burst /\ since_queued' = 0
<1>1. Elapsed(since_queued, FrameLen) \in 0 .. FrameLen
  BY ElapsedType, FrameLenAssumption DEF TypeOK
<1>. QED
  BY <1>1, FrameLenAssumption DEF Queue, NotQueued

LEMMA NotQueuedFacts ==
  ASSUME TypeOK, NotQueued
  PROVE  /\ since_queued' \in 1 .. FrameLen
         /\ since_queued' = IF since_queued < FrameLen THEN since_queued + 1 ELSE FrameLen
         /\ queued' = queued
BY FrameLenAssumption DEF TypeOK, NotQueued, Elapsed

LEMMA BurstTypes ==
  /\ \A sb, ndb, split : DownlinkBurst(sb, ndb, split) \in {"none"} \cup DownlinkBursts
  /\ \A ssn, nub, split : UplinkBurst(ssn, nub, split) \in UplinkBursts
BY DEF DownlinkBurst, UplinkBurst, DownlinkBursts, UplinkBursts

-----------------------------------------------------------------------------
(* The invariant.                                                          *)

LEMMA InitEstablishes == Init => IInv
<1> SUFFICES ASSUME Init PROVE IInv
  OBVIOUS
<1>1. TypeOK
  <2>1. 0 \in 0 .. FrameLen - 1 /\ 0 \in 0 .. CounterMod - 1
    BY SyncBitsFacts, FrameLenAssumption
  <2>2. HeldLimit \in 0 .. HeldLimit /\ FrameLen \in 0 .. FrameLen
    BY SyncBitsFacts, FrameLenAssumption
  <2>. QED
    BY <2>1, <2>2 DEF Init, TypeOK
<1>2. CounterInRange /\ Paid
  BY DEF Init, CounterInRange, Paid
<1>3. Fresh
  BY FrameLenAssumption DEF Init, Fresh
<1>. QED
  BY <1>1, <1>2, <1>3 DEF IInv

LEMMA FillPreserves == ASSUME IInv, Fill PROVE IInv'
<1> USE DEF IInv
<1>1. since_found' \in 0 .. HeldLimit /\ since_found' <= since_found + 1
  BY ElapsedType, SyncBitsFacts DEF Fill, TypeOK
<1>2. TypeOK'
  BY <1>1, NotQueuedFacts, FrameLenAssumption DEF Fill, TypeOK
<1>3. CounterInRange'
  BY DEF Fill, CounterInRange
<1>4. Paid'
  <2>1. sync_bit_counter_ % FrameLen \in 0 .. FrameLen - 1
    BY CounterRest
  <2>. QED
    BY <1>1, <2>1, SyncBitsFacts, FrameLenAssumption DEF Fill, TypeOK, Paid
<1>5. Fresh'
  BY NotQueuedFacts, FrameLenAssumption, ControlLenAssumption DEF Fill, TypeOK, Fresh
<1>. QED
  BY <1>2, <1>3, <1>4, <1>5

LEMMA FilledFrame == ASSUME TypeOK, Filled PROVE frame_ = FrameLen - 1
BY FrameLenAssumption DEF TypeOK, Filled

LEMMA DownlinkFoundPreserves ==
  ASSUME IInv, NEW begin, NEW end, NEW sb, NEW ndb, NEW split,
         DownlinkFound(begin, end, sb, ndb, split)
  PROVE  IInv'
<1> DEFINE burst == DownlinkBurst(sb, ndb, split)
<1>1. Queue(burst) /\ burst \in {"none"} \cup DownlinkBursts
  BY BurstTypes DEF DownlinkFound
<1>2. SyncBits \in 0 .. CounterMod - 1 /\ SyncBits > 0
  BY SyncBitsFacts, FrameLenAssumption
<1>3. /\ sync_bit_counter_' = SyncBits - 1
      /\ sync_bit_counter_' \in 0 .. CounterMod - 1
      /\ is_synchronized_' \in BOOLEAN
  <2>1. Countdown(SyncBits, TRUE)
    BY DEF DownlinkFound
  <2>. QED
    BY <1>2, <2>1, CountdownFacts
<1>4. TypeOK'
  BY <1>1, <1>3, QueueFacts, SyncBitsFacts, FrameLenAssumption DEF IInv, DownlinkFound, TypeOK
<1>5. CounterInRange'
  BY <1>3, SyncBitsFacts, FrameLenAssumption DEF CounterInRange
<1>6. Paid'
  BY <1>3, SyncBitsFacts, FrameLenAssumption DEF Paid, DownlinkFound
<1>7. Fresh'
  BY <1>4 DEF TypeOK, Fresh, DownlinkFound
<1>. QED
  BY <1>4, <1>5, <1>6, <1>7 DEF IInv

\* The counter of a frame without a burst comes down by one, in either case.
LEMMA CountdownStep ==
  ASSUME IInv, Countdown(sync_bit_counter_, is_synchronized_)
  PROVE  /\ sync_bit_counter_' \in 0 .. CounterMod - 1
         /\ is_synchronized_' \in BOOLEAN
         /\ CounterInRange'
         /\ is_synchronized_' => is_synchronized_ /\ sync_bit_counter_' = sync_bit_counter_ - 1
<1>1. sync_bit_counter_ \in 0 .. CounterMod - 1 /\ is_synchronized_ \in BOOLEAN
  BY DEF IInv, TypeOK
<1>2. /\ sync_bit_counter_' \in 0 .. CounterMod - 1
      /\ is_synchronized_' \in BOOLEAN
      /\ sync_bit_counter_ > 0 => sync_bit_counter_' = sync_bit_counter_ - 1
      /\ is_synchronized_' => is_synchronized_ /\ sync_bit_counter_' > 0
  BY <1>1, CountdownFacts
<1>. QED
  BY <1>1, <1>2, SyncBitsFacts, CounterModAssumption DEF IInv, CounterInRange

LEMMA DownlinkMissingPreserves ==
  ASSUME IInv, NEW begin, NEW end, NEW sb, NEW ndb, NEW split,
         DownlinkMissing(begin, end, sb, ndb, split)
  PROVE  IInv'
<1> DEFINE burst == DownlinkBurst(sb, ndb, split)
<1>1. Queue(burst) /\ burst \in {"none"} \cup DownlinkBursts
  BY BurstTypes DEF DownlinkMissing
<1>2. since_found' \in 0 .. HeldLimit /\ since_found' <= since_found + 1
  BY ElapsedType, SyncBitsFacts DEF IInv, DownlinkMissing, TypeOK
<1>3. /\ sync_bit_counter_' \in 0 .. CounterMod - 1
      /\ is_synchronized_' \in BOOLEAN
      /\ CounterInRange'
      /\ is_synchronized_' => is_synchronized_ /\ sync_bit_counter_' = sync_bit_counter_ - 1
  BY CountdownStep DEF DownlinkMissing
<1>4. TypeOK'
  BY <1>1, <1>2, <1>3, QueueFacts, FrameLenAssumption DEF IInv, DownlinkMissing, TypeOK
<1>5. Paid'
  <2>1. is_synchronized_' => sync_bit_counter_' % FrameLen = FrameLen - 1
    BY <1>3, CounterRest DEF DownlinkMissing, Expected, IInv
  <2>2. frame_ = FrameLen - 1
    BY FilledFrame DEF IInv, DownlinkMissing
  <2> SUFFICES ASSUME is_synchronized_' PROVE Paid'
    BY DEF Paid
  <2>3. ~is_uplink_ /\ is_uplink_' = is_uplink_ /\ frame_' = 0 /\ sync_bit_counter_ % FrameLen = 0
    BY DEF DownlinkMissing, Expected
  <2>4. since_found <= 2 * (SyncBits - 1 - sync_bit_counter_) - (FrameLen - 1 - 0) + (FrameLen - 1)
    BY <1>3, <2>2, <2>3 DEF IInv, Paid
  <2>5. /\ since_found \in Nat /\ since_found' \in Nat /\ sync_bit_counter_ \in Nat
        /\ FrameLen \in Nat /\ SyncBits \in Nat
    BY <1>2, SyncBitsFacts, FrameLenAssumption DEF IInv, TypeOK
  <2>6. since_found' <= 2 * (SyncBits - 1 - (sync_bit_counter_ - 1))
                           - (FrameLen - 1 - (FrameLen - 1)) + 0
    BY <1>2, <2>4, <2>5
  <2>. QED
    BY <1>3, <2>1, <2>3, <2>6 DEF Paid
<1>6. Fresh'
  BY <1>4 DEF TypeOK, Fresh, DownlinkMissing
<1>. QED
  BY <1>3, <1>4, <1>5, <1>6 DEF IInv

LEMMA DownlinkSlidePreserves ==
  ASSUME IInv, NEW begin, NEW end, DownlinkSlide(begin, end)
  PROVE  IInv'
<1>2. since_found' \in 0 .. HeldLimit /\ since_found' <= since_found + 1
  BY ElapsedType, SyncBitsFacts DEF IInv, DownlinkSlide, TypeOK
<1>3. /\ sync_bit_counter_' \in 0 .. CounterMod - 1
      /\ is_synchronized_' \in BOOLEAN
      /\ CounterInRange'
      /\ is_synchronized_' => is_synchronized_ /\ sync_bit_counter_' = sync_bit_counter_ - 1
  BY CountdownStep DEF DownlinkSlide
<1>4. TypeOK'
  BY <1>2, <1>3, NotQueuedFacts, FrameLenAssumption DEF IInv, DownlinkSlide, TypeOK
<1>5. Paid'
  <2>1. is_synchronized_' =>
           /\ sync_bit_counter_ % FrameLen \in 0 .. FrameLen - 1
           /\ sync_bit_counter_' % FrameLen = (sync_bit_counter_ % FrameLen) - 1
    BY <1>3, CounterRest DEF DownlinkSlide, Expected, IInv
  <2>. QED
    BY <1>2, <1>3, <1>4, <2>1, SyncBitsFacts, FrameLenAssumption
       DEF IInv, DownlinkSlide, TypeOK, Paid
<1>6. Fresh'
  BY NotQueuedFacts, FilledFrame, FrameLenAssumption DEF IInv, TypeOK, Fresh, DownlinkSlide
<1>. QED
  BY <1>3, <1>4, <1>5, <1>6 DEF IInv

LEMMA UplinkPreserves ==
  ASSUME IInv, NEW ssn \in Scores, NEW nub \in Scores, NEW split \in Scores,
         Uplink(ssn, nub, split)
  PROVE  IInv'
<1> DEFINE burst == UplinkBurst(ssn, nub, split)
<1>1. /\ is_uplink_ /\ frame_ = FrameLen - 1 /\ UplinkUnchanged
      /\ since_found' = Elapsed(since_found, HeldLimit)
  BY FilledFrame DEF IInv, Uplink, UplinkControl, UplinkNormal, UplinkSlide
<1>2. since_found' \in 0 .. HeldLimit
  BY <1>1, ElapsedType, SyncBitsFacts DEF IInv, TypeOK
<1>3. CounterInRange' /\ Paid'
  BY <1>1 DEF IInv, CounterInRange, Paid, UplinkUnchanged
<1>4. burst \in UplinkBursts
  BY BurstTypes
<1>5. CASE UplinkControl(ssn, nub, split)
  <2>1. queued' = burst /\ since_queued' = 0
    BY <1>4, <1>5, QueueFacts DEF IInv, UplinkControl, UplinkBursts
  <2>2. frame_' = FrameLen - ControlLen
    BY <1>5 DEF UplinkControl
  <2>. QED
    BY <1>1, <1>2, <1>3, <1>4, <2>1, <2>2, FrameLenAssumption, ControlLenAssumption
       DEF IInv, TypeOK, Fresh, UplinkUnchanged
<1>6. CASE UplinkNormal(ssn, nub, split)
  <2>1. queued' = burst /\ since_queued' = 0
    BY <1>4, <1>6, QueueFacts DEF IInv, UplinkNormal, UplinkBursts
  <2>2. burst # "ControlUplinkBurst"
    BY <1>6, ScoresAssumption DEF UplinkNormal, UplinkBurst
  <2>3. frame_' = frame_
    BY <1>6 DEF UplinkNormal
  <2>. QED
    BY <1>1, <1>2, <1>3, <1>4, <2>1, <2>2, <2>3, FrameLenAssumption
       DEF IInv, TypeOK, Fresh, UplinkUnchanged
<1>7. CASE UplinkSlide(ssn, nub, split)
  <2>1. frame_' = frame_ /\ NotQueued
    BY <1>7 DEF UplinkSlide
  <2>. QED
    BY <1>1, <1>2, <1>3, <2>1, NotQueuedFacts, FrameLenAssumption, ControlLenAssumption
       DEF IInv, TypeOK, Fresh, UplinkUnchanged
<1>. QED
  BY <1>5, <1>6, <1>7 DEF Uplink

LEMMA StepPreserves == IInv /\ [Next]_vars => IInv'
<1> SUFFICES ASSUME IInv, [Next]_vars PROVE IInv'
  OBVIOUS
<1>1. CASE Fill
  BY <1>1, FillPreserves
<1>2. ASSUME NEW begin \in Scores, NEW end \in Scores,
             NEW sb \in Scores, NEW ndb \in Scores, NEW split \in Scores,
             Downlink(begin, end, sb, ndb, split)
      PROVE  IInv'
  BY <1>2, DownlinkFoundPreserves, DownlinkMissingPreserves, DownlinkSlidePreserves
     DEF Downlink
<1>3. ASSUME NEW ssn \in Scores, NEW nub \in Scores, NEW split \in Scores,
             Uplink(ssn, nub, split)
      PROVE  IInv'
  BY <1>3, UplinkPreserves
<1>4. CASE UNCHANGED vars
  BY <1>4 DEF vars, IInv, TypeOK, CounterInRange, Paid, Fresh
<1>. QED
  BY <1>1, <1>2, <1>3, <1>4 DEF Next

\* The invariant holds in every reachable state.
THEOREM Invariance == Spec => []IInv
BY InitEstablishes, StepPreserves, PTL DEF Spec

\* What was paid for bounds the synchronisation.
LEMMA IInvBoundsSync == IInv => SyncIsBounded
<1> SUFFICES ASSUME IInv, is_synchronized_ PROVE since_found < HeldLimit
  BY DEF SyncIsBounded
<1>1. sync_bit_counter_ % FrameLen \in 0 .. FrameLen - 1
  BY CounterRest DEF IInv
<1>. QED
  BY <1>1, SyncBitsFacts, FrameLenAssumption, CounterModAssumption
     DEF IInv, TypeOK, CounterInRange, Paid

-----------------------------------------------------------------------------
(* The properties.                                                         *)

\* On any signal the frame stays shorter than a burst between two calls of
\* process_bit(), and no burst of the wrong direction is queued.
THEOREM TypeCorrect == Spec => []TypeOK
BY Invariance, PTL DEF IInv

\* The unsigned counter is in its range whenever it is used.
THEOREM CounterCorrect == Spec => []CounterInRange
BY Invariance, PTL DEF IInv

\* Whatever the bits match, and wherever the frame is cleared on the way, the
\* synchronisation ends before twice the missing frames are over.
THEOREM SyncBounded == Spec => []SyncIsBounded
BY IInvBoundsSync, Invariance, PTL

\* No two bursts that are queued share a bit in the downlink, and in the uplink
\* none follows a control burst before ControlLen more bits.
THEOREM BurstsApartCorrect == Spec => BurstsApart
<1> DEFINE Apart ==
      since_queued' = 0 =>
          since_queued + 1 >= CASE ~is_uplink_ -> FrameLen
                                [] is_uplink_ /\ queued = "ControlUplinkBurst" -> ControlLen
                                [] OTHER -> 1
<1>1. IInv /\ [Next]_vars => [Apart]_vars
  <2> SUFFICES ASSUME IInv, Next, since_queued' = 0 PROVE Apart
    OBVIOUS
  <2>1. ~NotQueued
    BY NotQueuedFacts DEF IInv
  <2>2. Filled
    BY <2>1 DEF Next, Fill, Downlink, DownlinkFound, DownlinkMissing, DownlinkSlide,
                Uplink, UplinkControl, UplinkNormal, UplinkSlide
  <2>3. frame_ = FrameLen - 1
    BY <2>2, FilledFrame DEF IInv
  <2>. QED
    BY <2>3, FrameLenAssumption, ControlLenAssumption DEF IInv, TypeOK, Fresh
<1>. QED
  BY <1>1, Invariance, PTL DEF Spec, BurstsApart

-----------------------------------------------------------------------------
(* The signal of downlink bursts.  What the invariant says of any bits it  *)
(* says of these; with it, the counter tells how far the frame has slid,   *)
(* and so that it is not cleared within a burst that follows a whole one.  *)

\* Types, and a signal of bursts is a downlink signal.
SignalTypes ==
    /\ noise \in BOOLEAN
    /\ phase \in 0 .. FrameLen - 1
    /\ bursts \in Burst \X Burst \X Burst
    /\ IF noise THEN bursts[2] = "damaged" ELSE ~is_uplink_

\* While a frame is being filled, the counter stands where a burst that was
\* found, or was missing, has left it.
CounterRests ==
    ~noise /\ is_synchronized_ /\ frame_ < FrameLen - 1 =>
        sync_bit_counter_ % FrameLen = FrameLen - 1

\* Behind a whole burst the frame holds all of the current one, and the counter
\* does not expect a burst before the current one ends.
Followed ==
    bursts[2] = "whole" =>
        /\ frame_ >= phase
        /\ is_synchronized_ => sync_bit_counter_ % FrameLen >= FrameLen - 1 - phase

SignalInv == IInv /\ SignalTypes /\ CounterRests /\ Followed /\ WholeAfterWholeIsQueued

-----------------------------------------------------------------------------
\* The bits keep the invariant of the decoder, whatever they are.
LEMMA ReceivePreserves ==
    ASSUME IInv, Receive
    PROVE  IInv'
BY FillPreserves, DownlinkFoundPreserves, DownlinkMissingPreserves, DownlinkSlidePreserves
   DEF Receive, Downlink

LEMMA InitSignalInv == InitSignal => SignalInv
<1>. SUFFICES ASSUME InitSignal PROVE SignalInv
  OBVIOUS
<1>1. IInv /\ frame_ = 0 /\ ~is_synchronized_
  BY InitEstablishes DEF InitSignal, Init
<1>2. PICK b \in Burst : bursts = <<"damaged", "damaged", b>>
  BY DEF InitSignal, Burst
<1>3. bursts \in Burst \X Burst \X Burst /\ bursts[2] = "damaged" /\ bursts[1] = "damaged"
  BY <1>2 DEF Burst
<1>4. noise \in BOOLEAN /\ phase \in 0 .. FrameLen - 1 /\ (~noise => ~is_uplink_)
  <2>1. 0 \in 0 .. FrameLen - 1
    BY FrameLenAssumption
  <2>. QED
    BY <2>1 DEF InitSignal
<1>5. SignalTypes
  BY <1>3, <1>4 DEF SignalTypes
<1>. QED
  BY <1>1, <1>3, <1>5 DEF SignalInv, CounterRests, Followed, WholeAfterWholeIsQueued, TwoWhole

LEMMA UplinkStays == Receive => is_uplink_' = is_uplink_
BY DEF Receive, Fill, Downlink, DownlinkFound, DownlinkMissing, DownlinkSlide

\* One step of the phase.
LEMMA NextPhase ==
    ASSUME phase \in 0 .. FrameLen - 1
    PROVE  (phase + 1) % FrameLen = IF Aligned THEN 0 ELSE phase + 1
BY ModSmall, FrameLenAssumption, Times DEF Aligned

\* Within a burst nothing is found: the frame is filled, or it slides, or a burst
\* that is expected is missing.
LEMMA InBurstPreserves ==
    ASSUME SignalInv, ReceiveBursts, ~Aligned
    PROVE  SignalInv'
<1>1. IInv'
  BY ReceivePreserves DEF SignalInv, ReceiveBursts
<1>2. /\ phase' = phase + 1 /\ phase' \in 1 .. FrameLen - 1 /\ phase \in 0 .. FrameLen - 2
      /\ bursts' = bursts /\ noise' = noise /\ ~noise /\ is_uplink_' = is_uplink_
  <2>1. phase \in 0 .. FrameLen - 1 /\ phase + 1 # FrameLen /\ ~noise
    BY DEF SignalInv, SignalTypes, ReceiveBursts, Aligned
  <2>2. phase' = phase + 1
    BY <2>1, NextPhase DEF ReceiveBursts
  <2>3. bursts' = bursts /\ noise' = noise /\ is_uplink_' = is_uplink_
    BY UplinkStays DEF ReceiveBursts
  <2>. QED
    BY <2>1, <2>2, <2>3, FrameLenAssumption
<1>3. SignalTypes'
  BY <1>2 DEF SignalInv, SignalTypes
<1>4. WholeAfterWholeIsQueued'
  BY <1>2, FrameLenAssumption DEF WholeAfterWholeIsQueued, TwoWhole
<1>5. /\ frame_ \in 0 .. FrameLen - 1 /\ FrameLen \in Nat /\ sync_bit_counter_ \in Nat
      /\ sync_bit_counter_ % FrameLen \in 0 .. FrameLen - 1
  BY CounterRest, FrameLenAssumption, SyncBitsFacts DEF SignalInv, IInv, TypeOK
<1>6. CASE Fill
  <2>1. frame_ + 1 < FrameLen /\ frame_' = frame_ + 1
        /\ UNCHANGED <<sync_bit_counter_, is_synchronized_>>
    BY <1>6 DEF Fill
  <2>2. CounterRests' /\ Followed'
    BY <1>2, <1>5, <2>1 DEF SignalInv, CounterRests, Followed
  <2>. QED
    BY <1>1, <1>3, <1>4, <2>2 DEF SignalInv
<1>7. CASE DownlinkMissing(Mismatch, Mismatch, Mismatch, Mismatch, Mismatch)
  <2>1. /\ frame_' = 0 /\ frame_ = FrameLen - 1 /\ is_synchronized_
        /\ sync_bit_counter_ % FrameLen = 0
        /\ is_synchronized_' => sync_bit_counter_' = sync_bit_counter_ - 1
    BY <1>7, FilledFrame, CountdownStep DEF DownlinkMissing, Expected, SignalInv, IInv
  <2>2. is_synchronized_' => sync_bit_counter_' % FrameLen = FrameLen - 1
    BY <2>1, CounterRest DEF SignalInv, IInv
  <2>3. bursts[2] # "whole"
    BY <1>2, <1>5, <2>1 DEF SignalInv, Followed
  <2>. QED
    BY <1>1, <1>2, <1>3, <1>4, <2>2, <2>3 DEF SignalInv, CounterRests, Followed
<1>8. CASE DownlinkSlide(Mismatch, Mismatch)
  <2>1. /\ frame_' = frame_ /\ frame_ = FrameLen - 1
        /\ is_synchronized_' => is_synchronized_ /\ sync_bit_counter_' = sync_bit_counter_ - 1
        /\ is_synchronized_ => sync_bit_counter_ % FrameLen # 0
    BY <1>8, FilledFrame, CountdownStep DEF DownlinkSlide, Expected, SignalInv, IInv
  <2>2. is_synchronized_' =>
           sync_bit_counter_' % FrameLen = (sync_bit_counter_ % FrameLen) - 1
    BY <2>1, CounterRest DEF SignalInv, IInv
  <2>3. CounterRests' /\ Followed'
    BY <1>2, <1>5, <2>1, <2>2 DEF SignalInv, CounterRests, Followed
  <2>. QED
    BY <1>1, <1>3, <1>4, <2>3 DEF SignalInv
<1>. QED
  BY <1>6, <1>7, <1>8
     DEF ReceiveBursts, Receive, Downlink, DownlinkFound, FrameFound, Mismatch, Match

\* With the last bit of a burst: a whole one is found, if the frame is filled,
\* which it is behind another whole one.
LEMMA BurstEndPreserves ==
    ASSUME SignalInv, ReceiveBursts, Aligned
    PROVE  SignalInv'
<1>1. IInv'
  BY ReceivePreserves DEF SignalInv, ReceiveBursts
<1>2. /\ phase' = 0 /\ phase = FrameLen - 1 /\ phase' \in 0 .. FrameLen - 1
      /\ noise' = noise /\ ~noise /\ is_uplink_' = is_uplink_
      /\ bursts' \in Burst \X Burst \X Burst
      /\ bursts'[1] = bursts[2] /\ bursts'[2] = bursts[3]
  <2>1. phase \in 0 .. FrameLen - 1 /\ phase + 1 = FrameLen /\ ~noise
        /\ bursts \in Burst \X Burst \X Burst
    BY DEF SignalInv, SignalTypes, ReceiveBursts, Aligned
  <2>2. phase' = 0
    BY <2>1, NextPhase DEF ReceiveBursts
  <2>3. PICK b \in Burst : bursts' = <<bursts[2], bursts[3], b>>
    BY DEF ReceiveBursts
  <2>4. noise' = noise /\ is_uplink_' = is_uplink_
    BY UplinkStays DEF ReceiveBursts
  <2>5. bursts' \in Burst \X Burst \X Burst /\ bursts'[1] = bursts[2] /\ bursts'[2] = bursts[3]
    BY <2>1, <2>3
  <2>. QED
    BY <2>1, <2>2, <2>4, <2>5, FrameLenAssumption
<1>3. SignalTypes'
  BY <1>2 DEF SignalInv, SignalTypes
<1>4. /\ frame_ \in 0 .. FrameLen - 1 /\ FrameLen \in Nat
      /\ sync_bit_counter_ % FrameLen \in 0 .. FrameLen - 1
  BY CounterRest, FrameLenAssumption DEF SignalInv, IInv, TypeOK
<1>5. CASE Fill
  <2>1. frame_ < FrameLen - 1 /\ frame_' = frame_ + 1
        /\ UNCHANGED <<sync_bit_counter_, is_synchronized_>>
    BY <1>4, <1>5 DEF Fill
  <2>2. bursts[2] # "whole"
    BY <1>2, <1>4, <2>1 DEF SignalInv, Followed
  <2>3. CounterRests' /\ Followed' /\ WholeAfterWholeIsQueued'
    BY <1>2, <1>4, <2>1, <2>2
       DEF SignalInv, CounterRests, Followed, WholeAfterWholeIsQueued, TwoWhole
  <2>. QED
    BY <1>1, <1>3, <2>3 DEF SignalInv
<1>6. ASSUME NEW begin, NEW end, NEW sb, NEW split,
             DownlinkFound(begin, end, sb, Match, split), sb = 6, split = 6
      PROVE  SignalInv'
  <2>1. DownlinkBurst(sb, Match, split) = "NormalDownlinkBurst"
    <3>1. Min({6, 0, 6}) = 0
      <4>1. \E x \in {6, 0, 6} : \A y \in {6, 0, 6} : x <= y
        OBVIOUS
      <4>. QED
        BY <4>1 DEF Min
    <3>. QED
      BY <1>6, <3>1 DEF DownlinkBurst, Match
  <2>2. since_queued' = 0
    BY <1>6, <2>1 DEF DownlinkFound, Queue
  <2>3. sync_bit_counter_' = SyncBits - 1 /\ is_synchronized_' /\ frame_' = 0
    <3>1. SyncBits \in 0 .. CounterMod - 1 /\ SyncBits > 0 /\ SyncBits > 1
      BY SyncBitsFacts, FrameLenAssumption
    <3>2. Countdown(SyncBits, TRUE) /\ frame_' = 0
      BY <1>6 DEF DownlinkFound
    <3>3. sync_bit_counter_' = SyncBits - 1
      BY <3>1, <3>2, CountdownFacts
    <3>4. sync_bit_counter_' > 0
      BY <3>1, <3>3, SyncBitsFacts
    <3>. QED
      BY <3>2, <3>3, <3>4 DEF Countdown
  <2>4. CounterRests' /\ Followed' /\ WholeAfterWholeIsQueued'
    BY <1>2, <1>4, <2>2, <2>3, SyncBitsFacts
       DEF CounterRests, Followed, WholeAfterWholeIsQueued
  <2>. QED
    BY <1>1, <1>3, <2>4 DEF SignalInv
<1>7. ASSUME bursts[3] # "whole", NEW middle,
             \/ DownlinkMissing(Mismatch, Mismatch, Mismatch, middle, Mismatch)
             \/ DownlinkSlide(Mismatch, Mismatch)
      PROVE  SignalInv'
  <2>1. Followed' /\ WholeAfterWholeIsQueued'
    BY <1>2, <1>7 DEF Followed, WholeAfterWholeIsQueued, TwoWhole
  <2>2. CASE DownlinkSlide(Mismatch, Mismatch)
    <3>1. frame_' = FrameLen - 1
      BY <2>2, FilledFrame DEF DownlinkSlide, SignalInv, IInv
    <3>. QED
      BY <1>1, <1>3, <1>4, <2>1, <3>1 DEF SignalInv, CounterRests
  <2>3. CASE DownlinkMissing(Mismatch, Mismatch, Mismatch, middle, Mismatch)
    <3>1. /\ sync_bit_counter_ % FrameLen = 0
          /\ is_synchronized_' => sync_bit_counter_' = sync_bit_counter_ - 1
      BY <2>3, CountdownStep DEF DownlinkMissing, Expected, SignalInv
    <3>2. is_synchronized_' => sync_bit_counter_' % FrameLen = FrameLen - 1
      BY <3>1, CounterRest DEF SignalInv, IInv
    <3>. QED
      BY <1>1, <1>3, <2>1, <3>2 DEF SignalInv, CounterRests
  <2>. QED
    BY <1>7, <2>2, <2>3
<1>8. CASE bursts[3] = "whole"
  <2>1. Fill \/ Downlink(Match, Match, Mismatch, Match, Mismatch)
    BY <1>8 DEF ReceiveBursts, Receive
  <2>2. ~DownlinkMissing(Match, Match, Mismatch, Match, Mismatch) /\ ~DownlinkSlide(Match, Match)
    BY DEF DownlinkMissing, DownlinkSlide, FrameFound, Match
  <2>. QED
    BY <1>5, <1>6, <2>1, <2>2 DEF Downlink, Mismatch
<1>9. CASE bursts[3] # "whole"
  <2>1. \/ Fill
        \/ Downlink(Mismatch, Mismatch, Mismatch, Match, Mismatch)
        \/ Downlink(Mismatch, Mismatch, Mismatch, Mismatch, Mismatch)
    BY <1>9 DEF ReceiveBursts, Receive
  <2>2. \A middle : ~DownlinkFound(Mismatch, Mismatch, Mismatch, middle, Mismatch)
    BY DEF DownlinkFound, FrameFound, Mismatch
  <2>. QED
    BY <1>5, <1>7, <1>9, <2>1, <2>2 DEF Downlink
<1>. QED
  BY <1>8, <1>9

\* On noise no burst is ever counted as whole.
LEMMA NoisePreserves ==
    ASSUME SignalInv, ReceiveNoise
    PROVE  SignalInv'
<1>1. IInv'
  BY StepPreserves DEF SignalInv, ReceiveNoise
<1>2. noise /\ UNCHANGED <<noise, phase, bursts>> /\ bursts[2] = "damaged"
  BY DEF SignalInv, SignalTypes, ReceiveNoise
<1>. QED
  BY <1>1, <1>2 DEF SignalInv, SignalTypes, CounterRests, Followed, WholeAfterWholeIsQueued, TwoWhole

LEMMA NextBitPreserves == SignalInv /\ [NextBit]_signalVars => SignalInv'
<1>. SUFFICES ASSUME SignalInv, [NextBit]_signalVars PROVE SignalInv'
  OBVIOUS
<1>1. CASE UNCHANGED signalVars
  <2>1. UNCHANGED <<vars, noise, phase, bursts>>
    BY <1>1 DEF signalVars
  <2>2. IInv'
    BY <2>1, StepPreserves DEF SignalInv
  <2>. QED
    BY <2>1, <2>2 DEF vars, SignalInv, SignalTypes, CounterRests, Followed,
                      WholeAfterWholeIsQueued, TwoWhole
<1>. QED
  BY <1>1, InBurstPreserves, BurstEndPreserves, NoisePreserves DEF NextBit

-----------------------------------------------------------------------------
(* The theorems.                                                           *)

\* The conjunction from which the theorems below follow is an invariant.
THEOREM SignalInvariance == SpecSignal => []SignalInv
BY InitSignalInv, NextBitPreserves, PTL DEF SpecSignal

\* Wherever the frame stands when bursts were damaged, and whatever the counter
\* expects on the way, the second of two whole bursts is queued with its last bit
\* and the decoder is synchronised (bit_stream_decoder.cpp:33-50, 58-71).
THEOREM WholeIsQueuedCorrect == SpecSignal => []WholeAfterWholeIsQueued
BY SignalInvariance, PTL DEF SignalInv

\* What holds on any bits holds on the bits of such a signal: the frame, the
\* counter and the synchronisation stay in their bounds.
THEOREM SignalBounds == SpecSignal => [](TypeOK /\ CounterInRange /\ SyncIsBounded)
<1>1. SignalInv => TypeOK /\ CounterInRange /\ SyncIsBounded
  BY IInvBoundsSync DEF SignalInv, IInv
<1>. QED
  BY <1>1, SignalInvariance, PTL

=============================================================================
