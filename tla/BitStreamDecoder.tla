--------------------------- MODULE BitStreamDecoder ---------------------------
(***************************************************************************)
(* BitStreamDecoder (bit_stream_decoder.hpp, .cpp): collects bits in       *)
(* frame_ until a burst shows, and queues it for the LowerMac.             *)
(*                                                                         *)
(* Of the data only the scores are kept: the number of differences between *)
(* a training sequence and the bits at its place in frame_.  frame_ always *)
(* holds the latest bits, so its length stands for it.  This module makes  *)
(* no assumption on the signal: every bit may come with any scores.        *)
(***************************************************************************)
EXTENDS Integers, FiniteSetsExt

CONSTANTS
    FrameLen,         \* kFRAME_LEN: 510
    MissingFrames,    \* 50
    ControlLen,       \* bits dropped after a control uplink burst: 200
    CounterMod,       \* std::size_t wraps at 2^64
    Scores            \* the scores a pattern can have

ASSUME FrameLenAssumption == FrameLen \in Nat /\ FrameLen > 1
ASSUME MissingFramesAssumption == MissingFrames \in Nat /\ MissingFrames > 0
ASSUME ControlLenAssumption == ControlLen \in 1 .. FrameLen
ASSUME CounterModAssumption == CounterMod \in Nat /\ CounterMod > FrameLen * MissingFrames
ASSUME ScoresAssumption == Scores \subseteq Nat

VARIABLES
    is_uplink_,
    frame_,               \* the number of bits in it
    is_synchronized_,
    sync_bit_counter_,
    queued,               \* the type of the burst queued last, or "none"
    since_found,          \* history: bits since a downlink burst was found, up to HeldLimit
    since_queued          \* history: bits since that burst was queued, up to FrameLen

vars == <<is_uplink_, frame_, is_synchronized_, sync_bit_counter_,
          queued, since_found, since_queued>>

SyncBits == FrameLen * MissingFrames
HeldLimit == 2 * SyncBits

DownlinkBursts == {"SynchronizationBurst", "NormalDownlinkBurst", "NormalDownlinkBurstSplit"}
UplinkBursts == {"ControlUplinkBurst", "NormalUplinkBurst", "NormalUplinkBurstSplit"}

Init ==
    /\ is_uplink_ \in BOOLEAN
    /\ frame_ = 0
    /\ is_synchronized_ = FALSE
    /\ sync_bit_counter_ = 0
    /\ queued = "none"
    /\ since_found = HeldLimit
    /\ since_queued = FrameLen

-----------------------------------------------------------------------------
\* The histories, as every bit extends them.
Elapsed(n, limit) == IF n < limit THEN n + 1 ELSE limit

NotQueued ==
    /\ since_queued' = Elapsed(since_queued, FrameLen)
    /\ UNCHANGED queued

\* queue_work(LowerMac::process, frame_, burst), if there is one.
Queue(burst) ==
    IF burst = "none" THEN NotQueued ELSE queued' = burst /\ since_queued' = 0

\* process_bit() when frame_ is too short, still.
Fill ==
    /\ frame_ + 1 < FrameLen
    /\ frame_' = frame_ + 1
    /\ since_found' = Elapsed(since_found, HeldLimit)
    /\ NotQueued
    /\ UNCHANGED <<is_uplink_, is_synchronized_, sync_bit_counter_>>

Filled == frame_ + 1 >= FrameLen

Countdown_NeverLost(n, synchronized) ==
    /\ sync_bit_counter_' = (n - 1) % CounterMod
    /\ is_synchronized_' = synchronized

\* sync_bit_counter_-- from n, and the end of the synchronisation.  The counter
\* is unsigned: from 0, before the first burst, it wraps.
Countdown(n, synchronized) ==
    /\ sync_bit_counter_' = (n - 1) % CounterMod
    /\ is_synchronized_' = (synchronized /\ sync_bit_counter_' > 0)

\* process_downlink_frame(): the type with the least score, the first of equals.
DownlinkBurst(sb, ndb, split) ==
    LET minimum == Min({sb, ndb, split}) IN
    IF minimum > 5 THEN "none"
    ELSE IF sb = minimum THEN "SynchronizationBurst"
    ELSE IF ndb = minimum THEN "NormalDownlinkBurst"
    ELSE "NormalDownlinkBurstSplit"

\* The training sequence at both ends of the burst.
FrameFound(begin, end) == begin = 0 /\ end < 2

DownlinkFound_Overlap(begin, end, sb, ndb, split) ==
    /\ ~is_uplink_ /\ Filled
    /\ FrameFound(begin, end)
    /\ Countdown(SyncBits, TRUE)
    /\ frame_' = frame_
    /\ since_found' = 0
    /\ Queue(DownlinkBurst(sb, ndb, split))
    /\ UNCHANGED is_uplink_

DownlinkFound_EraseAfterClear(begin, end, sb, ndb, split) ==
    /\ ~is_uplink_ /\ Filled
    /\ FrameFound(begin, end)
    /\ Countdown(SyncBits, TRUE)
    /\ frame_' = -1
    /\ since_found' = 0
    /\ Queue(DownlinkBurst(sb, ndb, split))
    /\ UNCHANGED is_uplink_

\* The burst is found: synchronise anew, process it, and start with an empty frame.
DownlinkFound(begin, end, sb, ndb, split) ==
    /\ ~is_uplink_ /\ Filled
    /\ FrameFound(begin, end)
    /\ Countdown(SyncBits, TRUE)
    /\ frame_' = 0
    /\ since_found' = 0
    /\ Queue(DownlinkBurst(sb, ndb, split))
    /\ UNCHANGED is_uplink_

\* No burst is found where the counter expects one.
Expected == is_synchronized_ /\ sync_bit_counter_ % FrameLen = 0

DownlinkMissing_Again(begin, end, sb, ndb, split) ==
    /\ ~is_uplink_ /\ Filled
    /\ ~FrameFound(begin, end) /\ Expected
    /\ Countdown(SyncBits, TRUE)
    /\ frame_' = 0
    /\ since_found' = Elapsed(since_found, HeldLimit)
    /\ Queue(DownlinkBurst(sb, ndb, split))
    /\ UNCHANGED is_uplink_

\* Without the training sequence at its ends, the frame may still be a burst.
DownlinkMissing(begin, end, sb, ndb, split) ==
    /\ ~is_uplink_ /\ Filled
    /\ ~FrameFound(begin, end) /\ Expected
    /\ Countdown(sync_bit_counter_, is_synchronized_)
    /\ frame_' = 0
    /\ since_found' = Elapsed(since_found, HeldLimit)
    /\ Queue(DownlinkBurst(sb, ndb, split))
    /\ UNCHANGED is_uplink_

DownlinkSlide_Clear(begin, end) ==
    /\ ~is_uplink_ /\ Filled
    /\ ~FrameFound(begin, end) /\ ~Expected
    /\ Countdown(sync_bit_counter_, is_synchronized_)
    /\ frame_' = 0
    /\ since_found' = Elapsed(since_found, HeldLimit)
    /\ NotQueued
    /\ UNCHANGED is_uplink_

\* The first bit of the frame makes room for the next.
DownlinkSlide(begin, end) ==
    /\ ~is_uplink_ /\ Filled
    /\ ~FrameFound(begin, end) /\ ~Expected
    /\ Countdown(sync_bit_counter_, is_synchronized_)
    /\ frame_' = frame_
    /\ since_found' = Elapsed(since_found, HeldLimit)
    /\ NotQueued
    /\ UNCHANGED is_uplink_

Downlink(begin, end, sb, ndb, split) ==
    \/ DownlinkFound(begin, end, sb, ndb, split)
    \/ DownlinkMissing(begin, end, sb, ndb, split)
    \/ DownlinkSlide(begin, end)

\* The type of an uplink burst with the least score, the first of equals.
UplinkBurst(ssn, nub, split) ==
    LET minimum == Min({ssn, nub, split}) IN
    IF ssn = minimum THEN "ControlUplinkBurst"
    ELSE IF nub = minimum THEN "NormalUplinkBurst"
    ELSE "NormalUplinkBurstSplit"

UplinkUnchanged == UNCHANGED <<is_uplink_, is_synchronized_, sync_bit_counter_>>

\* The extended training sequence is there, whichever type scores best.
UplinkControl(ssn, nub, split) ==
    /\ is_uplink_ /\ Filled
    /\ ssn <= 4
    /\ Queue(UplinkBurst(ssn, nub, split))
    /\ frame_' = FrameLen - ControlLen
    /\ since_found' = Elapsed(since_found, HeldLimit)
    /\ UplinkUnchanged

UplinkNormal(ssn, nub, split) ==
    /\ is_uplink_ /\ Filled
    /\ ssn > 4 /\ Min({ssn, nub, split}) <= 2
    /\ Queue(UplinkBurst(ssn, nub, split))
    /\ frame_' = frame_
    /\ since_found' = Elapsed(since_found, HeldLimit)
    /\ UplinkUnchanged

UplinkSlide(ssn, nub, split) ==
    /\ is_uplink_ /\ Filled
    /\ ssn > 4 /\ Min({ssn, nub, split}) > 2
    /\ NotQueued
    /\ frame_' = frame_
    /\ since_found' = Elapsed(since_found, HeldLimit)
    /\ UplinkUnchanged

Uplink(ssn, nub, split) ==
    \/ UplinkControl(ssn, nub, split)
    \/ UplinkNormal(ssn, nub, split)
    \/ UplinkSlide(ssn, nub, split)

-----------------------------------------------------------------------------
\* process_bit(), whatever the bits are.
Next ==
    \/ Fill
    \/ \E begin, end, sb, ndb, split \in Scores : Downlink(begin, end, sb, ndb, split)
    \/ \E ssn, nub, split \in Scores : Uplink(ssn, nub, split)

Spec == Init /\ [][Next]_vars

-----------------------------------------------------------------------------
(* Correctness, on any signal.                                             *)

\* The frame never holds a whole burst between two calls, nor is a bit erased
\* from an empty one (lines 68-70); a burst has a type of its own direction.
TypeOK ==
    /\ is_uplink_ \in BOOLEAN
    /\ frame_ \in 0 .. FrameLen - 1
    /\ is_synchronized_ \in BOOLEAN
    /\ sync_bit_counter_ \in 0 .. CounterMod - 1
    /\ queued \in {"none"} \cup (IF is_uplink_ THEN UplinkBursts ELSE DownlinkBursts)
    /\ since_found \in 0 .. HeldLimit
    /\ since_queued \in 0 .. FrameLen

\* The counter that wraps while nothing is synchronised (line 58) is never read
\* then: synchronised, it is that of a burst found before.
CounterInRange ==
    is_synchronized_ => sync_bit_counter_ > 0 /\ sync_bit_counter_ < SyncBits

\* However the bits match, the synchronisation does not outlast twice the
\* missing frames it is meant to outlast (lines 46, 58-64).
SyncIsBounded == is_synchronized_ => since_found < HeldLimit

\* Between a burst and the next one queued lie as many bits as a burst has, so
\* no bit is queued twice (line 50); in the uplink, at least the bits dropped
\* after a control burst (line 92).
BurstsApart ==
    [][since_queued' = 0 =>
          since_queued + 1 >= CASE ~is_uplink_ -> FrameLen
                                [] is_uplink_ /\ queued = "ControlUplinkBurst" -> ControlLen
                                [] OTHER -> 1]_vars

=============================================================================
