---------------------------- MODULE DownlinkSignal ----------------------------
(***************************************************************************)
(* BitStreamDecoder on the signal it is made for: one downlink burst after *)
(* the other, each of FrameLen bits, with the training sequences nowhere   *)
(* but in their places.  A burst arrives whole, or with the training       *)
(* sequence at its ends damaged, or with all of it damaged.  Or there is   *)
(* no such signal, uplink or noise, and any bits come.                     *)
(***************************************************************************)
EXTENDS BitStreamDecoder

VARIABLES
    noise,      \* whether any bits come
    phase,      \* how many bits of the current burst have been received
    bursts      \* the last two bursts received in full, and the current one

signalVars == <<vars, noise, phase, bursts>>

Burst == {"whole", "ends damaged", "damaged"}

\* Reception begins anywhere in a burst.
InitSignal ==
    /\ Init
    /\ \/ /\ noise = FALSE /\ ~is_uplink_
          /\ phase \in 0 .. FrameLen - 1
          /\ bursts \in {<<"damaged", "damaged", b>> : b \in Burst}
       \/ /\ noise = TRUE
          /\ phase = 0 /\ bursts = <<"damaged", "damaged", "damaged">>

\* The frame and this bit are the current burst.
Aligned == phase + 1 = FrameLen

Match == 0
Mismatch == 6

\* What process_bit() compares its patterns with.
Receive ==
    LET ends == IF Aligned /\ bursts[3] = "whole" THEN Match ELSE Mismatch
        middle == IF Aligned /\ bursts[3] # "damaged" THEN Match ELSE Mismatch
    IN Fill \/ Downlink(ends, ends, Mismatch, middle, Mismatch)

ReceiveBursts ==
    /\ ~noise
    /\ Receive
    /\ phase' = (phase + 1) % FrameLen
    /\ IF Aligned THEN \E b \in Burst : bursts' = <<bursts[2], bursts[3], b>>
                  ELSE UNCHANGED bursts
    /\ UNCHANGED noise

ReceiveNoise ==
    /\ noise
    /\ Next
    /\ UNCHANGED <<noise, phase, bursts>>

NextBit == ReceiveBursts \/ ReceiveNoise

\* The signal does not stop.
SpecSignal == InitSignal /\ [][NextBit]_signalVars /\ WF_signalVars(NextBit)

-----------------------------------------------------------------------------
(* Correctness.                                                            *)

\* A whole burst has just been received, and the one before was whole too.
TwoWhole == phase = 0 /\ bursts[1] = "whole" /\ bursts[2] = "whole"

\* A whole burst is queued unless it follows a damaged one: wherever the frame
\* stands when bursts were damaged, the second whole one is found, and the
\* decoder is aligned and synchronised again (lines 33-50, 58-71).
WholeAfterWholeIsQueued ==
    TwoWhole => since_queued = 0 /\ is_synchronized_

\* On bursts none of which is whole the synchronisation is lost, even as the frame is cleared
\* on the way, again and again, where a burst is only expected (lines 46-62).
SyncIsLost ==
    ~noise /\ is_synchronized_ ~> ~is_synchronized_ \/ (phase = 0 /\ bursts[2] = "whole")

\* "Burst was matched, we can reset the synchronizer to allow 50 missing frames
\* (expressed in burst units = 50 * 510 bits)" (bit_stream_decoder.hpp:91-92).
HeldForMissingFrames == ~noise /\ is_synchronized_ => since_found <= SyncBits

=============================================================================
