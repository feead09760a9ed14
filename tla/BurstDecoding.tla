----------------------------- MODULE BurstDecoding -----------------------------
(***************************************************************************)
(* A burst on its way through LowerMac::process (lower_mac.cpp) and the    *)
(* first half of UpperMac::process (upper_mac.cpp, lines 74-96), bit by    *)
(* bit: from the blocks on the air to the packets of the upper MAC.        *)
(* Bursts are decoded one at a time; several workers in process() at once  *)
(* are the subject of LowerMac, what becomes of packets that of UpperMac.  *)
(***************************************************************************)
EXTENDS Network

CONSTANTS
    Bursts,         \* the bursts that may be on the air
    MaxDownlink,    \* downlink bursts after a synchronization burst
    InjectedCode    \* the scrambling code that an uplink decoder is given

\* The blocks of a burst.
BlocksOf(type) ==
    CASE type = "SynchronizationBurst" -> {"sb", "bkn2"}
      [] type = "ControlUplinkBurst" -> {"cb"}
      [] type \in {"NormalDownlinkBurst", "NormalUplinkBurst"} -> {"bkn1"}
      [] OTHER -> {"bkn1", "bkn2"}

\* What was sent: the blocks that a burst of its type has, each of the length of
\* its coding, with its CRC.
HasBlocks(burst) ==
    /\ burst.burst_type \in UplinkBursts \cup DownlinkBursts
    /\ DOMAIN burst.blocks = BlocksOf(burst.burst_type)
    /\ \A block \in DOMAIN burst.blocks :
          LET n == Coding(burst.burst_type, block).data
              info == SubSeq(burst.blocks[block].bits, 1, n)
          IN /\ info \in Seq({0, 1}) /\ Len(info) = n
             /\ burst.blocks[block].bits = WithCrc(info)

\* What the synchronization block says, as it came; a block that passes its CRC
\* has a time that exists.
SynchronizationBlock(burst) ==
    ChannelData(burst, "BroadcastSynchronizationChannel", "sb", BschScramblingCode)
SyncPdu(burst) == Read(BroadcastSynchronizationChannel, SynchronizationBlock(burst).data).value
HasTime(burst) ==
    burst.burst_type = "SynchronizationBurst" /\ SynchronizationBlock(burst).crc_ok =>
        SyncPdu(burst).time_slot \in 0 .. 3 /\ SyncPdu(burst).frame_number \in 1 .. 18

\* The access assignment, which decides what the slots of a normal downlink burst
\* carry: its 14 bits, of whose code word any may come wrong.
HasUsage(burst) ==
    burst.carries_traffic # {} =>
        /\ burst.burst_type \in {"NormalDownlinkBurst", "NormalDownlinkBurstSplit"}
        /\ burst.aach \in Seq({0, 1}) /\ Len(burst.aach) = 14
        /\ burst.aach_errors \subseteq 1 .. 30

\* What the first half of a stolen slot says of the second: the flag of a
\* MAC-U-SIGNAL, or a length indication of 62 or 63, which in a MAC-DATA comes after
\* an address of 10 or 24 bits and a bit that says that it is one.
SaysStolen(up, bits) ==
    LET AllOnes(first, last) == \A i \in first .. last : bits[i] = 1
        address == IF bits[5] = 0 /\ bits[6] = 1 THEN 10 ELSE 24
    IN \/ AllOnes(1, 3)
       \/ bits[1] = 0 /\ bits[2] = 0 /\ ~up /\ AllOnes(8, 12)
       \/ bits[1] = 0 /\ bits[2] = 0 /\ up /\ bits[address + 7] = 0 /\ AllOnes(address + 8, address + 12)
HasStolen(burst) ==
    burst.burst_type \in {"NormalUplinkBurstSplit", "NormalDownlinkBurstSplit"}
    /\ burst.carries_traffic # {FALSE}
        => burst.second_half_stolen =
              SaysStolen(is_uplink_burst(burst.burst_type), burst.blocks.bkn1.bits)

\* The PDUs that are known to the code are in their blocks.
HasPdus(burst) ==
    \A name \in DOMAIN burst.blocks :
        LET block == burst.blocks[name]
            info == SubSeq(block.bits, 1, Coding(burst.burst_type, name).data)
        IN block.known => \A pdus \in block.pdus :
              /\ \A i \in 1 .. Len(pdus) : pdus[i].type \in PdusOf(burst.burst_type)
              /\ SentPdus(pdus, info, block.meant.c_plane)

ASSUME BlocksAssumption == \A burst \in Bursts : HasBlocks(burst)
ASSUME TimeAssumption == \A burst \in Bursts : HasTime(burst)
ASSUME UsageAssumption == \A burst \in Bursts : HasUsage(burst)
ASSUME StolenAssumption == \A burst \in Bursts : HasStolen(burst)
ASSUME PdusAssumption == \A burst \in Bursts : HasPdus(burst)
ASSUME MaxDownlinkAssumption == MaxDownlink \in Nat

VARIABLES
    sync_,          \* what the last synchronization burst said: its scrambling
                    \* code, and the time; a set of at most one
    uplink,         \* whether the code is injected, and the bursts are uplink bursts
    since,          \* downlink bursts since the synchronization burst
    pc,             \* where the burst is
    sent,           \* the burst; a set of at most one
    slots,          \* its concrete slots
    decode_error,
    slot,           \* the number of the slot that is parsed
    data,           \* what is left of it
    current,        \* the packets of this slot
    packets,        \* the packets of the slots before
    failed          \* the slots whose parsing threw

lowerMac == <<sync_, uplink, since, slots, decode_error>>
upperMac == <<slot, data, current, packets, failed>>
vars == <<lowerMac, upperMac, pc, sent>>

NoData == BitVec(<<>>)

Init ==
    /\ uplink \in BOOLEAN
    /\ sync_ = IF uplink THEN {[code |-> InjectedCode, time_slot |-> 1, frame_number |-> 1]} ELSE {}
    /\ since = 0
    /\ pc = "idle"
    /\ sent = {}
    /\ slots = <<>>
    /\ decode_error = FALSE
    /\ slot = 1
    /\ data = NoData
    /\ current = Nothing
    /\ packets = Nothing
    /\ failed = {}

-----------------------------------------------------------------------------
(* LowerMac::process                                                       *)

\* TimebaseCounter::increment(), of the time slot and the frame number.
Increment(sync) ==
    [sync EXCEPT !.time_slot = IF @ = 4 THEN 1 ELSE @ + 1,
                 !.frame_number = IF sync.time_slot # 4 THEN @ ELSE IF @ = 18 THEN 1 ELSE @ + 1]

Incremented == {Increment(sync) : sync \in sync_}

\* The network sends traffic where its access assignment has a usage marker for
\* the downlink, except in frame 18.
Fits(burst, sync) ==
    burst.carries_traffic # {} =>
        burst.carries_traffic =
            {/\ sync.frame_number # 18
             /\ SubSeq(burst.aach, 1, 2) # <<0, 0>>
             /\ SubSeq(burst.aach, 3, 6) # <<0, 0, 0, 0>>}

Receive(burst) ==
    /\ pc = "idle"
    /\ is_uplink_burst(burst.burst_type) = uplink
    /\ sent' = {burst}
    /\ IF uplink THEN UNCHANGED <<sync_, since>>
       ELSE /\ sync_' = Incremented
            /\ since' = IF burst.burst_type = "SynchronizationBurst" THEN 0 ELSE since + 1
            /\ since' <= MaxDownlink
            /\ burst.burst_type # "SynchronizationBurst" => \A sync \in sync_' : Fits(burst, sync)
    /\ pc' = IF burst.burst_type = "SynchronizationBurst" THEN "synchronize" ELSE "channels"
    /\ UNCHANGED <<uplink, slots, decode_error, upperMac>>

\* The synchronization block: sync_ is replaced, or lost.
Synchronize ==
    /\ pc = "synchronize"
    /\ \E burst \in sent :
          LET sb == SynchronizationBlock(burst)
              v == SyncPdu(burst)
          IN /\ decode_error' = ~sb.crc_ok
             /\ sync_' = IF ~sb.crc_ok THEN {}
                         ELSE {[code |-> scrambling_code(v), time_slot |-> v.time_slot + 1,
                                frame_number |-> v.frame_number]}
    /\ pc' = "channels"
    /\ UNCHANGED <<uplink, since, slots, upperMac, sent>>

\* processChannels, if there is a synchronisation, and the errors in the slots.
Channels ==
    /\ pc = "channels"
    /\ \E burst \in sent, sync \in sync_ :
          /\ slots' = Slots(burst.burst_type, processChannels(burst, sync.code, sync.frame_number))
          /\ decode_error' = (decode_error \/ has_crc_error(slots'))
    /\ pc' = "slot"
    /\ UNCHANGED <<sync_, uplink, since, upperMac, sent>>

\* Either way the decoder turns to the next burst.
Idle ==
    /\ pc' = "idle"
    /\ sent' = {} /\ slots' = <<>> /\ decode_error' = FALSE
    /\ slot' = 1 /\ data' = NoData
    /\ current' = Nothing /\ packets' = Nothing /\ failed' = {}
    /\ UNCHANGED <<sync_, uplink, since>>

Drop == pc = "channels" /\ sync_ = {} /\ Idle

-----------------------------------------------------------------------------
(* UpperMac::process                                                       *)

NextSlot == slot' = slot + 1 /\ pc' = "slot" /\ data' = NoData /\ current' = Nothing

\* An exception ends the slot, with all that was parsed of it.
Fail == NextSlot /\ failed' = failed \cup {slot} /\ UNCHANGED packets

\* packets.merge
Merge(other) ==
    IF CanMerge(packets, other)
    THEN NextSlot /\ packets' = Merged(packets, other) /\ UNCHANGED failed
    ELSE Fail

\* parse_slot of a slot that is not parsed PDU by PDU.
ParseSlot ==
    /\ pc = "slot" /\ slot <= Len(slots)
    /\ \E burst \in sent :
          LET this == slots[slot]
              kind == KindOf(burst.burst_type, this)
              broadcast == parse_broadcast(this.data)
          IN \/ kind = "traffic" /\ Merge([Nothing EXCEPT !.traffic = {this.data.bits}])
             \/ kind = "nothing" /\ Merge(Nothing)
             \/ /\ kind = "u_plane"
                /\ Merge([Nothing EXCEPT !.u_plane = <<parse_u_plane_signalling(this.data)>>])
             \/ /\ kind = "broadcast" /\ broadcast.ok
                /\ Merge([Nothing EXCEPT !.broadcast = {broadcast.value}])
             \/ kind = "refused" /\ Fail
             \/ kind = "broadcast" /\ ~broadcast.ok /\ Fail
             \/ /\ kind = "c_plane"
                /\ data' = this.data
                /\ pc' = "pdu"
                /\ UNCHANGED <<slot, current, packets, failed>>
    /\ UNCHANGED <<lowerMac, sent>>

\* The loop of parse_c_plane_signalling: one PDU after the other ...
ParsePdu ==
    /\ pc = "pdu"
    /\ \E burst \in sent :
          LET channel == slots[slot].channel
              parsed == parse_c_plane_signalling_packet(burst.burst_type, channel, data)
          IN /\ HasNextPdu(burst.burst_type, channel, data)
             /\ IF ~parsed.ok THEN Fail
                ELSE /\ current' = [current EXCEPT !.c_plane = Append(@, parsed.packet)]
                     /\ data' = parsed.data
                     /\ pc' = IF is_null_pdu(parsed.packet) THEN "parsed" ELSE "pdu"
                     /\ UNCHANGED <<slot, packets, failed>>
    /\ UNCHANGED <<lowerMac, sent>>

\* ... until a null PDU, or until what is left is too short, or padding.
Parsed ==
    /\ \E burst \in sent :
          \/ pc = "parsed"
          \/ pc = "pdu" /\ ~HasNextPdu(burst.burst_type, slots[slot].channel, data)
    /\ Merge(current)
    /\ UNCHANGED <<lowerMac, sent>>

\* The packets go on to processPackets.
Finished == pc = "slot" /\ slot > Len(slots)
Finish == Finished /\ Idle

Next ==
    \/ \E burst \in Bursts : Receive(burst)
    \/ Synchronize \/ Channels \/ Drop
    \/ ParseSlot \/ ParsePdu \/ Parsed \/ Finish

Spec == Init /\ [][Next]_vars

-----------------------------------------------------------------------------
(* Correctness.                                                            *)

\* The parser is in a slot that the burst has, with data of that slot left, and
\* the broadcast and the traffic of a burst are single.
TypeOK ==
    /\ uplink \in BOOLEAN /\ Cardinality(sync_) <= 1 /\ since \in 0 .. MaxDownlink
    /\ \A sync \in sync_ : sync.time_slot \in 1 .. 4 /\ sync.frame_number \in 1 .. 18
    /\ pc \in {"idle", "synchronize", "channels", "slot", "pdu", "parsed"}
    /\ pc = "idle" <=> sent = {}
    /\ slot \in 1 .. Len(slots) + 1 /\ failed \subseteq 1 .. Len(slots)
    /\ pc \in {"pdu", "parsed"} => bits_left(data) <= bits_left(slots[slot].data)
    /\ Cardinality(packets.traffic) <= 1 /\ Cardinality(packets.broadcast) <= 1

\* The burst is one of the cell that the decoder is synchronised to, and no block
\* of it came damaged; its access assignment came such that it can be decoded.
OfThisCell(burst) == \E sync \in sync_ : sync.code = burst.cell
Undamaged(burst, blocks) == \A block \in blocks : burst.blocks[block].changed = {}

\* Bit 15 of a broadcast block is not read from the air: it is misread where the
\* training sequence differs from it.  One more bit may be wrong, but not one of
\* these, which the votes do not outvote, by themselves or with a misread bit.
IsMisread(burst) == Coded(burst)[15] # TrainingBit(burst.burst_type)
Uncorrected(misread) == IF misread THEN 1 .. 6 \cup {17, 22} ELSE {19} \cup 26 .. 29
UsageIsSent(burst) ==
    burst.burst_type \in {"NormalDownlinkBurst", "NormalDownlinkBurstSplit"} =>
        LET errors == burst.aach_errors \ {15}
        IN Cardinality(errors) <= 1 /\ errors \cap Uncorrected(IsMisread(burst)) = {}

\* Where a burst says what it carries, its slots are taken for that.
TakenAsSent(burst) ==
    burst.carries_traffic # {} =>
        burst.carries_traffic = {slots[1].channel \in {"TrafficChannel", "StealingChannel"}}

\* The usage of a downlink burst decides between traffic and signalling as it was
\* sent, in frame 18 and in the others, also where the bit that is read from the
\* training sequence is wrong and one more, from the air, is wrong as well, unless
\* that is one of the few that are not outvoted (lines 89-97, 130-138).
UsageIsDecoded ==
    \A burst \in sent :
        Len(slots) > 0 /\ OfThisCell(burst) /\ UsageIsSent(burst) => TakenAsSent(burst)

\* The slots are those that were sent.
AsSent(burst) == OfThisCell(burst) /\ UsageIsSent(burst)

\* Every signalling block that came undamaged passes its CRC, although up to one
\* of its bits is read beside it; of full-slot traffic only the bit behind the
\* training sequence can be wrong (lines 99-105, 131-137, 196-202, 214-220).
BlocksInPlace ==
    \A burst \in sent : \A i \in 1 .. Len(slots) :
        AsSent(burst) /\ Undamaged(burst, DOMAIN burst.blocks) =>
            /\ slots[i].crc_ok
            /\ slots[i].channel = "TrafficChannel" =>
                  \A place \in DOMAIN slots[i].data.bits : slots[i].data.bits[place] = 1 => place = 217

\* Whether the second half of a stolen slot is signalling or traffic is what the
\* first half says of it, in the uplink and the downlink, for every address type
\* and for both kinds of signalling (slot.cpp lines 52-97).
StolenAgrees ==
    \A burst \in sent :
        /\ Len(slots) = 2 /\ slots[1].channel = "StealingChannel"
        /\ AsSent(burst) /\ Undamaged(burst, {"bkn1"})
        => (slots[2].channel = "StealingChannel") = burst.second_half_stolen

\* The block of each slot.
BlockOf(burst, i) ==
    IF burst.burst_type = "SynchronizationBurst" \/ i = 2 THEN "bkn2"
    ELSE IF burst.burst_type = "ControlUplinkBurst" THEN "cb" ELSE "bkn1"

KnownPdus(burst, i) ==
    LET block == burst.blocks[BlockOf(burst, i)]
    IN block.known /\ block.changed = {} /\ block.pdus # {}

\* What the sender means with a slot.
Meant(burst, i) == burst.blocks[BlockOf(burst, i)].meant

\* The second of two broadcasts is refused with its slot.
TwoBroadcasts(burst) ==
    Len(slots) = 2 /\ \A i \in 1 .. 2 : Meant(burst, i).broadcast # {}

\* What was sent with all blocks; traffic is the subject of BlocksInPlace.
AllMeant(burst) ==
    LET Of(i) == IF slots[i].channel = "TrafficChannel"
                 THEN [Nothing EXCEPT !.traffic = {slots[i].data.bits}] ELSE Meant(burst, i)
    IN IF Len(slots) = 1 \/ TwoBroadcasts(burst) THEN Of(1) ELSE Merged(Of(1), Of(2))

\* Undamaged blocks whose fill bits are at their end, and that do not have a PDU
\* that the builder is known to refuse or to misread, become the packets that
\* were sent, none else, and in order (builder lines 109-528), but for the second
\* of two broadcasts, which cannot be merged; a system information has the
\* frequencies of its cell.
ParsedAsSent ==
    \A burst \in sent :
        /\ Finished /\ AsSent(burst) /\ Undamaged(burst, DOMAIN burst.blocks)
        /\ \A block \in DOMAIN burst.blocks : burst.blocks[block].plain /\ burst.blocks[block].known
        => /\ failed = IF TwoBroadcasts(burst) THEN {2} ELSE {}
           /\ packets = AllMeant(burst)
           /\ \A v \in packets.broadcast : "main_carrier" \in DOMAIN v =>
                 downlink_frequency(v) = burst.downlink /\ uplink_frequency(v) = burst.uplink

\* The packet is the one sent, but for the end of its TM-SDU: less than 8 bits too
\* many, or an end missing that looks like fill bits, of less than 8 bits unless the
\* PDU is the last of its block.
SameButForFill(parsed, meant, is_last) ==
    /\ [parsed EXCEPT !.tm_sdu = {}] = [meant EXCEPT !.tm_sdu = {}]
    /\ (parsed.tm_sdu = {}) = (meant.tm_sdu = {})
    /\ \A p \in parsed.tm_sdu, m \in meant.tm_sdu :
          LET common == IF Len(p) < Len(m) THEN Len(p) ELSE Len(m)
          IN /\ SubSeq(p, 1, common) = SubSeq(m, 1, common)
             /\ Len(p) - common < 8 /\ (is_last \/ Len(m) - common < 8)
             /\ SubSeq(m, common + 1, Len(m)) = FillBits(Len(m) - common)

\* Fill bits between PDUs and odd lengths do no more than this: whatever PDUs share
\* an undamaged block, those that are parsed are the ones sent, in order, and what
\* is wrong with a TM-SDU is that it ends in the fill bits of its PDU, or that its
\* end was taken for fill bits (lines 109-146).
FillDamageIsBounded ==
    \A burst \in sent :
        pc \in {"pdu", "parsed"} /\ OfThisCell(burst) /\ KnownPdus(burst, slot) =>
            LET meant == Meant(burst, slot).c_plane
            IN /\ Len(current.c_plane) <= Len(meant)
               /\ \A i \in DOMAIN current.c_plane :
                     SameButForFill(current.c_plane[i], meant[i], i = Len(meant))

\* A burst that is reported without an error has no signalling block with a wrong
\* CRC: "check if there was any crc mismatch on the signalling or stealing
\* channels" (slot.hpp line 166).
CrcErrorReported ==
    (\E i \in 1 .. Len(slots) : slots[i].channel # "TrafficChannel" /\ ~slots[i].crc_ok)
        => decode_error

=============================================================================
