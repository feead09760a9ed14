----------------------------- MODULE BurstChannels -----------------------------
(***************************************************************************)
(* LowerMac::processChannels (lower_mac.cpp) and the Slots it makes: from  *)
(* a burst on the air to the data of its logical channels.                 *)
(*                                                                         *)
(* A burst is what the network sent and what the air did to it:            *)
(*   burst_type, cell     its type, and the scrambling code of its cell    *)
(*   aach, aach_errors    the 14 bits of the access assignment channel,    *)
(*                        and which of the 30 coded bits came wrong        *)
(*   blocks               of each block, the bits with their CRC, and      *)
(*                        which of them the air changes after decoding     *)
(* The coded bits of a block are not spelled out: known is which of them   *)
(* the code takes from another place than the network put them.            *)
(***************************************************************************)
EXTENDS PacketBuilder, ChannelCoding

CONSTANT Correctable       \* so many wrong coded bits the Viterbi decoder corrects

\* The code needs one.
ASSUME CorrectableAssumption == Correctable \in Nat \ {0}

-----------------------------------------------------------------------------
(* The network: ETSI EN 300 392-2, 9.4.4 and 8.2.                          *)

\* A block is sent in one piece or, around a training sequence, in two.
Sending(burst, block) ==
    CASE block = "sb" -> [first |-> 94, length |-> 120, second |-> 214]
      [] block = "cb" -> [first |-> 4, length |-> 84, second |-> 118]
      [] block = "bb" -> IF burst = "SynchronizationBurst"
                         THEN [first |-> 252, length |-> 30, second |-> 282]
                         ELSE [first |-> 230, length |-> 14, second |-> 266]
      [] block = "bkn1" -> IF is_uplink_burst(burst)
                           THEN [first |-> 4, length |-> 216, second |-> 242]
                           ELSE [first |-> 14, length |-> 216, second |-> 282]
      [] block = "bkn2" -> [first |-> IF is_uplink_burst(burst) THEN 242 ELSE 282,
                            length |-> 216, second |-> 498]

SentPosition(burst, block, i) ==
    LET s == Sending(burst, block) IN
    IF i < s.length THEN s.first + i ELSE s.second + i - s.length

Interleaved(i, size, a) == (a * (i + 1)) % size
Punctured(i) == 8 * (i \div 3) + (IF i % 3 = 2 THEN 4 ELSE i % 3)

\* The bit of the training sequence that the broadcast block is cut by.
TrainingBit(burst) == IF burst = "NormalDownlinkBurst" THEN 1 ELSE 0

\* The information bits that each check bit of the Reed-Muller code adds up.
Generator ==
    << {1,3,4,5,8,9}, {3,4,6,8,10}, {2,3,4,7,8,11}, {1,3,5,6,8,12}, {1,2,3,5,7,8,13},
       {2,3,6,7,8,14}, {1,8,9,10,12}, {1,2,8,9,11,13}, {2,8,10,11,14}, {1,2,8,12,13,14},
       {1,2,3,4,5,6,7,9,10,11,12,13,14}, {4,5,6,8,9,10,12}, {4,5,7,8,9,11,13},
       {4,6,7,8,10,11,14}, {5,6,7,8,12,13,14}, {8,9,10,11,12,13,14} >>

reed_muller_3014_encode(bits) == bits \o [n \in 1 .. 16 |-> Parity(bits, Generator[n])]

\* The broadcast block as it is sent, and as it is received.
Coded(sent) == descramble(reed_muller_3014_encode(sent.aach), sent.cell)
Received(sent, i) == (Coded(sent)[i] + (IF i \in sent.aach_errors THEN 1 ELSE 0)) % 2

\* The synchronization block is scrambled with a code that all cells share.
ScrambledWith(sent, block) ==
    IF block = "sb" THEN [i \in 1 .. 32 |-> IF i >= 31 THEN 1 ELSE 0] ELSE sent.cell

\* A block with its CRC, which is sent complemented.
WithCrc(bits) == bits \o [i \in 1 .. 16 |-> 1 - Crc(bits)[i]]

-----------------------------------------------------------------------------
(* Where the code reads a block, and what it makes of it.                  *)

\* Bit i is read at first + i, and behind the cut at rest + i.
Reading(burst, block) ==
    CASE block = "sb" -> [first |-> 94, cut |-> 120, rest |-> 94]
      [] block = "cb" -> [first |-> 4, cut |-> 84, rest |-> 34]
      [] block = "bb" -> IF burst = "SynchronizationBurst"
                         THEN [first |-> 252, cut |-> 30, rest |-> 252]
                         ELSE [first |-> 230, cut |-> 14, rest |-> 252]
      [] block = "bkn1" -> IF is_uplink_burst(burst) THEN [first |-> 4, cut |-> 216, rest |-> 26]
                           ELSE [first |-> 14, cut |-> 216,
                                 rest |-> IF burst = "NormalDownlinkBurst" THEN 66 ELSE 14]
      [] block = "bkn2" -> [first |-> IF is_uplink_burst(burst) THEN 242 ELSE 282,
                            cut |-> 216, rest |-> IF is_uplink_burst(burst) THEN 242 ELSE 282]

ReadPosition(burst, block, i) ==
    LET r == Reading(burst, block) IN IF i > r.cut THEN r.rest + i ELSE r.first + i

\* The coded bits of a block: its size, the parameter of the interleaver, and
\* the bits of the data that come out.
Coding(burst, block) ==
    CASE block = "sb" -> [size |-> 120, a |-> 11, data |-> 60]
      [] block = "cb" -> [size |-> 168, a |-> 13, data |-> 92]
      [] block = "bkn1" /\ burst \in {"NormalDownlinkBurst", "NormalUplinkBurst"} ->
           [size |-> 432, a |-> 103, data |-> 268]
      [] OTHER -> [size |-> 216, a |-> 101, data |-> 124]

\* The places of the type 4 bits that are not read where they are sent, and of
\* the bits that reach the Viterbi decoder in another place than was encoded.
Misplaced(burst, block) ==
    {i \in 0 .. Coding(burst, block).size - 1 :
        ReadPosition(burst, block, i) # SentPosition(burst, block, i)}

Misread(burst, block) ==
    LET c == Coding(burst, block) IN
    {i \in 0 .. c.size - 1 :
        \/ Depunctured(i) # Punctured(i)
        \/ ReadPosition(burst, block, Deinterleaved(i, c.size, c.a))
              # SentPosition(burst, block, Interleaved(i, c.size, c.a))}

\* viter_bi_decode_1614: what was encoded, if few enough of the bits are wrong.
Decoded(sent, block, code) ==
    LET came == sent.blocks[block]
        lost == \/ code # ScrambledWith(sent, block)
                \/ Cardinality(Misread(sent.burst_type, block)) > Correctable
        changed == came.changed \cup IF lost THEN {1} ELSE {}
    IN [i \in DOMAIN came.bits |-> IF i \in changed THEN 1 - came.bits[i] ELSE came.bits[i]]

\* LogicalChannelDataAndCrc.  Of a traffic channel, which is not decoded, the bits
\* that are not those sent are 1.
ChannelData(sent, channel, block, code) ==
    LET bits == Decoded(sent, block, code)
        data == Coding(sent.burst_type, block).data
    IN IF channel = "TrafficChannel"
       THEN [channel |-> channel, crc_ok |-> TRUE,
             data |-> BitVec([i \in 1 .. Coding(sent.burst_type, block).size |->
                                 IF i - 1 \in Misplaced(sent.burst_type, block) THEN 1 ELSE 0])]
       ELSE [channel |-> channel, data |-> BitVec(SubSeq(bits, 1, data)),
             crc_ok |-> check_crc_16_ccitt(SubSeq(bits, 1, data + 16))]

-----------------------------------------------------------------------------
(* The access assignment and the broadcast synchronization channel.        *)

DownlinkUsage_NoFrame18(aach, frame_number) ==
    LET header == ToNat(SubSeq(aach, 1, 2))
        field1 == ToNat(SubSeq(aach, 3, 8))
    IN IF header = 0 THEN "CommonControl"
       ELSE IF field1 > 3 THEN "Traffic"
       ELSE <<"Unallocated", "AssignedControl", "CommonControl",
              "CommonAndAssignedControl">>[field1 + 1]

\* AccessAssignmentChannel
DownlinkUsage(aach, frame_number) ==
    LET header == ToNat(SubSeq(aach, 1, 2))
        field1 == ToNat(SubSeq(aach, 3, 8))
    IN IF frame_number = 18 \/ header = 0 THEN "CommonControl"
       ELSE IF field1 > 3 THEN "Traffic"
       ELSE <<"Unallocated", "AssignedControl", "CommonControl",
              "CommonAndAssignedControl">>[field1 + 1]

\* The 14 bits as they are decoded from the broadcast block.
AccessAssignment(sent, code) ==
    LET burst == sent.burst_type
        At(position) ==
            LET i == {j \in 1 .. 30 : SentPosition(burst, "bb", j - 1) = position}
            IN IF i = {} THEN TrainingBit(burst) ELSE Received(sent, CHOOSE j \in i : TRUE)
        bb_input == [i \in 1 .. 30 |-> At(ReadPosition(burst, "bb", i - 1))]
    IN reed_muller_3014_decode(descramble(bb_input, code))

BroadcastSynchronizationChannel ==
    << Field("system_code", 4), Field("color_code", 6), Field("time_slot", 2),
       Field("frame_number", 5), Field("multi_frame_number", 6), Field("sharing_mode", 2),
       Field("time_slot_reserved_frames", 3), Field("up_lane_dtx", 1),
       Field("frame_18_extension", 1), Field("reserved", 1),
       Field("mobile_country_code", 10), Field("mobile_network_code", 14),
       Field("dNwrk_broadcast_broadcast_supported", 1),
       Field("dNwrk_broadcast_enquiry_supported", 1),
       Field("cell_load_ca", 2), Field("late_entry_supported", 1) >>

scrambling_code(v) ==
    ToBits(v.mobile_country_code, 10) \o ToBits(v.mobile_network_code, 14)
    \o ToBits(v.color_code, 6) \o <<1, 1>>

BschScramblingCode == [i \in 1 .. 30 |-> 0] \o <<1, 1>>

-----------------------------------------------------------------------------
(* Slots.                                                                  *)

\* processChannels: for each slot, the channels that it may be.
processChannels(sent, code, frame_number) ==
    LET burst == sent.burst_type
        traffic == DownlinkUsage(AccessAssignment(sent, code), frame_number) = "Traffic"
        On(block, channels) == {ChannelData(sent, channel, block, code) : channel \in channels}
        stolen == << On("bkn1", {"StealingChannel"}),
                     On("bkn2", {"StealingChannel", "TrafficChannel"}) >>
    IN CASE burst = "SynchronizationBurst" -> << On("bkn2", {"SignallingChannelHalfDownlink"}) >>
         [] burst = "NormalDownlinkBurst" ->
              << On("bkn1", {IF traffic THEN "TrafficChannel" ELSE "SignallingChannelFull"}) >>
         [] burst = "NormalDownlinkBurstSplit" ->
              IF traffic THEN stolen
              ELSE << On("bkn1", {"SignallingChannelHalfDownlink"}),
                      On("bkn2", {"SignallingChannelHalfDownlink"}) >>
         [] burst = "ControlUplinkBurst" -> << On("cb", {"SignallingChannelHalfUplink"}) >>
         [] burst = "NormalUplinkBurst" ->
              << On("bkn1", {"SignallingChannelFull", "TrafficChannel"}) >>
         [] burst = "NormalUplinkBurstSplit" -> stolen

SecondHalfSlotStolen_LongAddress(burst, data) ==
    LET pdu_type == look(2, 0, data)
        offset == IF is_uplink_burst(burst) THEN 6 + 24 ELSE 6
    IN \/ pdu_type = 3 /\ look(1, 2, data) = 1
       \/ /\ pdu_type = 0
          /\ is_uplink_burst(burst) => look(1, offset, data) = 0
          /\ look(6, offset + 1, data) \in {62, 63}

\* What the first half of a stolen slot says of the second: the length indication
\* of a MAC-DATA or MAC-RESOURCE, or the flag of a MAC-U-SIGNAL.
SecondHalfSlotStolen(burst, data) ==
    LET pdu_type == look(2, 0, data)
        offset == IF is_uplink_burst(burst)
                  THEN 6 + (IF look(2, 4, data) = 1 THEN 10 ELSE 24) ELSE 6
    IN \/ pdu_type = 3 /\ look(1, 2, data) = 1
       \/ /\ pdu_type = 0
          /\ is_uplink_burst(burst) => look(1, offset, data) = 0
          /\ look(6, offset + 1, data) \in {62, 63}

select_logical_channel(slot, channel) == {data \in slot : data.channel = channel}

\* The constructors of Slots make every slot concrete, with one channel.
Slots(burst, slots) ==
    LET first == IF burst = "NormalUplinkBurst"
                 THEN select_logical_channel(slots[1], "SignallingChannelFull") ELSE slots[1]
        concrete == CHOOSE data \in first : TRUE
        second == IF concrete.channel # "StealingChannel" THEN slots[2]
                  ELSE select_logical_channel(slots[2],
                          IF SecondHalfSlotStolen(burst, concrete.data)
                          THEN "StealingChannel" ELSE "TrafficChannel")
    IN IF Len(slots) = 1 THEN <<concrete>>
       ELSE <<concrete, CHOOSE data \in second : TRUE>>

\* has_crc_error: of two slots, both tests are of the first.
has_crc_error(slots) ==
    \/ slots[1].channel # "TrafficChannel" /\ ~slots[1].crc_ok
    \/ Len(slots) = 2 /\ slots[2].channel # "TrafficChannel" /\ ~slots[1].crc_ok

=============================================================================
