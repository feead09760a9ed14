----------------------------- MODULE PacketBuilder -----------------------------
(***************************************************************************)
(* UpperMacPacketBuilder (upper_mac_packet_builder.cpp): what the upper    *)
(* MAC makes of the data of one slot.  An exception is a result that is    *)
(* not ok.  An optional value is a set of at most one.  Of the fields of a *)
(* packet, those are kept that decide what is done with it.                *)
(***************************************************************************)
EXTENDS MacPdus

UplinkBursts == {"ControlUplinkBurst", "NormalUplinkBurst", "NormalUplinkBurstSplit"}
DownlinkBursts == {"NormalDownlinkBurst", "NormalDownlinkBurstSplit", "SynchronizationBurst"}

is_uplink_burst(burst) == burst \in UplinkBursts

-----------------------------------------------------------------------------
(* A C-plane PDU.                                                          *)

\* The type of the PDU, or that it is refused.
PduType(burst, channel, data) ==
    LET up == is_uplink_burst(burst)
        pdu_type == look(2, 0, data)
        subtype == look(1, 2, data)
    IN IF channel = "SignallingChannelHalfUplink"
       THEN IF ~up THEN "refused" ELSE IF look(1, 0, data) = 0 THEN "MacAccess" ELSE "MacEndHu"
       ELSE CASE pdu_type = 0 -> IF up THEN "MacData" ELSE "MacResource"
              [] pdu_type = 1 /\ subtype = 0 ->
                   IF channel = "StealingChannel" THEN "refused"
                   ELSE IF up THEN "MacFragmentUplink" ELSE "MacFragmentDownlink"
              [] pdu_type = 1 /\ subtype = 1 -> IF up THEN "MacEndUplink" ELSE "MacEndDownlink"
              [] pdu_type = 2 -> "refused"
              [] pdu_type = 3 ->
                   IF subtype = 1 \/ channel # "SignallingChannelFull" THEN "refused"
                   ELSE IF up THEN "MacUBlck" ELSE "MacDBlck"

HeaderOf(type) ==
    CASE type = "MacAccess" -> MacAccess
      [] type = "MacEndHu" -> MacEndHu
      [] type = "MacData" -> MacData
      [] type \in {"MacFragmentUplink", "MacFragmentDownlink"} -> MacFragment
      [] type = "MacEndUplink" -> MacEndUplink
      [] type = "MacUBlck" -> MacUBlck
      [] type = "MacResource" -> MacResource
      [] type = "MacEndDownlink" -> MacEndDownlink
      [] type = "MacDBlck" -> MacDBlck

\* The length that is indicated, if it is not implicit.
Length(type, v) ==
    IF "length_indication" \notin DOMAIN v THEN {}
    ELSE CASE type = "MacAccess" -> {Length_from_mac_access(v.length_indication)}
           [] type = "MacEndHu" -> {Length_from_mac_end_hu(v.length_indication)}
           [] type \in {"MacData", "MacResource"} ->
                IF v.length_indication >= 62 THEN {} ELSE {Length_from_mac_data(v.length_indication)}
           [] type = "MacEndUplink" ->
                IF v.length_indication >= 48 THEN {}
                ELSE {Length_from_mac_end_uplink(v.length_indication)}
           [] type = "MacEndDownlink" -> {Length_from_mac_end_downlink(v.length_indication)}

\* The TM-SDU after a header of so many bits, and the data after it.  A length
\* below that of the header wraps around in size_t and is thrown on as well.
extract_tm_sdu(data, header, fill_bit_indication, length) ==
    LET data2 == IF fill_bit_indication = 1 THEN remove_fill_bits(data) ELSE data
        left == bits_left(data2)
        payload == IF length = {} THEN left ELSE (CHOOSE n \in length : TRUE) - header
        capped == IF payload > left THEN left ELSE payload
    IN IF \/ fill_bit_indication = 1 /\ ~CanRemoveFillBits(data)
          \/ payload < 0
          \/ payload - left >= 8
       THEN [ok |-> FALSE]
       ELSE [ok |-> TRUE, tm_sdu |-> take_vector(capped, data2), data |-> Taken(capped, data2)]

is_null_pdu(packet) ==
    \/ packet.type = "MacResource" /\ packet.address = NoAddress
    \/ packet.type \in {"MacAccess", "MacData"} /\ packet.tm_sdu = {}

Packet(type, v, tm_sdu) ==
    [type |-> type, address |-> AddressOf(v), tm_sdu |-> tm_sdu,
     fragmentation |-> \/ Has(v, "fragmentation", {1})
                       \/ type = "MacResource" /\ v.length_indication = 63,
     fragmentation_on_stealing_channel |-> type = "MacData" /\ Has(v, "length_indication", {63})]

\* parse_c_plane_signalling_packet
parse_c_plane_signalling_packet(burst, channel, data) ==
    LET type == PduType(burst, channel, data)
        header == Read(HeaderOf(type), data)
        v == header.value
        null == Packet(type, v, {})
        sdu == extract_tm_sdu(header.data, bits_left(data) - bits_left(header.data),
                              v.fill_bit_indication, Length(type, v))
    IN IF type = "refused" \/ ~header.ok THEN [ok |-> FALSE]
       ELSE IF type \in {"MacAccess", "MacData"} /\ Has(v, "length_indication", {0})
       THEN [ok |-> TRUE, packet |-> null, data |-> header.data]
       ELSE IF type = "MacResource" /\ AddressOf(v) = NoAddress
       THEN IF CanRemoveFillBits(header.data)
            THEN [ok |-> TRUE, packet |-> null, data |-> remove_fill_bits(header.data)]
            ELSE [ok |-> FALSE]
       ELSE IF sdu.ok
       THEN [ok |-> TRUE, packet |-> Packet(type, v, {sdu.tm_sdu}), data |-> sdu.data]
       ELSE [ok |-> FALSE]

\* parse_c_plane_signalling: less than this is discarded.
min_bit_count(burst, channel) ==
    IF ~is_uplink_burst(burst) THEN 16
    ELSE IF channel = "SignallingChannelHalfUplink" THEN 36 ELSE 37

HasNextPdu(burst, channel, data) ==
    bits_left(data) >= min_bit_count(burst, channel) /\ ~is_mac_padding(data)

-----------------------------------------------------------------------------
(* The whole of a slot.                                                    *)

Nothing == [c_plane |-> <<>>, u_plane |-> <<>>, traffic |-> {}, broadcast |-> {}]

\* parse_slot: what kind of data the slot holds.
KindOf(burst, slot) ==
    LET pdu_type == look(2, 0, slot.data) IN
    CASE slot.channel = "TrafficChannel" -> "traffic"
      [] slot.channel # "TrafficChannel" /\ ~slot.crc_ok -> "nothing"
      [] slot.channel = "StealingChannel" /\ slot.crc_ok ->
           IF pdu_type = 3 THEN "u_plane" ELSE "c_plane"
      [] OTHER -> IF pdu_type # 2 THEN "c_plane"
                  ELSE IF is_uplink_burst(burst) THEN "refused" ELSE "broadcast"

\* parse_broadcast: all bits have to be used.
parse_broadcast(data) ==
    LET broadcast_type == look(2, 2, data)
        layout == IF broadcast_type = 0 THEN SystemInfo ELSE AccessDefine
        parsed == Read(layout, Taken(4, data))
    IN IF broadcast_type >= 2 \/ ~parsed.ok \/ bits_left(parsed.data) # 0 THEN [ok |-> FALSE]
       ELSE [ok |-> TRUE, value |-> parsed.value]

\* parse_u_plane_signalling: the TM-SDU of a MAC-U-SIGNAL.
parse_u_plane_signalling(data) == Taken(3, data).bits

CanMerge_Traffic(packets, other) == packets.traffic = {} \/ other.traffic = {}

\* UpperMacPackets::merge
CanMerge(packets, other) ==
    /\ packets.traffic = {} \/ other.traffic = {}
    /\ packets.broadcast = {} \/ other.broadcast = {}

Merged(packets, other) ==
    [c_plane |-> packets.c_plane \o other.c_plane, u_plane |-> packets.u_plane \o other.u_plane,
     traffic |-> packets.traffic \cup other.traffic,
     broadcast |-> packets.broadcast \cup other.broadcast]

=============================================================================
