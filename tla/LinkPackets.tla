------------------------------ MODULE LinkPackets ------------------------------
(***************************************************************************)
(* The packets of the layers above the upper MAC: the fields that each of  *)
(* their parsers takes, as layouts, and what the network sends when it     *)
(* sends them, which is defined by what the bits are and not by how they   *)
(* are read.                                                               *)
(*                                                                         *)
(* In what is sent, s is a TM-SDU as described in LinkLayers.              *)
(***************************************************************************)
EXTENDS BitVector

-----------------------------------------------------------------------------
(* The fields of the layers.                                               *)

\* BasicLinkInformation; of other PDUs only the type is looked at.
BasicLinkInformation ==
    << Field("llc_type", 4),
       Optional("n_r", 1, [llc_type |-> {0, 3, 4, 7}]),
       Optional("n_s", 1, [llc_type |-> {0, 1, 4, 5}]) >>

MobileLinkEntityPacket == << Field("discriminator", 3) >>

kMmProtocol == 1
kCmceProtocol == 2
kMleProtocol == 5

\* D-LOCATION UPDATE ACCEPT, with a P-bit before each type 2 element.
kDLocationUpdateAccept == 5

LocationUpdateAccept ==
    << Field("location_update_accept_type", 4), Field("o_bit", 1) >>
    \o Under([o_bit |-> {1}],
       << Field("p_ssi", 1), Optional("ssi", 24, [p_ssi |-> {1}]),
          Field("p_mni", 1), Optional("country_code", 10, [p_mni |-> {1}]),
                             Optional("network_code", 14, [p_mni |-> {1}]),
          Field("p_class", 1), Optional("subscriber_class", 16, [p_class |-> {1}]),
          Field("p_saving", 1), Optional("energy_saving_information", 14, [p_saving |-> {1}]),
          Field("p_scch", 1), Optional("scch_information", 4, [p_scch |-> {1}]),
                              Optional("distribution_on_18th_frame", 2, [p_scch |-> {1}]) >>)

kDAttachDetachGroupIdentityAck == 11

AttachDetachGroupIdentityAcknowledgement ==
    << Field("group_identity_accept_reject", 1), Field("reserved", 1), Field("o_bit", 1) >>

MobileManagementPacket(downlink) ==
    << Field("mm_type", 4) >>
    \o IF ~downlink THEN <<>>
       ELSE Under([mm_type |-> {kDLocationUpdateAccept}], LocationUpdateAccept)
            \o Under([mm_type |-> {kDAttachDetachGroupIdentityAck}],
                     AttachDetachGroupIdentityAcknowledgement)

\* D-SDS-DATA and U-SDS-DATA have the same type; the data is not a field.
SdsData == 15

CircuitModeControlEntityPacket(downlink) ==
    << Field("cmce_type", 5) >>
    \o Under([cmce_type |-> {SdsData}],
          (IF downlink THEN <<>> ELSE << Field("area_selection", 4) >>)
       \o << Field("calling_party_type_identifier", 2) >>
       \o (IF downlink THEN <<>>
           ELSE << Optional("sna", 8, [calling_party_type_identifier |-> {0}]) >>)
       \o << Optional("ssi", 24, [calling_party_type_identifier |-> {1, 2}]),
             Optional("country_code", 10, [calling_party_type_identifier |-> {2}]),
             Optional("network_code", 14, [calling_party_type_identifier |-> {2}]),
             Field("short_data_type_identifier", 2),
             Optional("length_identifier", 11, [short_data_type_identifier |-> {3}]) >>)

LengthOfData(v) ==
    IF v.short_data_type_identifier = 3 THEN v.length_identifier
    ELSE <<16, 32, 64>>[v.short_data_type_identifier + 1]

kLocationInformationProtocolIdentifier == 10

ShortLocationReport ==
    << Field("time_elapsed", 2), Field("longitude", 25), Field("latitude", 24),
       Field("position_error", 3), Field("horizontal_velocity", 7),
       Field("direction_of_travel", 4), Field("type_of_addition_data", 1),
       Field("additional_data", 8) >>

ShortDataServicePacket ==
    << Field("protocol_identifier", 8) >>
    \o Under([protocol_identifier |-> {kLocationInformationProtocolIdentifier}],
          << Field("location_type", 2) >> \o Under([location_type |-> {0}], ShortLocationReport))

\* integer_to_double, without the multiplication: two's complement.
integer_to_double(v, bits) == IF v >= 2 ^ (bits - 1) THEN v - 2 ^ bits ELSE v

\* std::pow of 1.038, with four decimal places.
pow[exponent \in -13 .. 113] ==
    IF exponent = 0 THEN 10000
    ELSE IF exponent > 0 THEN (pow[exponent - 1] * 1038) \div 1000
    ELSE (pow[exponent + 1] * 1000) \div 1038

\* In ten thousandths of a kilometre per hour.
decode_horizontal_velocity_Linear(v) == IF v = 127 THEN -1 ELSE v * 10000
decode_horizontal_velocity(v) == IF v = 127 THEN -1 ELSE 16 * pow[v - 13]

\* ShortLocationReport, from its fields.
Converted(v) ==
    IF "longitude" \notin DOMAIN v THEN v
    ELSE [v EXCEPT !.longitude = integer_to_double(@, 25), !.latitude = integer_to_double(@, 24),
                   !.horizontal_velocity = decode_horizontal_velocity(@)]

\* A type 3 or type 4 element, which has the number of elements in it.
ElementHeader == << Field("m_bit", 1), Field("element_identifier", 4), Field("length_indicator", 11) >>

\* The elements that a parser of elements allows.
NoElements == [type3 |-> {}, type4 |-> {}]

Allowed(where, v) ==
    CASE where \in {"cmce", "sds"} -> [type3 |-> {2, 6}, type4 |-> {}]
      [] where = "mm" /\ v.mm_type = kDLocationUpdateAccept ->
           [type3 |-> {1, 3, 5, 10, 13, 15}, type4 |-> {2, 12}]
      [] where = "mm" /\ v.mm_type = kDAttachDetachGroupIdentityAck ->
           [type3 |-> {15}, type4 |-> {7, 12}]
      [] OTHER -> NoElements

-----------------------------------------------------------------------------
(* What the network sends.                                                 *)

\* The frame check sequence of a link that has one: the ones complement of what is
\* left when the bits, the first 32 of them inverted and 32 zeros behind them, are
\* divided by x^32 + ... + 1.

GeneratorPowers == {32, 26, 23, 22, 16, 12, 11, 10, 8, 7, 5, 4, 2, 1, 0}

Generator(j) == IF 33 - j \in GeneratorPowers THEN 1 ELSE 0

Dividend(bits) ==
    [j \in 1 .. Len(bits) + 32 |-> IF j > Len(bits) THEN 0
                                   ELSE IF j <= 32 THEN 1 - bits[j] ELSE bits[j]]

\* One step of the division, which clears bit i.
Reduced(p, i) ==
    IF p[i] = 0 THEN p
    ELSE [j \in DOMAIN p |-> IF j \in i .. i + 32 THEN (p[j] + Generator(j - i + 1)) % 2 ELSE p[j]]

FrameCheckSequence(bits) ==
    LET left[i \in 0 .. Len(bits)] ==
            IF i = 0 THEN {Dividend(bits)} ELSE {Reduced(p, i) : p \in left[i - 1]}
        last == CHOOSE p \in left[Len(bits)] : TRUE
    IN [j \in 1 .. 32 |-> 1 - last[Len(bits) + j]]

\* Of a basic link PDU, the TL-SDU is behind its numbers.
LinkNames(s) == Fields(BasicLinkInformation, s.value)
HeaderLength(s) == Width(BasicLinkInformation, s.value)
HasSequence(s) == s.value.llc_type \in 4 .. 7
LengthBehind(s) == s.fill + IF HasSequence(s) THEN 32 ELSE 0

\* With the bits that were taken off its end.
Complete(s) == s.bits \o FillBits(s.lost)
TlSdu(s) == SubSeq(Complete(s), HeaderLength(s) + 1, Len(Complete(s)) - LengthBehind(s))

SentLink(s) ==
    /\ Writes(BasicLinkInformation, s.value, Complete(s), 0)
    /\ HeaderLength(s) + LengthBehind(s) <= Len(Complete(s))

\* Elements: each behind an M-bit, and then one that is not set.  Those of type 4
\* have a count.
CountWidth(el) == IF el.count = 0 THEN 0 ELSE 6
ElementWidth(el) == 16 + CountWidth(el) + Len(el.bits)

SentElement(el, bits, at) ==
    LET header == [m_bit |-> 1, element_identifier |-> el.id,
                   length_indicator |-> CountWidth(el) + Len(el.bits)]
        first == at + 16 + CountWidth(el)
    IN /\ Writes(ElementHeader, header, bits, at)
       /\ el.count # 0 => Writes(<< Field("repeated_elements", 6) >>,
                                 [repeated_elements |-> el.count], bits, at + 16)
       /\ first + Len(el.bits) <= Len(bits)
       /\ el.bits = SubSeq(bits, first + 1, first + Len(el.bits))

\* Where the first elements end.
Ends(els, from) ==
    LET end[i \in 0 .. Len(els)] ==
            IF i = 0 THEN from ELSE end[i - 1] + ElementWidth(els[i])
    IN end

\* One of type 4 may be too short to have its count.
IsTooShort(s, i) == s.in_order[i].id \in Allowed(s.layer, s.value).type4 /\ s.in_order[i].count = 0

IsKnown(s, i) ==
    /\ s.in_order[i].id \in Allowed(s.layer, s.value).type3 \cup Allowed(s.layer, s.value).type4
    /\ \A j \in 1 .. i - 1 : s.in_order[j].id # s.in_order[i].id
    /\ ~IsTooShort(s, i)

Collected(els, n) ==
    [id \in {els[i].id : i \in 1 .. n} |->
        LET el == els[CHOOSE i \in 1 .. n : els[i].id = id]
        IN [unparsed_bits |-> el.bits, repeated_elements |-> IF el.count = 0 THEN 1 ELSE el.count]]

SentElements(s, from) ==
    LET end == Ends(s.in_order, from)
        n == Len(s.in_order)
    IN /\ Writes(<< Field("m_bit", 1) >>, [m_bit |-> 0], TlSdu(s), end[n])
       /\ \A i \in 1 .. n :
             /\ SentElement(s.in_order[i], TlSdu(s), end[i - 1])
             /\ s.in_order[i].id \in Allowed(s.layer, s.value).type3 => s.in_order[i].count = 0
             /\ IsTooShort(s, i) => Len(s.in_order[i].bits) < 6
       /\ s.understood <=> \A i \in 1 .. n : IsKnown(s, i)
       /\ s.understood => s.elements = Collected(s.in_order, n)

SentWithout(s) == s.understood /\ s.elements = NoFields

SentOptional(s, names, from) ==
    IF "o_bit" \in names /\ s.value.o_bit = 1 THEN SentElements(s, from) ELSE SentWithout(s)

\* The layers, each with all that is above it.
Sent(s, names) == DOMAIN s.value \ {"fcs_good"} = names

SentLlc(s) ==
    /\ s.layer = "llc" /\ Sent(s, LinkNames(s)) /\ SentWithout(s)
    /\ s.value.llc_type < 8 => TlSdu(s) = <<>>

MleNames(s) == LinkNames(s) \cup Fields(MobileLinkEntityPacket, s.value)
MleWidth(s) == Width(MobileLinkEntityPacket, s.value)

SentMle(s) ==
    /\ s.layer = "mle" /\ Sent(s, MleNames(s)) /\ SentWithout(s)
    /\ s.value.discriminator \notin {kMmProtocol, kCmceProtocol}

SentMm(s) ==
    LET layout == MobileManagementPacket(s.downlink)
        names == Fields(layout, s.value)
    IN /\ s.layer = "mm" /\ Sent(s, MleNames(s) \cup names)
       /\ s.value.discriminator = kMmProtocol
       /\ Writes(layout, s.value, TlSdu(s), MleWidth(s))
       /\ SentOptional(s, names, MleWidth(s) + Width(layout, s.value))

\* The fields of a position.  The speed is one of a scale, 1.038 between any two
\* steps and 16 km/h at the 13th, or -1 if it is not known, which is sent as 127.
Position == {"longitude", "latitude", "horizontal_velocity"}

SpeedAt(step) == IF step = 127 THEN -1 ELSE 16 * pow[step - 13]

IsPosition(v) ==
    /\ v.longitude \in -(2 ^ 24) .. 2 ^ 24 - 1 /\ v.latitude \in -(2 ^ 23) .. 2 ^ 23 - 1
    /\ v.horizontal_velocity \in {SpeedAt(step) : step \in 0 .. 127}

Unsigned(v) ==
    IF "longitude" \notin DOMAIN v THEN v
    ELSE [v EXCEPT !.longitude = IF @ < 0 THEN @ + 2 ^ 25 ELSE @,
                   !.latitude = IF @ < 0 THEN @ + 2 ^ 24 ELSE @,
                   !.horizontal_velocity = CHOOSE step \in 0 .. 127 : SpeedAt(step) = @]

CmceNames(s) == Fields(CircuitModeControlEntityPacket(s.downlink), s.value)
CmceEnd(s) == MleWidth(s) + Width(CircuitModeControlEntityPacket(s.downlink), s.value)
SdsNames(s) == Fields(ShortDataServicePacket, Unsigned(s.value))

SentShortData(s) ==
    LET end == CmceEnd(s) + LengthOfData(Only(s.value, CmceNames(s)))
    IN /\ LengthOfData(Only(s.value, CmceNames(s))) \in Nat
       /\ Writes(<< Field("o_bit", 1) >>, s.value, TlSdu(s), end)
       /\ s.value.data = SubSeq(TlSdu(s), CmceEnd(s) + 1, end)
       /\ Writes(ShortDataServicePacket, Unsigned(s.value), s.value.data, 0)
       /\ Sent(s, MleNames(s) \cup CmceNames(s) \cup {"o_bit", "data"} \cup SdsNames(s))
       /\ \/ Position \cap DOMAIN s.value = {}
          \/ Position \subseteq SdsNames(s) /\ IsPosition(s.value)
       /\ SentOptional(s, {"o_bit"}, end + 1)

SentCmce(s) ==
    /\ s.value.discriminator = kCmceProtocol
    /\ Writes(CircuitModeControlEntityPacket(s.downlink), s.value, TlSdu(s), MleWidth(s))
    /\ IF s.value.cmce_type = SdsData THEN s.layer = "sds" /\ SentShortData(s)
       ELSE /\ s.layer = "cmce" /\ Sent(s, MleNames(s) \cup CmceNames(s)) /\ SentWithout(s)

=============================================================================
