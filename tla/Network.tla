-------------------------------- MODULE Network --------------------------------
(***************************************************************************)
(* What the network sends (ETSI EN 300 392-2, 21.4 and 23.4): a PDU as its *)
(* fields with their widths and its TM-SDU, and the blocks that PDUs are   *)
(* put into, made without a use of the code's own tables.  The second      *)
(* section says of any bits that they are such a block, with the headers   *)
(* of MacPdus; that the blocks of the first satisfy it is an assumption of *)
(* BurstDecoding.                                                          *)
(*                                                                         *)
(* A PDU is a record:                                                      *)
(*   fields      <<value, width>> in order; FILL and LENGTH stand for the  *)
(*               fill bit indication and the length indication             *)
(*   names       what the standard calls the fields                        *)
(*   indicated   whether the length indication is that of the PDU, so that *)
(*               another PDU may follow                                    *)
(*   sdu         the TM-SDU                                                *)
(*   type, null, address, fragmentation, on_stealing_channel               *)
(*               what a receiver should make of it                         *)
(*   known       whether the code has a way to parse it                    *)
(***************************************************************************)
EXTENDS BurstChannels

FILL == -1
LENGTH == -2

HeaderLength(pdu) ==
    LET width[i \in 0 .. Len(pdu.fields)] ==
            IF i = 0 THEN 0 ELSE width[i - 1] + pdu.fields[i][2]
    IN width[Len(pdu.fields)]

\* A PDU fills whole octets, or the rest of the block.
Octets(pdu) == (HeaderLength(pdu) + Len(pdu.sdu) + 7) \div 8
Size(pdu, room) == IF pdu.indicated /\ Octets(pdu) * 8 < room THEN Octets(pdu) * 8 ELSE room
FillOf(pdu, room) == Size(pdu, room) - HeaderLength(pdu) - Len(pdu.sdu)

ValueIn(pdu, room, value) ==
    CASE value = FILL -> (IF FillOf(pdu, room) > 0 THEN 1 ELSE 0)
      [] value = LENGTH -> Octets(pdu)
      [] OTHER -> value

EncodedPdu(pdu, room) ==
    Encoded([i \in DOMAIN pdu.fields |-> <<ValueIn(pdu, room, pdu.fields[i][1]), pdu.fields[i][2]>>])
    \o pdu.sdu \o FillBits(FillOf(pdu, room))

\* The packet that a PDU is to the receiver.
PacketOf(pdu) ==
    [type |-> pdu.type, address |-> pdu.address,
     tm_sdu |-> IF pdu.null THEN {} ELSE {pdu.sdu},
     fragmentation |-> pdu.fragmentation,
     fragmentation_on_stealing_channel |-> pdu.on_stealing_channel]

\* A PDU in a block: where it is, with its values by name.
Placed(pdu, at, room) ==
    [type |-> pdu.type, sdu |-> pdu.sdu, null |-> pdu.null, indicated |-> pdu.indicated,
     at |-> at, end |-> at + Size(pdu, room),
     values |-> [name \in {pdu.names[i] : i \in DOMAIN pdu.names} |->
                    LET i == CHOOSE i \in DOMAIN pdu.names : pdu.names[i] = name
                    IN ValueIn(pdu, room, pdu.fields[i][1])]]

\* A block as it goes on the air, and what it is to mean to the receiver; plain
\* says that its fill bits are at its end, known that the code knows its PDUs, which
\* a block that has any lists where they are.
Block(bits, meant, known, plain) ==
    [bits |-> WithCrc(bits), changed |-> {}, meant |-> meant, known |-> known, plain |-> plain,
     pdus |-> {}]

\* A block of PDUs ends with a null PDU, if one is used and there is room for it,
\* and fill bits.
BlockOfPdus(pdus, nulls, room) ==
    LET bits[i \in 0 .. Len(pdus)] ==
            IF i = 0 THEN <<>>
            ELSE bits[i - 1] \o EncodedPdu(pdus[i], room - Len(bits[i - 1]))
        left == room - Len(bits[Len(pdus)])
        null == CHOOSE pdu \in nulls : TRUE
        closed == nulls # {} /\ left >= HeaderLength(null)
        all == IF closed THEN Append(pdus, null) ELSE pdus
        Room(i) == room - Len(bits[i - 1])
    IN [Block(bits[Len(pdus)] \o IF closed THEN EncodedPdu(null, left) ELSE FillBits(left),
              [Nothing EXCEPT !.c_plane = [i \in DOMAIN all |-> PacketOf(all[i])]],
              \A i \in DOMAIN pdus : pdus[i].known,
              \A i \in DOMAIN pdus : FillOf(pdus[i], Room(i)) > 0 => i = Len(all))
        EXCEPT !.pdus = {[i \in DOMAIN all |-> Placed(all[i], Len(bits[i - 1]), Room(i))]}]

-----------------------------------------------------------------------------
(* The same, as what holds of the bits of a block that was sent.           *)

\* By these fields a receiver tells the PDUs of a burst apart.
PdusOf(burst_type) ==
    CASE burst_type = "ControlUplinkBurst" -> {"MacAccess", "MacEndHu"}
      [] burst_type \in {"NormalUplinkBurst", "NormalUplinkBurstSplit"} ->
           {"MacData", "MacFragmentUplink", "MacEndUplink", "MacUBlck"}
      [] OTHER -> {"MacResource", "MacFragmentDownlink", "MacEndDownlink", "MacDBlck"}

TypeFields(type) ==
    CASE type \in {"MacAccess", "MacData", "MacResource"} -> [pdu_type |-> 0]
      [] type = "MacEndHu" -> [pdu_type |-> 1]
      [] type \in {"MacFragmentUplink", "MacFragmentDownlink"} -> [pdu_type |-> 1, subtype |-> 0]
      [] type \in {"MacEndUplink", "MacEndDownlink"} -> [pdu_type |-> 1, subtype |-> 1]
      [] type \in {"MacUBlck", "MacDBlck"} -> [pdu_type |-> 3, subtype |-> 0]

\* The length indications that are lengths.
LengthsOf(type) ==
    CASE type \in {"MacData", "MacResource"} -> 0 .. 61
      [] type = "MacEndUplink" -> 0 .. 47
      [] OTHER -> Nat

FieldsOf(p) == Only(p.values, Fields(HeaderOf(p.type), p.values))
HeaderEnd(p) == p.at + Width(HeaderOf(p.type), p.values)
SduEnd(p) == HeaderEnd(p) + Len(p.sdu)

\* The PDU is in the bits: its header, its TM-SDU, and fill bits.
IsIn(p, bits) ==
    /\ Writes(HeaderOf(p.type), p.values, bits, p.at)
    /\ \A name \in DOMAIN TypeFields(p.type) : p.values[name] = TypeFields(p.type)[name]
    /\ p.sdu \in Seq({0, 1}) /\ p.end \in SduEnd(p) .. Len(bits)
    /\ p.sdu = SubSeq(bits, HeaderEnd(p) + 1, SduEnd(p))
    /\ SubSeq(bits, SduEnd(p) + 1, p.end) = FillBits(p.end - SduEnd(p))
    /\ p.values.fill_bit_indication = IF SduEnd(p) < p.end THEN 1 ELSE 0

\* It says how many octets it fills, up to the end of the bits, or takes all of them.
HasLength(p, bits) ==
    LET indication == FieldsOf(p).length_indication
    IN IF p.indicated
       THEN /\ Has(FieldsOf(p), "length_indication", LengthsOf(p.type))
            /\ indication = (p.end - p.at + 7) \div 8
            /\ p.end = p.at + 8 * indication \/ p.end = Len(bits)
            /\ p.end < SduEnd(p) + 8
       ELSE /\ p.end = Len(bits)
            /\ p.null \/ ~Has(FieldsOf(p), "length_indication", LengthsOf(p.type))

IsNull(p) ==
    \/ p.type = "MacResource" /\ AddressOf(FieldsOf(p)) = NoAddress
    \/ p.type \in {"MacAccess", "MacData"} /\ Has(FieldsOf(p), "length_indication", {0})

\* What it means to a receiver.
MeaningOf(p) ==
    [type |-> p.type, address |-> AddressOf(FieldsOf(p)),
     tm_sdu |-> IF p.null THEN {} ELSE {p.sdu},
     fragmentation |-> \/ Has(FieldsOf(p), "fragmentation", {1})
                       \/ p.type = "MacResource" /\ Has(FieldsOf(p), "length_indication", {63}),
     fragmentation_on_stealing_channel |->
        p.type = "MacData" /\ Has(FieldsOf(p), "length_indication", {63})]

\* One PDU behind the other, and fill bits.
Begins(pdus, i) == IF i = 1 THEN 0 ELSE pdus[i - 1].end

SentPdus(pdus, bits, packets) ==
    LET rest == Begins(pdus, Len(pdus) + 1)
    IN /\ Len(pdus) \in Nat /\ Len(packets) = Len(pdus)
       /\ \A i \in 1 .. Len(pdus) :
             /\ pdus[i].at = Begins(pdus, i)
             /\ IsIn(pdus[i], bits) /\ HasLength(pdus[i], bits)
             /\ pdus[i].null = IsNull(pdus[i])
             /\ packets[i] = MeaningOf(pdus[i])
       /\ SubSeq(bits, rest + 1, Len(bits)) = FillBits(Len(bits) - rest)

=============================================================================
