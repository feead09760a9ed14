------------------------------- MODULE LinkLayers -------------------------------
(***************************************************************************)
(* The layers above the upper MAC: what LogicalLinkControlParser::parse    *)
(* makes of a TM-SDU (logical_link_control_parser.hpp and the parsers that *)
(* it forwards to).  Every layer takes its fields from the front of the    *)
(* data, counts the packet if there are metrics, and forwards the rest.    *)
(* The parsers keep nothing from one packet to the next.                   *)
(*                                                                         *)
(* The data comes from the MAC, which may have left fill bits at its end,  *)
(* or may have removed too much of it (see FillDamageIsBounded of          *)
(* BurstDecoding).                                                         *)
(***************************************************************************)
EXTENDS LinkPackets, FiniteSets

CONSTANT
    Sdus    \* TM-SDUs: bits and downlink, as they come from the MAC; layer, value and
            \* elements, what they are to the receiver; in_order, the elements one
            \* by one; understood, whether the parsers allow them; fill, how many
            \* fill bits are left at their end; lost, how many of their own bits
            \* were taken off their end as if they were fill bits; changed, whether
            \* bits of the TL-SDU or of its checksum are wrong

ASSUME SdusAssumption ==
    \A s \in Sdus :
        /\ s.bits \in Seq({0, 1}) /\ s.fill \in 0 .. 7
        /\ s.lost \in Nat /\ (s.fill = 0 \/ s.lost = 0)
        /\ {s.downlink, s.understood, s.changed} \subseteq BOOLEAN
        /\ s.in_order \in Seq([id : 0 .. 15, count : 0 .. 63, bits : Seq({0, 1})])

\* A TM-SDU that is said to have a good sequence, or a bad one, is a basic link PDU
\* with a TL-SDU, and the sequence behind it is good or bad.
Judged(s) == s.fill = 0 /\ s.lost = 0 /\ "fcs_good" \in DOMAIN s.value

ASSUME FcsAssumption ==
    \A s \in Sdus : Judged(s) =>
        /\ SentLink(s) /\ HasSequence(s) /\ TlSdu(s) # <<>>
        /\ s.value.fcs_good =
              (SubSeq(s.bits, Len(s.bits) - 31, Len(s.bits)) = FrameCheckSequence(TlSdu(s)))

\* One that is not changed is what the network sends, with the bits that it lost.
ASSUME SentAssumption ==
    \A s \in Sdus : ~s.changed =>
        /\ SentLink(s)
        /\ \/ SentLlc(s)
           \/ /\ s.value.llc_type < 8 /\ TlSdu(s) # <<>>
              /\ Writes(MobileLinkEntityPacket, s.value, TlSdu(s), 0)
              /\ SentMle(s) \/ SentMm(s) \/ SentCmce(s)

VARIABLES
    metrics_,   \* whether the parsers that parse it have metrics
    sdu,        \* what is parsed; a set of at most one
    pc,         \* the layer that is about to take its fields, or "elements"
    data,       \* what is left
    layer,      \* the layer of the packet so far
    value,      \* its fields by name
    elements    \* optional_elements_: type 3 and type 4 elements by identifier

vars == <<metrics_, sdu, pc, data, layer, value, elements>>

Layers == {"llc", "mle", "mm", "cmce", "sds"}

Init ==
    /\ metrics_ = FALSE
    /\ sdu = {}
    /\ pc = "idle"
    /\ data = BitVec(<<>>)
    /\ layer = "llc"
    /\ value = NoFields
    /\ elements = NoFields

-----------------------------------------------------------------------------
(* The parsers.                                                            *)

Receive(s) ==
    /\ pc = "idle"
    /\ metrics_' \in BOOLEAN
    /\ sdu' = {s}
    /\ data' = BitVec(s.bits)
    /\ pc' = "llc"
    /\ UNCHANGED <<layer, value, elements>>

\* An exception leaves parse(); of the packet so far nothing is kept.
Fail ==
    /\ pc' = "failed"
    /\ UNCHANGED <<metrics_, sdu, data, layer, value, elements>>

\* PacketParser::parse: the packet of a layer is made of the fields in the layout,
\* counted by a name that may need more of the data, and the rest is forwarded.
Parse(name, read, named, next) ==
    IF ~read.ok \/ (metrics_ /\ ~named) THEN Fail
    ELSE /\ layer' = name
         /\ value' = Over(read.value, value)
         /\ data' = read.data
         /\ pc' = next
         /\ UNCHANGED <<metrics_, sdu, elements>>

\* The name of a supplementary LLC PDU or of a layer 2 signalling PDU is in the
\* bits after the type.
HasLlcName ==
    CASE look(4, 0, data) = 13 -> bits_left(data) >= 6
      [] look(4, 0, data) = 14 -> bits_left(data) >= 8
      [] OTHER -> TRUE

\* What is left for the layers above: the last 32 bits are a checksum, which is
\* compared, but the packet is forwarded whatever the outcome.
WithoutFcs(read, fcs) ==
    IF read.value.llc_type < 4 THEN read
    ELSE IF bits_left(read.data) < 32 THEN [read EXCEPT !.ok = FALSE]
    ELSE LET last == SubSeq(read.data.bits, bits_left(read.data) - 31, bits_left(read.data))
         IN [read EXCEPT !.data = TakenLast(32, @),
                         !.value = WithField(@, "fcs_good", last = fcs)]

FcsOf_Whole(read) ==
    IF read.value.llc_type < 4 \/ bits_left(read.data) < 32 THEN {<<>>}
    ELSE compute_fcs(read.data.bits)

FcsOf(read) ==
    IF read.value.llc_type < 4 \/ bits_left(read.data) < 32 THEN {<<>>}
    ELSE compute_fcs(TakenLast(32, read.data).bits)

LogicalLinkControl ==
    /\ pc = "llc"
    /\ LET read == Read(BasicLinkInformation, data)
       IN IF ~read.ok THEN Fail
          ELSE IF read.value.llc_type >= 8 THEN Parse("llc", read, HasLlcName, "whole")
          ELSE \E fcs \in FcsOf(read) :
                  LET llc == WithoutFcs(read, fcs)
                  IN Parse("llc", llc, TRUE, IF bits_left(llc.data) > 0 THEN "mle" ELSE "whole")

\* The name of a PDU of the MLE protocol, which may be an extended PDU.
HasMleName(read) ==
    read.ok /\ read.value.discriminator = kMleProtocol =>
        /\ bits_left(read.data) >= 3
        /\ look(3, 0, read.data) = 7 => bits_left(read.data) >= 7

MobileLinkEntity ==
    /\ pc = "mle"
    /\ LET read == Read(MobileLinkEntityPacket, data)
       IN Parse("mle", read, HasMleName(read),
                CASE read.ok /\ read.value.discriminator = kMmProtocol -> "mm"
                  [] read.ok /\ read.value.discriminator = kCmceProtocol -> "cmce"
                  [] OTHER -> "whole")

MobileManagement ==
    /\ pc = "mm"
    /\ \E s \in sdu :
          LET read == Read(MobileManagementPacket(s.downlink), data)
          IN Parse("mm", read, TRUE, IF Has(read.value, "o_bit", {1}) THEN "elements" ELSE "whole")

\* Up to the O-bit that comes after the short data.
CircuitModeControlEntity ==
    /\ pc = "cmce"
    /\ \E s \in sdu :
          LET read == Read(CircuitModeControlEntityPacket(s.downlink), data)
              length == LengthOfData(read.value)
              rest == Read(<< Field("o_bit", 1) >>, Taken(length, read.data))
          IN IF ~read.ok \/ read.value.cmce_type # SdsData THEN Parse("cmce", read, TRUE, "whole")
             ELSE IF length \notin 0 .. bits_left(read.data) THEN Fail
             ELSE Parse("cmce",
                        [rest EXCEPT !.value = WithField(Over(@, read.value), "data",
                                                         take_vector(length, read.data))],
                        TRUE, IF Has(rest.value, "o_bit", {1}) THEN "elements" ELSE "sds")

ShortDataService ==
    /\ pc = "sds"
    /\ LET read == Read(ShortDataServicePacket, BitVec(value.data))
       IN Parse("sds", [read EXCEPT !.value = Converted(@), !.data = data], TRUE, "whole")

-----------------------------------------------------------------------------
(* Type234Parser::parse_type34, element by element.                        *)

MoreElements_Header == bits_left(data) >= 16
MoreElements == bits_left(data) > 0

LastElement_Continue ==
    /\ pc = "elements"
    /\ MoreElements => look(1, 0, data) = 0
    /\ data' = IF MoreElements THEN Taken(1, data) ELSE data
    /\ pc' = IF MoreElements THEN pc ELSE IF layer = "cmce" THEN "sds" ELSE "whole"
    /\ UNCHANGED <<metrics_, sdu, layer, value, elements>>

\* The loop ends with an M-bit that is not set, or with the data.
LastElement ==
    /\ pc = "elements"
    /\ MoreElements => look(1, 0, data) = 0
    /\ data' = IF MoreElements THEN Taken(1, data) ELSE data
    /\ pc' = IF layer = "cmce" THEN "sds" ELSE "whole"
    /\ UNCHANGED <<metrics_, sdu, layer, value, elements>>

IsAllowed_Any(id) == id \in 0 .. 15
IsAllowed(id) == id \in Allowed(layer, value).type3 \cup Allowed(layer, value).type4

\* The length of a type 4 element includes its number of elements; one below that
\* wraps around in size_t and is thrown on as well.
Element ==
    /\ pc = "elements" /\ MoreElements /\ look(1, 0, data) = 1
    /\ LET read == Read(ElementHeader, data)
           id == read.value.element_identifier
           is_type4 == id \in Allowed(layer, value).type4
           head == IF is_type4 THEN Read(<< Field("repeated_elements", 6) >>, read.data) ELSE read
           length == read.value.length_indicator - (IF is_type4 THEN 6 ELSE 0)
       IN IF \/ ~read.ok \/ ~head.ok \/ length \notin 0 .. bits_left(head.data)
             \/ ~IsAllowed(id) \/ id \in DOMAIN elements
          THEN Fail
          ELSE /\ elements' = WithField(elements, id,
                              [unparsed_bits |-> take_vector(length, head.data),
                               repeated_elements |-> IF is_type4
                                                     THEN head.value.repeated_elements ELSE 1])
               /\ data' = Taken(length, head.data)
               /\ UNCHANGED <<metrics_, sdu, pc, layer, value>>

\* What was parsed is returned, or the exception; the parsers are free again.
Done ==
    /\ pc \in {"whole", "failed"}
    /\ metrics_' = FALSE
    /\ sdu' = {} /\ pc' = "idle" /\ data' = BitVec(<<>>)
    /\ layer' = "llc" /\ value' = NoFields /\ elements' = NoFields

Parsing ==
    \/ LogicalLinkControl \/ MobileLinkEntity \/ MobileManagement
    \/ CircuitModeControlEntity \/ ShortDataService
    \/ Element \/ LastElement

Next == (\E s \in Sdus : Receive(s)) \/ Parsing \/ Done

Spec == Init /\ [][Next]_vars

-----------------------------------------------------------------------------
(* Correctness.                                                            *)

TypeOK ==
    /\ metrics_ \in BOOLEAN
    /\ Cardinality(sdu) = IF pc = "idle" THEN 0 ELSE 1
    /\ pc \in {"idle", "llc", "mle", "mm", "cmce", "sds", "elements", "whole", "failed"}
    /\ data.bits \in Seq({0, 1})
    /\ layer \in Layers
    /\ DOMAIN elements \subseteq Allowed(layer, value).type3 \cup Allowed(layer, value).type4

Names == DOMAIN value

\* The packet that is returned is the one that was sent.
AsSent(s) ==
    /\ pc = "whole"
    /\ layer = s.layer
    /\ elements = s.elements
    /\ Names \ {"fcs_good"} = DOMAIN s.value \ {"fcs_good"}
    /\ \A name \in Names \ {"fcs_good"} : value[name] = s.value[name]

\* What is where the receiver looks for the TL-SDU.
Received(s) == SubSeq(s.bits, HeaderLength(s) + 1, Len(s.bits) - IF HasSequence(s) THEN 32 ELSE 0)

\* The bits behind the type that the name of a packet is made of are there.
HasName(s) ==
    CASE s.layer = "llc" /\ s.value.llc_type = 13 -> Len(s.bits) >= 6
      [] s.layer = "llc" /\ s.value.llc_type = 14 -> Len(s.bits) >= 8
      [] s.layer = "mle" /\ s.value.discriminator = kMleProtocol ->
           /\ Len(Received(s)) >= MleWidth(s) + 3
           /\ ToNat(SubSeq(Received(s), MleWidth(s) + 1, MleWidth(s) + 3)) = 7 =>
                 Len(Received(s)) >= MleWidth(s) + 7
      [] OTHER -> TRUE

\* A TM-SDU as the network sends it comes out of the uppermost layer that knows it
\* with all of its fields and elements, the position and the speed in it converted,
\* on either link.  It is refused if and only if an element is not allowed, is a
\* second one of a kind or too short for its count (type234_parser.hpp:70-108), or
\* if packets are counted by name and the name is not there
\* (packet_parser.hpp:35-46).
ForwardedAsSent ==
    pc \in {"whole", "failed"} =>
        \A s \in sdu : s.fill = 0 /\ s.lost = 0 /\ ~s.changed =>
            IF s.understood /\ (metrics_ => HasName(s)) THEN AsSent(s) ELSE pc = "failed"

\* Fill bits that the MAC has left behind a TM-SDU (upper_mac_packet_builder.cpp:
\* 116-119) never become a part of it: the elements end at the M-bit.  It does not
\* hold for a PDU without a TL-SDU, which is forwarded for its fill bits.
FillBitsAreHarmless ==
    pc \in {"whole", "failed"} =>
        \A s \in sdu : s.fill > 0 /\ ~s.changed /\ s.understood
                         /\ (s.layer # "llc" \/ s.value.llc_type >= 8)
                         /\ (metrics_ => HasName(s)) =>
            AsSent(s)

\* A layer can tell: a TL-SDU that is gone as a whole is none to the LLC, and bits
\* of the checksum that are taken for the TL-SDU may hide that an element is gone.
CanBeNoticed(s) ==
    /\ s.layer # "llc" => Received(s) # <<>>
    /\ HasSequence(s) => s.lost <= 16

\* A TM-SDU that lost its end, from the last bit that is set on, when the fill bits
\* of another PDU were removed is not taken for one with fewer fields or elements:
\* it is parsed as it was sent, or refused (type234_parser.hpp:65-108).
CutIsNoticed ==
    pc = "whole" =>
        \A s \in sdu : s.lost > 0 /\ ~s.changed /\ s.understood /\ CanBeNoticed(s) => AsSent(s)

\* The frame check sequence is good if and only if the TL-SDU and the sequence are
\* as they were sent (logical_link_control_packet.cpp:20-54), though the code
\* shifts a TL-SDU of less than 32 bits to their width.  Only the sequence of an
\* empty one is not judged: the shift by 32 leaves any value.
FcsTellsDamage ==
    "fcs_good" \in Names =>
        \A s \in sdu : Judged(s) => value.fcs_good = s.value.fcs_good

=============================================================================
