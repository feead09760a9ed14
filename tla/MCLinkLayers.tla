----------------------------- MODULE MCLinkLayers -----------------------------
(* The instances of LinkLayers that TLC checks: TM-SDUs that are written field  *)
(* by field, <<name, value, width>>, so that their bits and their values follow. *)
EXTENDS LinkLayers

Bits(layout) == Encoded([i \in DOMAIN layout |-> <<layout[i][2], layout[i][3]>>])
Values(layout) ==
    [name \in {layout[i][1] : i \in DOMAIN layout} |->
        layout[CHOOSE i \in DOMAIN layout : layout[i][1] = name][2]]

Pattern(n) == [i \in 1 .. n |-> IF i % 3 = 1 THEN 1 ELSE 0]

\* What is above the LLC: the last fields are those of the uppermost layer.
Upper(lyr, down, bits, val, els, ok) ==
    [layer |-> lyr, downlink |-> down, bits |-> bits, value |-> val, elements |-> els,
     in_order |-> <<>>, understood |-> ok]

Plain(lyr, down, layout) == Upper(lyr, down, Bits(layout), Values(layout), NoFields, TRUE)

With(els, upper) == [upper EXCEPT !.in_order = els]

-----------------------------------------------------------------------------
(* Elements of type 3 and 4: an M-bit before each, and one that is not set.  *)

El(id, count, bits) == [id |-> id, count |-> count, bits |-> bits]

ElBits(el) ==
    Bits(<< <<"m", 1, 1>>, <<"id", el.id, 4>>,
            <<"n", Len(el.bits) + IF el.count = 0 THEN 0 ELSE 6, 11>> >>)
    \o (IF el.count = 0 THEN <<>> ELSE ToBits(el.count, 6)) \o el.bits

ElsBits(els) ==
    LET bits[i \in 0 .. Len(els)] == IF i = 0 THEN <<>> ELSE bits[i - 1] \o ElBits(els[i])
    IN bits[Len(els)] \o <<0>>

ElsMap(els) ==
    [id \in {els[i].id : i \in DOMAIN els} |->
        LET el == els[CHOOSE i \in DOMAIN els : els[i].id = id]
        IN [unparsed_bits |-> el.bits, repeated_elements |-> IF el.count = 0 THEN 1 ELSE el.count]]

\* The same after the O-bit, which is not set when there are none.
WithElements(lyr, down, layout, tail, els, ok, more) ==
    With(els, Upper(lyr, down, Bits(layout) \o tail \o (IF els = <<>> THEN <<0>> ELSE <<1>> \o ElsBits(els)),
          [o_bit |-> IF els = <<>> THEN 0 ELSE 1] @@ more @@ Values(layout), ElsMap(els), ok))

-----------------------------------------------------------------------------
(* Mobile management.                                                        *)

Mm == << <<"discriminator", 1, 3>> >>

Accept(type2) == Mm \o << <<"mm_type", 5, 4>>, <<"location_update_accept_type", 3, 4>>,
                          <<"o_bit", 1, 1>> >> \o type2

NoType2 == << <<"p_ssi", 0, 1>>, <<"p_mni", 0, 1>>, <<"p_class", 0, 1>>,
              <<"p_saving", 0, 1>>, <<"p_scch", 0, 1>> >>
AllType2 == << <<"p_ssi", 1, 1>>, <<"ssi", 77, 24>>,
               <<"p_mni", 1, 1>>, <<"country_code", 262, 10>>, <<"network_code", 9, 14>>,
               <<"p_class", 1, 1>>, <<"subscriber_class", 65535, 16>>,
               <<"p_saving", 1, 1>>, <<"energy_saving_information", 0, 14>>,
               <<"p_scch", 1, 1>>, <<"scch_information", 5, 4>>,
               <<"distribution_on_18th_frame", 2, 2>> >>

AcceptWith(type2, els, ok) ==
    With(els, Upper("mm", TRUE, Bits(Accept(type2)) \o ElsBits(els), Values(Accept(type2)), ElsMap(els), ok))

Acknowledge(els, ok) ==
    WithElements("mm", TRUE, Mm \o << <<"mm_type", 11, 4>>, <<"group_identity_accept_reject", 1, 1>>,
                                      <<"reserved", 0, 1>> >>, <<>>, els, ok, NoFields)

MmPdus ==
    {AcceptWith(t, els, TRUE) :
        t \in {NoType2, AllType2},
        els \in {<<>>, <<El(5, 0, Pattern(9))>>, <<El(2, 3, Pattern(14)), El(5, 0, <<0, 0, 0>>)>>,
                 <<El(1, 0, <<>>), El(3, 0, <<1>>), El(12, 1, <<0>>), El(13, 0, <<0, 0>>)>>}}
    \cup {AcceptWith(NoType2, els, FALSE) :
             els \in {<<El(4, 0, Pattern(9))>>, <<El(5, 0, <<1>>), El(5, 0, <<1>>)>>,
                      <<El(5, 0, <<1>>), El(7, 1, <<1>>)>>}}
    \cup {Acknowledge(els, TRUE) :
             els \in {<<>>, <<El(7, 2, Pattern(20))>>, <<El(7, 1, <<0, 0>>), El(15, 0, <<>>)>>}}
    \cup {Acknowledge(els, FALSE) : els \in {<<El(2, 1, <<1>>)>>, <<El(8, 0, <<>>)>>}}
    \cup {Acknowledge(<<El(7, 0, short)>>, FALSE) : short \in {<<>>, <<1>>, <<1, 0, 1, 0, 0>>}}
    \cup {Acknowledge(<<El(12, 0, <<1, 1>>), El(15, 0, Pattern(30))>>, FALSE)}
    \cup {Plain("mm", TRUE, Mm \o << <<"mm_type", 7, 4>> >>),
          Plain("mm", FALSE, Mm \o << <<"mm_type", 5, 4>> >>),
          Plain("mm", FALSE, Mm \o << <<"mm_type", 11, 4>> >>)}

-----------------------------------------------------------------------------
(* CMCE and short data.                                                      *)

Parties == { << <<"calling_party_type_identifier", 0, 2>> >>,
             << <<"calling_party_type_identifier", 1, 2>>, <<"ssi", 7, 24>> >>,
             << <<"calling_party_type_identifier", 2, 2>>, <<"ssi", 7, 24>>,
                <<"country_code", 901, 10>>, <<"network_code", 16383, 14>> >> }

Party(down) ==
    IF down THEN Parties
    ELSE {<< <<"area_selection", 3, 4>> >> \o
          (IF p[1][2] = 0 THEN Append(p, <<"sna", 200, 8>>) ELSE p) : p \in Parties}

\* Short data: its layout, and the value of what is converted.
Text == << <<"protocol_identifier", 130, 8>> >>
Stay == << <<"protocol_identifier", 10, 8>>, <<"location_type", 1, 2>> >>
Report(longitude, latitude, velocity) ==
    << <<"protocol_identifier", 10, 8>>, <<"location_type", 0, 2>>, <<"time_elapsed", 1, 2>>,
       <<"longitude", longitude, 25>>, <<"latitude", latitude, 24>>, <<"position_error", 2, 3>>,
       <<"horizontal_velocity", velocity, 7>>, <<"direction_of_travel", 15, 4>>,
       <<"type_of_addition_data", 0, 1>>, <<"additional_data", 0, 8>> >>

Sds(down, party, length, layout, tail, converted, els, ok) ==
    LET short == Bits(layout) \o tail
    IN WithElements("sds", down,
           << <<"discriminator", 2, 3>>, <<"cmce_type", 15, 5>> >> \o party
           \o << <<"short_data_type_identifier", length, 2>> >>
           \o IF length = 3 THEN << <<"length_identifier", Len(short), 11>> >> ELSE <<>>,
           short, els, ok, ("data" :> short) @@ converted @@ Values(layout))

\* The speed is the value of the field, or the ten thousandths of a km/h that it
\* stands for: about 63.5, unknown, 9.8, 16 and 1081.
Dresden == [longitude |-> 1281593, latitude |-> 4757732, horizontal_velocity |-> 50]
Rio == [longitude |-> 33554432 - 4026532, latitude |-> 16777216 - 2134901, horizontal_velocity |-> 127]
South == [longitude |-> 16777216, latitude |-> 8388607, horizontal_velocity |-> 0]

Places == {[as |-> Dresden, is |-> [Dresden EXCEPT !.horizontal_velocity = 635344]],
           [as |-> Rio, is |-> [longitude |-> -4026532, latitude |-> -2134901,
                                horizontal_velocity |-> -1]],
           [as |-> South, is |-> [South EXCEPT !.longitude = -16777216, !.horizontal_velocity = 98464]],
           [as |-> [Dresden EXCEPT !.horizontal_velocity = 13],
            is |-> [Dresden EXCEPT !.horizontal_velocity = 160000]],
           [as |-> [Dresden EXCEPT !.horizontal_velocity = 126],
            is |-> [Dresden EXCEPT !.horizontal_velocity = 10811152]]}

CmceElements == {<<>>, <<El(2, 0, Pattern(8))>>, <<El(6, 0, <<0, 0>>), El(2, 0, <<>>)>>}

CmcePdus ==
    UNION {{Sds(down, p, 0, Text, Pattern(8), NoFields, els, TRUE) : p \in Party(down), els \in CmceElements}
           \cup {Sds(down, p, 3, Stay, <<1, 0, 0>>, NoFields, els, TRUE) :
                    p \in Party(down), els \in CmceElements}
           \cup {Sds(down, p, 3, Report(place.as.longitude, place.as.latitude,
                                        place.as.horizontal_velocity),
                     <<>>, place.is, <<>>, TRUE) : p \in Party(down), place \in Places}
           \cup {Sds(down, p, 1, Text, [i \in 1 .. 24 |-> 0], NoFields, els, FALSE) :
                    p \in Party(down), els \in {<<El(3, 0, <<1>>)>>, <<El(2, 0, <<>>), El(2, 0, <<>>)>>}}
           \cup {Plain("cmce", down, << <<"discriminator", 2, 3>>, <<"cmce_type", 11, 5>> >>)} :
           down \in BOOLEAN}

MlePdus ==
    {[Plain("mle", down, << <<"discriminator", d, 3>> >>) EXCEPT !.bits = @ \o rest] :
        down \in BOOLEAN, d \in {4, 5, 6}, rest \in {<<0, 0, 0, 0>>, <<0, 1, 0>>, <<1, 1>>, <<1, 1, 1>>,
                                                      <<1, 1, 1, 0, 0, 0, 1>>}}

-----------------------------------------------------------------------------
(* The LLC: basic links with and without a frame check sequence.             *)

Link(type) ==
    << <<"llc_type", type, 4>> >>
    \o (IF type \in {0, 3, 4, 7} THEN << <<"n_r", 1, 1>> >> ELSE <<>>)
    \o (IF type \in {0, 1, 4, 5} THEN << <<"n_s", 0, 1>> >> ELSE <<>>)

Whole(type, upper) ==
    [bits |-> Bits(Link(type)) \o upper.bits \o (IF type < 4 THEN <<>> ELSE FrameCheckSequence(upper.bits)),
     downlink |-> upper.downlink, layer |-> upper.layer,
     value |-> Values(Link(type)) @@ upper.value
               @@ (IF type < 4 \/ upper.bits = <<>> THEN NoFields ELSE [fcs_good |-> TRUE]),
     elements |-> upper.elements, in_order |-> upper.in_order, understood |-> upper.understood,
     fill |-> 0, lost |-> 0, changed |-> FALSE]

\* Without a TL-SDU, and PDUs that are no basic link.
Empty(down) == Upper("llc", down, <<>>, NoFields, NoFields, TRUE)
Advanced(type, rest) ==
    [Whole(2, Empty(TRUE)) EXCEPT !.bits = ToBits(type, 4) \o rest, !.value = [llc_type |-> type]]

Uppers == MmPdus \cup CmcePdus \cup MlePdus

Sound ==
    {Whole(type, upper) : type \in {1, 2}, upper \in Uppers}
    \cup {Whole(type, upper) : type \in {0, 3, 4, 5, 6, 7}, upper \in MmPdus}
    \cup {Whole(type, Empty(down)) : type \in {0, 3}, down \in BOOLEAN}
    \cup {Whole(7, Empty(TRUE))}
    \cup {Advanced(9, Pattern(30)), Advanced(13, <<1, 0>> \o Pattern(20)), Advanced(13, <<1, 1>>),
          Advanced(13, <<1>>), Advanced(14, <<0, 0, 1, 1>>), Advanced(14, <<0, 1, 1>>)}

Filled == {[s EXCEPT !.bits = @ \o FillBits(n), !.fill = n] : s \in Sound, n \in {1, 3, 7}}
Cut == {LET kept == remove_fill_bits(BitVec(s.bits)).bits
        IN [s EXCEPT !.bits = kept, !.lost = Len(s.bits) - Len(kept)] : s \in Sound}

\* One bit is wrong, or two, behind the header of the link, of a TL-SDU of less than
\* 32 bits or of one that is longer.
Spoiled(s) ==
    LET n == Len(s.bits)
    IN {[s EXCEPT !.bits = [i \in DOMAIN @ |-> IF i \in {a, b} THEN 1 - @[i] ELSE @[i]],
                  !.changed = TRUE, !.value = [@ EXCEPT !.fcs_good = FALSE]] :
           a \in 6 .. n, b \in {6, 7, 8, 38, n}}

Damaged ==
    UNION {Spoiled(CHOOSE s \in {Whole(5, u) : u \in MmPdus} : Len(s.bits) \in lengths) :
           lengths \in {40 .. 60, 70 .. 100}}

MCSdus == Sound \cup Filled \cup Cut \cup Damaged

=============================================================================
