---------------------------- MODULE MCBurstDecoding ----------------------------
(* The instances of BurstDecoding that TLC checks. *)
EXTENDS BurstDecoding

Sdu(n) == [i \in 1 .. n |-> IF i % 3 = 1 THEN 1 ELSE 0]

\* The names of fields that are written in the order of a layout.
NamesIn(layout, fields) ==
    LET named[i \in 0 .. Len(layout)] ==
            IF i = 0 THEN [names |-> <<>>, value |-> NoFields]
            ELSE LET before == named[i - 1]
                     next == Len(before.names) + 1
                 IN IF next > Len(fields) \/ ~IsPresent(layout[i], before.value) THEN before
                    ELSE [names |-> Append(before.names, layout[i].name),
                          value |-> WithField(before.value, layout[i].name, fields[next][1])]
    IN named[Len(layout)].names

Pdu(type, fields, indicated, address, n) ==
    [type |-> type, fields |-> fields, names |-> NamesIn(HeaderOf(type), fields), indicated |-> indicated, address |-> address, sdu |-> Sdu(n),
     null |-> FALSE, fragmentation |-> FALSE, on_stealing_channel |-> FALSE, known |-> TRUE]

-----------------------------------------------------------------------------
(* Downlink PDUs.                                                          *)

ResourceHead(length) == << <<0, 2>>, <<FILL, 1>>, <<0, 1>>, <<0, 2>>, <<0, 1>>, <<length, 6>> >>
NoElements == << <<0, 1>>, <<0, 1>>, <<0, 1>> >>
\* Power control, a slot grant, and a channel allocation with all its conditions.
AllElements ==
    << <<1, 1>>, <<5, 4>>, <<1, 1>>, <<17, 8>>, <<1, 1>>,
       <<1, 2>>, <<2, 4>>, <<0, 2>>, <<1, 1>>, <<0, 1>>, <<1000, 12>>, <<1, 1>>,
       <<4, 4>>, <<1, 2>>, <<0, 3>>, <<0, 1>>, <<0, 2>>, <<3, 2>>,
       <<1, 2>>, <<2, 3>>, <<2, 3>>, <<1, 3>>, <<0, 3>>, <<1, 3>>, <<9, 4>>, <<3, 5>>,
       <<1, 2>>, <<77, 11>>, <<0, 4>>, <<1, 1>>, <<4321, 16>>, <<0, 1>>, <<0, 1>> >>

Resource(length, address, fields, elements, n) ==
    Pdu("MacResource", ResourceHead(length) \o fields \o elements, length = LENGTH, address, n)

ToSsi(length, n) == Resource(length, [ssi |-> 7], << <<1, 3>>, <<7, 24>> >>, NoElements, n)
ToUsage(n) == Resource(LENGTH, [ssi |-> 7, usage_marker |-> 9],
                       << <<6, 3>>, <<7, 24>>, <<9, 6>> >>, NoElements, n)
ToEvent(n) == Resource(LENGTH, [event_label |-> 5], << <<2, 3>>, <<5, 10>> >>, NoElements, n)
ToSmiEvent(n) == Resource(LENGTH, [smi |-> 8, event_label |-> 5],
                          << <<7, 3>>, <<8, 24>>, <<5, 10>> >>, AllElements, n)

Fragmented(pdu) == [pdu EXCEPT !.fragmentation = TRUE]

\* With a TM-SDU that ends in a one and zeros.
WithZeros(pdu) ==
    [pdu EXCEPT !.sdu = [i \in DOMAIN @ |-> IF i > Len(@) - 12 THEN 0 ELSE @[i]]]

NullResource ==
    [Pdu("MacResource", ResourceHead(2) \o << <<0, 3>> >>, FALSE, NoAddress, 0) EXCEPT !.null = TRUE]

FragmentDownlink(n) ==
    Pdu("MacFragmentDownlink", << <<1, 2>>, <<0, 1>>, <<FILL, 1>> >>, FALSE, NoAddress, n)
EndDownlink(n) ==
    Pdu("MacEndDownlink", << <<1, 2>>, <<1, 1>>, <<FILL, 1>>, <<0, 1>>, <<LENGTH, 6>>, <<1, 1>>,
                             <<33, 8>>, <<0, 1>> >>, TRUE, NoAddress, n)
DBlck(n) ==
    Pdu("MacDBlck", << <<3, 2>>, <<0, 1>>, <<FILL, 1>>, <<0, 2>>, <<6, 10>>, <<0, 1>>, <<0, 1>> >>,
        FALSE, [event_label |-> 6], n)

Down(pdus, room) == BlockOfPdus(pdus, {NullResource}, room)
Padded(pdus, room) == BlockOfPdus(pdus, {}, room)

Broadcast(bits, value) == Block(bits, [Nothing EXCEPT !.broadcast = {value}], TRUE, TRUE)

\* Broadcasts are written as named fields, from which both bits and value follow.
FieldsIn(layout) == [i \in DOMAIN layout |-> <<layout[i][2], layout[i][3]>>]
Values(layout) ==
    [name \in {layout[i][1] : i \in DOMAIN layout} |->
        (CHOOSE i \in DOMAIN layout : layout[i][1] = name)]
BroadcastOf(type, layout) ==
    Broadcast(Encoded(<< <<2, 2>>, <<type, 2>> >> \o FieldsIn(layout)),
              [name \in DOMAIN Values(layout) |-> layout[Values(layout)[name]][2]])

SysInfoOf(offset, spacing, reverse, optional) ==
    BroadcastOf(0,
        << <<"main_carrier", 1000, 12>>, <<"frequency_band", 4, 4>>, <<"offset", offset, 2>>,
           <<"duplex_spacing_field", spacing, 3>>, <<"reverse_operation", reverse, 1>>,
           <<"number_secondary_control_channels_main_carrier", 1, 2>>,
           <<"ms_txpwr_max_cell", 3, 3>>, <<"rxlev_access_min", 7, 4>>, <<"access_parameter", 9, 4>>,
           <<"radio_downlink_timeout", 5, 4>>, <<"hyper_frame_cipher_key_flag", 1, 1>>,
           <<"cipher_key_number", 12345, 16>> >>
        \o optional
        \o << <<"location_area", 300, 14>>, <<"subscriber_class", 65535, 16>>,
              <<"bs_service_details", 1234, 12>> >>)

SysInfo(optional) == SysInfoOf(3, 0, 0, optional)
Frames == << <<"optional_field_flag", 1, 2>>, <<"odd_multi_frame_definition_for_ts_mode", 7, 20>> >>
EvenFrames == SysInfo(<< <<"optional_field_flag", 0, 2>>,
                         <<"even_multi_frame_definition_for_ts_mode", 7777, 20>> >>)
AccessCode == SysInfo(<< <<"optional_field_flag", 2, 2>>, <<"immediate", 8, 4>>, <<"waiting_time", 5, 4>>,
                         <<"number_of_random_access_transmissions_on_up_link", 5, 4>>,
                         <<"frame_length_factor", 0, 1>>, <<"timeslot_pointer", 15, 4>>,
                         <<"minimum_pdu_priority", 2, 3>> >>)
Services(section) ==
    SysInfo(<< <<"optional_field_flag", 3, 2>>, <<"security_information", 129, 8>>,
               <<"sdstl_addressing_method", 2, 2>>, <<"gck_supported", 1, 1>>, <<"section", section, 2>> >>
            \o IF section = 1
               THEN << <<"service_25Qam", 1, 1>>, <<"service_50Qam", 0, 1>>, <<"service_100Qam", 1, 1>>,
                       <<"service_150Qam", 0, 1>>, <<"section2_reserved", 5, 3>> >>
               ELSE << <<"section_reserved", 99, 7>> >>)

USignal(flag, room) ==
    Block(<<1, 1, flag>> \o Sdu(room - 3), [Nothing EXCEPT !.u_plane = <<Sdu(room - 3)>>], TRUE, TRUE)
Speech == Block(Sdu(124), Nothing, TRUE, TRUE)

-----------------------------------------------------------------------------
(* Uplink PDUs.                                                            *)

FromSsi == << <<0, 2>>, <<7, 24>> >>
FromEvent == << <<1, 2>>, <<5, 10>> >>
Capacity(fragmentation) == << <<1, 1>>, <<fragmentation, 1>>, <<3, 4>> >>

Access(from, address, optional, indicated, n) ==
    Pdu("MacAccess", << <<0, 1>>, <<FILL, 1>>, <<0, 1>> >> \o from \o optional, indicated, address, n)
NullAccess ==
    [Access(FromSsi, [ssi |-> 7], << <<1, 1>>, <<0, 1>>, <<0, 5>> >>, FALSE, 0) EXCEPT !.null = TRUE]
IndicatedAccess(from, address, n) ==
    Access(from, address, << <<1, 1>>, <<0, 1>>, <<LENGTH, 5>> >>, TRUE, n)
EndHu(optional, indicated, n) ==
    Pdu("MacEndHu", << <<1, 1>>, <<FILL, 1>> >> \o optional, indicated, NoAddress, n)

Data(from, address, optional, indicated, n) ==
    Pdu("MacData", << <<0, 2>>, <<FILL, 1>>, <<0, 1>> >> \o from \o optional, indicated, address, n)
NullData == [Data(FromSsi, [ssi |-> 7], << <<0, 1>>, <<0, 6>> >>, FALSE, 0) EXCEPT !.null = TRUE]
IndicatedData(from, address, n) == Data(from, address, << <<0, 1>>, <<LENGTH, 6>> >>, TRUE, n)
StealingData(from, address, length, n) ==
    [Data(from, address, << <<0, 1>>, <<length, 6>> >>, FALSE, n)
        EXCEPT !.on_stealing_channel = length = 63]
FragmentUplink(n) == [FragmentDownlink(n) EXCEPT !.type = "MacFragmentUplink"]
EndUplink(field, n) ==
    Pdu("MacEndUplink", << <<1, 2>>, <<1, 1>>, <<FILL, 1>>, <<field, 6>> >>, field = LENGTH, NoAddress, n)
UBlck(n) ==
    Pdu("MacUBlck", << <<3, 2>>, <<0, 1>>, <<FILL, 1>>, <<0, 1>>, <<6, 10>>, <<2, 4>> >>,
        FALSE, [event_label |-> 6], n)

Unknown(pdu) == [pdu EXCEPT !.known = FALSE]
Hu(pdus) == BlockOfPdus(pdus, {NullAccess}, 92)
Up(pdus, room) == BlockOfPdus(pdus, {NullData}, room)

-----------------------------------------------------------------------------
(* Bursts.                                                                 *)

Cell(mcc, mnc, color) == [mcc |-> mcc, mnc |-> mnc, color |-> color]
Cells == {Cell(262, 1001, 3), Cell(901, 9999, 63)}
Home == Cell(262, 1001, 3)
CodeOf(cell) == Encoded(<< <<cell.mcc, 10>>, <<cell.mnc, 14>>, <<cell.color, 6>>, <<3, 2>> >>)
MCInjectedCode == CodeOf(Home)

Usage(header, field1) == Encoded(<< <<header, 2>>, <<field1, 6>>, <<41, 6>> >>)
Control == Usage(0, 9)
Traffic == Usage(3, 9)
AssignedControl == Usage(1, 1)

\* The frequencies are those of the first system information, in Hz.
Burst(type, aach, traffic, blocks, stolen) ==
    [downlink |-> 425012500, uplink |-> 415012500, burst_type |-> type, cell |-> CodeOf(Home), aach |-> aach, aach_errors |-> {},
     carries_traffic |-> traffic, blocks |-> blocks, second_half_stolen |-> stolen]

Full(block) == Burst("NormalDownlinkBurst", Control, {FALSE}, [bkn1 |-> block], FALSE)
Halves(first, second) ==
    Burst("NormalDownlinkBurstSplit", Control, {FALSE}, [bkn1 |-> first, bkn2 |-> second], FALSE)
Stolen(first, second, stolen) ==
    Burst("NormalDownlinkBurstSplit", Traffic, {TRUE}, [bkn1 |-> first, bkn2 |-> second], stolen)
TrafficBurst == Burst("NormalDownlinkBurst", Traffic, {TRUE}, [bkn1 |-> Block(Sdu(268), Nothing, TRUE, TRUE)], FALSE)

Sync(cell, time_slot, frame) ==
    Encoded(<< <<1, 4>>, <<cell.color, 6>>, <<time_slot - 1, 2>>, <<frame, 5>>, <<7, 6>>, <<0, 2>>,
               <<0, 3>>, <<1, 1>>, <<1, 1>>, <<0, 1>>, <<cell.mcc, 10>>, <<cell.mnc, 14>>,
               <<1, 1>>, <<1, 1>>, <<2, 2>>, <<1, 1>> >>)
SyncBurst(cell, time_slot, frame) ==
    [Burst("SynchronizationBurst", Control, {},
           [sb |-> Block(Sync(cell, time_slot, frame), Nothing, TRUE, TRUE), bkn2 |-> EvenFrames],
           FALSE) EXCEPT !.cell = CodeOf(cell)]

DamagedAt(burst, block, places) == [burst EXCEPT !.blocks[block].changed = places]
From(cell, burst) == [burst EXCEPT !.cell = CodeOf(cell)]
WithErrors(burst, errors) == [burst EXCEPT !.aach_errors = errors]

MCSyncBursts ==
    {SyncBurst(cell, 4, 17) : cell \in Cells} \cup {SyncBurst(Home, 4, 18)}
    \cup {DamagedAt(SyncBurst(Home, 4, 17), "sb", {5, 9}), DamagedAt(SyncBurst(Home, 4, 17), "bkn2", {50})}

MCDownlinkBlocks268 ==
    {Down(pdus, 268) : pdus \in
        { <<>>, <<ToSsi(LENGTH, 29)>>, <<ToSsi(LENGTH, 31)>>, <<ToSsi(62, 225)>>, <<ToSsi(62, 200)>>,
          << Fragmented(ToSsi(63, 225)) >>, <<ToSmiEvent(20)>>, <<ToSmiEvent(17), ToSsi(LENGTH, 29)>>,
          <<ToSsi(LENGTH, 29), ToUsage(31), ToEvent(21)>>,
          <<ToSsi(LENGTH, 31), ToSsi(LENGTH, 31)>>, <<ToSsi(LENGTH, 30), ToSsi(LENGTH, 145)>>,
          <<ToSsi(LENGTH, 30), ToSsi(LENGTH, 139)>>,
          << ToSsi(LENGTH, 30), WithZeros(Fragmented(ToSsi(63, 145))) >>,
          << ToSsi(LENGTH, 30), WithZeros(ToSsi(LENGTH, 145)) >>, <<ToSsi(LENGTH, 29), ToSsi(LENGTH, 153)>>,
          <<FragmentDownlink(264)>>, <<FragmentDownlink(250)>>, <<EndDownlink(43)>>,
          <<EndDownlink(43), ToSsi(LENGTH, 29)>>, <<EndDownlink(50), ToSsi(LENGTH, 29)>>,
          <<DBlck(250)>>, <<DBlck(100)>> }}

MCDownlinkBlocks124 ==
    {EvenFrames, AccessCode, Services(1), Services(2),
     Down(<<ToSsi(LENGTH, 29)>>, 124), Down(<<ToSsi(LENGTH, 31)>>, 124), Down(<<ToSsi(LENGTH, 81)>>, 124)}

FirstHalves ==
    { <<Down(<<ToSsi(LENGTH, 29)>>, 124), FALSE>>, <<Down(<<ToSsi(62, 81)>>, 124), TRUE>>,
      <<Down(<<Fragmented(ToSsi(63, 81))>>, 124), TRUE>>,
      <<USignal(0, 124), FALSE>>, <<USignal(1, 124), TRUE>> }
SecondHalf(stolen) ==
    IF ~stolen THEN {Speech}
    ELSE {Down(<<ToSsi(LENGTH, 29)>>, 124), USignal(0, 124), Down(<<EndDownlink(42)>>, 124)}

MCDownlinkBursts ==
    {Full(block) : block \in MCDownlinkBlocks268}
    \cup {Halves(first, second) : first, second \in MCDownlinkBlocks124}
    \cup UNION {{Stolen(half[1], second, half[2]) : second \in SecondHalf(half[2])} : half \in FirstHalves}
    \cup {[Halves(SysInfoOf(1, 4, 0, Frames), Down(<<>>, 124))
                EXCEPT !.downlink = 425006250, !.uplink = 420006250],
          [Halves(SysInfoOf(2, 3, 1, Frames), Down(<<>>, 124))
                EXCEPT !.downlink = 424993750, !.uplink = 432993750],
          [Halves(SysInfoOf(0, 7, 0, Frames), Padded(<<ToSsi(LENGTH, 29)>>, 124))
                EXCEPT !.downlink = 425000000, !.uplink = 0],
          Full(Padded(<<ToSsi(LENGTH, 29)>>, 268)), Full(Padded(<<ToSsi(LENGTH, 30), ToSsi(LENGTH, 29)>>, 268))}
    \cup {[Full(Down(<<ToSsi(LENGTH, 29)>>, 268)) EXCEPT !.aach = Traffic], TrafficBurst,
          [Full(Down(<<ToSsi(LENGTH, 29)>>, 268)) EXCEPT !.aach = AssignedControl]}

\* Errors of the air, in every broadcast bit, and in the blocks.
MCErrorBursts ==
    UNION {{WithErrors(burst, errors) : errors \in {{place} : place \in 1 .. 30} \cup {{1, 2, 3}}} :
              burst \in {TrafficBurst, [Full(Down(<<ToSsi(LENGTH, 29)>>, 268)) EXCEPT !.aach = AssignedControl],
                         Halves(EvenFrames, Down(<<ToSsi(LENGTH, 29)>>, 124)),
                         Stolen(USignal(0, 124), Speech, FALSE)}}
    \cup UNION {{DamagedAt(burst, "bkn1", {1}), DamagedAt(burst, "bkn1", {8, 9, 10, 11, 12}),
                 DamagedAt(burst, "bkn2", {3}), From(Cell(901, 9999, 63), burst)} :
              burst \in {Halves(EvenFrames, Down(<<ToSsi(LENGTH, 29)>>, 124)),
                         Stolen(Down(<<ToSsi(62, 81)>>, 124), USignal(0, 124), TRUE)}}

MCUplinkBursts ==
    {Burst("ControlUplinkBurst", Control, {}, [cb |-> Hu(pdus)], FALSE) : pdus \in
        { <<>>, <<IndicatedAccess(FromSsi, [ssi |-> 7], 20)>>, <<IndicatedAccess(FromSsi, [ssi |-> 7], 17)>>,
          <<IndicatedAccess(FromEvent, [event_label |-> 5], 10)>>,
          <<IndicatedAccess(FromSsi, [ssi |-> 7], 53)>>,
          <<Access(FromSsi, [ssi |-> 7], << <<0, 1>> >>, FALSE, 62)>>,
          << Fragmented(Access(FromSsi, [ssi |-> 7], << <<1, 1>> >> \o Capacity(1), FALSE, 50)) >>,
          <<EndHu(<< <<0, 1>>, <<LENGTH, 4>> >>, TRUE, 30)>>, <<EndHu(<< <<1, 1>>, <<5, 4>> >>, FALSE, 60)>>,
          << Unknown(EndHu(<< <<0, 1>>, <<LENGTH, 4>> >>, TRUE, 33)) >>,
          << Unknown(IndicatedAccess(<< <<2, 2>>, <<7, 24>> >>, [ussi |-> 7], 20)) >> }}
    \cup {Burst("NormalUplinkBurst", Control, {}, [bkn1 |-> Up(pdus, 268)], FALSE) : pdus \in
        { <<>>, <<IndicatedData(FromSsi, [ssi |-> 7], 35)>>,
          <<IndicatedData(FromSsi, [ssi |-> 7], 40)>>,
          <<IndicatedData(FromEvent, [event_label |-> 5], 33), IndicatedData(FromSsi, [ssi |-> 7], 35)>>,
          <<IndicatedData(FromSsi, [ssi |-> 7], 34), IndicatedData(FromSsi, [ssi |-> 7], 155)>>,
          << Fragmented(Data(FromSsi, [ssi |-> 7], Capacity(1) \o << <<0, 1>> >>, FALSE, 220)) >>,
          <<FragmentUplink(264)>>, <<FragmentUplink(200)>>, <<EndUplink(LENGTH, 30)>>,
          <<EndUplink(LENGTH, 40)>>, <<EndUplink(50, 240)>>, <<UBlck(249)>>, <<UBlck(120)>> }}
    \cup UNION {{Burst("NormalUplinkBurstSplit", Control, {}, [bkn1 |-> half[1], bkn2 |-> second], half[2]) :
                    second \in IF half[2] THEN {Up(<<EndUplink(LENGTH, 40)>>, 124), USignal(0, 124)} ELSE {Speech}} :
                 half \in { <<Up(<<StealingData(FromSsi, [ssi |-> 7], 62, 87)>>, 124), TRUE>>,
                            <<Up(<<StealingData(FromEvent, [event_label |-> 5], 63, 101)>>, 124), TRUE>>,
                            <<Up(<<IndicatedData(FromSsi, [ssi |-> 7], 35)>>, 124), FALSE>>,
                            <<Up(<<Data(FromSsi, [ssi |-> 7], Capacity(0) \o << <<0, 1>> >>, FALSE, 80)>>, 124), FALSE>>,
                            <<USignal(0, 124), FALSE>>, <<USignal(1, 124), TRUE>> }}

MCBursts == MCSyncBursts \cup MCDownlinkBursts \cup MCErrorBursts \cup MCUplinkBursts

=============================================================================
