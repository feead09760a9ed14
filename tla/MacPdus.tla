-------------------------------- MODULE MacPdus --------------------------------
(***************************************************************************)
(* The elements and PDUs of the MAC as layouts: what the constructors of   *)
(* upper_mac_packet.cpp, the functions of address.cpp and the headers in   *)
(* UpperMacPacketBuilder take from the bits, in which order, and on which  *)
(* conditions.                                                             *)
(***************************************************************************)
EXTENDS BitVector

(* Address.                                                                *)

\* MAC-ACCESS and MAC-DATA: type 3 is tested twice, nothing is taken for type 2.
from_mac_access ==
    << Field("address_type", 2),
       Optional("ssi", 24, [address_type |-> {0}]),
       Optional("event_label", 10, [address_type |-> {1}]),
       Optional("ussi", 24, [address_type |-> {3}]) >>

from_mac_data == from_mac_access

from_mac_resource ==
    << Field("address_type", 3),
       Optional("ssi", 24, [address_type |-> {1, 5, 6}]),
       Optional("ussi", 24, [address_type |-> {3}]),
       Optional("smi", 24, [address_type |-> {4, 7}]),
       Optional("event_label", 10, [address_type |-> {2, 5, 7}]),
       Optional("usage_marker", 6, [address_type |-> {6}]) >>

AddressFields == {"ssi", "event_label", "ussi", "smi", "usage_marker"}

AddressOf(value) == [name \in DOMAIN value \cap AddressFields |-> value[name]]
NoAddress == AddressOf(NoFields)

-----------------------------------------------------------------------------
(* LengthIndication, in bits.                                              *)

Y == 8
Z == 8

Units_FromOne(indication, last) ==
    IF indication <= last THEN (indication - 1) * Y ELSE (last - 1) * Y + (indication - last) * Z

\* Up to some value an indication counts in units of Y bits, then of Z bits.
Units(indication, last) ==
    IF indication <= last THEN indication * Y ELSE last * Y + (indication - last) * Z

Length_from_mac_access(indication) == Units(indication, 14)
Length_from_mac_end_hu(indication) == indication * Z
Length_from_mac_data(indication) == Units(indication, 18)
Length_from_mac_end_uplink(indication) == Units(indication, 6)
Length_from_mac_end_downlink(indication) == Units(indication, 18)

-----------------------------------------------------------------------------
(* Channel allocation.                                                     *)

ExtendedCarrierNumbering ==
    << Field("extended_frequency_band", 4), Field("extended_offset", 2),
       Field("extended_duplex_spacing", 3), Field("extended_reverse_operation", 1) >>

AugmentedChannelAllocation ==
    << Field("augmented_up_downlink", 2), Field("bandwidth", 3), Field("modulation_mode", 3),
       Optional("maximum_uplink_qam_modulation_level", 3, [modulation_mode |-> {2}]),
       Optional("reserved_level", 3, [modulation_mode |-> {2}]),
       Field("conforming_channel_status", 3), Field("bs_link_imbalance", 4),
       Field("bs_transmit_power_relative_to_main_carrier", 5),
       Field("napping_status", 2), Optional("napping_information", 11, [napping_status |-> {1}]),
       Field("augmented_reserved", 4),
       Field("a_flag", 1), Optional("conditional_element_a", 16, [a_flag |-> {1}]),
       Field("b_flag", 1), Optional("conditional_element_b", 16, [b_flag |-> {1}]),
       Field("further_augmentation_flag", 1) >>

ChannelAllocationElement ==
    << Field("allocation_type", 2), Field("timeslot_assigned", 4),
       Field("up_downlink_assigned", 2), Field("clch_permission", 1),
       Field("cell_change_flag", 1), Field("carrier_number", 12),
       Field("extended_carrier_numbering_flag", 1) >>
    \o Under([extended_carrier_numbering_flag |-> {1}], ExtendedCarrierNumbering)
    \o << Field("monitoring_pattern", 2),
          Optional("frame18_monitoring_pattern", 2, [monitoring_pattern |-> {0}]) >>
    \o Under([up_downlink_assigned |-> {0}], AugmentedChannelAllocation)

-----------------------------------------------------------------------------
(* Broadcast PDUs, after the PDU and broadcast types.                      *)

AccessCodeDefinition ==
    << Field("immediate", 4), Field("waiting_time", 4),
       Field("number_of_random_access_transmissions_on_up_link", 4),
       Field("frame_length_factor", 1), Field("timeslot_pointer", 4),
       Field("minimum_pdu_priority", 3) >>

ExtendedServiceBroadcast ==
    << Field("security_information", 8), Field("sdstl_addressing_method", 2),
       Field("gck_supported", 1), Field("section", 2) >>
    \o Under([section |-> {0}],
             << Field("data_priority_supported", 1),
                Field("extended_advanced_links_and_max_ublck_supported", 1),
                Field("qos_negotiation_supported", 1), Field("d8psk_service", 1),
                Field("section2_sent", 1), Field("section3_sent", 1), Field("section4_sent", 1) >>)
    \o Under([section |-> {1}],
             << Field("service_25Qam", 1), Field("service_50Qam", 1), Field("service_100Qam", 1),
                Field("service_150Qam", 1), Field("section2_reserved", 3) >>)
    \o << Optional("section_reserved", 7, [section |-> {2, 3}]) >>

AccessDefine ==
    << Field("common_or_assigned_control_channel_flag", 1), Field("access_code", 2) >>
    \o AccessCodeDefinition
    \o << Field("optional_field_flag", 2),
          Optional("subscriber_class_bitmap", 16, [optional_field_flag |-> {1}]),
          Optional("gssi", 24, [optional_field_flag |-> {2}]),
          Field("filler_bits", 3) >>

SystemInfo ==
    << Field("main_carrier", 12), Field("frequency_band", 4), Field("offset", 2),
       Field("duplex_spacing_field", 3), Field("reverse_operation", 1),
       Field("number_secondary_control_channels_main_carrier", 2),
       Field("ms_txpwr_max_cell", 3), Field("rxlev_access_min", 4),
       Field("access_parameter", 4), Field("radio_downlink_timeout", 4),
       Field("hyper_frame_cipher_key_flag", 1),
       Optional("hyper_frame_number", 16, [hyper_frame_cipher_key_flag |-> {0}]),
       Optional("cipher_key_number", 16, [hyper_frame_cipher_key_flag |-> {1}]),
       Field("optional_field_flag", 2),
       Optional("even_multi_frame_definition_for_ts_mode", 20, [optional_field_flag |-> {0}]),
       Optional("odd_multi_frame_definition_for_ts_mode", 20, [optional_field_flag |-> {1}]) >>
    \o Under([optional_field_flag |-> {2}], AccessCodeDefinition)
    \o Under([optional_field_flag |-> {3}], ExtendedServiceBroadcast)
    \o << Field("location_area", 14), Field("subscriber_class", 16),
          Field("bs_service_details", 12) >>

\* The frequencies of the main carrier in Hz.
downlink_frequency(v) ==
    v.frequency_band * 100000000 + v.main_carrier * 25000
    + <<0, 6250, -6250, 12500>>[v.offset + 1]

\* The duplex spacings in kHz by the frequency band; the others are reserved.
kTetraDuplexSpacing(spacing, band) ==
    CASE spacing = 0 /\ band = 1 -> 1600
      [] spacing = 0 /\ band \in 2 .. 6 -> 10000
      [] spacing = 1 /\ band = 1 -> 4500
      [] spacing = 1 /\ band = 3 -> 36000
      [] spacing = 1 /\ band = 4 -> 7000
      [] spacing = 1 /\ band \in {8, 9} -> 45000
      [] spacing = 2 -> 0
      [] spacing = 3 /\ band \in {3, 4} -> 8000
      [] spacing = 3 /\ band \in {8, 9} -> 18000
      [] spacing = 4 /\ band = 3 -> 18000
      [] spacing = 4 /\ band = 4 -> 5000
      [] spacing = 4 /\ band \in {6, 7} -> 30000
      [] spacing = 4 /\ band = 9 -> 39000
      [] spacing = 5 /\ band = 4 -> 9500
      [] OTHER -> -1

uplink_frequency(v) ==
    LET spacing == kTetraDuplexSpacing(v.duplex_spacing_field, v.frequency_band)
    IN IF spacing < 0 THEN 0
       ELSE IF v.reverse_operation = 1 THEN downlink_frequency(v) + spacing * 1000
       ELSE downlink_frequency(v) - spacing * 1000

-----------------------------------------------------------------------------
(* Headers of the C-plane PDUs, each from its PDU type to the TM-SDU.      *)

MacAccess ==
    << Field("pdu_type", 1), Field("fill_bit_indication", 1), Field("encrypted", 1) >>
    \o from_mac_access
    \o << Field("optional_field_flag", 1),
          Optional("request", 1, [optional_field_flag |-> {1}]),
          Optional("length_indication", 5, [request |-> {0}]),
          Optional("fragmentation", 1, [request |-> {1}]),
          Optional("reservation_requirement", 4, [request |-> {1}]) >>

MacEndHu ==
    << Field("pdu_type", 1), Field("fill_bit_indication", 1), Field("request", 1),
       Optional("length_indication", 4, [request |-> {0}]),
       Optional("reservation_requirement", 4, [request |-> {1}]) >>

MacData ==
    << Field("pdu_type", 2), Field("fill_bit_indication", 1), Field("encrypted", 1) >>
    \o from_mac_data
    \o << Field("request", 1),
          Optional("length_indication", 6, [request |-> {0}]),
          Optional("fragmentation", 1, [request |-> {1}]),
          Optional("reservation_requirement", 4, [request |-> {1}]),
          Optional("reserved", 1, [request |-> {1}]) >>

MacFragment ==
    << Field("pdu_type", 2), Field("subtype", 1), Field("fill_bit_indication", 1) >>

MacEndUplink ==
    << Field("pdu_type", 2), Field("subtype", 1), Field("fill_bit_indication", 1),
       Field("length_indication", 6) >>

MacUBlck ==
    << Field("pdu_type", 2), Field("subtype", 1), Field("fill_bit_indication", 1),
       Field("encrypted", 1), Field("event_label", 10), Field("reservation_requirement", 4) >>

SlotGranting ==
    << Field("slot_granting_flag", 1),
       Optional("basic_slot_granting_element", 8, [slot_granting_flag |-> {1}]) >>

ChannelAllocation ==
    << Field("channel_allocation_flag", 1) >>
    \o Under([channel_allocation_flag |-> {1}], ChannelAllocationElement)

\* The null PDU, with no address, ends after it.
MacResource ==
    << Field("pdu_type", 2), Field("fill_bit_indication", 1), Field("position_of_grant", 1),
       Field("encryption_mode", 2), Field("random_access_flag", 1),
       Field("length_indication", 6) >>
    \o from_mac_resource
    \o Under([address_type |-> 1 .. 7],
             << Field("power_control_flag", 1),
                Optional("power_control_element", 4, [power_control_flag |-> {1}]) >>
             \o SlotGranting \o ChannelAllocation)

MacEndDownlink ==
    << Field("pdu_type", 2), Field("subtype", 1), Field("fill_bit_indication", 1),
       Field("position_of_grant", 1), Field("length_indication", 6) >>
    \o SlotGranting \o ChannelAllocation

MacDBlck ==
    << Field("pdu_type", 2), Field("subtype", 1), Field("fill_bit_indication", 1),
       Field("encryption_mode", 2), Field("event_label", 10),
       Field("immediate_napping_permission_flag", 1) >>
    \o SlotGranting

=============================================================================
