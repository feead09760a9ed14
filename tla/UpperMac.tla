------------------------------- MODULE UpperMac -------------------------------
(***************************************************************************)
(* UpperMac::process (upper_mac.cpp): what the UpperMac thread does with   *)
(* the slots of one burst.  The packets of the slots are parsed, uplink    *)
(* fragments get the address of the null PDU, fragments are reassembled    *)
(* and what is whole is parsed by the LLC and pushed.                      *)
(*                                                                         *)
(* A burst is a sequence of concrete slots.  A slot says whether parsing   *)
(* it throws, and has the sequence of its C-plane packets (none for        *)
(* traffic, broadcast and wrong CRC).  A packet has the fields the code    *)
(* branches on, and two for the properties: `sender', the mobile station   *)
(* that sent it, and `burst', the number of the burst it came with.        *)
(*                                                                         *)
(* Left out: the reassembly over a stealing channel in the downlink, which *)
(* is not reached (the parser never marks a MAC-RESOURCE so), and the      *)
(* fragment without a TM-SDU (a null PDU that announces fragmentation);     *)
(* assertions are taken as compiled out.                                   *)
(***************************************************************************)
EXTENDS Integers, Sequences, SequencesExt

CONSTANTS
    Signals,        \* sets of bursts: what one receiver can be given
    Addresses,      \* of mobile stations, which are named by them
    NoAddress,      \* Address{}
    Network,        \* the sender of the downlink
    metrics_,       \* whether there are metrics
    MaxBursts       \* bound: how many bursts are processed

ASSUME MetricsAssumption == metrics_ \in BOOLEAN

VARIABLES
    signal,                                 \* the bursts this receiver gets
    bursts,                                 \* how many have been taken
    pc,
    slots,                                  \* the burst being processed
    rest,                                   \* its concrete slots not parsed yet
    packets,                                \* packets.c_plane_signalling_packets_
    c_plane_packets,                        \* what is whole: sequences of fragments
    owed,                                   \* history: all that was in c_plane_packets
    pushed,                                 \* what was pushed for this burst
    downlink_state, downlink_fragments, downlink_received,
    uplink_state, uplink_fragments, uplink_received

downlinkVars == <<downlink_state, downlink_fragments, downlink_received>>
uplinkVars == <<uplink_state, uplink_fragments, uplink_received>>
burstVars == <<signal, bursts, slots>>
vars == <<burstVars, pc, rest, packets, c_plane_packets, owed, pushed,
          downlinkVars, uplinkVars>>

UplinkTypes ==
    {"MacAccess", "MacEndHu", "MacData", "MacFragmentUplink", "MacEndUplink", "MacUBlck"}
DownlinkTypes == {"MacResource", "MacFragmentDownlink", "MacEndDownlink", "MacDBlck"}

Pdu == [type : UplinkTypes \cup DownlinkTypes, address : Addresses \cup {NoAddress},
        fragmentation_ : BOOLEAN, fragmentation_on_stealling_channel_ : BOOLEAN,
        tm_sdu_ : BOOLEAN, sender : Addresses \cup {Network}, burst : Nat]
Slot == [throws : BOOLEAN, packets : Seq(Pdu)]

Burst == UNION Signals
PacketsOf(burst) == UNION {Range(slot.packets) : slot \in Range(burst)}
Packet == UNION {PacketsOf(b) : b \in Burst}

\* A packet as it came with the n-th burst, associated with an address.
Stamp(p, n, a) == [p EXCEPT !.burst = n, !.address = a]
Stamped == {Stamp(p, n, a) :
               p \in Packet, n \in 1 .. MaxBursts, a \in Addresses \cup {NoAddress}}

\* What is parsed of what the sender writes: the network sends the downlink; a mobile
\* station puts its address, or none, into what it sends.  Of an address of type 2
\* nothing is parsed (address.cpp:40-46 and 57-63 have type 3 twice), so that what
\* starts a packet may come without one as well.
WellSent(p) ==
    /\ p.type \in DownlinkTypes => p.sender = Network
    /\ p.type \in UplinkTypes => p.sender \in Addresses /\ p.address \in {p.sender, NoAddress}

ASSUME MaxBurstsAssumption == MaxBursts \in Nat
ASSUME NameAssumption == NoAddress \notin Addresses /\ Network \notin Addresses
ASSUME SignalsAssumption == \A b \in Burst : b \in Seq(Slot)
ASSUME WellSentAssumption == \A p \in Packet : WellSent(p)
ASSUME OneSenderAssumption == \A b \in Burst : \A p, q \in PacketsOf(b) : p.sender = q.sender

\* The downlink has one address for all fragments.
Downlink == INSTANCE Fragmentation
    WITH Addresses <- {NoAddress}, Fragment <- Stamped, MaxFragments <- 0,
         state_per_address_ <- downlink_state,
         fragments_per_address_ <- downlink_fragments,
         received <- downlink_received

Uplink == INSTANCE Fragmentation
    WITH Addresses <- Addresses \cup {NoAddress}, Fragment <- Stamped, MaxFragments <- 0,
         state_per_address_ <- uplink_state,
         fragments_per_address_ <- uplink_fragments,
         received <- uplink_received

-----------------------------------------------------------------------------
(* The packets.                                                            *)

is_null_pdu(p) ==
    \/ p.type = "MacResource" /\ p.address = NoAddress
    \/ p.type \in {"MacAccess", "MacData"} /\ ~p.tm_sdu_

is_downlink_fragment(p) ==
    \/ p.type = "MacResource" /\ p.fragmentation_
    \/ p.type \in {"MacFragmentDownlink", "MacEndDownlink"}

is_uplink_fragment(p) ==
    \/ p.type \in {"MacAccess", "MacData"}
       /\ (p.fragmentation_ \/ p.fragmentation_on_stealling_channel_)
    \/ p.type \in {"MacFragmentUplink", "MacEndUplink", "MacEndHu"}

\* push_fragment(): the state a fragment leads to.
LeadsTo(p) ==
    CASE p.type \in {"MacResource", "MacAccess", "MacData"} -> "kStartFragmentReceived"
      [] p.type \in {"MacFragmentDownlink", "MacFragmentUplink"} -> "kContinuationFragmentReceived"
      [] p.type \in {"MacEndDownlink", "MacEndUplink"} -> "kEndFragmentReceived"

\* A packet that ends the processing of the whole burst with an exception: a
\* MAC-D-BLCK when it is counted (there is no break after its case), and a
\* MAC-END-HU when it is pushed as a fragment.
Throws(p) ==
    \/ metrics_ /\ p.type = "MacDBlck"
    \/ p.type = "MacEndHu"

-----------------------------------------------------------------------------
Init ==
    /\ signal \in Signals
    /\ bursts = 0
    /\ pc = "idle"
    /\ slots = <<>> /\ rest = <<>> /\ packets = <<>>
    /\ c_plane_packets = <<>> /\ owed = <<>> /\ pushed = <<>>
    /\ Downlink!Init
    /\ Uplink!Init

\* process() is called.
Process(burst) ==
    /\ pc = "idle" /\ bursts < MaxBursts
    /\ bursts' = bursts + 1
    /\ slots' = burst /\ rest' = burst
    /\ packets' = <<>> /\ c_plane_packets' = <<>> /\ owed' = <<>> /\ pushed' = <<>>
    /\ pc' = "slots"
    /\ UNCHANGED <<signal, downlinkVars, uplinkVars>>

\* A slot is parsed; one that throws is skipped.
ParseSlot ==
    /\ pc = "slots" /\ rest # <<>>
    /\ rest' = Tail(rest)
    /\ packets' = IF Head(rest).throws THEN packets
                  ELSE packets \o [k \in DOMAIN Head(rest).packets |->
                                      [Head(rest).packets[k] EXCEPT !.burst = bursts]]
    /\ UNCHANGED <<burstVars, pc, c_plane_packets, owed, pushed, downlinkVars, uplinkVars>>

NullPdus == {k \in DOMAIN packets : is_null_pdu(packets[k])}

Associate_None ==
    /\ pc = "slots" /\ rest = <<>>
    /\ pc' = "packets"
    /\ UNCHANGED <<burstVars, rest, packets, c_plane_packets, owed, pushed, downlinkVars, uplinkVars>>

\* apply_uplink_null_pdu_information(): the last null PDU gives its address.
Associate ==
    /\ pc = "slots" /\ rest = <<>>
    /\ packets' =
          [k \in DOMAIN packets |->
              IF packets[k].type \in {"MacFragmentUplink", "MacEndUplink"} /\ NullPdus # {}
              THEN [packets[k] EXCEPT !.address = packets[Max(NullPdus)].address]
              ELSE packets[k]]
    /\ pc' = "packets"
    /\ UNCHANGED <<burstVars, rest, c_plane_packets, owed, pushed, downlinkVars, uplinkVars>>

-----------------------------------------------------------------------------
(* processPackets(), packet by packet.                                     *)

\* The packet is done, and these are whole: a set of at most one.
Whole(done) ==
    /\ packets' = Tail(packets)
    /\ c_plane_packets' = c_plane_packets \o SetToSeq(done)
    /\ owed' = owed \o SetToSeq(done)
    /\ UNCHANGED <<burstVars, pc, rest, pushed>>

AtPacket == pc = "packets" /\ packets # <<>>

DownlinkFragment ==
    /\ AtPacket /\ ~Throws(Head(packets))
    /\ is_downlink_fragment(Head(packets))
    /\ Downlink!ChangeState(NoAddress, LeadsTo(Head(packets)), Head(packets))
    /\ Whole(Downlink!Reassembled(NoAddress, LeadsTo(Head(packets)), Head(packets)))
    /\ UNCHANGED uplinkVars

UplinkFragment_OneKey ==
    LET p == Head(packets) IN
    /\ AtPacket /\ ~Throws(p)
    /\ is_uplink_fragment(p)
    /\ Uplink!ChangeState(NoAddress, LeadsTo(p), p)
    /\ Whole(Uplink!Reassembled(NoAddress, LeadsTo(p), p))
    /\ UNCHANGED downlinkVars

UplinkFragment ==
    LET p == Head(packets) IN
    /\ AtPacket /\ ~Throws(p)
    /\ is_uplink_fragment(p)
    /\ Uplink!ChangeState(p.address, LeadsTo(p), p)
    /\ Whole(Uplink!Reassembled(p.address, LeadsTo(p), p))
    /\ UNCHANGED downlinkVars

\* What is not a fragment is whole, if it holds a TM-SDU.
WholePacket ==
    LET p == Head(packets) IN
    /\ AtPacket /\ ~Throws(p)
    /\ ~is_downlink_fragment(p) /\ ~is_uplink_fragment(p)
    /\ Whole(IF p.tm_sdu_ THEN {<<p>>} ELSE {})
    /\ UNCHANGED <<downlinkVars, uplinkVars>>

Throw ==
    /\ AtPacket /\ Throws(Head(packets))
    /\ pc' = "failed"
    /\ UNCHANGED <<burstVars, rest, packets, c_plane_packets, owed, pushed, downlinkVars, uplinkVars>>

AllPackets ==
    /\ pc = "packets" /\ packets = <<>>
    /\ pc' = "push"
    /\ UNCHANGED <<burstVars, rest, packets, c_plane_packets, owed, pushed, downlinkVars, uplinkVars>>

-----------------------------------------------------------------------------
\* The LLC and the layers above parse what is whole, and it is pushed ...
Push ==
    /\ pc = "push" /\ c_plane_packets # <<>>
    /\ pushed' = Append(pushed, Head(c_plane_packets))
    /\ c_plane_packets' = Tail(c_plane_packets)
    /\ UNCHANGED <<burstVars, pc, rest, packets, owed, downlinkVars, uplinkVars>>

\* ... or one of them throws, and what was pushed before stays pushed.
PushThrows ==
    /\ pc = "push" /\ c_plane_packets # <<>>
    /\ pc' = "failed"
    /\ UNCHANGED <<burstVars, rest, packets, c_plane_packets, owed, pushed, downlinkVars, uplinkVars>>

Processed ==
    /\ pc = "push" /\ c_plane_packets = <<>>
    /\ pc' = "idle"
    /\ UNCHANGED <<burstVars, rest, packets, c_plane_packets, owed, pushed, downlinkVars, uplinkVars>>

Failed_NotPushed ==
    /\ pc = "failed"
    /\ pc' = "idle"
    /\ UNCHANGED <<burstVars, rest, packets, c_plane_packets, owed, pushed, downlinkVars, uplinkVars>>

\* The exception is caught: with metrics, the slots are pushed as failed.
Failed ==
    /\ pc = "failed"
    /\ pushed' = IF metrics_ THEN Append(pushed, slots) ELSE pushed
    /\ pc' = "idle"
    /\ UNCHANGED <<burstVars, rest, packets, c_plane_packets, owed, downlinkVars, uplinkVars>>

Next ==
    \/ \E burst \in signal : Process(burst)
    \/ ParseSlot \/ Associate
    \/ DownlinkFragment \/ UplinkFragment \/ WholePacket \/ Throw \/ AllPackets
    \/ Push \/ PushThrows \/ Processed \/ Failed

Spec == Init /\ [][Next]_vars

-----------------------------------------------------------------------------
(* Correctness.                                                            *)

TypeOK ==
    /\ signal \in Signals
    /\ bursts \in 0 .. MaxBursts
    /\ pc \in {"idle", "slots", "packets", "push", "failed"}
    /\ slots \in Burst \cup {<<>>} /\ rest \in Seq(Slot)
    /\ packets \in Seq(Stamped)
    /\ c_plane_packets \in Seq(Seq(Stamped))
    /\ owed \in Seq(Seq(Stamped))
    /\ pushed \in Seq(Seq(Stamped) \cup Burst)
    /\ Downlink!TypeOK
    /\ Uplink!TypeOK

\* Over all the bursts, those that throw on the way among them, what is held for
\* reassembly is what was received since the start of an open packet.
Reassembly == Downlink!HeldIsOpen /\ Uplink!HeldIsOpen

\* However the mobile stations take turns, and though their fragments do not say
\* who sent them, no packet whose start has an address is put together from
\* fragments of two of them, not even with the fragments and the starts that come
\* without an address in between (upper_mac_packet_builder.hpp:59-76,
\* upper_mac_fragments.hpp:214-217).
OneSender ==
    \A k \in DOMAIN owed :
        Head(owed[k]).type \in DownlinkTypes \/ Head(owed[k]).address # NoAddress =>
            \A f, g \in Range(owed[k]) : f.sender = g.sender

\* "The vector that holds the accumulated fragments for each mobile station by its
\* address" (upper_mac_fragments.hpp:199): what is held together is from one station.
HeldFromOneStation ==
    \A a \in DOMAIN uplink_fragments :
        \A f, g \in Range(uplink_fragments[a]) : f.sender = g.sender

\* A packet has its first fragment first, its last one last, and none that came
\* in an earlier burst than the one before it.
InOrder ==
    \A k \in DOMAIN owed :
        LET fragments == owed[k] IN
        Len(fragments) > 1 =>
            /\ LeadsTo(Head(fragments)) = "kStartFragmentReceived"
            /\ LeadsTo(Last(fragments)) = "kEndFragmentReceived"
            /\ \A i \in 2 .. Len(fragments) : fragments[i - 1].burst <= fragments[i].burst

\* With metrics, a burst is never dropped silently in part: all that is whole is
\* pushed, or the slots are, as failed, after some of it.
PushedOrFailed ==
    pc = "idle" /\ bursts > 0 =>
        \/ pushed = owed
        \/ pushed # <<>> /\ Last(pushed) = slots /\ IsPrefix(Front(pushed), owed)

=============================================================================
