---------------------------- MODULE UpperMac_proofs ----------------------------
(***************************************************************************)
(* Proofs about UpperMac, for any mobile stations and any bursts that they *)
(* and the network may send.  What is reassembled in each direction is     *)
(* what Fragmentation_proofs says; the rest of the invariant is about what *)
(* the fragments are: who sent them, when, and where they go.              *)
(***************************************************************************)
EXTENDS UpperMac, SequenceTheorems, FiniteSetTheorems, WellFoundedInduction, TLAPS

Keys == Addresses \cup {NoAddress}

\* The theorems about the two reassemblies.
DownlinkProved == INSTANCE Fragmentation_proofs
    WITH Addresses <- {NoAddress}, Fragment <- Stamped, MaxFragments <- 0,
         state_per_address_ <- downlink_state,
         fragments_per_address_ <- downlink_fragments,
         received <- downlink_received

UplinkProved == INSTANCE Fragmentation_proofs
    WITH Addresses <- Addresses \cup {NoAddress}, Fragment <- Stamped, MaxFragments <- 0,
         state_per_address_ <- uplink_state,
         fragments_per_address_ <- uplink_fragments,
         received <- uplink_received

-----------------------------------------------------------------------------
(* The invariant.                                                          *)

\* Fragments that begin with a start, in the order of their bursts.
InSequence(h) ==
    /\ h # <<>> => LeadsTo(h[1]) = "kStartFragmentReceived"
    /\ \A i \in 2 .. Len(h) : h[i - 1].burst <= h[i].burst

\* Whose a fragment is taken to be: the network's, or that of an address.
Key(p) == IF p.sender = Network THEN <<>> ELSE <<p.address>>

\* What is held under one key.
Gathered(state, h, key) ==
    /\ state = "kStart" <=> h = <<>>
    /\ InSequence(h)
    /\ \A i \in 1 .. Len(h) : Key(h[i]) = key /\ WellSent(h[i]) /\ h[i].burst <= bursts

\* For each address, and for the empty one, only the fragments that came with it.
HeldByKey ==
    /\ Gathered(downlink_state[NoAddress], downlink_fragments[NoAddress], <<>>)
    /\ \A a \in Keys : Gathered(uplink_state[a], uplink_fragments[a], <<a>>)

\* What is owed are packets under one key, from their first fragment to the last.
IsPacket(g) ==
    /\ \A i, j \in 1 .. Len(g) : Key(g[i]) = Key(g[j])
    /\ \A i \in 1 .. Len(g) : WellSent(g[i])
    /\ Len(g) > 1 =>
          InSequence(g) /\ LeadsTo(g[Len(g)]) = "kEndFragmentReceived"

OwedPackets == \A k \in 1 .. Len(owed) : IsPacket(owed[k])

\* The packets of the burst that is processed.
OfThisBurst ==
    /\ \A i \in 1 .. Len(rest) : rest[i] \in Range(slots)
    /\ \A k \in 1 .. Len(packets) :
          /\ packets[k].burst = bursts
          /\ WellSent(packets[k])
          /\ \E p \in PacketsOf(slots) : packets[k].sender = p.sender

\* What was whole is pushed, or waits for it.
PushedOrWaits ==
    /\ pc # "idle" => bursts > 0 /\ slots \in Burst
    /\ pc = "slots" => pushed = <<>> /\ c_plane_packets = <<>> /\ owed = <<>>
    /\ pc = "packets" => pushed = <<>>
    /\ pc # "idle" => pushed \in Seq(Seq(Stamped)) /\ owed = pushed \o c_plane_packets
    /\ metrics_ => PushedOrFailed

IInv ==
    /\ TypeOK /\ DownlinkProved!IInv /\ UplinkProved!IInv
    /\ HeldByKey /\ OwedPackets /\ OfThisBurst /\ PushedOrWaits

-----------------------------------------------------------------------------
(* The reassemblies are those the theorems are about.                      *)

LEMMA SameDownlink ==
    /\ DownlinkProved!TypeOK <=> Downlink!TypeOK
    /\ DownlinkProved!HeldIsOpen <=> Downlink!HeldIsOpen
    /\ DownlinkProved!Init <=> Downlink!Init
    /\ \A a, l, f : DownlinkProved!ChangeState(a, l, f) <=> Downlink!ChangeState(a, l, f)
<1>1. DownlinkProved!TypeOK <=> Downlink!TypeOK
  BY DEF DownlinkProved!TypeOK, Downlink!TypeOK, DownlinkProved!Entry, Downlink!Entry,
         DownlinkProved!Leading, Downlink!Leading, DownlinkProved!Collecting, Downlink!Collecting
<1>2. DownlinkProved!HeldIsOpen <=> Downlink!HeldIsOpen
  BY DEF DownlinkProved!HeldIsOpen, Downlink!HeldIsOpen, DownlinkProved!Open, Downlink!Open,
         DownlinkProved!FragmentsFrom, Downlink!FragmentsFrom
<1>3. DownlinkProved!Init <=> Downlink!Init
  BY DEF DownlinkProved!Init, Downlink!Init
<1>4. \A a, l, f : DownlinkProved!ChangeState(a, l, f) <=> Downlink!ChangeState(a, l, f)
  BY DEF DownlinkProved!ChangeState, Downlink!ChangeState,
         DownlinkProved!NextState, Downlink!NextState,
         DownlinkProved!Collected, Downlink!Collected,
         DownlinkProved!Valid, Downlink!Valid,
         DownlinkProved!allowed_state_changes_, Downlink!allowed_state_changes_,
         DownlinkProved!Collecting, Downlink!Collecting
<1>. QED
  BY <1>1, <1>2, <1>3, <1>4

LEMMA SameUplink ==
    /\ UplinkProved!TypeOK <=> Uplink!TypeOK
    /\ UplinkProved!HeldIsOpen <=> Uplink!HeldIsOpen
    /\ UplinkProved!Init <=> Uplink!Init
    /\ \A a, l, f : UplinkProved!ChangeState(a, l, f) <=> Uplink!ChangeState(a, l, f)
<1>1. UplinkProved!TypeOK <=> Uplink!TypeOK
  BY DEF UplinkProved!TypeOK, Uplink!TypeOK, UplinkProved!Entry, Uplink!Entry,
         UplinkProved!Leading, Uplink!Leading, UplinkProved!Collecting, Uplink!Collecting
<1>2. UplinkProved!HeldIsOpen <=> Uplink!HeldIsOpen
  BY DEF UplinkProved!HeldIsOpen, Uplink!HeldIsOpen, UplinkProved!Open, Uplink!Open,
         UplinkProved!FragmentsFrom, Uplink!FragmentsFrom
<1>3. UplinkProved!Init <=> Uplink!Init
  BY DEF UplinkProved!Init, Uplink!Init
<1>4. \A a, l, f : UplinkProved!ChangeState(a, l, f) <=> Uplink!ChangeState(a, l, f)
  BY DEF UplinkProved!ChangeState, Uplink!ChangeState,
         UplinkProved!NextState, Uplink!NextState,
         UplinkProved!Collected, Uplink!Collected,
         UplinkProved!Valid, Uplink!Valid,
         UplinkProved!allowed_state_changes_, Uplink!allowed_state_changes_,
         UplinkProved!Collecting, Uplink!Collecting
<1>. QED
  BY <1>1, <1>2, <1>3, <1>4

-----------------------------------------------------------------------------
(* The packets.                                                            *)

LEMMA PacketIsPdu ==
    /\ \A b \in Burst : \A p \in PacketsOf(b) : p \in Packet
    /\ \A p \in Packet : p \in Pdu
<1>1. \A b \in Burst : \A p \in PacketsOf(b) : p \in Packet
  BY DEF Packet
<1>2. ASSUME NEW b \in Burst, NEW slot \in Range(b) PROVE slot \in Slot
  BY <1>2, SignalsAssumption, RangeOfSeq
<1>3. ASSUME NEW slot \in Slot, NEW p \in Range(slot.packets) PROVE p \in Pdu
  BY <1>3, RangeOfSeq DEF Slot
<1>. QED
  BY <1>1, <1>2, <1>3 DEF Packet, PacketsOf

LEMMA StampFacts ==
    ASSUME NEW p \in Pdu, NEW n \in Nat, NEW a \in Keys
    PROVE  /\ Stamp(p, n, a) \in Pdu
           /\ Stamp(p, n, a).burst = n
           /\ p.address \in Keys /\ [p EXCEPT !.burst = n] = Stamp(p, n, p.address)
<1>1. [p EXCEPT !.burst = n, !.address = a] \in Pdu
  BY DEF Pdu, Keys
<1>2. [p EXCEPT !.burst = n, !.address = a].burst = n
  BY DEF Pdu
<1>3. p.address \in Keys /\ [p EXCEPT !.burst = n] = [p EXCEPT !.burst = n, !.address = p.address]
  BY DEF Pdu, Keys
<1>. QED
  BY <1>1, <1>2, <1>3 DEF Stamp

LEMMA StampAgain ==
    ASSUME NEW p \in Pdu, NEW n, NEW a, NEW c
    PROVE  [Stamp(p, n, a) EXCEPT !.address = c] = Stamp(p, n, c)
BY DEF Stamp, Pdu

\* A packet stamped with a burst, or with another address, is a packet still.
LEMMA StampedFacts ==
    /\ \A p \in Stamped : p \in Pdu /\ p.burst \in 1 .. MaxBursts
    /\ \A p \in Packet, n \in 1 .. MaxBursts : [p EXCEPT !.burst = n] \in Stamped
    /\ \A p \in Stamped, a \in Keys : [p EXCEPT !.address = a] \in Stamped
<1>1. \A q \in Stamped :
         \E p \in Packet, n \in 1 .. MaxBursts, a \in Keys : q = Stamp(p, n, a)
  BY DEF Stamped, Keys
<1>2. \A p \in Packet, n \in 1 .. MaxBursts, a \in Keys :
         Stamp(p, n, a) \in Stamped /\ p \in Pdu /\ n \in Nat
  BY PacketIsPdu, MaxBurstsAssumption DEF Stamped, Keys
<1>3. ASSUME NEW q \in Stamped PROVE q \in Pdu /\ q.burst \in 1 .. MaxBursts
  <2>1. PICK p \in Packet, n \in 1 .. MaxBursts, a \in Keys : q = Stamp(p, n, a)
    BY <1>1
  <2>2. p \in Pdu /\ n \in Nat
    BY <1>2
  <2>3. Stamp(p, n, a) \in Pdu /\ Stamp(p, n, a).burst = n
    BY <2>2, StampFacts
  <2>. QED
    BY <2>1, <2>3
<1>4. \A p \in Packet, n \in 1 .. MaxBursts : [p EXCEPT !.burst = n] \in Stamped
  <2>. SUFFICES ASSUME NEW p \in Packet, NEW n \in 1 .. MaxBursts
                PROVE  [p EXCEPT !.burst = n] \in Stamped
    OBVIOUS
  <2>1. p \in Pdu /\ n \in Nat /\ NoAddress \in Keys
    BY PacketIsPdu, MaxBurstsAssumption DEF Keys
  <2>2. p.address \in Keys /\ [p EXCEPT !.burst = n] = Stamp(p, n, p.address)
    BY <2>1, StampFacts
  <2>. QED
    BY <1>2, <2>2
<1>5. ASSUME NEW q \in Stamped, NEW c \in Keys PROVE [q EXCEPT !.address = c] \in Stamped
  <2>1. PICK p \in Packet, n \in 1 .. MaxBursts, a \in Keys : q = Stamp(p, n, a)
    BY <1>1
  <2>2. p \in Pdu /\ n \in Nat
    BY <1>2
  <2>3. [Stamp(p, n, a) EXCEPT !.address = c] = Stamp(p, n, c)
    BY <2>2, StampAgain
  <2>. QED
    BY <1>2, <2>1, <2>3
<1>. QED
  BY <1>3, <1>4, <1>5

\* Only a packet of the network is a downlink fragment, and only one of a mobile
\* station an uplink fragment; both lead on.
LEMMA FragmentsLead ==
    ASSUME NEW p \in Stamped, WellSent(p), ~Throws(p)
    PROVE  /\ is_downlink_fragment(p) =>
                 p.sender = Network /\ LeadsTo(p) \in Downlink!Leading
           /\ is_uplink_fragment(p) =>
                 /\ p.sender \in Addresses /\ LeadsTo(p) \in Uplink!Leading
<1>1. is_downlink_fragment(p) =>
          p.type \in {"MacResource", "MacFragmentDownlink", "MacEndDownlink"}
  BY DEF is_downlink_fragment
<1>2. is_uplink_fragment(p) =>
          p.type \in {"MacAccess", "MacData", "MacFragmentUplink", "MacEndUplink"}
  BY DEF is_uplink_fragment, Throws
<1>3. CASE is_downlink_fragment(p)
  BY <1>1, <1>3
     DEF WellSent, LeadsTo, Downlink!Leading, DownlinkTypes, is_uplink_fragment
<1>4. CASE is_uplink_fragment(p)
  BY <1>2, <1>4
     DEF WellSent, LeadsTo, Uplink!Leading, UplinkTypes, is_downlink_fragment
<1>. QED
  BY <1>3, <1>4

\* A null PDU of a mobile station has its address or none.
LEMMA NullPduAddress ==
    ASSUME NEW p \in Stamped, WellSent(p), is_null_pdu(p), p.sender # Network
    PROVE  p.address \in {p.sender, NoAddress}
BY DEF WellSent, is_null_pdu, UplinkTypes, DownlinkTypes

-----------------------------------------------------------------------------
(* Sequences and the greatest of their indices.                            *)

LEMMA SetToSeqSmall ==
    /\ SetToSeq({}) = <<>>
    /\ \A x : SetToSeq({x}) = <<x>>
<1>1. SetToSeq({}) = <<>>
  <2>1. Cardinality({}) = 0 /\ 1 .. 0 = {}
    BY FS_EmptySet
  <2>2. <<>> \in [1 .. 0 -> {}] /\ IsInjective(<<>>)
    BY <2>1 DEF IsInjective
  <2>3. \A f \in [1 .. 0 -> {}] : f = <<>>
    BY <2>1
  <2>. QED
    BY <2>1, <2>2, <2>3 DEF SetToSeq
<1>2. ASSUME NEW x PROVE SetToSeq({x}) = <<x>>
  <2>1. Cardinality({x}) = 1 /\ 1 .. 1 = {1}
    BY FS_Singleton
  <2>2. <<x>> \in [1 .. 1 -> {x}] /\ IsInjective(<<x>>)
    BY <2>1 DEF IsInjective
  <2>3. \A f \in [1 .. 1 -> {x}] : f = <<x>>
    BY <2>1
  <2>. QED
    BY <2>1, <2>2, <2>3 DEF SetToSeq
<1>. QED
  BY <1>1, <1>2

LEMMA MaxIsIn ==
    ASSUME NEW n \in Nat, NEW S, S \subseteq 1 .. n, S # {}
    PROVE  Max(S) \in S
<1>. DEFINE T == {n - x : x \in S}
<1>1. T \subseteq Nat /\ T # {}
  <2>1. \A x \in S : n - x \in Nat
    OBVIOUS
  <2>. QED
    BY <2>1
<1>2. PICK m \in T : \A y \in T : ~(<<y, m>> \in OpToRel(<, Nat))
  BY <1>1, NatLessThanWellFounded, WFMin
<1>3. \A y \in T : ~(y < m)
  BY <1>1, <1>2 DEF OpToRel
<1>4. PICK x \in S : m = n - x
  OBVIOUS
<1>5. \A y \in S : x >= y
  <2>. SUFFICES ASSUME NEW y \in S PROVE x >= y
    OBVIOUS
  <2>1. n - y \in T
    OBVIOUS
  <2>. QED
    BY <1>3, <1>4, <2>1
<1>. QED
  BY <1>5 DEF Max

-----------------------------------------------------------------------------
(* One more fragment.                                                      *)

Collecting == {"kStart", "kStartFragmentReceived", "kContinuationFragmentReceived"}

\* What Fragmentation says of one address.
Fits(state, l) ==
    IF state = "kStart" THEN l = "kStartFragmentReceived"
    ELSE l \in {"kContinuationFragmentReceived", "kEndFragmentReceived"}
Collect(state, h, l, p) ==
    IF Fits(state, l) THEN Append(h, p)
    ELSE IF l = "kStartFragmentReceived" THEN <<p>> ELSE <<>>
Follow(state, l) == IF Fits(state, l) \/ l = "kStartFragmentReceived" THEN l ELSE "kStart"

LEMMA DownlinkStep ==
    ASSUME Downlink!TypeOK, NEW p, NEW l, Downlink!ChangeState(NoAddress, l, p)
    PROVE  LET state == downlink_state[NoAddress]
               h == downlink_fragments[NoAddress]
               end == Follow(state, l) = "kEndFragmentReceived"
           IN /\ downlink_state'[NoAddress] = IF end THEN "kStart" ELSE Follow(state, l)
              /\ downlink_fragments'[NoAddress] = IF end THEN <<>> ELSE Collect(state, h, l, p)
              /\ Downlink!Reassembled(NoAddress, l, p) = IF end THEN {Collect(state, h, l, p)} ELSE {}
<1>1. downlink_state[NoAddress] \in Downlink!Collecting
  BY DEF Downlink!TypeOK
<1>2. Downlink!Valid(NoAddress, l) <=> Fits(downlink_state[NoAddress], l)
  BY <1>1 DEF Downlink!Valid, Downlink!allowed_state_changes_, Fits
<1>3. Downlink!NextState(NoAddress, l) = Follow(downlink_state[NoAddress], l)
  BY <1>2 DEF Downlink!NextState, Follow
<1>4. Downlink!Collected(NoAddress, l, p)
      = Collect(downlink_state[NoAddress], downlink_fragments[NoAddress], l, p)
  BY <1>2 DEF Downlink!Collected, Collect
<1>. QED
  BY <1>3, <1>4 DEF Downlink!TypeOK, Downlink!ChangeState, Downlink!Reassembled

LEMMA UplinkStep ==
    ASSUME Uplink!TypeOK, NEW a \in Keys, NEW p, NEW l, Uplink!ChangeState(a, l, p)
    PROVE  LET state == uplink_state[a]
               h == uplink_fragments[a]
               end == Follow(state, l) = "kEndFragmentReceived"
           IN /\ uplink_state'[a] = IF end THEN "kStart" ELSE Follow(state, l)
              /\ uplink_fragments'[a] = IF end THEN <<>> ELSE Collect(state, h, l, p)
              /\ Uplink!Reassembled(a, l, p) = IF end THEN {Collect(state, h, l, p)} ELSE {}
              /\ \A b \in Keys \ {a} : /\ uplink_state'[b] = uplink_state[b]
                                       /\ uplink_fragments'[b] = uplink_fragments[b]
<1>1. uplink_state[a] \in Uplink!Collecting
  BY DEF Uplink!TypeOK, Keys
<1>2. Uplink!Valid(a, l) <=> Fits(uplink_state[a], l)
  BY <1>1 DEF Uplink!Valid, Uplink!allowed_state_changes_, Fits
<1>3. Uplink!NextState(a, l) = Follow(uplink_state[a], l)
  BY <1>2 DEF Uplink!NextState, Follow
<1>4. Uplink!Collected(a, l, p) = Collect(uplink_state[a], uplink_fragments[a], l, p)
  BY <1>2 DEF Uplink!Collected, Collect
<1>. QED
  BY <1>3, <1>4 DEF Uplink!TypeOK, Uplink!ChangeState, Uplink!Reassembled, Keys

\* With a fragment of its key, what is held stays that key's and in sequence, or it is
\* complete.
LEMMA CollectKeeps ==
    ASSUME NEW state \in Collecting, NEW h \in Seq(Stamped), NEW key,
           bursts \in Nat, Gathered(state, h, key),
           NEW p \in Stamped, Key(p) = key, WellSent(p), p.burst = bursts,
           LeadsTo(p) \in {"kStartFragmentReceived", "kContinuationFragmentReceived",
                           "kEndFragmentReceived"}
    PROVE  LET l == LeadsTo(p)
               g == Collect(state, h, l, p)
           IN /\ g \in Seq(Stamped)
              /\ IF Follow(state, l) = "kEndFragmentReceived" THEN IsPacket(g)
                                                              ELSE Gathered(Follow(state, l), g, key)
<1>. DEFINE l == LeadsTo(p)
            g == Collect(state, h, l, p)
<1>1. /\ Append(h, p) \in Seq(Stamped) /\ Len(h) \in Nat
      /\ Len(Append(h, p)) = Len(h) + 1 /\ Append(h, p)[Len(h) + 1] = p
      /\ \A i \in 1 .. Len(h) : Append(h, p)[i] = h[i] /\ h[i] \in Stamped
      /\ h = <<>> <=> Len(h) = 0
  OBVIOUS
<1>2. \A i \in 1 .. Len(h) : Key(h[i]) = key /\ WellSent(h[i]) /\ h[i].burst <= bursts
                          /\ h[i].burst \in Nat
  BY <1>1, StampedFacts, MaxBurstsAssumption DEF Gathered
<1>3. \A i \in 1 .. Len(h) + 1 : Key(Append(h, p)[i]) = key /\ WellSent(Append(h, p)[i])
                                /\ Append(h, p)[i].burst <= bursts
  <2>1. \A i \in 1 .. Len(h) + 1 : i = Len(h) + 1 \/ i \in 1 .. Len(h)
    BY <1>1
  <2>. QED
    BY <1>1, <1>2, <2>1
<1>4. ASSUME Fits(state, l) PROVE InSequence(Append(h, p))
  <2>1. LeadsTo(Append(h, p)[1]) = "kStartFragmentReceived"
    <3>1. CASE h = <<>>
      <4>1. state = "kStart"
        BY <3>1 DEF Gathered
      <4>2. l = "kStartFragmentReceived"
        BY <1>4, <4>1 DEF Fits
      <4>. QED
        BY <1>1, <3>1, <4>2
    <3>2. CASE h # <<>>
      <4>1. 1 \in 1 .. Len(h) /\ LeadsTo(h[1]) = "kStartFragmentReceived"
        BY <1>1, <3>2 DEF Gathered, InSequence
      <4>. QED
        BY <1>1, <4>1
    <3>. QED
      BY <3>1, <3>2
  <2>2. ASSUME NEW i \in 2 .. Len(h) + 1
        PROVE  Append(h, p)[i - 1].burst <= Append(h, p)[i].burst
    <3>1. i - 1 \in 1 .. Len(h) /\ Append(h, p)[i - 1] = h[i - 1]
      BY <1>1
    <3>2. CASE i = Len(h) + 1
      BY <1>1, <1>2, <3>1, <3>2
    <3>3. CASE i # Len(h) + 1
      <4>1. i \in 2 .. Len(h) /\ i \in 1 .. Len(h)
        BY <1>1, <3>3
      <4>. QED
        BY <1>1, <3>1, <4>1 DEF Gathered, InSequence
    <3>. QED
      BY <3>2, <3>3
  <2>. QED
    BY <1>1, <2>1, <2>2 DEF InSequence
<1>5. <<p>> \in Seq(Stamped) /\ Len(<<p>>) = 1 /\ <<p>>[1] = p /\ <<p>> # <<>>
  OBVIOUS
<1>6. CASE Fits(state, l) /\ l = "kEndFragmentReceived"
  <2>1. g = Append(h, p) /\ Follow(state, l) = "kEndFragmentReceived"
    BY <1>6 DEF Collect, Follow
  <2>2. IsPacket(Append(h, p))
    BY <1>1, <1>3, <1>4, <1>6 DEF IsPacket
  <2>. QED
    BY <1>1, <2>1, <2>2
<1>7. CASE Fits(state, l) /\ l # "kEndFragmentReceived"
  <2>1. g = Append(h, p) /\ Follow(state, l) = l /\ l # "kStart"
    BY <1>7 DEF Collect, Follow
  <2>2. Append(h, p) # <<>>
    <3>1. \A x \in Seq(Stamped) : Len(x) # 0 => x # <<>>
      OBVIOUS
    <3>2. Len(Append(h, p)) # 0
      BY <1>1
    <3>. QED
      BY <1>1, <3>1, <3>2, Zenon
  <2>3. Gathered(l, Append(h, p), key)
    BY <1>1, <1>3, <1>4, <1>7, <2>1, <2>2 DEF Gathered
  <2>. QED
    BY <1>1, <1>7, <2>1, <2>3
<1>8. CASE ~Fits(state, l) /\ l = "kStartFragmentReceived"
  <2>1. g = <<p>> /\ Follow(state, l) = l
    BY <1>8 DEF Collect, Follow
  <2>2. Gathered(l, <<p>>, key)
    BY <1>5, <1>8 DEF Gathered, InSequence
  <2>. QED
    BY <1>5, <1>8, <2>1, <2>2
<1>9. CASE ~Fits(state, l) /\ l # "kStartFragmentReceived"
  <2>1. g = <<>> /\ Follow(state, l) = "kStart"
    BY <1>9 DEF Collect, Follow
  <2>2. Gathered("kStart", <<>>, key)
    BY DEF Gathered, InSequence
  <2>. QED
    BY <2>1, <2>2
<1>. QED
  BY <1>6, <1>7, <1>8, <1>9

-----------------------------------------------------------------------------
(* What a step leaves alone.                                               *)

LEMMA GatheredRests ==
    ASSUME NEW state, NEW h \in Seq(Stamped), NEW key, Gathered(state, h, key),
           bursts \in Nat, bursts' = bursts \/ bursts' = bursts + 1
    PROVE  /\ state = "kStart" <=> h = <<>>
           /\ InSequence(h)
           /\ \A i \in 1 .. Len(h) : Key(h[i]) = key /\ WellSent(h[i]) /\ h[i].burst <= bursts'
<1>1. ASSUME NEW i \in 1 .. Len(h) PROVE Key(h[i]) = key /\ WellSent(h[i]) /\ h[i].burst <= bursts'
  <2>1. h[i] \in Stamped
    OBVIOUS
  <2>2. h[i].burst \in Nat
    BY <2>1, StampedFacts, MaxBurstsAssumption
  <2>. QED
    BY <2>2 DEF Gathered
<1>. QED
  BY <1>1 DEF Gathered

LEMMA ReassemblyRests ==
    ASSUME IInv, UNCHANGED <<downlinkVars, uplinkVars>>,
           bursts' = bursts \/ bursts' = bursts + 1
    PROVE  /\ Downlink!TypeOK' /\ Uplink!TypeOK'
           /\ DownlinkProved!IInv' /\ UplinkProved!IInv'
           /\ HeldByKey'
<1>1. /\ downlink_state' = downlink_state /\ downlink_fragments' = downlink_fragments
      /\ downlink_received' = downlink_received
      /\ uplink_state' = uplink_state /\ uplink_fragments' = uplink_fragments
      /\ uplink_received' = uplink_received
  BY DEF downlinkVars, uplinkVars
<1>2. Downlink!TypeOK /\ Uplink!TypeOK /\ bursts \in Nat
  BY MaxBurstsAssumption DEF IInv, TypeOK
<1>3. Downlink!TypeOK' /\ Uplink!TypeOK'
  BY <1>1, <1>2 DEF Downlink!TypeOK, Uplink!TypeOK
<1>4. DownlinkProved!IInv'
  BY <1>1 DEF IInv, DownlinkProved!IInv, DownlinkProved!TypeOK, DownlinkProved!HeldIsOpen
<1>5. UplinkProved!IInv'
  BY <1>1 DEF IInv, UplinkProved!IInv, UplinkProved!TypeOK, UplinkProved!HeldIsOpen
<1>6. /\ downlink_fragments[NoAddress] \in Seq(Stamped)
      /\ \A a \in Keys : uplink_fragments[a] \in Seq(Stamped)
  BY <1>2 DEF Downlink!TypeOK, Uplink!TypeOK, Keys
<1>7. Gathered(downlink_state[NoAddress], downlink_fragments[NoAddress], <<>>)'
  <2>1. Gathered(downlink_state[NoAddress], downlink_fragments[NoAddress], <<>>)
    BY DEF IInv, HeldByKey
  <2>2. /\ downlink_state[NoAddress] = "kStart" <=> downlink_fragments[NoAddress] = <<>>
        /\ InSequence(downlink_fragments[NoAddress])
        /\ \A i \in 1 .. Len(downlink_fragments[NoAddress]) :
              /\ Key(downlink_fragments[NoAddress][i]) = <<>> /\ WellSent(downlink_fragments[NoAddress][i])
              /\ downlink_fragments[NoAddress][i].burst <= bursts'
    BY <1>2, <1>6, <2>1, GatheredRests
  <2>. QED
    BY <1>1, <2>2 DEF Gathered, InSequence
<1>8. ASSUME NEW a \in Keys PROVE Gathered(uplink_state[a], uplink_fragments[a], <<a>>)'
  <2>1. Gathered(uplink_state[a], uplink_fragments[a], <<a>>) /\ uplink_fragments[a] \in Seq(Stamped)
    BY <1>6 DEF IInv, HeldByKey
  <2>2. /\ uplink_state[a] = "kStart" <=> uplink_fragments[a] = <<>>
        /\ InSequence(uplink_fragments[a])
        /\ \A i \in 1 .. Len(uplink_fragments[a]) :
              /\ Key(uplink_fragments[a][i]) = <<a>> /\ WellSent(uplink_fragments[a][i])
              /\ uplink_fragments[a][i].burst <= bursts'
    BY <1>2, <2>1, GatheredRests
  <2>. QED
    BY <1>1, <2>2 DEF Gathered, InSequence
<1>. QED
  BY <1>3, <1>4, <1>5, <1>7, <1>8 DEF HeldByKey, Keys

\* The packets that are owed, if none is added.
LEMMA OwedRests == ASSUME IInv, owed' = owed PROVE OwedPackets'
BY DEF IInv, OwedPackets, IsPacket, InSequence

\* The packets of the burst, if none is added or changed.
LEMMA BurstRests ==
    ASSUME OfThisBurst, UNCHANGED <<burstVars, rest, packets>>
    PROVE  OfThisBurst'
BY DEF OfThisBurst, burstVars

-----------------------------------------------------------------------------
(* Initially, and with every step, the invariant holds.                    *)

LEMMA InitIInv == Init => IInv
<1>. SUFFICES ASSUME Init PROVE IInv
  OBVIOUS
<1>1. DownlinkProved!IInv /\ UplinkProved!IInv
  BY SameDownlink, SameUplink, DownlinkProved!InitInvariant, UplinkProved!InitInvariant DEF Init
<1>2. Downlink!TypeOK /\ Uplink!TypeOK
  BY <1>1, SameDownlink, SameUplink DEF DownlinkProved!IInv, UplinkProved!IInv
<1>3. TypeOK
  BY <1>2, MaxBurstsAssumption DEF Init, TypeOK
<1>4. /\ downlink_state[NoAddress] = "kStart" /\ downlink_fragments[NoAddress] = <<>>
      /\ \A a \in Keys : uplink_state[a] = "kStart" /\ uplink_fragments[a] = <<>>
  BY DEF Init, Downlink!Init, Uplink!Init, Keys
<1>5. HeldByKey
  BY <1>4 DEF HeldByKey, Gathered, InSequence, Keys
<1>6. OwedPackets /\ OfThisBurst /\ PushedOrWaits
  BY DEF Init, OwedPackets, OfThisBurst, PushedOrWaits, PushedOrFailed
<1>. QED
  BY <1>1, <1>3, <1>5, <1>6 DEF IInv

LEMMA ProcessKeeps == ASSUME IInv, NEW burst \in signal, Process(burst) PROVE IInv'
<1>1. /\ pc = "idle" /\ bursts < MaxBursts /\ bursts' = bursts + 1
      /\ slots' = burst /\ rest' = burst /\ signal' = signal
      /\ packets' = <<>> /\ c_plane_packets' = <<>> /\ owed' = <<>> /\ pushed' = <<>>
      /\ pc' = "slots" /\ UNCHANGED <<downlinkVars, uplinkVars>>
  BY DEF Process
<1>2. bursts \in 0 .. MaxBursts /\ MaxBursts \in Nat /\ signal \in Signals
  BY MaxBurstsAssumption DEF IInv, TypeOK
<1>3. burst \in Burst /\ burst \in Seq(Slot)
  BY <1>2, SignalsAssumption DEF Burst
<1>4. /\ Downlink!TypeOK' /\ Uplink!TypeOK'
      /\ DownlinkProved!IInv' /\ UplinkProved!IInv' /\ HeldByKey'
  BY <1>1, ReassemblyRests
<1>5. TypeOK'
  BY <1>1, <1>2, <1>3, <1>4 DEF TypeOK
<1>6. OwedPackets'
  BY <1>1 DEF OwedPackets
<1>7. OfThisBurst'
  <2>1. \A i \in 1 .. Len(burst) : burst[i] \in Range(burst)
    BY <1>3, RangeEquality
  <2>. QED
    BY <1>1, <2>1 DEF OfThisBurst
<1>8. PushedOrWaits'
  <2>1. bursts' > 0 /\ pc' # "idle"
    BY <1>1, <1>2
  <2>. QED
    BY <1>1, <1>3, <2>1 DEF PushedOrWaits, PushedOrFailed
<1>. QED
  BY <1>4, <1>5, <1>6, <1>7, <1>8 DEF IInv

LEMMA ParseSlotKeeps == ASSUME IInv, ParseSlot PROVE IInv'
<1>1. /\ pc = "slots" /\ rest # <<>> /\ rest' = Tail(rest) /\ pc' = pc
      /\ signal' = signal /\ bursts' = bursts /\ slots' = slots
      /\ c_plane_packets' = c_plane_packets /\ owed' = owed /\ pushed' = pushed
      /\ UNCHANGED <<downlinkVars, uplinkVars>>
  BY DEF ParseSlot, burstVars
<1>2. /\ rest \in Seq(Slot) /\ packets \in Seq(Stamped) /\ slots \in Burst /\ slots \in Seq(Slot)
      /\ bursts \in 1 .. MaxBursts
  BY <1>1, MaxBurstsAssumption, SignalsAssumption DEF IInv, TypeOK, PushedOrWaits
<1>3. /\ Tail(rest) \in Seq(Slot) /\ Head(rest) = rest[1] /\ 1 \in 1 .. Len(rest)
      /\ Len(Tail(rest)) = Len(rest) - 1 /\ Len(rest) \in Nat
      /\ \A i \in 1 .. Len(Tail(rest)) : Tail(rest)[i] = rest[i + 1]
  BY <1>1, <1>2, HeadTailProperties
<1>4. Head(rest) \in Range(slots) /\ \A i \in 1 .. Len(Tail(rest)) : Tail(rest)[i] \in Range(slots)
  <2>1. \A i \in 1 .. Len(rest) : rest[i] \in Range(slots)
    BY DEF IInv, OfThisBurst
  <2>2. \A i \in 1 .. Len(rest) - 1 : i + 1 \in 1 .. Len(rest)
    BY <1>3
  <2>. QED
    BY <1>3, <2>1, <2>2
<1>. DEFINE read == Head(rest).packets
            Came(p) == [p EXCEPT !.burst = bursts]
            new == [k \in DOMAIN read |-> Came(read[k])]
<1>5. read \in Seq(Pdu)
  <2>1. Head(rest) \in Slot
    BY <1>2, <1>4, RangeOfSeq
  <2>. QED
    BY <2>1 DEF Slot
<1>6. ASSUME NEW k \in 1 .. Len(read)
      PROVE  /\ Came(read[k]) \in Stamped
             /\ Came(read[k]).burst = bursts
             /\ WellSent(Came(read[k]))
             /\ \E p \in PacketsOf(slots) : Came(read[k]).sender = p.sender
  <2>1. read[k] \in PacketsOf(slots)
    BY <1>4, <1>5, RangeEquality DEF PacketsOf
  <2>2. read[k] \in Packet /\ read[k] \in Pdu
    BY <1>2, <2>1, PacketIsPdu
  <2>3. Came(read[k]) \in Stamped
    BY <1>2, <2>2, StampedFacts
  <2>4. WellSent(read[k])
    BY <2>2, WellSentAssumption
  <2>5. /\ Came(read[k]).burst = bursts /\ Came(read[k]).sender = read[k].sender
        /\ Came(read[k]).type = read[k].type /\ Came(read[k]).address = read[k].address
    BY <2>2 DEF Pdu
  <2>6. WellSent(Came(read[k]))
    BY <2>4, <2>5 DEF WellSent
  <2>. QED
    BY <2>1, <2>3, <2>5, <2>6
<1>8. packets' = packets \/ packets' = packets \o new
  BY DEF ParseSlot
<1>. HIDE DEF Came
<1>7. /\ new \in Seq(Stamped) /\ Len(new) = Len(read)
      /\ \A k \in 1 .. Len(read) : new[k] = Came(read[k])
  <2>1. DOMAIN read = 1 .. Len(read) /\ Len(read) \in Nat
    BY <1>5
  <2>. QED
    BY <1>6, <2>1
<1>9. /\ packets' \in Seq(Stamped)
      /\ \A k \in 1 .. Len(packets') :
            /\ packets'[k].burst = bursts
            /\ WellSent(packets'[k])
            /\ \E p \in PacketsOf(slots) : packets'[k].sender = p.sender
  <2>1. \A k \in 1 .. Len(packets) :
           /\ packets[k].burst = bursts
           /\ WellSent(packets[k])
           /\ \E p \in PacketsOf(slots) : packets[k].sender = p.sender
    BY DEF IInv, OfThisBurst
  <2>2. CASE packets' = packets
    BY <1>2, <2>1, <2>2
  <2>3. CASE packets' = packets \o new
    <3>. HIDE DEF new
    <3>1. /\ packets' \in Seq(Stamped) /\ Len(packets') = Len(packets) + Len(new)
          /\ Len(packets) \in Nat /\ Len(new) \in Nat
          /\ \A k \in 1 .. Len(packets) : packets'[k] = packets[k]
          /\ \A k \in Len(packets) + 1 .. Len(packets) + Len(new) :
                packets'[k] = new[k - Len(packets)] /\ k - Len(packets) \in 1 .. Len(new)
      <4>1. /\ packets \o new \in Seq(Stamped) /\ Len(packets \o new) = Len(packets) + Len(new)
            /\ \A k \in 1 .. Len(packets) + Len(new) :
                  (packets \o new)[k] = IF k <= Len(packets) THEN packets[k]
                                        ELSE new[k - Len(packets)]
        BY <1>2, <1>7, ConcatProperties
      <4>2. Len(packets) \in Nat /\ Len(new) \in Nat
        BY <1>2, <1>7
      <4>3. \A k \in 1 .. Len(packets) : packets'[k] = packets[k]
        BY <2>3, <4>1, <4>2
      <4>4. \A k \in Len(packets) + 1 .. Len(packets) + Len(new) :
               packets'[k] = new[k - Len(packets)] /\ k - Len(packets) \in 1 .. Len(new)
        BY <2>3, <4>1, <4>2
      <4>. QED
        BY <2>3, <4>1, <4>2, <4>3, <4>4
    <3>2. ASSUME NEW k \in 1 .. Len(packets')
          PROVE  /\ packets'[k].burst = bursts
                 /\ WellSent(packets'[k])
                 /\ \E p \in PacketsOf(slots) : packets'[k].sender = p.sender
      <4>1. k \in 1 .. Len(packets) \/ k \in Len(packets) + 1 .. Len(packets) + Len(new)
        BY <3>1
      <4>2. CASE k \in 1 .. Len(packets)
        BY <2>1, <3>1, <4>2
      <4>3. CASE k \in Len(packets) + 1 .. Len(packets) + Len(new)
        <5>1. PICK j \in 1 .. Len(read) : packets'[k] = Came(read[j])
          BY <1>7, <3>1, <4>3
        <5>. QED
          BY <1>6, <5>1
      <4>. QED
        BY <4>1, <4>2, <4>3
    <3>. QED
      BY <3>1, <3>2
  <2>. QED
    BY <1>8, <2>2, <2>3
<1>10. /\ Downlink!TypeOK' /\ Uplink!TypeOK'
       /\ DownlinkProved!IInv' /\ UplinkProved!IInv' /\ HeldByKey'
  BY <1>1, ReassemblyRests
<1>11. TypeOK'
  BY <1>1, <1>3, <1>9, <1>10 DEF IInv, TypeOK
<1>12. OfThisBurst'
  BY <1>1, <1>4, <1>9 DEF OfThisBurst
<1>13. PushedOrWaits'
  BY <1>1 DEF IInv, PushedOrWaits, PushedOrFailed
<1>. QED
  BY <1>1, <1>10, <1>11, <1>12, <1>13, OwedRests DEF IInv

\* All packets of a burst have one sender, so the null PDU tells whose fragments
\* they are, or nothing.
LEMMA AssociateKeeps == ASSUME IInv, Associate PROVE IInv'
<1>. DEFINE address == packets[Max(NullPdus)].address
            Named(p) == IF p.type \in {"MacFragmentUplink", "MacEndUplink"} /\ NullPdus # {}
                        THEN [p EXCEPT !.address = address] ELSE p
<1>1. /\ pc = "slots" /\ pc' = "packets" /\ rest' = rest
      /\ signal' = signal /\ bursts' = bursts /\ slots' = slots
      /\ c_plane_packets' = c_plane_packets /\ owed' = owed /\ pushed' = pushed
      /\ UNCHANGED <<downlinkVars, uplinkVars>>
  BY DEF Associate, burstVars
<1>2. packets \in Seq(Stamped) /\ slots \in Burst /\ DOMAIN packets = 1 .. Len(packets)
      /\ Len(packets) \in Nat
  BY <1>1 DEF IInv, TypeOK, PushedOrWaits
<1>3. ASSUME NEW k \in 1 .. Len(packets), NEW j \in 1 .. Len(packets)
      PROVE  packets[k].sender = packets[j].sender
  BY <1>2, OneSenderAssumption DEF IInv, OfThisBurst
<1>4. ASSUME NEW k \in 1 .. Len(packets)
      PROVE  /\ Named(packets[k]) \in Stamped
             /\ Named(packets[k]).burst = bursts
             /\ WellSent(Named(packets[k]))
             /\ \E p \in PacketsOf(slots) : Named(packets[k]).sender = p.sender
  <2>. DEFINE p == packets[k]
  <2>1. /\ p \in Stamped /\ p \in Pdu /\ p.burst = bursts /\ WellSent(p)
        /\ \E q \in PacketsOf(slots) : p.sender = q.sender
    BY <1>2, StampedFacts DEF IInv, OfThisBurst
  <2>2. CASE Named(p) = p
    BY <2>1, <2>2
  <2>3. CASE Named(p) # p
    <3>1. /\ p.type \in {"MacFragmentUplink", "MacEndUplink"} /\ NullPdus # {}
          /\ Named(p) = [p EXCEPT !.address = address]
      BY <2>3
    <3>2. Max(NullPdus) \in 1 .. Len(packets) /\ is_null_pdu(packets[Max(NullPdus)])
      <4>1. NullPdus \subseteq 1 .. Len(packets)
        BY <1>2 DEF NullPdus
      <4>2. Max(NullPdus) \in NullPdus
        BY <1>2, <3>1, <4>1, MaxIsIn
      <4>. QED
        BY <1>2, <4>2 DEF NullPdus
    <3>3. p.sender \in Addresses
      BY <2>1, <3>1 DEF WellSent, UplinkTypes
    <3>4. address \in {p.sender, NoAddress}
      <4>1. packets[Max(NullPdus)] \in Stamped /\ WellSent(packets[Max(NullPdus)])
        BY <1>2, <3>2 DEF IInv, OfThisBurst
      <4>2. packets[Max(NullPdus)].sender = p.sender /\ p.sender # Network
        BY <1>3, <3>2, <3>3, NameAssumption
      <4>. QED
        BY <3>2, <4>1, <4>2, NullPduAddress
    <3>5. /\ Named(p).address = address /\ Named(p).type = p.type
          /\ Named(p).sender = p.sender /\ Named(p).burst = p.burst
      <4>. HIDE DEF address
      <4>. QED
        BY <2>1, <3>1 DEF Pdu
    <3>6. Named(p) \in Stamped
      BY <2>1, <3>1, <3>3, <3>4, StampedFacts DEF Keys
    <3>7. WellSent(Named(p))
      BY <2>1, <3>1, <3>3, <3>4, <3>5 DEF WellSent, UplinkTypes, DownlinkTypes
    <3>. QED
      BY <2>1, <3>5, <3>6, <3>7
  <2>. QED
    BY <2>2, <2>3
<1>5. packets' = [k \in 1 .. Len(packets) |-> Named(packets[k])]
  BY <1>2 DEF Associate
<1>. HIDE DEF Named
<1>6. /\ packets' \in Seq(Stamped) /\ Len(packets') = Len(packets)
      /\ \A k \in 1 .. Len(packets) : packets'[k] = Named(packets[k])
  BY <1>2, <1>4, <1>5
<1>7. /\ Downlink!TypeOK' /\ Uplink!TypeOK'
      /\ DownlinkProved!IInv' /\ UplinkProved!IInv' /\ HeldByKey'
  BY <1>1, ReassemblyRests
<1>8. TypeOK'
  BY <1>1, <1>6, <1>7 DEF IInv, TypeOK
<1>9. OfThisBurst'
  BY <1>1, <1>4, <1>6 DEF IInv, OfThisBurst
<1>10. PushedOrWaits'
  BY <1>1 DEF IInv, PushedOrWaits, PushedOrFailed
<1>. QED
  BY <1>1, <1>7, <1>8, <1>9, <1>10, OwedRests DEF IInv

\* What is whole is owed, and waits to be pushed.
LEMMA WholeKeeps ==
    ASSUME IInv, AtPacket, NEW done, Whole(done),
           done = {} \/ \E g \in Seq(Stamped) : IsPacket(g) /\ done = {g},
           Downlink!TypeOK', Uplink!TypeOK', DownlinkProved!IInv', UplinkProved!IInv',
           HeldByKey'
    PROVE  IInv'
<1>1. /\ pc = "packets" /\ packets # <<>> /\ packets' = Tail(packets)
      /\ pc' = pc /\ rest' = rest /\ pushed' = pushed
      /\ signal' = signal /\ bursts' = bursts /\ slots' = slots
      /\ c_plane_packets' = c_plane_packets \o SetToSeq(done)
      /\ owed' = owed \o SetToSeq(done)
  BY DEF AtPacket, Whole, burstVars
<1>2. /\ packets \in Seq(Stamped) /\ c_plane_packets \in Seq(Seq(Stamped))
      /\ owed \in Seq(Seq(Stamped)) /\ pushed = <<>> /\ owed = pushed \o c_plane_packets
  BY <1>1 DEF IInv, TypeOK, PushedOrWaits
<1>3. owed = c_plane_packets
  BY <1>2
<1>4. /\ Tail(packets) \in Seq(Stamped) /\ Len(Tail(packets)) = Len(packets) - 1
      /\ \A k \in 1 .. Len(Tail(packets)) : Tail(packets)[k] = packets[k + 1]
  BY <1>1, <1>2, HeadTailProperties
<1>5. /\ owed' \in Seq(Seq(Stamped))
      /\ \A k \in 1 .. Len(owed') : IsPacket(owed'[k])
  <2>1. \A k \in 1 .. Len(owed) : IsPacket(owed[k])
    BY DEF IInv, OwedPackets
  <2>2. CASE done = {}
    <3>1. owed' = owed
      BY <1>1, <1>2, <2>2, SetToSeqSmall
    <3>. QED
      BY <1>2, <2>1, <3>1
  <2>3. ASSUME NEW g \in Seq(Stamped), IsPacket(g), done = {g}
        PROVE  /\ owed' \in Seq(Seq(Stamped))
               /\ \A k \in 1 .. Len(owed') : IsPacket(owed'[k])
    <3>1. owed' = Append(owed, g)
      <4>1. SetToSeq(done) = <<g>>
        BY <2>3, SetToSeqSmall
      <4>2. Append(owed, g) = owed \o <<g>>
        BY <1>2, <2>3, AppendIsConcat
      <4>. QED
        BY <1>1, <4>1, <4>2
    <3>2. /\ Append(owed, g) \in Seq(Seq(Stamped)) /\ Len(owed) \in Nat
          /\ Len(Append(owed, g)) = Len(owed) + 1 /\ Append(owed, g)[Len(owed) + 1] = g
          /\ \A k \in 1 .. Len(owed) : Append(owed, g)[k] = owed[k]
      BY <1>2, <2>3, AppendProperties
    <3>3. \A k \in 1 .. Len(owed) + 1 : k \in 1 .. Len(owed) \/ k = Len(owed) + 1
      BY <3>2
    <3>. QED
      BY <2>1, <2>3, <3>1, <3>2, <3>3
  <2>. QED
    BY <2>2, <2>3
<1>6. TypeOK'
  BY <1>1, <1>2, <1>3, <1>4, <1>5 DEF IInv, TypeOK
<1>7. OwedPackets'
  BY <1>5 DEF OwedPackets, IsPacket, InSequence
<1>8. OfThisBurst'
  <2>1. \A k \in 1 .. Len(Tail(packets)) : k + 1 \in 1 .. Len(packets)
    BY <1>2, <1>4
  <2>. QED
    BY <1>1, <1>4, <2>1 DEF IInv, OfThisBurst
<1>9. PushedOrWaits'
  <2>1. owed' = pushed' \o c_plane_packets' /\ pushed' \in Seq(Seq(Stamped))
    BY <1>1, <1>2, <1>3, <1>5
  <2>. QED
    BY <1>1, <1>2, <2>1 DEF IInv, PushedOrWaits, PushedOrFailed
<1>. QED
  BY <1>6, <1>7, <1>8, <1>9 DEF IInv

\* The packet that is next, as the invariant describes it.
LEMMA NextPacket ==
    ASSUME IInv, AtPacket
    PROVE  /\ Head(packets) \in Stamped /\ Head(packets) \in Pdu
           /\ Head(packets).burst = bursts /\ bursts \in Nat /\ WellSent(Head(packets))
<1>1. packets \in Seq(Stamped) /\ packets # <<>> /\ bursts \in Nat
  BY MaxBurstsAssumption DEF IInv, TypeOK, AtPacket
<1>2. Head(packets) = packets[1] /\ 1 \in 1 .. Len(packets) /\ Head(packets) \in Stamped
  BY <1>1
<1>. QED
  BY <1>1, <1>2, StampedFacts DEF IInv, OfThisBurst

LEMMA WholePacketKeeps == ASSUME IInv, WholePacket PROVE IInv'
<1>. DEFINE p == Head(packets)
            done == IF p.tm_sdu_ THEN {<<p>>} ELSE {}
<1>1. AtPacket /\ Whole(done) /\ UNCHANGED <<downlinkVars, uplinkVars>>
  BY DEF WholePacket
<1>2. bursts' = bursts
  BY <1>1 DEF Whole, burstVars
<1>3. p \in Stamped /\ WellSent(p)
  BY <1>1, NextPacket
<1>4. <<p>> \in Seq(Stamped) /\ IsPacket(<<p>>)
  <2>1. <<p>> \in Seq(Stamped) /\ Len(<<p>>) = 1 /\ <<p>>[1] = p
    BY <1>3
  <2>. QED
    BY <1>3, <2>1 DEF IsPacket
<1>5. done = {} \/ \E g \in Seq(Stamped) : IsPacket(g) /\ done = {g}
  BY <1>4
<1>6. /\ Downlink!TypeOK' /\ Uplink!TypeOK'
      /\ DownlinkProved!IInv' /\ UplinkProved!IInv' /\ HeldByKey'
  BY <1>1, <1>2, ReassemblyRests
<1>. HIDE DEF done
<1>. QED
  BY <1>1, <1>5, <1>6, WholeKeeps

LEMMA DownlinkFragmentKeeps == ASSUME IInv, DownlinkFragment PROVE IInv'
<1>. DEFINE p == Head(packets)
            l == LeadsTo(p)
            state == downlink_state[NoAddress]
            h == downlink_fragments[NoAddress]
            g == Collect(state, h, l, p)
            end == Follow(state, l) = "kEndFragmentReceived"
            done == Downlink!Reassembled(NoAddress, l, p)
<1>1. /\ AtPacket /\ ~Throws(p) /\ is_downlink_fragment(p)
      /\ Downlink!ChangeState(NoAddress, l, p) /\ Whole(done) /\ UNCHANGED uplinkVars
  BY DEF DownlinkFragment
<1>2. bursts' = bursts
  BY <1>1 DEF Whole, burstVars
<1>3. p \in Stamped /\ p.burst = bursts /\ bursts \in Nat /\ WellSent(p)
  BY <1>1, NextPacket
<1>4. Key(p) = <<>> /\ l \in Downlink!Leading
  BY <1>1, <1>3, FragmentsLead DEF Key
<1>5. /\ Downlink!TypeOK /\ state \in Collecting /\ h \in Seq(Stamped)
      /\ Gathered(state, h, <<>>)
  BY DEF IInv, TypeOK, HeldByKey, Downlink!TypeOK, Downlink!Collecting, Collecting
<1>6. g \in Seq(Stamped) /\ IF end THEN IsPacket(g) ELSE Gathered(Follow(state, l), g, <<>>)
  BY <1>3, <1>4, <1>5, CollectKeeps DEF Downlink!Leading
<1>7. /\ downlink_state'[NoAddress] = IF end THEN "kStart" ELSE Follow(state, l)
      /\ downlink_fragments'[NoAddress] = IF end THEN <<>> ELSE g
      /\ done = IF end THEN {g} ELSE {}
  BY <1>1, <1>5, DownlinkStep
<1>8. DownlinkProved!IInv'
  <2>1. DownlinkProved!ChangeState(NoAddress, l, p) /\ l \in DownlinkProved!Leading
    BY <1>1, <1>4, SameDownlink DEF Downlink!Leading, DownlinkProved!Leading
  <2>. QED
    BY <1>3, <2>1, DownlinkProved!ChangeStateInvariant DEF IInv
<1>9. Downlink!TypeOK'
  BY <1>8
     DEF DownlinkProved!IInv, DownlinkProved!TypeOK, Downlink!TypeOK, DownlinkProved!Entry,
         Downlink!Entry, DownlinkProved!Leading, Downlink!Leading,
         DownlinkProved!Collecting, Downlink!Collecting
<1>10. UplinkProved!IInv' /\ Uplink!TypeOK'
  BY <1>1 DEF IInv, TypeOK, uplinkVars, Uplink!TypeOK, UplinkProved!IInv,
              UplinkProved!TypeOK, UplinkProved!HeldIsOpen
<1>11. HeldByKey'
  <2>1. Gathered(downlink_state'[NoAddress], downlink_fragments'[NoAddress], <<>>)
    <3>1. Gathered("kStart", <<>>, <<>>)
      BY DEF Gathered, InSequence
    <3>. HIDE DEF g, end, done
    <3>. QED
      BY <1>6, <1>7, <3>1
  <2>. QED
    BY <1>1, <1>2, <2>1 DEF IInv, HeldByKey, Gathered, InSequence, uplinkVars
<1>12. done = {} \/ \E x \in Seq(Stamped) : IsPacket(x) /\ done = {x}
  <2>. HIDE DEF g, end, done
  <2>. QED
    BY <1>6, <1>7
<1>. HIDE DEF done
<1>. QED
  BY <1>1, <1>8, <1>9, <1>10, <1>11, <1>12, WholeKeeps

\* A fragment without an address is one of the empty address.
LEMMA UplinkFragmentKeeps == ASSUME IInv, UplinkFragment PROVE IInv'
<1>. DEFINE p == Head(packets)
            l == LeadsTo(p)
            a == p.address
            state == uplink_state[a]
            h == uplink_fragments[a]
            g == Collect(state, h, l, p)
            end == Follow(state, l) = "kEndFragmentReceived"
            done == Uplink!Reassembled(a, l, p)
<1>1. /\ AtPacket /\ ~Throws(p) /\ is_uplink_fragment(p)
      /\ Uplink!ChangeState(a, l, p) /\ Whole(done) /\ UNCHANGED downlinkVars
  BY DEF UplinkFragment
<1>2. bursts' = bursts
  BY <1>1 DEF Whole, burstVars
<1>3. p \in Stamped /\ p \in Pdu /\ p.burst = bursts /\ bursts \in Nat /\ WellSent(p)
  BY <1>1, NextPacket
<1>4. Key(p) = <<a>> /\ l \in Uplink!Leading /\ a \in Keys
  <2>1. p.sender \in Addresses /\ l \in Uplink!Leading
    BY <1>1, <1>3, FragmentsLead
  <2>2. p.sender # Network
    BY <2>1, NameAssumption
  <2>3. a \in Keys
    BY <1>3 DEF Pdu, Keys
  <2>. QED
    BY <2>1, <2>2, <2>3 DEF Key
<1>5. Uplink!TypeOK /\ state \in Collecting /\ h \in Seq(Stamped)
  BY <1>4 DEF IInv, TypeOK, Uplink!TypeOK, Uplink!Collecting, Collecting, Keys
<1>6. /\ g \in Seq(Stamped)
      /\ end => IsPacket(g)
      /\ ~end => Gathered(Follow(state, l), g, <<a>>)
  <2>1. Gathered(state, h, <<a>>)
    BY <1>4 DEF IInv, HeldByKey
  <2>2. g \in Seq(Stamped) /\ IF end THEN IsPacket(g) ELSE Gathered(Follow(state, l), g, <<a>>)
    BY <1>3, <1>4, <1>5, <2>1, CollectKeeps DEF Uplink!Leading
  <2>. HIDE DEF g, end
  <2>. QED
    BY <2>2
<1>7. /\ uplink_state'[a] = IF end THEN "kStart" ELSE Follow(state, l)
      /\ uplink_fragments'[a] = IF end THEN <<>> ELSE g
      /\ done = IF end THEN {g} ELSE {}
      /\ \A b \in Keys \ {a} : /\ uplink_state'[b] = uplink_state[b]
                               /\ uplink_fragments'[b] = uplink_fragments[b]
  BY <1>1, <1>4, <1>5, UplinkStep
<1>8. UplinkProved!IInv'
  <2>1. UplinkProved!ChangeState(a, l, p) /\ l \in UplinkProved!Leading
    BY <1>1, <1>4, SameUplink DEF Uplink!Leading, UplinkProved!Leading
  <2>2. a \in Addresses \cup {NoAddress}
    BY <1>4 DEF Keys
  <2>. QED
    BY <1>3, <2>1, <2>2, UplinkProved!ChangeStateInvariant DEF IInv
<1>9. Uplink!TypeOK'
  BY <1>8
     DEF UplinkProved!IInv, UplinkProved!TypeOK, Uplink!TypeOK, UplinkProved!Entry,
         Uplink!Entry, UplinkProved!Leading, Uplink!Leading,
         UplinkProved!Collecting, Uplink!Collecting
<1>10. DownlinkProved!IInv' /\ Downlink!TypeOK'
  BY <1>1 DEF IInv, TypeOK, downlinkVars, Downlink!TypeOK, DownlinkProved!IInv,
              DownlinkProved!TypeOK, DownlinkProved!HeldIsOpen
<1>11. HeldByKey'
  <2>1. \A b \in Keys : Gathered(uplink_state[b], uplink_fragments[b], <<b>>)
    BY DEF IInv, HeldByKey
  <2>2. Gathered("kStart", <<>>, <<a>>)
    BY DEF Gathered, InSequence
  <2>3. Gathered(uplink_state'[a], uplink_fragments'[a], <<a>>)
    <3>. HIDE DEF g, end, done
    <3>. QED
      BY <1>6, <1>7, <2>2
  <2>4. ASSUME NEW b \in Keys PROVE Gathered(uplink_state'[b], uplink_fragments'[b], <<b>>)
    <3>1. CASE b = a
      BY <2>3, <3>1
    <3>2. CASE b # a
      BY <1>7, <2>1, <3>2
    <3>. QED
      BY <3>1, <3>2
  <2>. QED
    BY <1>1, <1>2, <2>4 DEF IInv, HeldByKey, Gathered, InSequence, downlinkVars
<1>12. done = {} \/ \E x \in Seq(Stamped) : IsPacket(x) /\ done = {x}
  <2>. HIDE DEF g, end, done
  <2>. QED
    BY <1>6, <1>7
<1>. HIDE DEF done
<1>. QED
  BY <1>1, <1>8, <1>9, <1>10, <1>11, <1>12, WholeKeeps

-----------------------------------------------------------------------------
(* The steps that add no packet and take none.                             *)

\* All that is left of the invariant is what they do to what is pushed.
LEMMA QuietKeeps ==
    ASSUME IInv,
           UNCHANGED <<burstVars, rest, packets, owed, downlinkVars, uplinkVars>>,
           pc' \in {"idle", "push", "failed"},
           c_plane_packets' \in Seq(Seq(Stamped)),
           pushed' \in Seq(Seq(Stamped) \cup Burst),
           PushedOrWaits'
    PROVE  IInv'
<1>1. /\ signal' = signal /\ bursts' = bursts /\ slots' = slots /\ rest' = rest
      /\ packets' = packets /\ owed' = owed
  BY DEF burstVars
<1>2. /\ Downlink!TypeOK' /\ Uplink!TypeOK'
      /\ DownlinkProved!IInv' /\ UplinkProved!IInv' /\ HeldByKey'
  BY <1>1, ReassemblyRests
<1>3. TypeOK'
  BY <1>1, <1>2 DEF IInv, TypeOK
<1>. QED
  BY <1>1, <1>2, <1>3, OwedRests, BurstRests DEF IInv

\* What is pushed of a burst that is not done, and what it is a type of.
LEMMA PushedSoFar ==
    ASSUME IInv, pc # "idle"
    PROVE  /\ pushed \in Seq(Seq(Stamped)) /\ c_plane_packets \in Seq(Seq(Stamped))
           /\ owed \in Seq(Seq(Stamped)) /\ owed = pushed \o c_plane_packets
           /\ pushed \in Seq(Seq(Stamped) \cup Burst)
           /\ slots \in Burst /\ bursts > 0
BY DEF IInv, TypeOK, PushedOrWaits

LEMMA ThrowKeeps ==
    ASSUME IInv, pc \in {"packets", "push"}, pc' = "failed",
           UNCHANGED <<burstVars, rest, packets, c_plane_packets, owed, pushed,
                       downlinkVars, uplinkVars>>
    PROVE  IInv'
<1>1. PushedOrWaits'
  BY DEF IInv, PushedOrWaits, PushedOrFailed, burstVars
<1>. QED
  BY <1>1, PushedSoFar, QuietKeeps

LEMMA AllPacketsKeeps == ASSUME IInv, AllPackets PROVE IInv'
<1>1. PushedOrWaits'
  BY DEF AllPackets, IInv, PushedOrWaits, PushedOrFailed, burstVars
<1>. QED
  BY <1>1, PushedSoFar, QuietKeeps DEF AllPackets

LEMMA PushKeeps == ASSUME IInv, Push PROVE IInv'
<1>. DEFINE g == Head(c_plane_packets)
<1>1. /\ pc = "push" /\ c_plane_packets # <<>>
      /\ pushed' = Append(pushed, g) /\ c_plane_packets' = Tail(c_plane_packets)
      /\ UNCHANGED <<burstVars, pc, rest, packets, owed, downlinkVars, uplinkVars>>
  BY DEF Push
<1>2. /\ pushed \in Seq(Seq(Stamped)) /\ c_plane_packets \in Seq(Seq(Stamped))
      /\ owed = pushed \o c_plane_packets /\ slots \in Burst /\ bursts > 0
  BY <1>1, PushedSoFar
<1>3. /\ g \in Seq(Stamped) /\ Tail(c_plane_packets) \in Seq(Seq(Stamped))
      /\ c_plane_packets = <<g>> \o Tail(c_plane_packets)
  BY <1>1, <1>2
<1>4. pushed' = pushed \o <<g>> /\ pushed' \in Seq(Seq(Stamped))
  BY <1>1, <1>2, <1>3, AppendIsConcat, AppendProperties
<1>5. owed = pushed' \o c_plane_packets'
  <2>1. <<g>> \in Seq(Seq(Stamped))
    BY <1>3
  <2>2. (pushed \o <<g>>) \o Tail(c_plane_packets) = pushed \o (<<g>> \o Tail(c_plane_packets))
    BY <1>2, <1>3, <2>1, ConcatAssociative
  <2>. QED
    BY <1>1, <1>2, <1>3, <1>4, <2>2
<1>6. PushedOrWaits'
  BY <1>1, <1>2, <1>4, <1>5 DEF PushedOrWaits, PushedOrFailed, burstVars
<1>7. pushed' \in Seq(Seq(Stamped) \cup Burst)
  BY <1>4, SeqMonotonic
<1>. QED
  BY <1>1, <1>3, <1>6, <1>7, QuietKeeps

LEMMA ProcessedKeeps == ASSUME IInv, Processed PROVE IInv'
<1>1. /\ pc = "push" /\ c_plane_packets = <<>> /\ pc' = "idle"
      /\ UNCHANGED <<burstVars, rest, packets, c_plane_packets, owed, pushed,
                     downlinkVars, uplinkVars>>
  BY DEF Processed
<1>2. pushed = owed
  BY <1>1, PushedSoFar, ConcatEmptySeq
<1>3. PushedOrWaits'
  BY <1>1, <1>2 DEF PushedOrWaits, PushedOrFailed
<1>. QED
  BY <1>1, <1>3, PushedSoFar, QuietKeeps

\* The failed slots are pushed behind what was pushed before, all of it owed.
LEMMA FailedKeeps == ASSUME IInv, Failed PROVE IInv'
<1>1. /\ pc = "failed" /\ pc' = "idle"
      /\ pushed' = IF metrics_ THEN Append(pushed, slots) ELSE pushed
      /\ UNCHANGED <<burstVars, rest, packets, c_plane_packets, owed, downlinkVars, uplinkVars>>
  BY DEF Failed
<1>2. /\ pushed \in Seq(Seq(Stamped)) /\ c_plane_packets \in Seq(Seq(Stamped))
      /\ owed = pushed \o c_plane_packets /\ slots \in Burst /\ bursts > 0
      /\ pushed \in Seq(Seq(Stamped) \cup Burst)
  BY <1>1, PushedSoFar
<1>3. pushed' \in Seq(Seq(Stamped) \cup Burst)
  BY <1>1, <1>2, AppendProperties
<1>4. ASSUME metrics_ PROVE pushed' # <<>> /\ Last(pushed') = slots /\ IsPrefix(Front(pushed'), owed)
  <2>1. /\ pushed' # <<>> /\ Len(pushed') = Len(pushed) + 1 /\ pushed'[Len(pushed) + 1] = slots
        /\ pushed' = Append(pushed, slots) /\ Len(pushed) \in Nat
        /\ \A i \in 1 .. Len(pushed) : pushed'[i] = pushed[i]
    BY <1>1, <1>2, <1>4, AppendProperties
  <2>2. Last(pushed') = slots
    BY <2>1 DEF Last
  <2>3. Front(pushed') = pushed
    BY <1>2, <2>1 DEF Front
  <2>4. IsPrefix(pushed, owed)
    <3>1. /\ Len(owed) = Len(pushed) + Len(c_plane_packets) /\ Len(c_plane_packets) \in Nat
          /\ \A i \in 1 .. Len(pushed) : owed[i] = pushed[i]
      BY <1>2, <2>1, ConcatProperties
    <3>2. SubSeq(pushed, 1, Len(pushed)) = SubSeq(owed, 1, Len(pushed))
      BY <1>2, <2>1, <3>1
    <3>. QED
      BY <2>1, <3>1, <3>2 DEF IsPrefix
  <2>. QED
    BY <2>1, <2>2, <2>3, <2>4
<1>5. PushedOrWaits'
  BY <1>1, <1>4 DEF PushedOrWaits, PushedOrFailed, burstVars
<1>. QED
  BY <1>1, <1>2, <1>3, <1>5, QuietKeeps

LEMMA NextKeeps == ASSUME IInv, [Next]_vars PROVE IInv'
<1>1. CASE Next
  <2>1. ASSUME NEW burst \in signal, Process(burst) PROVE IInv'
    BY <2>1, ProcessKeeps
  <2>2. CASE ParseSlot
    BY <2>2, ParseSlotKeeps
  <2>3. CASE Associate
    BY <2>3, AssociateKeeps
  <2>4. CASE DownlinkFragment
    BY <2>4, DownlinkFragmentKeeps
  <2>5. CASE UplinkFragment
    BY <2>5, UplinkFragmentKeeps
  <2>6. CASE WholePacket
    BY <2>6, WholePacketKeeps
  <2>7. CASE Throw
    BY <2>7, ThrowKeeps DEF Throw, AtPacket
  <2>8. CASE AllPackets
    BY <2>8, AllPacketsKeeps
  <2>9. CASE Push
    BY <2>9, PushKeeps
  <2>10. CASE PushThrows
    BY <2>10, ThrowKeeps DEF PushThrows
  <2>11. CASE Processed
    BY <2>11, ProcessedKeeps
  <2>12. CASE Failed
    BY <2>12, FailedKeeps
  <2>. QED
    BY <1>1, <2>1, <2>2, <2>3, <2>4, <2>5, <2>6, <2>7, <2>8, <2>9, <2>10, <2>11, <2>12 DEF Next
<1>2. CASE UNCHANGED vars
  <2>1. /\ signal' = signal /\ bursts' = bursts /\ slots' = slots /\ rest' = rest
        /\ packets' = packets /\ owed' = owed /\ pc' = pc
        /\ c_plane_packets' = c_plane_packets /\ pushed' = pushed
        /\ UNCHANGED <<downlinkVars, uplinkVars, burstVars>>
    BY <1>2 DEF vars, burstVars
  <2>2. /\ Downlink!TypeOK' /\ Uplink!TypeOK'
        /\ DownlinkProved!IInv' /\ UplinkProved!IInv' /\ HeldByKey'
    BY <2>1, ReassemblyRests
  <2>3. TypeOK'
    BY <2>1, <2>2 DEF IInv, TypeOK
  <2>4. PushedOrWaits'
    BY <2>1 DEF IInv, PushedOrWaits, PushedOrFailed
  <2>. QED
    BY <2>1, <2>2, <2>3, <2>4, OwedRests, BurstRests DEF IInv
<1>. QED
  BY <1>1, <1>2

-----------------------------------------------------------------------------
(* The theorems.                                                           *)

\* The invariant holds, for any mobile stations and however they, and the network,
\* fill the bursts (upper_mac.cpp:74-166).
THEOREM Invariance == Spec => []IInv
<1>. QED
  BY InitIInv, NextKeeps, PTL DEF Spec

\* All that process() keeps and pushes is made of packets of the bursts, stamped
\* with a burst and perhaps with an address (upper_mac.cpp:74-166).
THEOREM TypeCorrect == Spec => []TypeOK
<1>1. IInv => TypeOK
  BY DEF IInv
<1>. QED
  BY Invariance, <1>1, PTL

\* Over any number of bursts, and through every exception on the way, what is held
\* for each address is what came for it since the start of an open packet
\* (upper_mac_fragments.hpp:78-125, called from upper_mac.cpp:131-146).
THEOREM ReassemblyCorrect == Spec => []Reassembly
<1>1. IInv => Reassembly
  BY SameDownlink, SameUplink DEF IInv, DownlinkProved!IInv, UplinkProved!IInv, Reassembly
<1>. QED
  BY Invariance, <1>1, PTL

\* No packet whose start has an address is put together from fragments of two mobile
\* stations, however many there are and however they take turns, and whichever of
\* their addresses are of the type of which nothing is parsed
\* (upper_mac_packet_builder.hpp:59-76, address.cpp:36-66).
THEOREM OneSenderCorrect == Spec => []OneSender
<1>1. IInv => OneSender
  <2>. DEFINE HasKey(p) == p.type \in DownlinkTypes \/ p.address # NoAddress
  <2>. SUFFICES ASSUME IInv, NEW k \in DOMAIN owed, HasKey(Head(owed[k])),
                       NEW f \in Range(owed[k]), NEW g \in Range(owed[k])
                PROVE  f.sender = g.sender
    BY DEF OneSender
  <2>1. owed \in Seq(Seq(Stamped)) /\ DOMAIN owed = 1 .. Len(owed)
    BY DEF IInv, TypeOK
  <2>2. owed[k] \in Seq(Stamped) /\ IsPacket(owed[k])
    BY <2>1 DEF IInv, OwedPackets
  <2>3. PICK i \in 1 .. Len(owed[k]), j \in 1 .. Len(owed[k]) :
           f = owed[k][i] /\ g = owed[k][j]
    BY <2>2, RangeEquality
  <2>4. Head(owed[k]) = owed[k][1] /\ 1 \in 1 .. Len(owed[k])
    BY <2>2, <2>3
  <2>. DEFINE first == owed[k][1]
  <2>5. /\ \A n \in 1 .. Len(owed[k]) :
              /\ Key(owed[k][n]) = Key(first) /\ WellSent(owed[k][n])
              /\ owed[k][n] \in Stamped
        /\ HasKey(first)
    BY <2>2, <2>4 DEF IsPacket
  <2>6. ASSUME NEW p \in Stamped, WellSent(p), Key(p) = Key(first)
        PROVE  p.sender = IF first.type \in DownlinkTypes THEN Network ELSE first.address
    <3>1. \A q \in Stamped : q.type \in UplinkTypes \cup DownlinkTypes
      BY StampedFacts DEF Pdu
    <3>2. \A q \in Stamped : WellSent(q) =>
             /\ q.type \in DownlinkTypes <=> q.sender = Network
             /\ q.type \notin DownlinkTypes => q.address \in {q.sender, NoAddress}
      BY <3>1, NameAssumption DEF WellSent
    <3>3. first \in Stamped /\ WellSent(first)
      BY <2>4, <2>5
    <3>4. CASE first.type \in DownlinkTypes
      <4>1. Key(first) = <<>>
        BY <3>2, <3>3, <3>4 DEF Key
      <4>. QED
        BY <2>6, <3>4, <4>1 DEF Key
    <3>5. CASE first.type \notin DownlinkTypes
      <4>1. Key(first) = <<first.address>> /\ first.address # NoAddress
        BY <2>5, <3>2, <3>3, <3>5 DEF Key
      <4>2. p.sender # Network /\ p.address = first.address
        BY <2>6, <4>1 DEF Key
      <4>. QED
        BY <2>6, <3>2, <3>5, <4>1, <4>2
    <3>. QED
      BY <3>4, <3>5
  <2>. QED
    BY <2>3, <2>5, <2>6
<1>. QED
  BY Invariance, <1>1, PTL

\* A packet goes from its first fragment to its last, and in the order in which
\* they came, over any number of bursts (upper_mac_fragments.hpp:78-125).
THEOREM InOrderCorrect == Spec => []InOrder
<1>1. IInv => InOrder
  <2>. SUFFICES ASSUME IInv, NEW k \in DOMAIN owed, Len(owed[k]) > 1
                PROVE  /\ LeadsTo(Head(owed[k])) = "kStartFragmentReceived"
                       /\ LeadsTo(Last(owed[k])) = "kEndFragmentReceived"
                       /\ \A i \in 2 .. Len(owed[k]) : owed[k][i - 1].burst <= owed[k][i].burst
    BY DEF InOrder
  <2>1. owed \in Seq(Seq(Stamped)) /\ DOMAIN owed = 1 .. Len(owed)
    BY DEF IInv, TypeOK
  <2>2. owed[k] \in Seq(Stamped) /\ IsPacket(owed[k])
    BY <2>1 DEF IInv, OwedPackets
  <2>3. owed[k] # <<>> /\ Head(owed[k]) = owed[k][1]
    BY <2>2
  <2>. QED
    BY <2>2, <2>3 DEF IsPacket, InSequence, Last
<1>. QED
  BY Invariance, <1>1, PTL

\* With metrics, all that is whole of a burst is pushed, or the failed slots behind
\* a part of it, wherever an exception is thrown (upper_mac.cpp:101-113, 161-165).
THEOREM PushedOrFailedCorrect == Spec => [](metrics_ => PushedOrFailed)
<1>1. IInv => (metrics_ => PushedOrFailed)
  BY DEF IInv, PushedOrWaits
<1>. QED
  BY Invariance, <1>1, PTL

=============================================================================
