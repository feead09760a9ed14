---------------------------- MODULE Fragmentation ----------------------------
(***************************************************************************)
(* UpperMacDownlinkFragmentation and UpperMacUplinkFragmentation (upper_   *)
(* mac_fragments.hpp): the fragments of a packet are collected until the   *)
(* last one is there.  The uplink one does so for every address; the       *)
(* downlink one is the same with a single, fixed address.                  *)
(*                                                                         *)
(* The switch over the type of the packet in push_fragment is left to the  *)
(* caller, who names the state the fragment leads to.                      *)
(***************************************************************************)
EXTENDS Integers, Sequences

CONSTANTS
    Addresses,              \* the keys of state_per_address_
    Fragment,               \* the fragments
    MaxFragments            \* bound: how many fragments are pushed

VARIABLES
    state_per_address_,
    fragments_per_address_,
    received                \* history: for each address, what was pushed, in order

vars == <<state_per_address_, fragments_per_address_, received>>

Collecting == {"kStart", "kStartFragmentReceived", "kContinuationFragmentReceived"}
Leading == {"kStartFragmentReceived", "kContinuationFragmentReceived", "kEndFragmentReceived"}
Entry == [leads : Leading, fragment : Fragment]

\* An address that is not in the map yet reads as kStart with no fragments.
Init ==
    /\ state_per_address_ = [a \in Addresses |-> "kStart"]
    /\ fragments_per_address_ = [a \in Addresses |-> <<>>]
    /\ received = [a \in Addresses |-> <<>>]

-----------------------------------------------------------------------------
allowed_state_changes_ ==
    [state \in Collecting |->
        IF state = "kStart" THEN {"kStartFragmentReceived"}
        ELSE {"kContinuationFragmentReceived", "kEndFragmentReceived"}]

Valid_ContinuationFirst(a, new_state) ==
    \/ new_state = "kContinuationFragmentReceived"
    \/ new_state \in allowed_state_changes_[state_per_address_[a]]

Valid(a, new_state) == new_state \in allowed_state_changes_[state_per_address_[a]]

\* The fragments with the new one.  A start is always saved; anything else that
\* does not fit drops what there was.
Collected(a, new_state, fragment) ==
    IF Valid(a, new_state) THEN Append(fragments_per_address_[a], fragment)
    ELSE IF new_state = "kStartFragmentReceived" THEN <<fragment>>
    ELSE <<>>

\* The state the new fragment leads to.
NextState(a, new_state) ==
    IF Valid(a, new_state) \/ new_state = "kStartFragmentReceived" THEN new_state
                                                                  ELSE "kStart"

\* The optional packet that change_state returns: all its fragments.
Reassembled(a, new_state, fragment) ==
    IF NextState(a, new_state) = "kEndFragmentReceived"
    THEN {Collected(a, new_state, fragment)}
    ELSE {}

ChangeState_KeepFragments(a, new_state, fragment) ==
    LET end == NextState(a, new_state) = "kEndFragmentReceived" IN
    /\ state_per_address_' =
          [state_per_address_ EXCEPT ![a] = IF end THEN "kStart" ELSE NextState(a, new_state)]
    /\ fragments_per_address_' =
          [fragments_per_address_ EXCEPT ![a] = Collected(a, new_state, fragment)]
    /\ received' =
          [received EXCEPT ![a] = Append(@, [leads |-> new_state, fragment |-> fragment])]

ChangeState_StayInEnd(a, new_state, fragment) ==
    /\ state_per_address_' = [state_per_address_ EXCEPT ![a] = NextState(a, new_state)]
    /\ fragments_per_address_' =
          [fragments_per_address_ EXCEPT ![a] =
              IF NextState(a, new_state) = "kEndFragmentReceived" THEN <<>>
              ELSE Collected(a, new_state, fragment)]
    /\ received' =
          [received EXCEPT ![a] = Append(@, [leads |-> new_state, fragment |-> fragment])]

\* change_state(): with the end, all starts over.
ChangeState(a, new_state, fragment) ==
    LET end == NextState(a, new_state) = "kEndFragmentReceived" IN
    /\ state_per_address_' =
          [state_per_address_ EXCEPT ![a] = IF end THEN "kStart" ELSE NextState(a, new_state)]
    /\ fragments_per_address_' =
          [fragments_per_address_ EXCEPT ![a] =
              IF end THEN <<>> ELSE Collected(a, new_state, fragment)]
    /\ received' =
          [received EXCEPT ![a] = Append(@, [leads |-> new_state, fragment |-> fragment])]

Next ==
    \E a \in Addresses, new_state \in Leading, f \in Fragment :
        /\ Len(received[a]) < MaxFragments
        /\ ChangeState(a, new_state, f)

Spec == Init /\ [][Next]_vars

-----------------------------------------------------------------------------
(* Correctness.                                                            *)

TypeOK ==
    /\ state_per_address_ \in [Addresses -> Collecting]
    /\ fragments_per_address_ \in [Addresses -> Seq(Fragment)]
    /\ received \in [Addresses -> Seq(Entry)]

\* Where a packet begins that can still be completed: at a start with nothing
\* but continuations after it.
Open(s) ==
    {i \in 1 .. Len(s) :
        /\ s[i].leads = "kStartFragmentReceived"
        /\ \A j \in i + 1 .. Len(s) : s[j].leads = "kContinuationFragmentReceived"}

FragmentsFrom(s, i) == [k \in 1 .. Len(s) - i + 1 |-> s[i + k - 1].fragment]

\* For each address, whatever came for the others and however often a packet was
\* broken off, the fragments held are those of the packet that is open in what
\* was received for it, and the state says how far it is (lines 78-106).
HeldIsOpen ==
    \A a \in Addresses :
        /\ \A i \in Open(received[a]) :
              /\ fragments_per_address_[a] = FragmentsFrom(received[a], i)
              /\ state_per_address_[a] = IF i = Len(received[a])
                                         THEN "kStartFragmentReceived"
                                         ELSE "kContinuationFragmentReceived"
        /\ Open(received[a]) = {} =>
              fragments_per_address_[a] = <<>> /\ state_per_address_[a] = "kStart"

\* A packet is returned exactly when an end completes an open packet, and it is
\* that packet, whole and in order (lines 108-124).
PacketIsWhole ==
    \A a \in Addresses, new_state \in Leading, f \in Fragment :
        LET s == Append(received[a], [leads |-> new_state, fragment |-> f]) IN
        Reassembled(a, new_state, f) =
            IF new_state = "kEndFragmentReceived"
            THEN {FragmentsFrom(s, i) : i \in Open(received[a])}
            ELSE {}

=============================================================================
