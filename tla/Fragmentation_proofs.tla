------------------------- MODULE Fragmentation_proofs -------------------------
(***************************************************************************)
(* Proofs about Fragmentation.  HeldIsOpen, with the types, is inductive:  *)
(* it says what the state and the fragments of an address are, given what  *)
(* was received for it, and the lemmas on Open and FragmentsFrom say how   *)
(* one more fragment changes that.                                         *)
(***************************************************************************)
EXTENDS Fragmentation, SequenceTheorems, TLAPS

IInv == TypeOK /\ HeldIsOpen

-----------------------------------------------------------------------------
(* What one more fragment changes in what was received.                    *)

\* A start is open, and it alone.
LEMMA OpenStart ==
    ASSUME NEW s \in Seq(Entry), NEW x \in Entry, x.leads = "kStartFragmentReceived"
    PROVE  Open(Append(s, x)) = {Len(s) + 1}
<1> DEFINE n == Len(s)  t == Append(s, x)
<1>1. n \in Nat /\ Len(t) = n + 1 /\ t[n + 1] = x
    OBVIOUS
<1>2. n + 1 \in Open(t)
    BY <1>1 DEF Open
<1>3. ASSUME NEW i \in Open(t) PROVE i = n + 1
    <2>1. i \in 1 .. n + 1 /\ \A j \in i + 1 .. n + 1 : t[j].leads = "kContinuationFragmentReceived"
        BY <1>1, <1>3 DEF Open
    <2>2. i = n + 1 \/ n + 1 \in i + 1 .. n + 1
        BY <1>1, <2>1
    <2> QED
        BY <1>1, <2>1, <2>2
<1> QED
    BY <1>2, <1>3

\* A continuation leaves open what was open, with one fragment more.
LEMMA OpenContinuation ==
    ASSUME NEW s \in Seq(Entry), NEW x \in Entry, x.leads = "kContinuationFragmentReceived"
    PROVE  Open(Append(s, x)) = Open(s)
<1> DEFINE n == Len(s)  t == Append(s, x)
<1>1. n \in Nat /\ Len(t) = n + 1 /\ t[n + 1] = x /\ \A k \in 1 .. n : t[k] = s[k]
    OBVIOUS
<1>2. ASSUME NEW i \in Open(t) PROVE i \in Open(s)
    <2>1. i \in 1 .. n + 1 /\ t[i].leads = "kStartFragmentReceived"
        BY <1>1, <1>2 DEF Open
    <2>2. i \in 1 .. n
        BY <1>1, <2>1
    <2> QED
        BY <1>1, <1>2, <2>2 DEF Open
<1>3. ASSUME NEW i \in Open(s) PROVE i \in Open(t)
    <2>1. /\ i \in 1 .. n /\ s[i].leads = "kStartFragmentReceived"
          /\ \A j \in i + 1 .. n : s[j].leads = "kContinuationFragmentReceived"
        BY <1>3 DEF Open
    <2>2. \A j \in i + 1 .. n + 1 : j = n + 1 \/ (j \in i + 1 .. n /\ j \in 1 .. n)
        BY <1>1, <2>1
    <2> QED
        BY <1>1, <2>1, <2>2 DEF Open
<1> QED
    BY <1>2, <1>3

\* Nothing is open after an end.
LEMMA OpenEnd ==
    ASSUME NEW s \in Seq(Entry), NEW x \in Entry, x.leads = "kEndFragmentReceived"
    PROVE  Open(Append(s, x)) = {}
<1> DEFINE n == Len(s)  t == Append(s, x)
<1>1. n \in Nat /\ Len(t) = n + 1 /\ t[n + 1] = x
    OBVIOUS
<1> SUFFICES ASSUME NEW i \in Open(t) PROVE FALSE
    OBVIOUS
<1>2. /\ i \in 1 .. n + 1 /\ t[i].leads = "kStartFragmentReceived"
      /\ \A j \in i + 1 .. n + 1 : t[j].leads = "kContinuationFragmentReceived"
    BY <1>1 DEF Open
<1>3. i = n + 1 \/ n + 1 \in i + 1 .. n + 1
    BY <1>1, <1>2
<1> QED
    BY <1>1, <1>2, <1>3

\* At most one packet is open.
LEMMA OpenOnce ==
    ASSUME NEW s \in Seq(Entry), NEW i \in Open(s), NEW j \in Open(s)
    PROVE  i = j
<1>1. Len(s) \in Nat /\ i \in 1 .. Len(s) /\ j \in 1 .. Len(s)
    BY DEF Open
<1>2. i < j \/ j < i \/ i = j
    BY <1>1
<1>3. CASE i < j
    <2>1. j \in i + 1 .. Len(s)
        BY <1>1, <1>3
    <2> QED
        BY <2>1 DEF Open
<1>4. CASE j < i
    <2>1. i \in j + 1 .. Len(s)
        BY <1>1, <1>4
    <2> QED
        BY <2>1 DEF Open
<1> QED
    BY <1>2, <1>3, <1>4

\* The fragments from a place on, with one more.
LEMMA FragmentsFromAppend ==
    ASSUME NEW s \in Seq(Entry), NEW x \in Entry, NEW i \in 1 .. Len(s)
    PROVE  FragmentsFrom(Append(s, x), i) = Append(FragmentsFrom(s, i), x.fragment)
<1> DEFINE n == Len(s)
           t == Append(s, x)
           m == n - i + 1
           f == FragmentsFrom(s, i)
           g == FragmentsFrom(t, i)
<1>1. n \in Nat /\ i \in Int /\ m \in Nat /\ Len(t) = n + 1 /\ Len(t) - i + 1 = m + 1
    OBVIOUS
<1>2. f = [k \in 1 .. m |-> s[i + k - 1].fragment]
    BY DEF FragmentsFrom
<1>3. g = [k \in 1 .. m + 1 |-> t[i + k - 1].fragment]
    BY <1>1 DEF FragmentsFrom
<1>4. \A k \in 1 .. m : i + k - 1 \in 1 .. n /\ s[i + k - 1] \in Entry
    BY <1>1
<1>5. x.fragment \in Fragment /\ \A k \in 1 .. m : s[i + k - 1].fragment \in Fragment
    BY <1>4 DEF Entry
<1>6. f \in Seq(Fragment) /\ Len(f) = m
    <2>1. f \in [1 .. m -> Fragment]
        BY <1>2, <1>5
    <2> HIDE DEF f
    <2> QED
        BY <1>1, <2>1
<1>7. ASSUME NEW k \in 1 .. m + 1
      PROVE  t[i + k - 1].fragment = IF k = m + 1 THEN x.fragment ELSE f[k]
    <2>1. CASE k = m + 1
        <3>1. i + k - 1 = n + 1
            BY <1>1, <2>1
        <3> QED
            BY <1>1, <2>1, <3>1
    <2>2. CASE k # m + 1
        <3>1. k \in 1 .. m
            BY <1>1, <2>2
        <3>2. t[i + k - 1] = s[i + k - 1]
            BY <1>1, <1>4, <3>1
        <3> QED
            BY <1>2, <2>2, <3>1, <3>2
    <2> QED
        BY <2>1, <2>2
<1>8. g \in Seq(Fragment) /\ Len(g) = m + 1
    <2>1. g = [k \in 1 .. m + 1 |-> IF k = m + 1 THEN x.fragment ELSE f[k]]
        BY <1>3, <1>7
    <2>2. \A k \in 1 .. m + 1 : (IF k = m + 1 THEN x.fragment ELSE f[k]) \in Fragment
        <3>1. \A k \in 1 .. m + 1 : k = m + 1 \/ k \in 1 .. m
            BY <1>1
        <3> QED
            BY <1>2, <1>5, <3>1
    <2>3. g \in [1 .. m + 1 -> Fragment]
        BY <2>1, <2>2
    <2> HIDE DEF g
    <2> QED
        BY <1>1, <2>3
<1>9. \A k \in 1 .. m + 1 : g[k] = IF k = m + 1 THEN x.fragment ELSE f[k]
    BY <1>3, <1>7
<1> HIDE DEF f, g, m
<1>10. /\ Append(f, x.fragment) \in Seq(Fragment)
       /\ Len(Append(f, x.fragment)) = m + 1
       /\ \A k \in 1 .. m + 1 : Append(f, x.fragment)[k] = IF k = m + 1 THEN x.fragment ELSE f[k]
    BY <1>1, <1>5, <1>6
<1>11. g = Append(f, x.fragment)
    BY <1>8, <1>9, <1>10, SeqEqual
<1> QED
    BY <1>11 DEF f, g

\* And from the last place on.
LEMMA FragmentsFromLast ==
    ASSUME NEW s \in Seq(Entry), NEW x \in Entry
    PROVE  FragmentsFrom(Append(s, x), Len(s) + 1) = <<x.fragment>>
<1> DEFINE n == Len(s)  t == Append(s, x)
<1>1. n \in Nat /\ Len(t) = n + 1 /\ t[n + 1] = x /\ Len(t) - (n + 1) + 1 = 1
    OBVIOUS
<1>2. FragmentsFrom(t, n + 1) = [k \in 1 .. 1 |-> t[n + 1 + k - 1].fragment]
    BY <1>1 DEF FragmentsFrom
<1>3. \A k \in 1 .. 1 : t[n + 1 + k - 1].fragment = x.fragment
    BY <1>1
<1> QED
    BY <1>2, <1>3

-----------------------------------------------------------------------------
(* The invariant.                                                          *)

\* What the invariant says of one address, in the terms of a step.
HeldFor(state, fragments, s) ==
    /\ \A i \in Open(s) :
          /\ fragments = FragmentsFrom(s, i)
          /\ state = IF i = Len(s) THEN "kStartFragmentReceived"
                                   ELSE "kContinuationFragmentReceived"
    /\ Open(s) = {} => fragments = <<>> /\ state = "kStart"

\* Fragments fit an address exactly when they start a packet with none open, or
\* go on with the one that is.
LEMMA ValidIsOpen ==
    ASSUME IInv, NEW a \in Addresses, NEW new_state \in Leading
    PROVE  Valid(a, new_state) <=>
              (Open(received[a]) = {}) = (new_state = "kStartFragmentReceived")
<1> DEFINE s == received[a]
<1>1. state_per_address_[a] \in Collecting
    BY DEF IInv, TypeOK
<1>2. Open(s) = {} => state_per_address_[a] = "kStart"
    BY DEF IInv, HeldIsOpen
<1>3. Open(s) # {} => state_per_address_[a] # "kStart"
    BY DEF IInv, HeldIsOpen
<1>4. Valid(a, new_state) <=>
          IF state_per_address_[a] = "kStart" THEN new_state = "kStartFragmentReceived"
          ELSE new_state \in {"kContinuationFragmentReceived", "kEndFragmentReceived"}
    BY <1>1 DEF Valid, allowed_state_changes_
<1> QED
    BY <1>2, <1>3, <1>4 DEF Leading

\* A fragment keeps what the invariant says of its address.
LEMMA ChangeStateHeld ==
    ASSUME IInv, NEW a \in Addresses, NEW new_state \in Leading, NEW f \in Fragment,
           ChangeState(a, new_state, f)
    PROVE  HeldFor(state_per_address_'[a], fragments_per_address_'[a], received'[a])
<1> DEFINE s == received[a]
           x == [leads |-> new_state, fragment |-> f]
           held == fragments_per_address_[a]
<1>1. s \in Seq(Entry) /\ x \in Entry /\ held \in Seq(Fragment) /\ Len(s) \in Nat
    <2>1. s \in Seq(Entry) /\ held \in Seq(Fragment)
        BY DEF IInv, TypeOK
    <2>2. x \in Entry
        BY DEF Entry
    <2> QED
        BY <2>1, <2>2
<1>2. received'[a] = Append(s, x) /\ Len(Append(s, x)) = Len(s) + 1
    BY <1>1 DEF IInv, TypeOK, ChangeState
<1>3. state_per_address_'[a] =
          IF NextState(a, new_state) = "kEndFragmentReceived" THEN "kStart"
          ELSE NextState(a, new_state)
    BY DEF IInv, TypeOK, ChangeState
<1>4. fragments_per_address_'[a] =
          IF NextState(a, new_state) = "kEndFragmentReceived" THEN <<>>
          ELSE Collected(a, new_state, f)
    BY DEF IInv, TypeOK, ChangeState
<1>5. Open(s) = {} => held = <<>>
    BY DEF IInv, HeldIsOpen
<1>6. \A i \in Open(s) : i \in 1 .. Len(s) /\ held = FragmentsFrom(s, i)
    BY DEF IInv, HeldIsOpen, Open
<1>7. CASE new_state = "kStartFragmentReceived"
    <2>1. Open(Append(s, x)) = {Len(s) + 1}
        BY <1>1, <1>7, OpenStart
    <2>2. FragmentsFrom(Append(s, x), Len(s) + 1) = <<f>>
        BY <1>1, FragmentsFromLast
    <2>3. NextState(a, new_state) = "kStartFragmentReceived"
        BY <1>7 DEF NextState
    <2>4. Collected(a, new_state, f) = <<f>>
        <3>1. CASE Open(s) = {}
            <4>1. Valid(a, new_state) /\ held = <<>>
                BY <1>5, <1>7, <3>1, ValidIsOpen
            <4>2. Append(<<>>, f) = <<f>>
                OBVIOUS
            <4> QED
                BY <4>1, <4>2 DEF Collected
        <3>2. CASE Open(s) # {}
            BY <1>7, <3>2, ValidIsOpen DEF Collected
        <3> QED
            BY <3>1, <3>2
    <2> QED
        BY <1>2, <1>3, <1>4, <2>1, <2>2, <2>3, <2>4 DEF HeldFor
<1>8. CASE new_state = "kContinuationFragmentReceived"
    <2>1. Open(Append(s, x)) = Open(s)
        BY <1>1, <1>8, OpenContinuation
    <2>2. CASE Open(s) = {}
        <3>1. ~Valid(a, new_state)
            BY <1>8, <2>2, ValidIsOpen
        <3>2. NextState(a, new_state) = "kStart" /\ Collected(a, new_state, f) = <<>>
            BY <1>8, <3>1 DEF NextState, Collected
        <3> QED
            BY <1>2, <1>3, <1>4, <2>1, <2>2, <3>2 DEF HeldFor
    <2>3. CASE Open(s) # {}
        <3>1. Valid(a, new_state)
            BY <1>8, <2>3, ValidIsOpen
        <3>2. /\ NextState(a, new_state) = "kContinuationFragmentReceived"
              /\ Collected(a, new_state, f) = Append(held, f)
            BY <1>8, <3>1 DEF NextState, Collected
        <3>3. ASSUME NEW i \in Open(s)
              PROVE  /\ Append(held, f) = FragmentsFrom(Append(s, x), i)
                     /\ i # Len(s) + 1
            BY <1>1, <1>6, FragmentsFromAppend
        <3> QED
            BY <1>2, <1>3, <1>4, <2>1, <2>3, <3>2, <3>3 DEF HeldFor
    <2> QED
        BY <2>2, <2>3
<1>9. CASE new_state = "kEndFragmentReceived"
    <2>1. Open(Append(s, x)) = {}
        BY <1>1, <1>9, OpenEnd
    <2>2. \/ NextState(a, new_state) = "kEndFragmentReceived"
          \/ NextState(a, new_state) = "kStart" /\ Collected(a, new_state, f) = <<>>
        BY <1>9 DEF NextState, Collected
    <2> QED
        BY <1>2, <1>3, <1>4, <2>1, <2>2 DEF HeldFor
<1> QED
    BY <1>7, <1>8, <1>9 DEF Leading

LEMMA ChangeStateType ==
    ASSUME TypeOK, NEW a \in Addresses, NEW new_state \in Leading, NEW f \in Fragment,
           ChangeState(a, new_state, f)
    PROVE  TypeOK'
<1>1. NextState(a, new_state) \in Collecting \cup {"kEndFragmentReceived"}
    BY DEF TypeOK, NextState, Leading, Collecting
<1>2. Collected(a, new_state, f) \in Seq(Fragment)
    BY DEF TypeOK, Collected
<1>3. state_per_address_' \in [Addresses -> Collecting]
    BY <1>1 DEF TypeOK, ChangeState, Collecting
<1>4. fragments_per_address_' \in [Addresses -> Seq(Fragment)]
    BY <1>2 DEF TypeOK, ChangeState
<1>5. Append(received[a], [leads |-> new_state, fragment |-> f]) \in Seq(Entry)
    <2>1. [leads |-> new_state, fragment |-> f] \in Entry
        BY DEF Entry
    <2> QED
        BY <2>1 DEF TypeOK
<1>6. received' \in [Addresses -> Seq(Entry)]
    BY <1>5 DEF TypeOK, ChangeState
<1> QED
    BY <1>3, <1>4, <1>6 DEF TypeOK

\* A step keeps the invariant: that of its address by the lemma, and those of
\* the others as nothing of theirs changes.
LEMMA ChangeStateInvariant ==
    ASSUME IInv, NEW a \in Addresses, NEW new_state \in Leading, NEW f \in Fragment,
           ChangeState(a, new_state, f)
    PROVE  IInv'
<1>1. TypeOK'
    BY ChangeStateType DEF IInv
<1>2. ASSUME NEW b \in Addresses
      PROVE  HeldFor(state_per_address_'[b], fragments_per_address_'[b], received'[b])
    <2>1. CASE b = a
        BY <2>1, ChangeStateHeld
    <2>2. CASE b # a
        <3>1. /\ state_per_address_'[b] = state_per_address_[b]
              /\ fragments_per_address_'[b] = fragments_per_address_[b]
              /\ received'[b] = received[b]
            BY <2>2 DEF IInv, TypeOK, ChangeState
        <3>2. HeldFor(state_per_address_[b], fragments_per_address_[b], received[b])
            BY DEF IInv, HeldIsOpen, HeldFor
        <3> QED
            BY <3>1, <3>2
    <2> QED
        BY <2>1, <2>2
<1>3. HeldIsOpen'
    BY <1>2 DEF HeldIsOpen, HeldFor
<1> QED
    BY <1>1, <1>3 DEF IInv

LEMMA InitInvariant == Init => IInv
<1> SUFFICES ASSUME Init PROVE IInv
    OBVIOUS
<1>1. TypeOK
    BY DEF Init, TypeOK, Collecting
<1>2. \A a \in Addresses : received[a] = <<>> /\ Open(<<>>) = {}
    <2>1. Open(<<>>) = {}
        BY DEF Open
    <2> QED
        BY <2>1 DEF Init
<1>3. HeldIsOpen
    BY <1>2 DEF Init, HeldIsOpen
<1> QED
    BY <1>1, <1>3 DEF IInv

\* The invariant holds, whatever fragments come for whatever addresses.
THEOREM Invariance == Spec => []IInv
<1>1. IInv /\ [Next]_vars => IInv'
    <2> SUFFICES ASSUME IInv, [Next]_vars PROVE IInv'
        OBVIOUS
    <2>1. CASE Next
        BY <2>1, ChangeStateInvariant DEF Next
    <2>2. CASE UNCHANGED vars
        BY <2>2 DEF vars, IInv, TypeOK, HeldIsOpen
    <2> QED
        BY <2>1, <2>2
<1> QED
    BY InitInvariant, <1>1, PTL DEF Spec

-----------------------------------------------------------------------------
(* The theorems.                                                           *)

\* The reassembly of each address is in one of its three states, with fragments.
THEOREM TypeCorrect == Spec => []TypeOK
<1>1. IInv => TypeOK
    BY DEF IInv
<1> QED
    BY Invariance, <1>1, PTL

\* For every number of addresses, and whatever is pushed for each, the fragments
\* held are those of the open packet, and no others (upper_mac_fragments.hpp:78-106).
THEOREM HeldCorrect == Spec => []HeldIsOpen
<1>1. IInv => HeldIsOpen
    BY DEF IInv
<1> QED
    BY Invariance, <1>1, PTL

\* A packet is returned exactly when an end completes one, and it is the packet
\* from its start to that end (upper_mac_fragments.hpp:108-124).
THEOREM ReassemblyCorrect == Spec => []PacketIsWhole
<1>1. ASSUME IInv, NEW a \in Addresses, NEW new_state \in Leading, NEW f \in Fragment
      PROVE  Reassembled(a, new_state, f) =
                IF new_state = "kEndFragmentReceived"
                THEN {FragmentsFrom(Append(received[a], [leads |-> new_state, fragment |-> f]), i) :
                         i \in Open(received[a])}
                ELSE {}
    <2> DEFINE s == received[a]
               x == [leads |-> new_state, fragment |-> f]
               held == fragments_per_address_[a]
    <2>1. s \in Seq(Entry) /\ x \in Entry
        BY <1>1 DEF IInv, TypeOK, Entry
    <2>2. CASE new_state # "kEndFragmentReceived"
        BY <2>2 DEF Reassembled, NextState
    <2>3. CASE new_state = "kEndFragmentReceived" /\ Open(s) = {}
        <3>1. ~Valid(a, new_state)
            BY <1>1, <2>3, ValidIsOpen
        <3> QED
            BY <2>3, <3>1 DEF Reassembled, NextState
    <2>4. CASE new_state = "kEndFragmentReceived" /\ Open(s) # {}
        <3>1. Valid(a, new_state)
            BY <1>1, <2>4, ValidIsOpen
        <3>2. Reassembled(a, new_state, f) = {Append(held, f)}
            BY <2>4, <3>1 DEF Reassembled, NextState, Collected
        <3>3. ASSUME NEW i \in Open(s)
              PROVE  FragmentsFrom(Append(s, x), i) = Append(held, f)
            <4>1. i \in 1 .. Len(s) /\ held = FragmentsFrom(s, i)
                BY <1>1 DEF IInv, HeldIsOpen, Open
            <4> QED
                BY <2>1, <4>1, FragmentsFromAppend
        <3>4. {FragmentsFrom(Append(s, x), i) : i \in Open(s)} = {Append(held, f)}
            BY <2>4, <3>3
        <3> QED
            BY <2>4, <3>2, <3>4
    <2> QED
        BY <2>2, <2>3, <2>4
<1>2. IInv => PacketIsWhole
    BY <1>1 DEF PacketIsWhole
<1> QED
    BY Invariance, <1>2, PTL

=============================================================================
