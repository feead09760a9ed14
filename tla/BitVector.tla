------------------------------- MODULE BitVector -------------------------------
(***************************************************************************)
(* BitVector (bit_vector.hpp, bit_vector.cpp): the bits a parser still has *)
(* to read, and whether the fill bits were removed from their end.  The    *)
(* code keeps the data with an offset and a length; here the view itself   *)
(* is the sequence.  What the code throws on is a guard of the caller.     *)
(*                                                                         *)
(* A layout lists the fields that a parser takes one after the other: each *)
(* has a name, a width, and the values that earlier fields must have for   *)
(* it to be there.  Read walks over a layout and stops at the first field  *)
(* that the data is too short for, where the code throws.                  *)
(***************************************************************************)
EXTENDS Integers, Sequences, TLC

\* to_bit_int: the first bit is the most significant one.
ToNat(bits) ==
    LET value[i \in 0 .. Len(bits)] ==
            IF i = 0 THEN 0 ELSE 2 * value[i - 1] + bits[i]
    IN value[Len(bits)]

ToBits(value, width) == [i \in 1 .. width |-> (value \div 2 ^ (width - i)) % 2]

BitVec(bits) == [bits |-> bits, fill_bits_removed_ |-> FALSE]

bits_left(data) == Len(data.bits)

look(n, offset, data) == ToNat(SubSeq(data.bits, offset + 1, offset + n))

take_vector(n, data) == SubSeq(data.bits, 1, n)

\* What is left after n bits were taken from the front, and from the back.
Taken(n, data) == [data EXCEPT !.bits = SubSeq(@, n + 1, Len(@))]
TakenLast(n, data) == [data EXCEPT !.bits = SubSeq(@, 1, Len(@) - n)]

is_mac_padding(data) ==
    /\ bits_left(data) > 0
    /\ data.bits[1] = 1
    /\ \A i \in 2 .. bits_left(data) : data.bits[i] = 0

HasOne(data) == \E i \in DOMAIN data.bits : data.bits[i] = 1

LastOne(bits) ==
    CHOOSE i \in DOMAIN bits : bits[i] = 1 /\ \A j \in i + 1 .. Len(bits) : bits[j] = 0

\* remove_fill_bits, once and only once; it throws when there is no bit set.
CanRemoveFillBits(data) == data.fill_bits_removed_ \/ HasOne(data)

remove_fill_bits_KeepOne(data) ==
    IF data.fill_bits_removed_ THEN data
    ELSE [bits |-> SubSeq(data.bits, 1, LastOne(data.bits)), fill_bits_removed_ |-> TRUE]

remove_fill_bits(data) ==
    IF data.fill_bits_removed_ THEN data
    ELSE [bits |-> SubSeq(data.bits, 1, LastOne(data.bits) - 1), fill_bits_removed_ |-> TRUE]

-----------------------------------------------------------------------------
(* compute_fcs, of a register of 32 bits.  The code shifts the first value *)
(* left by 32 when there are no bits, which is undefined: the build may    *)
(* leave it as it is or clear it.                                          *)

FcsPolynomial ==    \* 0x04C11DB7
    <<0,0,0,0, 0,1,0,0, 1,1,0,0, 0,0,0,1, 0,0,0,1, 1,1,0,1, 1,0,1,1, 0,1,1,1>>

FcsStep(crc, bit) ==
    [j \in 1 .. 32 |-> ((IF j < 32 THEN crc[j + 1] ELSE 0)
                         + (IF bit = crc[1] THEN 0 ELSE FcsPolynomial[j])) % 2]

compute_fcs(bits) ==
    LET first == IF bits = <<>> THEN {[j \in 1 .. 32 |-> 0], [j \in 1 .. 32 |-> 1]}
                 ELSE {[j \in 1 .. 32 |-> IF j <= Len(bits) THEN 1 ELSE 0]}
        crc[i \in 0 .. Len(bits)] ==
            IF i = 0 THEN first ELSE {FcsStep(before, bits[i]) : before \in crc[i - 1]}
    IN {[j \in 1 .. 32 |-> 1 - last[j]] : last \in crc[Len(bits)]}

-----------------------------------------------------------------------------
(* Layouts.                                                                *)

NoFields == [name \in {} |-> 0]

Field(name, width) == [name |-> name, width |-> width, when |-> {}]
Optional(name, width, when) == [name |-> name, width |-> width, when |-> {when}]

\* A layout that is there only under a condition.
Under(when, layout) == [i \in DOMAIN layout |-> [layout[i] EXCEPT !.when = {when} \cup @]]

IsPresent(field, value) ==
    \A when \in field.when : \A name \in DOMAIN when :
        name \in DOMAIN value /\ value[name] \in when[name]

\* One more field with its value.
WithField(value, name, n) ==
    [present \in DOMAIN value \cup {name} |-> IF present = name THEN n ELSE value[present]]

\* The fields of two values; those of the first go before.
Over(first, second) ==
    [name \in DOMAIN first \cup DOMAIN second |->
        IF name \in DOMAIN first THEN first[name] ELSE second[name]]

\* The values of the fields by name, and the data after them.
Read(layout, data) ==
    LET after[i \in 0 .. Len(layout)] ==
            IF i = 0 THEN [ok |-> TRUE, value |-> NoFields, data |-> data]
            ELSE LET before == after[i - 1]
                     field == layout[i]
                 IN IF ~before.ok \/ ~IsPresent(field, before.value) THEN before
                    ELSE IF bits_left(before.data) < field.width THEN [before EXCEPT !.ok = FALSE]
                    ELSE [ok |-> TRUE,
                          value |-> WithField(before.value, field.name, look(field.width, 0, before.data)),
                          data |-> Taken(field.width, before.data)]
    IN after[Len(layout)]

\* The other direction, for what is sent: fields are <<value, width>>.
Encoded(fields) ==
    LET bits[i \in 0 .. Len(fields)] ==
            IF i = 0 THEN <<>> ELSE bits[i - 1] \o ToBits(fields[i][1], fields[i][2])
    IN bits[Len(fields)]

FillBits(n) == [i \in 1 .. n |-> IF i = 1 THEN 1 ELSE 0]

\* The value of a field that may be absent.
Has(value, name, set) == name \in DOMAIN value /\ value[name] \in set

-----------------------------------------------------------------------------
(* Layouts that are written: the fields of a value, one behind the other;  *)
(* those are there whose conditions hold of the ones before.               *)

Only(v, names) == [name \in names |-> v[name]]

Laid(layout, v) ==
    LET laid[i \in 0 .. Len(layout)] ==
            IF i = 0 THEN [names |-> {}, width |-> 0]
            ELSE LET before == laid[i - 1]
                 IN IF ~IsPresent(layout[i], Only(v, before.names)) THEN before
                    ELSE [names |-> before.names \cup {layout[i].name},
                          width |-> before.width + layout[i].width]
    IN laid

Fields(layout, v) == Laid(layout, v)[Len(layout)].names
Width(layout, v) == Laid(layout, v)[Len(layout)].width

\* The fields are in these bits, from there on.
Writes(layout, v, bits, from) ==
    LET laid == Laid(layout, v)
    IN /\ from + Width(layout, v) <= Len(bits)
       /\ \A i \in 1 .. Len(layout) :
             IsPresent(layout[i], Only(v, laid[i - 1].names)) =>
                v[layout[i].name] = ToNat(SubSeq(bits, from + laid[i - 1].width + 1, from + laid[i].width))

=============================================================================
