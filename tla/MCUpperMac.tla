----------------------------- MODULE MCUpperMac -----------------------------
(* The instances of UpperMac that TLC checks. *)
EXTENDS UpperMac

CONSTANTS m1, m2    \* model values

Mobiles == {m1, m2}

PduOf(type, address, sender) ==
    [type |-> type, address |-> address, fragmentation_ |-> FALSE,
     fragmentation_on_stealling_channel_ |-> FALSE, tm_sdu_ |-> TRUE,
     sender |-> sender, burst |-> 0]

Fragmented(p) == [p EXCEPT !.fragmentation_ = TRUE]
Null(p) == [p EXCEPT !.tm_sdu_ = FALSE]

Parsed(pdus) == [throws |-> FALSE, packets |-> pdus]
Broken == [throws |-> TRUE, packets |-> <<>>]

\* Uplink: one mobile station sends in a burst, and some of its addresses are of the
\* type of which nothing is parsed.
UplinkOf(m) ==
    LET access == PduOf("MacAccess", m, m)
        data == PduOf("MacData", m, m)
        stealing == [data EXCEPT !.fragmentation_on_stealling_channel_ = TRUE]
        fragment == PduOf("MacFragmentUplink", NoAddress, m)
        end == PduOf("MacEndUplink", NoAddress, m)
        nameless == PduOf("MacAccess", NoAddress, m)
        endHu == PduOf("MacEndHu", NoAddress, m)
    IN { << Parsed(<<Fragmented(access)>>) >>,
         << Parsed(<<fragment, Null(data)>>) >>,
         << Parsed(<<end, Null(data)>>) >>,
         << Parsed(<<end>>) >>,
         << Parsed(<<stealing>>), Parsed(<<end, Null(data)>>) >>,
         << Broken, Parsed(<<end, Null(data)>>) >>,
         << Parsed(<<Fragmented(nameless)>>) >>,
         << Parsed(<<fragment, Null(nameless)>>) >>,
         << Parsed(<<endHu>>) >> }

UplinkBursts == UNION {UplinkOf(m) : m \in Mobiles}

DownlinkBursts ==
    LET resource == PduOf("MacResource", m1, Network)
        null == Null(PduOf("MacResource", NoAddress, Network))
        fragment == PduOf("MacFragmentDownlink", NoAddress, Network)
        end == PduOf("MacEndDownlink", NoAddress, Network)
        block == PduOf("MacDBlck", m1, Network)
    IN { << Parsed(<<resource, null>>) >>,
         << Parsed(<<resource, Fragmented(resource)>>) >>,
         << Parsed(<<fragment>>) >>,
         << Parsed(<<end, resource>>) >>,
         << Broken, Parsed(<<end>>) >>,
         << Parsed(<<Fragmented(resource)>>), Parsed(<<end>>) >>,
         << Parsed(<<end, block>>) >> }

BothDirections == {UplinkBursts, DownlinkBursts}
UplinkOnly == {UplinkBursts}

=============================================================================
