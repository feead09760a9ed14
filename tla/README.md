# A formal model of tetra-decoder

TLA+ modules that model the decoder's core logic, TLC configurations that check
them on small instances, and TLAPS proofs of what holds for every instance.
Every definition is translated from the source; `PROJECT.json` names the lines
(`map`), the hazards, the runs, the mutants that each property must catch, the
findings and the theorems.

Run a check with `tlc -config MCx.cfg MCy.tla`, a proof with
`tlapm X_proofs.tla`.

## 1. Inventory of the system

The program receives a TETRA signal (bits or IQ samples, UDP or a file), finds
bursts, decodes them, reassembles and parses the packets and posts them to the
Borzoi service as JSON. Seven threads work on it:

    main --queue_work--> 4 x StreamWorker --get_or_null--> UpperMac --push_back--> BorzoiSender
      BitStreamDecoder     LowerMac::process               UpperMac::process        HTTP post

| Component (source) | State | Operations | Hard behaviour |
|---|---|---|---|
| `main`, `Decoder` (main.cpp, decoder.cpp) | `stop`, three termination flags | read loop, SIGINT, construction, destruction | SIGINT against a blocking read; the order of the joins; the chain of flags |
| `StreamingOrderedOutputThreadPoolExecutor` | `input_queue_`, `output_map_`, two counters, `alive_thread_count_` | `queue_work`, `get_or_null`, `empty`, the workers | out-of-order completion, two locks, timeouts of 10 ms, a flag from a counter |
| `ThreadSafeFifo` | `queue_` | `push_back`, `get_or_null`, `empty` | flag and emptiness are two reads of the consumer |
| `BitStreamDecoder` | `frame_`, `is_synchronized_`, `sync_bit_counter_` | `process_bit` | unsigned counter that wraps, windows that drift, bursts that overlap |
| `IQStreamDecoder`, `FixedQueue` | ring buffers of samples | `process_complex` | floating point; the ring at its limit |
| `LowerMac` | `sync_`: the time and scrambling code, shared by the workers | `process`, `processChannels` | used by four threads without a lock |
| channel coding | codec tables, a static table of scrambling sequences | Viterbi, CRC, descrambling, Reed-Muller | indices around the training sequences; the table is filled without a lock |
| Slots | one or two slots of a burst | constructors, `has_crc_error`, channel selection | which slot and CRC counts; the first half says what the second is |
| `UpperMac`, fragmentation | reassembly state for each address | `process`, `processPackets`, `push_fragment` | packets spread over bursts, exceptions half way |
| packet builder, `BitVector`, parsing helpers | none between calls | parse the PDUs | several PDUs in one block, fill bits, lengths that underflow |
| LLC and layer 3 parsers | none between calls | dispatch, field extraction | lengths, optional fields, data that is left over or cut |
| metrics | counters | one increment for each event | an exception in the counting |
| `BorzoiSender`, converters | none between calls | post, log a failure | no retry |

What makes each correct: the executor is a FIFO queue that ends when, and only
when, it is drained; the pipeline keeps the order of the bursts, loses nothing
at exit and does exit; the bit decoder finds the bursts, puts no bit into two of
them and its synchronisation ends in time; the lower MAC decodes a burst with the
time and code of the network; the reassembly puts together fragments of one
packet of one sender, and what was parsed is pushed or reported as failed; the
parsers give back what the network sent, or refuse it.

`PROJECT.json` lists every hazard we know of at the line where it bites, with
the properties that cover it or the reason why none does.

## 2. Modules

| Module | Models | Role |
|---|---|---|
| `OrderedQueue` | what the executor promises | abstract FIFO queue with an end |
| `OrderedExecutor` | the executor: producer, workers, consumer | implements `OrderedQueue` |
| `OrderedExecutor_proofs` | | theorems |
| `ThreadSafeFifo` | the queue to the Borzoi sender | part of `Pipeline` |
| `Pipeline` | all threads and how they stop | composes `OrderedExecutor` and `ThreadSafeFifo` |
| `Pipeline_proofs` | | theorems, from those of `OrderedExecutor_proofs` |
| `BitStreamDecoder` | `process_bit` on any signal | |
| `BitStreamDecoder_proofs` | | theorems, of `DownlinkSignal` as well |
| `DownlinkSignal` | a downlink signal, environment of the bit decoder | extends `BitStreamDecoder` |
| `LowerMac` | `LowerMac::process` on several threads | |
| `LowerMac_proofs` | | theorems |
| `BitVector` | bits that are read, fill bits, the FCS; layouts of fields | operators |
| `ChannelCoding` | descrambling, deinterleaving, depuncturing, Reed-Muller, CRC | operators |
| `MacPdus` | the headers and elements of the MAC, lengths, addresses | operators, on `BitVector` |
| `PacketBuilder` | `UpperMacPacketBuilder` | operators, on `MacPdus` |
| `BurstChannels` | `processChannels` and `Slots` | operators, on the two above |
| `Network` | what a network sends | environment of `BurstDecoding` |
| `BurstDecoding` | one burst from its coded blocks to packets | state machine on all of these |
| `BurstDecoding_proofs` | | theorems |
| `Fragmentation` | both reassembly classes | used twice by `UpperMac` |
| `Fragmentation_proofs` | | theorems |
| `UpperMac` | `UpperMac::process` and `processPackets` | composes two `Fragmentation` |
| `UpperMac_proofs` | | theorems, from the lemmas of `Fragmentation_proofs` |
| `LinkPackets` | the packets of the layers above the MAC, and what the network sends | operators, on `BitVector` |
| `LinkLayers` | LLC, MLE, MM, CMCE and SDS parsers | state machine on `LinkPackets` |
| `LinkLayers_proofs` | | theorems |
| `MC...` | | instances for TLC |

A burst goes through the modules in the order of the program: `DownlinkSignal`
finds it, `Pipeline` with `OrderedExecutor` carries it, `LowerMac` gives it a time
and a code, `BurstDecoding` makes packets of it, `UpperMac` reassembles them,
`LinkLayers` parses what is whole. Each module abstracts what its neighbours do:
`UpperMac` takes slots that parse or throw, `BurstDecoding` decides which do.

### OrderedExecutor and OrderedQueue

Each scope under a mutex is one action; in between, all interleavings are
possible. `pc[t]` says where worker `t` is: `start` (the thread is created, the
counter not incremented), `check` (line 122), `wait` (132), `run` (148), `leave`
(left the loop, 156), `done`. The consumer is in `idle`, `find` (76), `wait` (84)
or `alive` (100, after the mutex is released). A `wait_for` that returns true is
the same action as the first look (`WorkerPop`, `GetHit`); one that returns false
is a timeout, possible whenever the predicate is false: notifications only save
time, and time is not modelled. The bound is `MaxWork`, the units of work queued.

`Pending` is the refinement mapping: for each index owed to the consumer, the
result it has in `output_map_`, will have from the worker that runs it, or from
the input queue.

There are two initial states. `Init` is that of the constructor: no worker has
run. `InitBegun` is the state when all have; the end of the stream is right only
from there (section 4).

### Pipeline

The main thread goes `loop` (test of `stop`), `read`, `decode`, and on its way
out `joinBorzoi`, `joinUpper`, `joinWorkers`, `exited`, the reverse order of the
members of `Decoder`. The UpperMac and Borzoi threads are in their loop, in
`get_or_null`, before the look at the emptiness of the queue, or done. What a
burst leads to is abstracted to `Outputs`, the number of elements pushed for it.
SIGINT sets `stop` in any state and interrupts `read` or not, as the kernel may
deliver it to any thread. `Pipeline` also checks what `OrderedExecutor` promises
of the end of the stream (`OrderedOutputAndEnd`, `PropagatedByLastWorker`), with
the producer and the consumer that the program really has.

### BitStreamDecoder and DownlinkSignal

`frame_` always holds the latest bits, so its length stands for it, and a bit
comes with the scores of the training sequences at their places. In
`BitStreamDecoder` the scores are arbitrary at each bit. `DownlinkSignal` is the
signal the decoder is made for (`ReceiveBursts`): bursts of `FrameLen` bits, each
whole, damaged at its ends or damaged altogether, from any offset; patterns match
in their places only. Or the signal is `noise` (`ReceiveNoise`): uplink or
downlink, any scores.

### LowerMac

The workers share `sync_`. Each access is an action: the test of the flag, the
read and the write of the time, the assignment by a synchronization burst, the
test before `processChannels` and its use there. Bursts have numbers modulo the
period of the time, so no bound is needed. Whether a scrambling code was given
(uplink) is chosen initially. A time is read and written as a whole and an
assignment of `sync_` is one step: torn values are not modelled.

### BurstDecoding and the modules under it

Bits are sequences of 0 and 1. A parser's fields are a *layout*: a sequence of
names, widths and conditions on earlier fields, which `Read` walks over, throwing
where the data ends. `MacPdus` has a layout for each constructor of
upper_mac_packet.cpp and for the headers in the packet builder; an absent field
is absent from the record.

A burst in `Bursts` says what was sent (type, cell, access assignment, the bits of
each block with their CRC) and what the air did (`aach_errors`, `changed`).
`BurstChannels` has, side by side, where ETSI EN 300 392-2 puts each bit of a
block (`SentPosition`) and where the code reads it (`ReadPosition`). The Viterbi
decoder and its encoder are a library's and external: what matters is *which* bits
reach it misplaced (`Misread`), and up to `Correctable` of them are corrected; for
the access assignment, the scrambling and the Reed-Muller code are computed bit by
bit. `processChannels` gives each slot the set of channels it may be, the
constructors of `Slots` choose one.

`BurstDecoding` then is the control of the program: `Receive` (with the time
increment), `Synchronize`, `Channels` or `Drop`, and for each slot `ParseSlot`,
`ParsePdu` for one PDU after the other, `Parsed` (the merge), with `Fail` for an
exception, which loses the slot. `MaxDownlink` bounds the downlink bursts after a
synchronization burst. What becomes of the packets is the subject of `UpperMac`.
The model asks of the bursts that each has the blocks of its type, of the length of
their coding and with their CRC (`BlocksAssumption`), that a synchronization
block that passes its CRC tells a time that exists (`TimeAssumption`), that a
burst whose usage is known is a normal downlink burst with an access assignment of
14 bits (`UsageAssumption`), and that the first half of a stolen slot says in its
MAC header whether the second is stolen (`StolenAssumption`, `SaysStolen` is the
standard's header, not the code's offsets), and that the PDUs of a known block are
in it as they are listed (`PdusAssumption`).

`Network` is the reference that the parsers are checked against. Its encoder is
written from the standard and uses none of the code's layouts: a PDU is its fields in
order, its octets, its fill bits, and the packet a receiver should make of it.
What can be proved for any blocks needs the converse, a predicate: `SentPdus` says
of bits that they are PDUs one behind the other, each with its header as `HeaderOf`
lays it out (`Writes`), its TM-SDU, its fill bits and a length that is its own, and
fill bits behind the last. That the layouts of the code are those of the standard is
what ties the two: TLC finds `SentPdus` true of every block that the encoder makes.
A block has two marks. `plain`: only its last PDU has fill bits. The properties
that need exact TM-SDUs ask for it, because the code removes fill bits from the
end of the *block*; `FillDamageIsBounded` says what holds without it. `known`:
false for a block with a PDU that the code cannot tell (hazard at
upper_mac_packet_builder.cpp:68): no property is stated for those.

### Fragmentation and UpperMac

The two reassembly classes are the same machine, with one key or one for each
address. `received` is a history of what was pushed for each address; `Open` is where
in it the packet begins that can still be completed. `UpperMac` takes the slots of a
burst through `process`: parse the slots (one that throws is skipped), give the
address of the null PDU to the uplink fragments, reassemble packet by packet, then
parse and push what is whole. A packet holds the fields the code branches on, plus
its sender and burst for the properties. The stations are named by their addresses,
`Network` stands for the sender of the downlink. What the model asks of the bursts is
in the assumptions: the packets of the downlink are the network's, what is parsed as
the address of a station's packet is its own or none (`WellSentAssumption`), and a
burst has one sender. None is what the code makes of an address of type 2:
address.cpp tests type 3 twice (lines 40-46, 57-63) and leaves an empty `Address`, so
the packets of all such stations have the key `NoAddress` in common. Assertions are
taken as compiled out; with them, a MAC-DATA that announces fragmentation over the
stealing channel aborts the program (upper_mac_fragments.hpp:298).

### LinkPackets and LinkLayers

`LinkPackets` has the fields of every packet as layouts, which the parsers read
(`Read` of `BitVector`, field by field, with the conditions of the code) and which
say as well what the network sends, without reading: `Writes` of `BitVector` says
which bits a field is in, from the fields before it that are there (`Laid`), and
`SentMm`, `SentCmce` and the like say the same of a whole TM-SDU with its short data
and its elements. `LinkLayers` has one action for each parser (`LogicalLinkControl`,
`MobileLinkEntity`, `MobileManagement`, `CircuitModeControlEntity`,
`ShortDataService`), each with the fields it takes, the count by name that only
happens with metrics and may throw, and the parser it forwards to; `Element` and
`LastElement` are the loop of `Type234Parser::parse_type34`. A TM-SDU in `Sdus` says
what was sent, the elements one by one (`in_order`) and as the receiver should have
them (`elements`), and what the MAC did to it: how many `fill` bits are left behind
it, how many of its own bits it has `lost` with the fill bits of another PDU, whether
bits are `changed`. `SentAssumption` says that one that is not changed is, with the
bits that it lost (`Complete`), what the network sends; TLC checks it of every
instance. It may be one that the code refuses: one too short for the name it is
counted by (`HasName`), or with an element of fewer bits than its count
(`IsTooShort`). Three fields are converted (`Converted`): longitude and latitude are
taken in two's complement, the multiplication by a constant of the scale left out,
and the horizontal velocity is `decode_horizontal_velocity`, 16 * 1.038^(v - 13) km/h
in fixed point: `pow` has four decimals and rounds down after each factor, in place
of `double`. The sender means `SpeedAt`, the standard's scale. The frame check
sequence is computed as the code does (`compute_fcs`); the sequence the sender
appends is the remainder of a polynomial division (`FrameCheckSequence`).
`FcsAssumption` says when a TM-SDU is said to have a good sequence: when the last 32
bits are what the division makes of the TL-SDU before them. All TM-SDUs start from
one initial state, as the parsers keep nothing between them.

## 3. Runs

| Run | Instance | Checks |
|---|---|---|
| `executor` | 3 workers, 3 units of 2 kinds, `Init` | types; the alive counter; one place for each index; leave only drained; refinement of the FIFO queue; everything handed out |
| `pipeline` | 2 workers, 2 bursts with 0, 1 or 2 elements, from `InitBegun` | order of what is sent; what the flag means; refinement with the end of the stream; nothing lost at exit; order of the ends; stop leads to exit; everything sent |
| `pipeline_start` | 2 workers, 1 burst, from `Init` | violated: the start-up race |
| `downlink_signal` | frames of 5 bits, 3 missing frames, counter modulo 32; bursts of all three kinds, or noise | types; the counter in range; the synchronisation bounded; bursts apart; a whole burst after a whole one is queued; the synchronisation is lost |
| `downlink_signal_held` | the same | violated: held longer than stated |
| `lower_mac` | 2 workers, times of 2 x 2 x 2, any number of bursts | types; the code is known; the time is exact for bursts one at a time |
| `lower_mac_race` | the same | violated: two bursts at once |
| `burst_decoding` | about 250 bursts of all six types, 2 downlink bursts after a synchronization | types; usage decoded; blocks in place; stolen slots agree; PDUs parsed as sent; damage by fill bits bounded |
| `burst_decoding_crc` | the same | violated: the error of a second slot |
| `upper_mac` | 4 bursts; uplink: of 9 shapes from each of 2 mobile stations, with an address or none; or downlink | types; reassembly; one sender where the start has an address; in order; pushed or failed |
| `upper_mac_address` | 2 uplink bursts | violated: fragments of two stations without a parsed address are held together |
| `layers` | TM-SDUs of every layer: sound, with 1, 3 or 7 fill bits, cut, or with one or two wrong bits; with and without metrics | types; forwarded as sent; fill bits harmless; a cut is noticed; the FCS tells damage |

Why the bounds are enough. Three workers and three units of work let results
overtake each other in every order, and leave a worker without work while the
others end. Two workers and two bursts with up to two elements each fill both
queues at once and let each stage lag behind the one before it. A frame of 5
bits is longer than any distance the code adds to or subtracts from it in one
step, and the counter modulus exceeds all its values as 2^64 does; scores from 0
to 6 contain both sides of every threshold. Four bursts hold a start, a
continuation and an end of one packet with a burst of the other mobile station
between, or two packets. With two values for slot, frame and multi-frame, all
carries and the wrap happen.

`burst_decoding` takes real sizes (blocks of 60, 92, 124 and 268 bits, 30-bit
access assignments), so only the choice of bursts is a bound. They have every
burst type, every PDU, every address type, every broadcast and its options, all
elements present and all absent, length indications of all three kinds, one to
three PDUs in a block with TM-SDUs that end on an octet and that do not, every
single wrong bit of the access assignment, damaged blocks, a foreign cell, and
the 17th frame before and the 18th frame itself. `Correctable` is 1, the least
the code needs: at most one coded bit of a block is read beside it. Two bursts
after a synchronization let the frame number carry into frame 18 and out of it.

`layers` writes every PDU of the layers with its options absent and present; all
combinations are left out, as each option is tested on its own in the code.

`upper_mac` stops when the bursts are used up, hence `CHECK_DEADLOCK FALSE`; no
other passing run does. `lower_mac` uses the symmetry of the workers (safety
only).

What the properties leave out, and why:

* `UsageIsDecoded`: bit 15 of the access assignment is read from the training
  sequence, so it comes wrong in about half of the bursts (`IsMisread`), and
  another bit may be wrong from the air. What the decoder does not outvote is left out
  (`Uncorrected`), as its votes share check bits: if bit 15 happens to be right, a
  wrong bit in place 19 or 26 to 29; if it is wrong, a second one in place 1 to 6, 17
  or 22. TLC found both sets, and the property says that every other place is
  corrected. The second set is more than a decoder of one error has to do; the first
  is not (section 4).
* `OneSender` is for packets whose start has an address. Without one, fragments of
  several stations do come together (`upper_mac_address`). The property says that
  this does not spread: the packets with an address are of one station, whatever comes
  without one in between.
* `ParsedAsSent` is for `plain` and `known` blocks, `FillDamageIsBounded` for
  all `known` ones. Of the last PDU of a block more than 7 bits may be missing; this
  came up in the proof. If a PDU before it has fill bits and the last one has none
  and no length, the last one in its TM-SDU is taken for the first fill bit of the
  block, however many zeros are behind it (builder lines 109-146). A block of
  `MCBurstDecoding` has such PDUs; without `is_last` in `SameButForFill` TLC finds
  it. No PDU before the last can lose more than the 7 bits.
* `FillBitsAreHarmless` is not for a basic link PDU without a TL-SDU: fill bits
  left behind one are forwarded as a packet (logical_link_control_parser.hpp:74).
* `CutIsNoticed` is for what a layer can tell (`CanBeNoticed`); both exceptions came
  up in its proof. If a link without a checksum loses its TL-SDU as a whole (a PDU
  of the MLE with one bit that is set, the first), the LLC has a valid PDU without
  one; TLC finds this if the condition is dropped. If a frame check sequence ends in
  16 zeros or more, what is left of it can pass for an M-bit that is not set where
  the last element should be; the sequence is then wrong, which nobody looks at.
* `ForwardedAsSent` says of a TM-SDU that the layers do not understand, or that has
  no room for the name it is counted by, that it is refused, and of every other one
  that it is forwarded with what was sent.
* `FcsTellsDamage` is for TL-SDUs of every length but none: the shift by 32 then
  leaves any value. A packet with a wrong sequence is
  forwarded like any other; the property is of the verdict only.

### Fairness

Weak fairness of each thread: the operating system runs all of them, and every
loop of the program goes on by itself or is woken by a timeout of 10 ms. In
`Pipeline` also: a chunk of input is finite (`MainDecoded`), and `read` returns
sooner or later (`MainInput`): the source sends or ends. The last one is an
assumption on the environment; without it, a SIGINT that does not interrupt
`read` is not seen (main.cpp:88). Neither the producer nor SIGINT is fair.
`DownlinkSignal` assumes that bits keep coming. `UpperMac`, `LowerMac`,
`BurstDecoding` and `LinkLayers` state no liveness: each is a loop-free call that
the executor's threads make, or waits for its next input.

## 4. Findings

* **Start-up race** (`pipeline_start`). `alive_thread_count_` is 0 before the
  first worker has run as well as after the last one. If the UpperMac thread's
  first wait of 10 ms is over before, it takes the stream to be ended.
* **Synchronisation held too long** (`downlink_signal_held`). The counter of the
  missing frames stands still while the frame is filled again after it was
  cleared, so about twice the stated bits pass. The expected windows also drift
  by a bit for each missed frame, and a window can cover part of a good burst,
  which is then lost; the next whole burst is found (`WholeAfterWholeIsQueued`).
* **Race on the time** (`lower_mac_race`). Two workers in `process` at once count
  bursts in the wrong order, or two as one.
* **Error of the second slot** (`burst_decoding_crc`). `Slots::has_crc_error`
  looks at the first slot twice, so a wrong CRC of the second is not reported.
* **Addresses of type 2** (`upper_mac_address`). Of an address of type 2 nothing is
  parsed (type 3 is tested twice, address.cpp:40-46, 57-63), so the fragments of all
  stations that use one are accumulated under one key, not "for each mobile station".

Seen while reading or while looking for the right property:

* Five blocks are read one bit late behind their training sequence (`>` for `>=`
  in lower_mac.cpp:92, 102, 134, 199, 217). For signalling one more wrong bit is
  left to the Viterbi decoder; one bit of speech and data is wrong.
* Fill bits are removed from the end of the block at the first PDU that has any:
  its own fill bits stay in its TM-SDU, and the last PDU of the block can lose
  its end. A block whose rest is all zero makes a null PDU throw, and the PDUs
  before it are lost.
* A single wrong bit in place 19 or 26 to 29 of an access assignment outvotes the
  right ones, as the sums that vote share check bits: signalling can be taken for
  traffic.
* A missing `break` makes counting a MAC-D-BLCK throw (upper_mac_metrics.hpp:202).
* A MAC-END-HU without fill bits is refused as a broadcast.
* With metrics, a TM-SDU too short for its name is refused that is parsed without.
* Of two broadcasts in one burst the second is dropped with its slot.
* `compute_fcs` shifts by 32 when there are no bits: undefined, modelled as both
  outcomes.
* The table of scrambling sequences is static and filled by all workers.
* Failed slots are pushed only when there are metrics (upper_mac.cpp:104); a
  synchronization burst with a wrong CRC drops the synchronisation
  (lower_mac.cpp:326); the stealing channel reassembly of the downlink is never
  reached and would replace the continuous one (upper_mac.cpp:133).

## 5. Proofs

`OrderedExecutor_proofs` (any finite set of workers, any work, any `MaxWork`).
The inductive invariant `IInv` joins the types, the alive count, `OnePlace` and
the drained exit. `OnePlace` is needed for the step of `GetHit`: only as each
owed index is in exactly one place does taking `output_map_[output_counter_]`
remove the head of `Pending` and leave the rest. With it each action is shown to
be a step of `OrderedQueue` or to leave its variables alone (`OrderedOutput`).
From `InitBegun` a second invariant says that a raised flag means that all
workers are done, from which the end of the stream follows
(`OrderedOutputAndEnd`).

`BitStreamDecoder_proofs` (any frame length over 1, any number of missing
frames, any modulus that exceeds the counter, any scores). `SyncIsBounded` is not
inductive: the invariant needs that the bits since a burst was found are paid for
by the counter and the filling of the frame (`Paid`), and `BurstsApart` that the
bits since a burst was queued are at least those in the frame (`Fresh`).

`Fragmentation_proofs` (any addresses, any fragments, any number of them).
`HeldIsOpen` with the types is inductive, by lemmas on how one more fragment
changes `Open` and `FragmentsFrom`; `PacketIsWhole` follows from it. `UpperMac`'s
`Reassembly` checks `HeldIsOpen` of both directions.

`Pipeline_proofs` (any finite non-empty set of workers, any input, any `Outputs`).
Every step of the pipeline is a step of the executor or leaves it alone, so the
executor's theorems hold of its variables here (`PropagationInPipeline`,
`EndOfStreamInPipeline`). The invariant `PInv` adds what each of the other threads
has seen when it is at a place: a thread that has seen a flag and then found its
queue empty has really seen the end, as the flag stays and nothing is pushed any
more. `StagesEndInOrder` and `FlagMeansFinished` follow.

`LowerMac_proofs` (any number of workers, any lengths of frame and multi-frame).
The arithmetic comes first: a burst's number is written in the mixed radix of the
time, and `increment()` counts it (`IncrementFollows`), over both carries and the
wrap. `TimeIsExact` needs an invariant for every place in `process()` (`InStep`):
before the time is written it is one behind, after that it is the burst's own.
`CodeIsKnown` follows as a code once known stays.

In the same module, of `DownlinkSignal` (any frame length, any sequence of whole and damaged
bursts at any offset, or noise). `WholeIsQueuedCorrect` says that of two whole
bursts in a row the second is queued. That needs that `frame_` is not cleared
while the second one comes in: clearing is due when the counter runs out, and
while the frame fills the counter is at rest (`CounterRests`); behind a whole
burst that was found, it has started again with it (`Followed`). The bounds of
the decoder itself are taken over, as each bit of the signal is one of
`process_bit`.

`UpperMac_proofs` (any network, stations, and bursts that satisfy the assumptions
above, any number of them). The invariant joins that of `Fragmentation` for both
directions with what relates the two to the burst in hand: what a reassembly
holds under the key of an address was sent by the station of this address, and
what it holds under the empty key has none (`HeldByKey`), the
packets still owed are later than all that was received (`OwedPackets`), each
packet that waits is of this burst (`OfThisBurst`), and what was parsed was
pushed, waits, or its slot is among the failed (`PushedOrWaits`). `Reassembly`,
`OneSender`, `InOrder` follow for every step, `PushedOrFailed` with metrics
(without them the failed slots are dropped, see section 4).

`SentInOrder` and `NothingLostAtExit` in `Pipeline_proofs` say what a recursive
function over the bursts yields (the elements of all bursts, one after the other).
The invariant `FlowInv` has the line from end to end: what was sent, what is being
sent, what is queued and what the upper MAC has at hand are, in this order, the
elements of the bursts that were taken (`OnItsWay`), and those not taken are what
the executor still owes (`BurstsPending`). At exit the executor owes nothing and
every hand is empty. The library's induction theorems cannot be used here; where a
function has to be followed over the naturals, the proofs look at the least
number for which the fact would be wrong (`LeastNumber`).

`BurstDecoding_proofs` (any bursts that satisfy the assumptions above, any cells,
any bits in their blocks, any `Correctable` of at least 1). First the CRC
(`CrcOfBlock`): the code feeds its register word by word, which is the same as bit
by bit (`CrcIsBitwise`) and can be continued after any bit (`WordAfterWord`). The
16 bits behind the data are the complement of the register that they are fed
into, and as a step is linear, what they leave is what 16 bits of 1 leave in a
register of 0, which is the constant the code compares with (`ComplementFed`).
Then the blocks: of all type 4 bits at most the one at the cut is read beside its
place (`OnlyAtTheCut`), the interleaver takes it to one coded bit (`OneMisread`),
and one can be corrected. Last, the invariant `BlocksInv`: the slots in the decoder
are those of the burst in hand, made with the code in `sync_`, through every
merge, exception and PDU.

`UsageIsDecodedCorrect` follows the access assignment from the air to the channel of
the slot. Only bit 15 of its block is read elsewhere (`BroadcastPositions`), and it
is scrambled twice with the same bits, which are bits whatever the code (`TableBits`,
`ScrambledTwice`), so that it comes as it was sent but for this bit, if it is
misread, and the one that is wrong from the air (`AccessComes`). The Reed-Muller code
is linear: in each sum of check bits that votes on a bit, every other bit cancels
(`VotesAddUp`); of two wrong bits, a sum is spoiled by the one if it does not have
the other (`FlipsOfBoth`), and so at most two of five votes are, unless the second is
one of those that the property leaves out (`FewSpoiled`). That the burst fits the
time at which its slots are made is the invariant `FitsInv`.

`TypeCorrect` holds for blocks of any bits, also damaged ones. `TypeOK` is not
inductive: the slot that is parsed must be known to hold bits, and what is left of
it to be a part of them (`PartInv`). That every parser leaves no more than it was
given is shown once for all of them: a layout is read field by field, and a
field shortens the data or ends the reading (`ReadTakes`); each header is
such a layout (`Headers`); removing fill bits and taking a TM-SDU of the indicated
length shorten the data as well, where they do not throw (`FillBitsRemoved`,
`TmSduTaken`). `Read` throws in the middle of a field as the code does, so this
needs no assumption on the PDUs.

`StolenAgreesCorrect` follows the first half of a stolen slot from its coded bits:
at most one is misread, so it comes as it was sent (`UndamagedBits`), and the bits
that the code looks up, at an offset that depends on the address type, are those
in which the header says what the second half is (`StolenIsRead`). With `BlocksInv`
it holds of the slots in the decoder.

`FillDamageCorrect` is about any number of PDUs in a block, of any content and
length, with fill bits behind any of them. The code removes fill bits once, from the
end of the block, with the first PDU that has any; so what is left of the block is,
at any time, its bits from some place on, up to their end or up to the last one in
them (`Source`). The invariant `ParsedInv` says what that place is: as many PDUs as
packets were read, each packet is the one sent but for fill bits
(`PacketsSoFar`), and the next PDU is looked for where the last one ends, or where
the bits do, if that comes first (`NextIn`). A header is read as it was written, by
`ReadsAsWritten` (`HeaderRead`), so that the type, the address and the length are
those sent (`TypeFound`, `PacketFound`, `IndicatedEnd`). The TM-SDU begins behind it
(`TmSduFound`) and ends at the indicated length, at the end of the bits or where fill
bits are taken to begin; whichever it is, it is compared with the TM-SDU sent
(`SduMatches`). If nothing but fill bits is left, either they were removed, or the
padding is noticed (`OnlyFillLeft`), so that no PDU is made of them. A PDU that is
not the last has a length, and extract_tm_sdu throws if more than 7 of its bits are
missing; the last one need not have any. The slots are as above (`SlotOfCell`), and
an undamaged block comes as it was sent (`SlotAsSent`).

`LinkLayers_proofs` (any TM-SDUs that satisfy the three assumptions, any bits in
them). First the frame check sequence. `compute_fcs` shifts a register of 32 bits,
and the network divides a polynomial; `ComputedAsSent` shows that after each bit
the register is the part of the dividend that the division works on, with what is
still to come added (`StepOfRegister`, `SequenceOfDivision`), and so that both end
with the same 32 bits, for bits of every length but none. `BurstIsNoticed` says
what the sequence is for: of two different frames with good sequences no 32 bits
in a row hold all differences. A step is linear, so the difference of the two
registers is one register that the difference of the bits is fed into
(`StepOfDifference`). Behind the burst it ends as zero, and a step can be undone,
since the lowest coefficient of the generator is 1, so it was zero when the burst
was over; within the burst, what is fed in would have to be zero as well
(`NoBurst`).

Then the parsers. `FcsTellsDamage` is not inductive: the invariant `TypeInv` says
that the link layer still has all bits of its TM-SDU, that the verdict is right as
soon as there is one, and that no layer above has a field of its name (`Layouts`),
so that none writes over it. The header is read with the length that the
assumption gives it (`LinkHeader`), what is compared are the last 32 bits, and what
the sequence is computed from is the TL-SDU (`WithoutFcsFits`). `TypeOK` needs that
the short data is there when its layer is next (`ShortDataInv`), and that there are
no elements before they are parsed (`ElementsInv`): the tables of allowed elements
belong to a layer, and only the step from CMCE to SDS, which have the same table,
changes the layer behind elements. Each parser then only has to fit
(`ParseKeeps`).

`ReadsAsWritten` is about layouts of any fields: what `Writes` says of the bits is
what `Read` takes from them, whatever is behind, and if the data ends before the
last field it throws. Both are recursive functions of the layout; `LaidFacts` and
`FieldByField` give their steps, and the induction goes over the fields, with the
fields that are there so far, the place in the bits and the value read so far
(`FieldAsWritten`).

From it follow `ForwardedAsSent`, `FillBitsAreHarmless` and `CutIsNoticed`, with one
more invariant, `SentInv`: of a TM-SDU as the network sends it, what is left in a
layer is the received data from the place on where the next layer begins (`From`),
never beyond its end; the packet has exactly the fields sent up to there (`Holds`);
and in the loop of the elements the first n of them have been taken (`ElementsAre`),
all of them allowed and different. It is not enough to know that fields are read
right: the place has to be known too, also behind short data, whose length is a
field. Each parser keeps it (`LinkStep`, `EntityStep`, `ManagementStep`,
`ControlStep`, `ShortDataStep`, `ElementStep`, `LastElementStep`). The data and the
TL-SDU agree as far as both go (`WithTail`); with fill bits the data is longer, and
if the TM-SDU has lost its end it is shorter, so that each step may also refuse it
(`RefusedAsCut`). The difficult case of `CutIsNoticed` is a loop that ends with the
data: it must not end so between two elements (`NoElementIsHidden`). With a frame
check sequence, whose bits the receiver takes off what is left, the M-bit behind the
last element would be missing too, and the element before it, which is more than can
be lost; without one, the bits from the identifier on are among those that were taken
for fill bits, so they are 0, and no layer allows an element 0.

The assumptions are those named in the modules (`WorkersAssumption`,
`FrameLenAssumption`, `WellSentAssumption`, `SentAssumption`, ...). Only
model-checked: `ParsedAsSent` of `BurstDecoding`, which says more than
`FillDamageIsBounded` where a block is `plain`: that nothing is refused, and the same
of broadcasts, of user signalling and of how the slots of a burst are merged; and all
liveness, which is out of the prover's reach. No module uses a RECURSIVE operator.

## 6. Not modelled

* IQ decoding (`IQStreamDecoder`, `FixedQueue`): floating-point filters and
  correlation, whose outcome is the scores and bits that `BitStreamDecoder`
  takes as input.
* The arithmetic of the Viterbi library, as said above, and the depth of its
  correction.
* The Borzoi JSON converters and all printing: pure output. The names that
  parsers look up are modelled by when they throw.
* Metrics, apart from the exceptions they throw: counters nothing reads, the
  mismatch of times among them.
* The command line; sockets and files; read errors (they throw out of `main`);
  `errno`, which is tested before the result of `read` (decoder.cpp:93).
* Failed posts: they are logged and the element is lost (borzoi_sender.cpp:46).
  `Pipeline` says that each element is posted once, in order.
* `BitVector::take_all`, which nothing calls.
* Undefined outcomes of the data races on `sync_` and the scrambling table beyond
  lost updates.
* Memory: all queues are unbounded in the code.

## 7. Plan

1. Done: the executor and its proof; the pipeline; the bit decoder and its
   proof; the lower MAC; the upper MAC with fragmentation and its proof; burst
   decoding from the coded blocks to packets; the link layers.
2. Proofs. Done: the executor and its refinement, the bit decoder on any signal
   and on a downlink signal, the fragmentation and the upper MAC, the lower MAC,
   the order and the completeness of the pipeline, the blocks, the usage and the
   stolen slots of a burst, and that its parser stays within them, the frame check
   sequence, that reading a layout gives back what was written with it, and that
   the link layers forward what was sent, with fill bits and without their end, and
   that the PDUs of a block are parsed as they were sent, but for fill bits. Next:
   `ParsedAsSent`.
3. The IQ decoder's detection windows, with scores in place of samples; the
   mismatch of times across the wrap of the multi-frame number.
