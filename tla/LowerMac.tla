------------------------------- MODULE LowerMac -------------------------------
(***************************************************************************)
(* LowerMac::process (lower_mac.cpp) as the workers of the executor run it *)
(* at the same time: they share one LowerMac, and with it sync_, what the  *)
(* last synchronization burst said, without a lock.                        *)
(*                                                                         *)
(* A burst is known by its number on the air, from which the time of the   *)
(* network follows; numbers start again with the time.  What process makes *)
(* of a burst is the time and scrambling code that processChannels decodes *)
(* it with.  An access to sync_ (its flag, its time) is a step; the time   *)
(* is read and written as a whole.  A disengaged optional keeps its        *)
(* contents, which a worker may still use that has seen it engaged.        *)
(***************************************************************************)
EXTENDS Integers, FiniteSets

CONSTANTS
    Threads,                                \* the workers of the executor
    TimeSlots, FrameNumbers, MultiFrames,   \* 4, 18 and 60
    Injected, Cell, NoCode                  \* scrambling codes: one that is given for
                                            \* the uplink, that of the cell, and none

ASSUME TimeAssumption == {TimeSlots, FrameNumbers, MultiFrames} \subseteq Nat \ {0}
ASSUME CodeAssumption == Injected # NoCode /\ Injected # Cell /\ Cell # NoCode

VARIABLES
    engaged,       \* sync_.has_value()
    time,          \* sync_->time
    code,          \* sync_->scrambling_code
    pc, burst,     \* where each worker is in process(), and with which burst
    read,          \* the time each worker has read in increment()
    next,          \* the number of the next burst on the air
    latest,        \* history: the worker with the last burst on the air, if any has it
    known,         \* history: the last synchronization holds, and every burst on the
                   \* air since then has been received
    overlapped     \* history: a burst may have been processed while another was

sync_ == <<engaged, time, code>>
histories == <<next, latest, known, overlapped>>
vars == <<sync_, pc, burst, read, histories>>

Time == [time_slot_ : 1 .. TimeSlots, frame_number_ : 1 .. FrameNumbers,
         multi_frame_number_ : 1 .. MultiFrames]
FirstTime == [time_slot_ |-> 1, frame_number_ |-> 1, multi_frame_number_ |-> 1]
Numbers == 0 .. TimeSlots * FrameNumbers * MultiFrames - 1
After(n) == (n + 1) % (TimeSlots * FrameNumbers * MultiFrames)

\* The time of the network when burst n is sent, with number 0 at FirstTime.
NetworkTime(n) ==
    [time_slot_ |-> (n % TimeSlots) + 1,
     frame_number_ |-> ((n \div TimeSlots) % FrameNumbers) + 1,
     multi_frame_number_ |-> (n \div (TimeSlots * FrameNumbers)) + 1]

Increment_NoCarry(t) ==
    [t EXCEPT !.time_slot_ = IF @ = TimeSlots THEN 1 ELSE @ + 1,
              !.frame_number_ = IF t.time_slot_ # TimeSlots THEN @
                                ELSE IF @ = FrameNumbers THEN 1 ELSE @ + 1]

Increment_NoWrap(t) ==
    [t EXCEPT !.time_slot_ = IF @ = TimeSlots THEN 1 ELSE @ + 1,
              !.frame_number_ = IF t.time_slot_ = TimeSlots THEN @ + 1 ELSE @]

\* TimebaseCounter::increment().
Increment(t) ==
    LET newFrame == t.time_slot_ = TimeSlots
        newMultiFrame == newFrame /\ t.frame_number_ = FrameNumbers
    IN [time_slot_ |-> IF newFrame THEN 1 ELSE t.time_slot_ + 1,
        frame_number_ |-> IF newMultiFrame THEN 1
                          ELSE IF newFrame THEN t.frame_number_ + 1 ELSE t.frame_number_,
        multi_frame_number_ |-> IF ~newMultiFrame THEN t.multi_frame_number_
                                ELSE IF t.multi_frame_number_ = MultiFrames THEN 1
                                ELSE t.multi_frame_number_ + 1]

\* A code that is given stays, and then all bursts are uplink bursts.
Uplink == code = Injected

\* A synchronization burst with a good or a wrong CRC, or any other burst.
Kinds == {"other"} \union IF Uplink THEN {} ELSE {"sync", "sync_wrong"}
Burst == [number : Numbers, kind : Kinds, counted : BOOLEAN]

Init ==
    /\ code \in {NoCode, Injected}
    /\ engaged = Uplink
    /\ time = FirstTime
    /\ pc = [t \in Threads |-> "idle"]
    /\ burst = [t \in Threads |-> {}]
    /\ read = [t \in Threads |-> FirstTime]
    /\ next = 0
    /\ latest = {}
    /\ known = FALSE
    /\ overlapped = FALSE

-----------------------------------------------------------------------------
\* A burst on the air that no worker gets to see.
Lose ==
    /\ ~Uplink
    /\ next' = After(next)
    /\ latest' = {}
    /\ known' = FALSE
    /\ UNCHANGED <<sync_, pc, burst, read, overlapped>>

Alone(t) == \A u \in Threads \ {t} : pc[u] = "idle"

\* A worker begins process() with the next burst on the air.
Begin(t, kind) ==
    /\ pc[t] = "idle"
    /\ burst' = [burst EXCEPT ![t] = {[number |-> next, kind |-> kind, counted |-> known]}]
    /\ pc' = [pc EXCEPT ![t] = "begin"]
    /\ next' = After(next)
    /\ latest' = {t}
    /\ overlapped' = (overlapped \/ ~Alone(t))
    /\ UNCHANGED <<sync_, read, known>>

Goto(t, l) == pc' = [pc EXCEPT ![t] = l]
AfterTime(t) == IF \E b \in burst[t] : b.kind # "other" THEN "sync" ELSE "check"

\* if (sync_ && is_downlink_burst(burst_type))
CheckTime(t) ==
    /\ pc[t] = "begin"
    /\ Goto(t, IF engaged /\ ~Uplink THEN "read" ELSE AfterTime(t))
    /\ UNCHANGED <<sync_, burst, read, histories>>

\* sync_->time.increment() reads the time ...
ReadTime(t) ==
    /\ pc[t] = "read"
    /\ read' = [read EXCEPT ![t] = time]
    /\ Goto(t, "write")
    /\ UNCHANGED <<sync_, burst, histories>>

\* ... and writes it.
WriteTime(t) ==
    /\ pc[t] = "write"
    /\ time' = Increment(read[t])
    /\ read' = [read EXCEPT ![t] = FirstTime]
    /\ Goto(t, AfterTime(t))
    /\ UNCHANGED <<engaged, code, burst, histories>>

\* The histories: a good synchronization counts when no burst was on the air since.
Known(t, good) ==
    /\ known' = (good /\ latest = {t})
    /\ overlapped' = (overlapped /\ ~(good /\ Alone(t)))
    /\ burst' = [burst EXCEPT ![t] = {[b EXCEPT !.counted = known'] : b \in @}]
    /\ UNCHANGED <<next, latest>>

Synchronize_KeepEngaged(t) ==
    /\ pc[t] = "sync"
    /\ engaged' = TRUE
    /\ \E b \in burst[t] :
          /\ IF b.kind = "sync" THEN time' = NetworkTime(b.number) /\ code' = Cell
                                ELSE UNCHANGED <<time, code>>
          /\ Known(t, b.kind = "sync")
    /\ Goto(t, "check")
    /\ UNCHANGED read

\* sync_ = current_sync, which is empty when the CRC is wrong.
Synchronize(t) ==
    /\ pc[t] = "sync"
    /\ \E b \in burst[t] :
          /\ engaged' = (b.kind = "sync")
          /\ IF b.kind = "sync" THEN time' = NetworkTime(b.number) /\ code' = Cell
                                ELSE UNCHANGED <<time, code>>
          /\ Known(t, b.kind = "sync")
    /\ Goto(t, "check")
    /\ UNCHANGED read

\* process() returns: the burst is dropped without a synchronisation, or its
\* channels have been decoded with sync_.
Return(t) ==
    /\ Goto(t, "idle")
    /\ burst' = [burst EXCEPT ![t] = {}]
    /\ latest' = latest \ {t}
    /\ UNCHANGED <<sync_, read, next, known, overlapped>>

Drop(t) == pc[t] = "check" /\ ~engaged /\ Return(t)

\* if (sync_): go on with *sync_ ...
Enter(t) ==
    /\ pc[t] = "check" /\ engaged
    /\ Goto(t, "channels")
    /\ UNCHANGED <<sync_, burst, read, histories>>

\* ... which processChannels reads.
Channels(t) == pc[t] = "channels" /\ Return(t)

Worker(t) ==
    \/ \E kind \in Kinds : Begin(t, kind)
    \/ CheckTime(t) \/ ReadTime(t) \/ WriteTime(t) \/ Synchronize(t)
    \/ Drop(t) \/ Enter(t) \/ Channels(t)

Next == Lose \/ \E t \in Threads : Worker(t)

Spec == Init /\ [][Next]_vars

-----------------------------------------------------------------------------
(* Correctness.                                                            *)

\* The time stays one the network can have, and a worker that is in process()
\* has its burst.
TypeOK ==
    /\ engaged \in BOOLEAN
    /\ time \in Time
    /\ code \in {Cell, Injected, NoCode}
    /\ pc \in [Threads -> {"idle", "begin", "read", "write", "sync", "check", "channels"}]
    /\ burst \in [Threads -> SUBSET Burst]
    /\ \A t \in Threads : IF pc[t] = "idle" THEN burst[t] = {} ELSE \E b \in Burst : burst[t] = {b}
    /\ read \in [Threads -> Time]
    /\ next \in Numbers
    /\ latest \subseteq Threads
    /\ known \in BOOLEAN /\ overlapped \in BOOLEAN

\* However the workers interleave, no burst is descrambled with a code that was
\* neither received nor injected, not even by a worker that goes on while another
\* one takes the synchronisation away (lines 326, 332-333).
CodeIsKnown ==
    \A t \in Threads : pc[t] = "channels" => code # NoCode

\* A burst is decoded with the time of the network when it was sent.
Exact(t) == \A b \in burst[t] : time = NetworkTime(b.number)

\* The burst has come after a synchronisation since when every burst was received.
Counted(t) == known /\ \E b \in burst[t] : b.counted

\* While bursts are processed one at a time and none is lost, the time that was
\* counted is that of the network, over every carry and wrap, and each burst is
\* decoded with its own (lines 292-297).
TimeIsExact ==
    \A t \in Threads : pc[t] = "channels" /\ Counted(t) /\ ~overlapped => Exact(t)

\* "Once we received the Synchronization on the downlink, increment the time
\* counter for every received burst" (lines 292-293): when every burst since the
\* synchronization is received, each is decoded with the time of the network.
EveryBurstIsCounted ==
    \A t \in Threads : pc[t] = "channels" /\ Counted(t) => Exact(t)

=============================================================================
