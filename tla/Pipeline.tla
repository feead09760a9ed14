------------------------------ MODULE Pipeline ------------------------------
(***************************************************************************)
(* The threads of the decoder and how they stop: the main thread (main.cpp *)
(* and Decoder), the workers of the ordered executor that run the          *)
(* LowerMac, the UpperMac thread and the BorzoiSender thread.              *)
(*                                                                         *)
(*   main --queue_work--> OrderedExecutor --get_or_null--> UpperMac        *)
(*        --push_back--> ThreadSafeFifo --get_or_null--> BorzoiSender      *)
(*                                                                         *)
(* Work is a burst.  What the LowerMac and the UpperMac make of a burst is *)
(* abstracted to Outputs[b], the number of elements that UpperMac::process *)
(* pushes for it: none (no synchronisation, nothing in it), one for every  *)
(* LLC packet, or one for slots that failed to parse.                      *)
(***************************************************************************)
EXTENDS Integers, Sequences, FiniteSets

CONSTANTS
    Workers,    \* the threads of the executor
    Work,       \* kinds of bursts
    MaxWork,    \* bound: how many bursts the main thread finds
    Outputs     \* how many elements the UpperMac pushes for a burst

ASSUME WorkersAssumption == IsFiniteSet(Workers) /\ Workers # {}
ASSUME MaxWorkAssumption == MaxWork \in Nat
ASSUME OutputsAssumption == Outputs \in [Work -> Nat]

VARIABLES
    \* OrderedExecutor.  input_termination_flag_ is Decoder::termination_flag_,
    \* output_termination_flag_ is Decoder::upper_mac_termination_flag_.
    input_termination_flag_, output_termination_flag_, alive_thread_count_,
    input_queue_, output_map_, input_counter_, output_counter_,
    pc, work, get, result,
    \* ThreadSafeFifo bozoi_queue_
    queue_, fifo_get, element,
    \* the main thread
    main,                            \* where it is
    stop,                            \* the global of main.cpp
    \* the UpperMac and BorzoiSender threads
    upper, outbox,                   \* where it is; what process() has yet to push
    borzoi_sender_termination_flag_,
    borzoi,
    \* history
    bursts,                          \* all bursts queued
    sent                             \* all elements posted to Borzoi

Exec == INSTANCE OrderedExecutor
BorzoiQueue == INSTANCE ThreadSafeFifo

execVars == <<input_termination_flag_, output_termination_flag_, alive_thread_count_,
              input_queue_, output_map_, input_counter_, output_counter_,
              pc, work, get, result>>
fifoVars == <<queue_, fifo_get, element>>
mainVars == <<main, stop, bursts>>
upperVars == <<upper, outbox, borzoi_sender_termination_flag_>>
borzoiVars == <<borzoi, sent>>
vars == <<execVars, fifoVars, mainVars, upperVars, borzoiVars>>

\* An element of bozoi_queue_ is named by the index of the burst it comes from
\* and its number among the elements of that burst.
ElementsOf(i, b) == [k \in 1 .. Outputs[b] |-> <<i, k>>]

\* The elements owed for the first n bursts, in order.
ElementsOfFirst(n) ==
    LET first[k \in 0 .. n] ==
            IF k = 0 THEN <<>> ELSE first[k - 1] \o ElementsOf(k - 1, bursts[k])
    IN first[n]

-----------------------------------------------------------------------------
InitStages ==
    /\ BorzoiQueue!Init
    /\ main = "loop"
    /\ stop = FALSE
    /\ upper = "loop"
    /\ outbox = <<>>
    /\ borzoi_sender_termination_flag_ = FALSE
    /\ borzoi = "loop"
    /\ bursts = <<>>
    /\ sent = <<>>

\* The constructor of Decoder has returned.
Init == Exec!Init /\ InitStages

\* The same, and all workers have begun by then.
InitBegun == Exec!InitBegun /\ InitStages

-----------------------------------------------------------------------------
(* The main thread: main() and Decoder::main_loop(), then ~Decoder().      *)

MainUnchanged == UNCHANGED <<execVars, fifoVars, upperVars, borzoiVars>>

\* while (!stop): read blocks.
MainRead ==
    /\ main = "loop"
    /\ ~stop
    /\ main' = "read"
    /\ UNCHANGED <<stop, bursts>> /\ MainUnchanged

\* Data arrived; it is decoded bit by bit.
MainReceive ==
    /\ main = "read"
    /\ main' = "decode"
    /\ UNCHANGED <<stop, bursts>> /\ MainUnchanged

\* read returned 0: end of the file, or an empty datagram.
MainEndOfInput ==
    /\ main = "read"
    /\ stop' = TRUE
    /\ main' = "loop"
    /\ UNCHANGED bursts /\ MainUnchanged

\* A burst was found in the data.
MainQueueWork(b) ==
    /\ main = "decode"
    /\ Exec!QueueWork(b)
    /\ bursts' = Append(bursts, b)
    /\ UNCHANGED <<main, stop, fifoVars, upperVars, borzoiVars>>

\* All the data has been decoded.
MainDecoded ==
    /\ main = "decode"
    /\ main' = "loop"
    /\ UNCHANGED <<stop, bursts>> /\ MainUnchanged

MainLeave_NoFlag ==
    /\ main = "loop"
    /\ stop
    /\ main' = "joinBorzoi"
    /\ UNCHANGED <<stop, bursts>> /\ MainUnchanged

\* The loop ends, and ~Decoder raises the termination flag.
MainLeave ==
    /\ main = "loop"
    /\ stop
    /\ Exec!Terminate
    /\ main' = "joinBorzoi"
    /\ UNCHANGED <<stop, bursts, fifoVars, upperVars, borzoiVars>>

\* The members are destroyed in the reverse order of their declaration; the
\* destructor of each stage joins its threads.
MainJoin ==
    /\ \/ main = "joinBorzoi" /\ borzoi = "done" /\ main' = "joinUpper"
       \/ main = "joinUpper" /\ upper = "done" /\ main' = "joinWorkers"
       \/ main = "joinWorkers" /\ (\A t \in Workers : pc[t] = "done") /\ main' = "exited"
    /\ UNCHANGED <<stop, bursts>> /\ MainUnchanged

\* SIGINT: the handler sets stop.  The kernel runs it in any thread; when that
\* is the main thread and it is in read, read fails with EINTR.
Sigint ==
    /\ main # "exited"
    /\ stop' = TRUE
    /\ \/ main' = main
       \/ main = "read" /\ main' = "loop"
    /\ UNCHANGED bursts /\ MainUnchanged

-----------------------------------------------------------------------------
(* The workers.                                                            *)

Worker(t) ==
    /\ Exec!Worker(t)
    /\ UNCHANGED <<fifoVars, mainVars, upperVars, borzoiVars>>

-----------------------------------------------------------------------------
(* The UpperMac thread.                                                    *)

UpperUnchanged == UNCHANGED <<fifoVars, mainVars, borzoiVars>>

UpperCall ==
    /\ upper = "loop"
    /\ Exec!GetCall
    /\ upper' = "get"
    /\ UNCHANGED <<outbox, borzoi_sender_termination_flag_>> /\ UpperUnchanged

\* Inside input_queue_->get_or_null().
UpperGet ==
    /\ upper = "get"
    /\ Exec!GetHit \/ Exec!GetMiss \/ Exec!GetTimeout \/ Exec!GetNull
    /\ UNCHANGED upperVars /\ UpperUnchanged

\* get_or_null() returned slots: process() runs, and has elements to push.
UpperProcess ==
    /\ upper = "get" /\ get = "idle"
    /\ \E b \in result : outbox' = ElementsOf(output_counter_ - 1, b)
    /\ upper' = "push"
    /\ UNCHANGED <<borzoi_sender_termination_flag_, execVars>> /\ UpperUnchanged

UpperPush ==
    /\ upper = "push" /\ outbox # <<>>
    /\ BorzoiQueue!PushBack(Head(outbox))
    /\ outbox' = Tail(outbox)
    /\ UNCHANGED <<upper, borzoi_sender_termination_flag_, execVars, mainVars, borzoiVars>>

UpperProcessed ==
    /\ upper = "push" /\ outbox = <<>>
    /\ upper' = "loop"
    /\ UNCHANGED <<outbox, borzoi_sender_termination_flag_, execVars>> /\ UpperUnchanged

\* get_or_null() returned nothing: termination_flag_.load() ...
UpperCheckFlag ==
    /\ upper = "get" /\ get = "idle" /\ result = {}
    /\ upper' = IF output_termination_flag_ THEN "empty" ELSE "loop"
    /\ UNCHANGED <<outbox, borzoi_sender_termination_flag_, execVars>> /\ UpperUnchanged

UpperCheckEmpty_FlagAlone ==
    /\ upper = "empty"
    /\ upper' = "forward"
    /\ UNCHANGED <<outbox, borzoi_sender_termination_flag_, execVars>> /\ UpperUnchanged

\* ... && input_queue_->empty()
UpperCheckEmpty ==
    /\ upper = "empty"
    /\ upper' = IF Exec!Empty THEN "forward" ELSE "loop"
    /\ UNCHANGED <<outbox, borzoi_sender_termination_flag_, execVars>> /\ UpperUnchanged

\* Forward the termination to the next stage; the thread ends.
UpperForward ==
    /\ upper = "forward"
    /\ borzoi_sender_termination_flag_' = TRUE
    /\ upper' = "done"
    /\ UNCHANGED <<outbox, execVars>> /\ UpperUnchanged

Upper ==
    \/ UpperCall \/ UpperGet
    \/ UpperProcess \/ UpperPush \/ UpperProcessed
    \/ UpperCheckFlag \/ UpperCheckEmpty \/ UpperForward

-----------------------------------------------------------------------------
(* The BorzoiSender thread.                                                *)

BorzoiUnchanged == UNCHANGED <<execVars, mainVars, upperVars>>

BorzoiCall ==
    /\ borzoi = "loop"
    /\ BorzoiQueue!Call
    /\ borzoi' = "get"
    /\ UNCHANGED sent /\ BorzoiUnchanged

BorzoiGet ==
    /\ borzoi = "get"
    /\ BorzoiQueue!GetOrNull
    /\ UNCHANGED borzoiVars /\ BorzoiUnchanged

\* The element is posted, once: a failure is only logged.
BorzoiSend ==
    /\ borzoi = "get" /\ fifo_get = "idle"
    /\ \E e \in element : sent' = Append(sent, e)
    /\ borzoi' = "loop"
    /\ UNCHANGED fifoVars /\ BorzoiUnchanged

BorzoiCheckFlag ==
    /\ borzoi = "get" /\ fifo_get = "idle" /\ element = {}
    /\ borzoi' = IF borzoi_sender_termination_flag_ THEN "empty" ELSE "loop"
    /\ UNCHANGED <<sent, fifoVars>> /\ BorzoiUnchanged

BorzoiCheckEmpty_FlagAlone ==
    /\ borzoi = "empty"
    /\ borzoi' = "done"
    /\ UNCHANGED <<sent, fifoVars>> /\ BorzoiUnchanged

BorzoiCheckEmpty ==
    /\ borzoi = "empty"
    /\ borzoi' = IF BorzoiQueue!Empty THEN "done" ELSE "loop"
    /\ UNCHANGED <<sent, fifoVars>> /\ BorzoiUnchanged

Borzoi == BorzoiCall \/ BorzoiGet \/ BorzoiSend \/ BorzoiCheckFlag \/ BorzoiCheckEmpty

-----------------------------------------------------------------------------
\* What the main thread does by itself, and what read() waits for.
MainSteps == MainRead \/ MainDecoded \/ MainLeave \/ MainJoin
MainInput == MainReceive \/ MainEndOfInput

Exited == main = "exited" /\ UNCHANGED vars

Next ==
    \/ MainSteps \/ MainInput \/ Sigint \/ Exited
    \/ \E b \in Work : MainQueueWork(b)
    \/ \E t \in Workers : Worker(t)
    \/ Upper
    \/ Borzoi

\* Every thread is scheduled.  A chunk of input is finite, hence MainDecoded;
\* and the source keeps sending or ends, hence MainInput.
Fairness ==
    /\ WF_vars(MainSteps)
    /\ WF_vars(MainInput)
    /\ \A t \in Workers : WF_vars(Worker(t))
    /\ WF_vars(Upper)
    /\ WF_vars(Borzoi)

Spec == Init /\ [][Next]_vars /\ Fairness

SpecBegun == InitBegun /\ [][Next]_vars /\ Fairness

-----------------------------------------------------------------------------
(* Correctness.                                                            *)

TypeOK ==
    /\ Exec!TypeOK
    /\ BorzoiQueue!TypeOK(Nat \X Nat)
    /\ main \in {"loop", "read", "decode", "joinBorzoi", "joinUpper", "joinWorkers", "exited"}
    /\ stop \in BOOLEAN
    /\ upper \in {"loop", "get", "push", "empty", "forward", "done"}
    /\ outbox \in Seq(Nat \X Nat)
    /\ borzoi_sender_termination_flag_ \in BOOLEAN
    /\ borzoi \in {"loop", "get", "empty", "done"}
    /\ bursts \in Seq(Work)
    /\ sent \in Seq(Nat \X Nat)

IsPrefixOf(s, t) == Len(s) <= Len(t) /\ s = SubSeq(t, 1, Len(s))

\* The promise of the executor, in its place between the main thread and the
\* UpperMac: when the flag is raised and nothing is stored (upper_mac.cpp:57),
\* everything queued has been handed out in order (module OrderedQueue).
OrderedOutputAndEnd == Exec!OrderedOutputAndEnd

\* "propagate the flag if all processing threads have terminated"
\* (streaming_ordered_output_thread_pool_executor.hpp:99).
PropagatedByLastWorker == Exec!PropagatedByLastWorker

\* Through four threads and two queues, what is sent to Borzoi is what the
\* bursts hold, in the order of the bursts, without a gap or a repetition.
SentInOrder == IsPrefixOf(sent, ElementsOfFirst(Len(bursts)))

\* "this flag is set when all work is finished and pushed into the queue"
\* (upper_mac.hpp:33): no burst is found later, and none is on its way.
FlagMeansFinished ==
    borzoi_sender_termination_flag_ =>
        /\ input_termination_flag_
        /\ output_counter_ = Len(bursts)
        /\ outbox = <<>>

\* The program does not exit before it has sent everything (decoder.cpp:79-86
\* and the members it destroys).
NothingLostAtExit == main = "exited" => sent = ElementsOfFirst(Len(bursts))

\* A thread outlives the threads it gets its data from, so none is joined
\* while another can still be waiting for it.
StagesEndInOrder ==
    /\ borzoi = "done" => upper = "done" /\ queue_ = <<>>
    /\ upper = "done" => \A t \in Workers : pc[t] = "done"

\* Once it is told to stop, by SIGINT or the end of the input, the program
\* exits: the chain of flags reaches every thread and every join returns.
StopLeadsToExit == stop ~> main = "exited"

\* What a burst holds is sent without waiting for the program to stop.
EverythingSent ==
    \A n \in 1 .. MaxWork :
        Len(bursts) >= n ~> Len(bursts) >= n /\ Len(sent) >= Len(ElementsOfFirst(n))

=============================================================================
