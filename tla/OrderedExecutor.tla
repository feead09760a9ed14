-------------------------- MODULE OrderedExecutor --------------------------
(***************************************************************************)
(* StreamingOrderedOutputThreadPoolExecutor (include/streaming_ordered_    *)
(* output_thread_pool_executor.hpp): a pool of worker threads that runs    *)
(* the work given to queue_work and hands the results out, by get_or_null, *)
(* in the order in which the work was queued.                              *)
(*                                                                         *)
(* Threads: the producer (queue_work, and the input termination flag), one *)
(* consumer (get_or_null) and the Workers.  Each scope that holds a mutex  *)
(* is one step, since nothing in it blocks; between two scopes every       *)
(* interleaving is possible.  wait_for(lk, 10ms, pred) may find its        *)
(* predicate true at any time, because of a notification or when the time  *)
(* is over, and gives up only with the predicate false: a lost             *)
(* notification costs time, and time is not modelled.                      *)
(*                                                                         *)
(* std::optional is a set of at most one element.  A unit of work and the  *)
(* value it returns go by the same name, a member of Work; what the work   *)
(* itself does to the LowerMac it is bound to is not modelled here.        *)
(***************************************************************************)
EXTENDS Integers, Sequences, FiniteSets

CONSTANTS
    Workers,    \* the threads of workers_
    Work,       \* the units of work
    MaxWork     \* bound: how many units of work the producer queues

ASSUME WorkersAssumption == IsFiniteSet(Workers) /\ Workers # {}
ASSUME MaxWorkAssumption == MaxWork \in Nat

VARIABLES
    input_termination_flag_,
    output_termination_flag_,
    alive_thread_count_,
    input_queue_,       \* sequence of Items
    output_map_,        \* function from the indices of results to results
    input_counter_,     \* index of the next work to be queued
    output_counter_,    \* index of the next result to be handed out
    pc,                 \* where each worker is in worker()
    work,               \* the local variable `work' of each worker
    get,                \* where the consumer is in get_or_null()
    result              \* the optional get_or_null() returned last

inputVars == <<input_queue_, input_counter_>>
outputVars == <<output_map_, output_counter_, get, result>>
flagVars == <<input_termination_flag_, output_termination_flag_>>
workerVars == <<pc, work, alive_thread_count_>>
vars == <<inputVars, outputVars, flagVars, workerVars>>

Item == [index : Nat, work : Work]

WorkerPC == {"start", "check", "wait", "run", "leave", "done"}
GetPC == {"idle", "find", "wait", "alive"}

-----------------------------------------------------------------------------
InitData ==
    /\ input_termination_flag_ = FALSE
    /\ output_termination_flag_ = FALSE
    /\ input_queue_ = <<>>
    /\ output_map_ = <<>>
    /\ input_counter_ = 0
    /\ output_counter_ = 0
    /\ work = [t \in Workers |-> {}]
    /\ get = "idle"
    /\ result = {}

\* The constructor has created the threads; none of them has run yet.
Init ==
    /\ InitData
    /\ alive_thread_count_ = 0
    /\ pc = [t \in Workers |-> "start"]

\* The state in which every worker has begun and nothing has been queued: the
\* one the program starts from unless the consumer's first wait of 10 ms is
\* over before.
InitBegun ==
    /\ InitData
    /\ alive_thread_count_ = Cardinality(Workers)
    /\ pc = [t \in Workers |-> "check"]

-----------------------------------------------------------------------------
(* The producer.  The owner of the executor raises the termination flag    *)
(* after its last queue_work.                                              *)

QueueWork_CounterTwice(w) ==
    /\ ~input_termination_flag_
    /\ input_counter_ < MaxWork
    /\ input_queue_' = Append(input_queue_, [index |-> input_counter_, work |-> w])
    /\ input_counter_' = input_counter_ + 2
    /\ UNCHANGED <<outputVars, flagVars, workerVars>>

QueueWork_Front(w) ==
    /\ ~input_termination_flag_
    /\ input_counter_ < MaxWork
    /\ input_queue_' = <<[index |-> input_counter_, work |-> w]>> \o input_queue_
    /\ input_counter_' = input_counter_ + 1
    /\ UNCHANGED <<outputVars, flagVars, workerVars>>

QueueWork(w) ==
    /\ ~input_termination_flag_
    /\ input_counter_ < MaxWork
    /\ input_queue_' = Append(input_queue_, [index |-> input_counter_, work |-> w])
    /\ input_counter_' = input_counter_ + 1
    /\ UNCHANGED <<outputVars, flagVars, workerVars>>

Terminate ==
    /\ input_termination_flag_' = TRUE
    /\ UNCHANGED <<inputVars, outputVars, output_termination_flag_, workerVars>>

-----------------------------------------------------------------------------
(* A worker.                                                               *)

WorkerBegin_EveryIteration(t) ==
    /\ pc[t] \in {"start", "check"}
    /\ alive_thread_count_' = alive_thread_count_ + 1
    /\ pc' = [pc EXCEPT ![t] = "check"]
    /\ UNCHANGED <<inputVars, outputVars, flagVars, work>>

\* The thread runs for the first time.
WorkerBegin(t) ==
    /\ pc[t] = "start"
    /\ alive_thread_count_' = alive_thread_count_ + 1
    /\ pc' = [pc EXCEPT ![t] = "check"]
    /\ UNCHANGED <<inputVars, outputVars, flagVars, work>>

WorkerPop_KeepFront(t) ==
    /\ pc[t] \in {"check", "wait"}
    /\ input_queue_ # <<>>
    /\ work' = [work EXCEPT ![t] = {Head(input_queue_)}]
    /\ pc' = [pc EXCEPT ![t] = "run"]
    /\ UNCHANGED <<inputVars, outputVars, flagVars, alive_thread_count_>>

\* The front of the queue is taken, at the first look or while waiting.
WorkerPop(t) ==
    /\ pc[t] \in {"check", "wait"}
    /\ input_queue_ # <<>>
    /\ work' = [work EXCEPT ![t] = {Head(input_queue_)}]
    /\ input_queue_' = Tail(input_queue_)
    /\ pc' = [pc EXCEPT ![t] = "run"]
    /\ UNCHANGED <<input_counter_, outputVars, flagVars, alive_thread_count_>>

WorkerBreak_FlagFirst(t) ==
    /\ pc[t] = "check"
    /\ input_termination_flag_
    /\ pc' = [pc EXCEPT ![t] = "leave"]
    /\ UNCHANGED <<inputVars, outputVars, flagVars, work, alive_thread_count_>>

\* Nothing queued and the input has terminated: leave the loop.
WorkerBreak(t) ==
    /\ pc[t] = "check"
    /\ input_queue_ = <<>>
    /\ input_termination_flag_
    /\ pc' = [pc EXCEPT ![t] = "leave"]
    /\ UNCHANGED <<inputVars, outputVars, flagVars, work, alive_thread_count_>>

\* Nothing queued: unlock, and go to wait.
WorkerMiss(t) ==
    /\ pc[t] = "check"
    /\ input_queue_ = <<>>
    /\ ~input_termination_flag_
    /\ pc' = [pc EXCEPT ![t] = "wait"]
    /\ UNCHANGED <<inputVars, outputVars, flagVars, work, alive_thread_count_>>

WorkerTimeout(t) ==
    /\ pc[t] = "wait"
    /\ input_queue_ = <<>>
    /\ pc' = [pc EXCEPT ![t] = "check"]
    /\ UNCHANGED <<inputVars, outputVars, flagVars, work, alive_thread_count_>>

WorkerStore_KeepWork(t) ==
    /\ pc[t] = "run"
    /\ \E item \in work[t] :
          output_map_' = [i \in DOMAIN output_map_ \cup {item.index} |->
                             IF i = item.index THEN item.work ELSE output_map_[i]]
    /\ pc' = [pc EXCEPT ![t] = "check"]
    /\ UNCHANGED <<inputVars, output_counter_, get, result, flagVars, work, alive_thread_count_>>

\* The work has been run, outside of any lock; its result is stored.
WorkerStore(t) ==
    /\ pc[t] = "run"
    /\ \E item \in work[t] :
          output_map_' = [i \in DOMAIN output_map_ \cup {item.index} |->
                             IF i = item.index THEN item.work ELSE output_map_[i]]
    /\ work' = [work EXCEPT ![t] = {}]
    /\ pc' = [pc EXCEPT ![t] = "check"]
    /\ UNCHANGED <<inputVars, output_counter_, get, result, flagVars, alive_thread_count_>>

WorkerEnd_NotCounted(t) ==
    /\ pc[t] = "leave"
    /\ pc' = [pc EXCEPT ![t] = "done"]
    /\ UNCHANGED <<inputVars, outputVars, flagVars, work, alive_thread_count_>>

\* The thread ends.
WorkerEnd(t) ==
    /\ pc[t] = "leave"
    /\ alive_thread_count_' = alive_thread_count_ - 1
    /\ pc' = [pc EXCEPT ![t] = "done"]
    /\ UNCHANGED <<inputVars, outputVars, flagVars, work>>

Worker(t) ==
    \/ WorkerBegin(t)
    \/ WorkerPop(t)
    \/ WorkerBreak(t)
    \/ WorkerMiss(t)
    \/ WorkerTimeout(t)
    \/ WorkerStore(t)
    \/ WorkerEnd(t)

-----------------------------------------------------------------------------
(* get_or_null(), called by the one consumer.                              *)

GetCall ==
    /\ get = "idle"
    /\ get' = "find"
    /\ result' = {}
    /\ UNCHANGED <<inputVars, output_map_, output_counter_, flagVars, workerVars>>

\* The next result is there, at the first look or while waiting.
GetHit ==
    /\ get \in {"find", "wait"}
    /\ output_counter_ \in DOMAIN output_map_
    /\ result' = {output_map_[output_counter_]}
    /\ output_map_' = [i \in DOMAIN output_map_ \ {output_counter_} |-> output_map_[i]]
    /\ output_counter_' = output_counter_ + 1
    /\ get' = "idle"
    /\ UNCHANGED <<inputVars, flagVars, workerVars>>

GetMiss ==
    /\ get = "find"
    /\ output_counter_ \notin DOMAIN output_map_
    /\ get' = "wait"
    /\ UNCHANGED <<inputVars, output_map_, output_counter_, result, flagVars, workerVars>>

\* The wait is over; the mutex is released before the threads are counted.
GetTimeout ==
    /\ get = "wait"
    /\ output_counter_ \notin DOMAIN output_map_
    /\ get' = "alive"
    /\ UNCHANGED <<inputVars, output_map_, output_counter_, result, flagVars, workerVars>>

GetNull_InputFlag ==
    /\ get = "alive"
    /\ output_termination_flag_' = (output_termination_flag_ \/ input_termination_flag_)
    /\ get' = "idle"
    /\ UNCHANGED <<inputVars, output_map_, output_counter_, result,
                   input_termination_flag_, workerVars>>

\* No thread is alive: propagate the termination to the consumer's flag.
GetNull ==
    /\ get = "alive"
    /\ output_termination_flag_' = (output_termination_flag_ \/ alive_thread_count_ = 0)
    /\ get' = "idle"
    /\ UNCHANGED <<inputVars, output_map_, output_counter_, result,
                   input_termination_flag_, workerVars>>

\* empty(): no result is stored.
Empty == DOMAIN output_map_ = {}

GetOrNull == GetCall \/ GetHit \/ GetMiss \/ GetTimeout \/ GetNull

-----------------------------------------------------------------------------
Next ==
    \/ \E w \in Work : QueueWork(w)
    \/ Terminate
    \/ \E t \in Workers : Worker(t)
    \/ GetOrNull

\* The scheduler runs every thread, and the consumer calls get_or_null again
\* and again; the producer need not queue anything, nor terminate.
Fairness ==
    /\ \A t \in Workers : WF_vars(Worker(t))
    /\ WF_vars(GetOrNull)

Spec == Init /\ [][Next]_vars /\ Fairness

SpecBegun == InitBegun /\ [][Next]_vars /\ Fairness

-----------------------------------------------------------------------------
(* Correctness.                                                            *)

\* Everything has its type, and a worker has work in its hands while it runs
\* it and at no other time (lines 119-155).
TypeOK ==
    /\ input_termination_flag_ \in BOOLEAN
    /\ output_termination_flag_ \in BOOLEAN
    /\ alive_thread_count_ \in Nat
    /\ input_queue_ \in Seq(Item)
    /\ DOMAIN output_map_ \subseteq Nat
    /\ output_map_ \in [DOMAIN output_map_ -> Work]
    /\ input_counter_ \in Nat
    /\ output_counter_ \in Nat
    /\ pc \in [Workers -> WorkerPC]
    /\ work \in [Workers -> SUBSET Item]
    /\ \A t \in Workers : IF pc[t] = "run" THEN \E item \in work[t] : work[t] = {item}
                                         ELSE work[t] = {}
    /\ get \in GetPC
    /\ result \in SUBSET Work

\* The alive counter counts the threads that have begun and not ended (lines
\* 116, 158), so it is 0 when no thread can store a result any more, or yet.
Alive == {t \in Workers : pc[t] \notin {"start", "done"}}
AliveIsCounted == alive_thread_count_ = Cardinality(Alive)

\* The index at the front of the input queue, were there work for it.
FrontIndex == input_counter_ - Len(input_queue_)

Running(i) == \E t \in Workers : \E item \in work[t] : item.index = i
Finished(i) == i \in DOMAIN output_map_

\* The queue holds the work that was queued last, in the order of its indices.
QueueInOrder ==
    /\ output_counter_ <= FrontIndex
    /\ \A k \in 1 .. Len(input_queue_) : input_queue_[k].index = FrontIndex + k - 1

\* What has left the queue and is still owed is with a worker or finished.
NoWorkLost ==
    \A i \in output_counter_ .. FrontIndex - 1 : Running(i) \/ Finished(i)

\* No index is with two workers, or with a worker and finished, and none comes
\* back once its result was handed out.
NoWorkTwice ==
    /\ \A t \in Workers : \A item \in work[t] :
          /\ item.index \in output_counter_ .. FrontIndex - 1
          /\ ~Finished(item.index)
          /\ \A u \in Workers : \A other \in work[u] :
                item.index = other.index => t = u /\ item = other
    /\ DOMAIN output_map_ \subseteq output_counter_ .. FrontIndex - 1

\* However queue_work, the workers and get_or_null interleave, each index given
\* out and still owed to the consumer is in exactly one place (lines 59-65,
\* 76-80, 123-125, 152).
OnePlace == QueueInOrder /\ NoWorkLost /\ NoWorkTwice

\* A worker leaves its loop only when the input has terminated and the queue
\* is empty, and no work is queued after that (lines 123-128).
LeaveOnlyDrained ==
    (\E t \in Workers : pc[t] \in {"leave", "done"})
        => input_termination_flag_ /\ input_queue_ = <<>>

\* The result the work with the owed index i has, or will have.
ResultOf(i) ==
    IF i >= FrontIndex THEN input_queue_[i - FrontIndex + 1].work
    ELSE IF Finished(i) THEN output_map_[i]
    ELSE (CHOOSE item \in UNION {work[t] : t \in Workers} : item.index = i).work

Pending == [k \in 1 .. input_counter_ - output_counter_ |-> ResultOf(output_counter_ + k - 1)]

Fifo == INSTANCE OrderedQueue
            WITH pending <- Pending, closed <- input_termination_flag_, ended <- FALSE

\* "thread pool executing work but outputting it the order of the input" (line
\* 27): every step is a step of the FIFO queue, or changes nothing of it.
OrderedOutput == Fifo!Spec

Promise == INSTANCE OrderedQueue
            WITH pending <- Pending, closed <- input_termination_flag_,
                 ended <- output_termination_flag_ /\ Empty

\* The whole promise, with the end of the stream: a consumer that finds the
\* flag raised and nothing stored (upper_mac.cpp:57) has been given everything.
OrderedOutputAndEnd == Promise!Spec

\* "propagate the flag if all processing threads have terminated" (line 99).
PropagatedByLastWorker ==
    output_termination_flag_ => \A t \in Workers : pc[t] = "done"

\* All that is queued is handed out, as long as the consumer asks.
EveryResultHandedOut ==
    \A k \in 1 .. MaxWork : input_counter_ >= k ~> output_counter_ >= k

=============================================================================
