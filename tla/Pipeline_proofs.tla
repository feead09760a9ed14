--------------------------- MODULE Pipeline_proofs ---------------------------
(***************************************************************************)
(* Proofs about Pipeline, for every number of workers, every set of bursts *)
(* and every number of elements that they hold.  What OrderedExecutor is   *)
(* proved to do on its own is used for its instance in the pipeline.       *)
(***************************************************************************)
EXTENDS Pipeline, SequenceTheorems, WellFoundedInduction, TLAPS

\* The theorems about the executor, for the variables of the pipeline.
Proved == INSTANCE OrderedExecutor_proofs

LEMMA ProvedAssumptions == Proved!IsFiniteSet(Workers) /\ Workers # {} /\ MaxWork \in Nat
BY WorkersAssumption, MaxWorkAssumption DEF IsFiniteSet, Proved!IsFiniteSet

-----------------------------------------------------------------------------
(* Composition: the pipeline takes only steps of the executor.             *)

LEMMA SameInit == Exec!InitBegun => Proved!InitBegun
BY DEF Exec!InitBegun, Proved!InitBegun, Exec!InitData, Proved!InitData,
       Exec!Cardinality, Proved!Cardinality

LEMMA SameProducer ==
  /\ \A b \in Work : Exec!QueueWork(b) => Proved!QueueWork(b)
  /\ Exec!Terminate => Proved!Terminate
BY DEF Exec!QueueWork, Proved!QueueWork, Exec!Terminate, Proved!Terminate,
       Exec!inputVars, Proved!inputVars, Exec!outputVars, Proved!outputVars,
       Exec!flagVars, Proved!flagVars, Exec!workerVars, Proved!workerVars

LEMMA SameWorker == \A t \in Workers : Exec!Worker(t) => Proved!Worker(t)
<1>1. SUFFICES ASSUME NEW t \in Workers, Exec!Worker(t) PROVE Proved!Worker(t)
  OBVIOUS
<1> USE DEF Exec!inputVars, Proved!inputVars, Exec!outputVars, Proved!outputVars,
            Exec!flagVars, Proved!flagVars, Exec!workerVars, Proved!workerVars
<1>2. Exec!WorkerBegin(t) => Proved!WorkerBegin(t)
  BY DEF Exec!WorkerBegin, Proved!WorkerBegin
<1>3. Exec!WorkerPop(t) => Proved!WorkerPop(t)
  BY DEF Exec!WorkerPop, Proved!WorkerPop
<1>4. Exec!WorkerBreak(t) => Proved!WorkerBreak(t)
  BY DEF Exec!WorkerBreak, Proved!WorkerBreak
<1>5. Exec!WorkerMiss(t) => Proved!WorkerMiss(t)
  BY DEF Exec!WorkerMiss, Proved!WorkerMiss
<1>6. Exec!WorkerTimeout(t) => Proved!WorkerTimeout(t)
  BY DEF Exec!WorkerTimeout, Proved!WorkerTimeout
<1>7. Exec!WorkerStore(t) => Proved!WorkerStore(t)
  BY DEF Exec!WorkerStore, Proved!WorkerStore
<1>8. Exec!WorkerEnd(t) => Proved!WorkerEnd(t)
  BY DEF Exec!WorkerEnd, Proved!WorkerEnd
<1>. QED
  BY <1>1, <1>2, <1>3, <1>4, <1>5, <1>6, <1>7, <1>8 DEF Exec!Worker, Proved!Worker

LEMMA SameConsumer ==
  /\ Exec!GetCall => Proved!GetCall
  /\ Exec!GetHit => Proved!GetHit
  /\ Exec!GetMiss => Proved!GetMiss
  /\ Exec!GetTimeout => Proved!GetTimeout
  /\ Exec!GetNull => Proved!GetNull
<1> USE DEF Exec!inputVars, Proved!inputVars, Exec!flagVars, Proved!flagVars,
            Exec!workerVars, Proved!workerVars
<1>1. Exec!GetCall => Proved!GetCall
  BY DEF Exec!GetCall, Proved!GetCall
<1>2. Exec!GetHit => Proved!GetHit
  BY DEF Exec!GetHit, Proved!GetHit
<1>3. Exec!GetMiss => Proved!GetMiss
  BY DEF Exec!GetMiss, Proved!GetMiss
<1>4. Exec!GetTimeout => Proved!GetTimeout
  BY DEF Exec!GetTimeout, Proved!GetTimeout
<1>5. Exec!GetNull => Proved!GetNull
  BY DEF Exec!GetNull, Proved!GetNull
<1>. QED
  BY <1>1, <1>2, <1>3, <1>4, <1>5

LEMMA SameUnchanged == UNCHANGED execVars => UNCHANGED Proved!vars
BY DEF execVars, Proved!vars, Proved!inputVars, Proved!outputVars, Proved!flagVars,
       Proved!workerVars

\* The steps of the main thread and of the UpperMac thread that the executor
\* takes part in; all others leave it alone.
LEMMA ExecutorStep == [Next]_vars => [Proved!Next]_(Proved!vars)
<1> SUFFICES ASSUME [Next]_vars PROVE [Proved!Next]_(Proved!vars)
  OBVIOUS
<1>1. ASSUME NEW b \in Work, MainQueueWork(b) PROVE Proved!Next
  BY <1>1, SameProducer DEF MainQueueWork, Proved!Next
<1>2. CASE MainLeave
  BY <1>2, SameProducer DEF MainLeave, Proved!Next
<1>3. ASSUME NEW t \in Workers, Worker(t) PROVE Proved!Next
  BY <1>3, SameWorker DEF Worker, Proved!Next
<1>4. CASE UpperCall \/ UpperGet
  BY <1>4, SameConsumer DEF UpperCall, UpperGet, Proved!Next, Proved!GetOrNull
<1>5. CASE MainRead \/ MainDecoded \/ MainJoin \/ MainInput \/ Sigint \/ Exited
  BY <1>5, SameUnchanged
     DEF MainRead, MainDecoded, MainJoin, MainInput, MainReceive, MainEndOfInput, Sigint,
         Exited, MainUnchanged, vars
<1>6. CASE UpperProcess \/ UpperPush \/ UpperProcessed \/ UpperCheckFlag \/ UpperCheckEmpty
           \/ UpperForward
  BY <1>6, SameUnchanged
     DEF UpperProcess, UpperPush, UpperProcessed, UpperCheckFlag, UpperCheckEmpty, UpperForward
<1>7. CASE Borzoi
  BY <1>7, SameUnchanged
     DEF Borzoi, BorzoiCall, BorzoiGet, BorzoiSend, BorzoiCheckFlag, BorzoiCheckEmpty,
         BorzoiUnchanged
<1>8. CASE UNCHANGED vars
  BY <1>8, SameUnchanged DEF vars
<1>. QED
  BY <1>1, <1>2, <1>3, <1>4, <1>5, <1>6, <1>7, <1>8 DEF Next, MainSteps, Upper

\* What the executor keeps, as long as its workers have begun.
ExecutorInv == Proved!IInv /\ Proved!AllBegun /\ Proved!PropagatedByLastWorker

LEMMA ExecutorInvPreserved == ExecutorInv /\ [Next]_vars => ExecutorInv'
BY ExecutorStep, ProvedAssumptions, Proved!NextPreserves, Proved!EndPreserved DEF ExecutorInv

\* The invariants of the executor hold of its variables in the pipeline.
THEOREM ExecutorInvariance == SpecBegun => []ExecutorInv
<1>1. InitBegun => ExecutorInv
  <2>1. InitBegun => Proved!InitBegun
    BY SameInit DEF InitBegun
  <2>2. Proved!InitBegun => Proved!IInv
    BY ProvedAssumptions, Proved!InitBegunEstablishes
  <2>3. Proved!InitBegun => Proved!AllBegun /\ Proved!PropagatedByLastWorker
    BY DEF Proved!InitBegun, Proved!InitData, Proved!AllBegun, Proved!PropagatedByLastWorker
  <2>. QED
    BY <2>1, <2>2, <2>3 DEF ExecutorInv
<1>. QED
  BY <1>1, ExecutorInvPreserved, PTL DEF SpecBegun

\* With the producer and the consumer that the program has, the executor raises
\* its flag only after the last worker has ended.
THEOREM PropagationInPipeline == SpecBegun => []PropagatedByLastWorker
<1>1. ExecutorInv => PropagatedByLastWorker
  BY DEF ExecutorInv, Proved!PropagatedByLastWorker, PropagatedByLastWorker,
         Exec!PropagatedByLastWorker
<1>. QED
  BY <1>1, ExecutorInvariance, PTL

LEMMA SamePending == Exec!Pending = Proved!Pending /\ Exec!Pending' = Proved!Pending'
BY DEF Exec!Pending, Proved!Pending, Exec!ResultOf, Proved!ResultOf, Exec!FrontIndex,
       Proved!FrontIndex, Exec!Finished, Proved!Finished

LEMMA SamePromise ==
  /\ Proved!Promise!Init => Exec!Promise!Init
  /\ [Proved!Promise!Next]_(Proved!Promise!vars) => [Exec!Promise!Next]_(Exec!Promise!vars)
<1> USE DEF Exec!Empty, Proved!Empty
<1>1. Proved!Promise!Init => Exec!Promise!Init
  BY SamePending DEF Exec!Promise!Init, Proved!Promise!Init
<1>2. Proved!Promise!Next => Exec!Promise!Next
  <2>1. ASSUME NEW w \in Work, Proved!Promise!Put(w) PROVE Exec!Promise!Put(w)
    BY <2>1, SamePending DEF Exec!Promise!Put, Proved!Promise!Put
  <2>2. Proved!Promise!Close => Exec!Promise!Close
    BY SamePending DEF Exec!Promise!Close, Proved!Promise!Close
  <2>3. Proved!Promise!Ask => Exec!Promise!Ask
    BY SamePending DEF Exec!Promise!Ask, Proved!Promise!Ask
  <2>4. Proved!Promise!Get => Exec!Promise!Get
    BY SamePending DEF Exec!Promise!Get, Proved!Promise!Get
  <2>5. Proved!Promise!End => Exec!Promise!End
    BY SamePending DEF Exec!Promise!End, Proved!Promise!End
  <2>. QED
    BY <2>1, <2>2, <2>3, <2>4, <2>5 DEF Exec!Promise!Next, Proved!Promise!Next
<1>3. UNCHANGED Proved!Promise!vars => UNCHANGED Exec!Promise!vars
  BY SamePending DEF Exec!Promise!vars, Proved!Promise!vars
<1>. QED
  BY <1>1, <1>2, <1>3

\* The executor keeps its whole promise in its place between the main thread and
\* the UpperMac thread.
THEOREM EndOfStreamInPipeline == SpecBegun => OrderedOutputAndEnd
<1>1. InitBegun => Exec!Promise!Init
  BY SamePromise, SameInit, ProvedAssumptions, Proved!InitRefines
     DEF InitBegun, Proved!InitBegun, Proved!InitData, Proved!Promise!Init, Proved!Fifo!Init
<1>2. ExecutorInv /\ ExecutorInv' /\ [Next]_vars => [Exec!Promise!Next]_(Exec!Promise!vars)
  BY SamePromise, ExecutorStep, ProvedAssumptions, Proved!StepRefinesPromise DEF ExecutorInv
<1>. QED
  BY <1>1, <1>2, ExecutorInvariance, PTL
     DEF SpecBegun, OrderedOutputAndEnd, Exec!OrderedOutputAndEnd, Exec!Promise!Spec

-----------------------------------------------------------------------------
(* The stages and their chain of flags.                                    *)

Element == Nat \X Nat

\* TypeOK without the executor.
StageTypes ==
    /\ BorzoiQueue!TypeOK(Element)
    /\ main \in {"loop", "read", "decode", "joinBorzoi", "joinUpper", "joinWorkers", "exited"}
    /\ stop \in BOOLEAN
    /\ upper \in {"loop", "get", "push", "empty", "forward", "done"}
    /\ outbox \in Seq(Element)
    /\ borzoi_sender_termination_flag_ \in BOOLEAN
    /\ borzoi \in {"loop", "get", "empty", "done"}
    /\ bursts \in Seq(Work)
    /\ sent \in Seq(Element)

\* What the UpperMac thread has seen when it leaves its loop.
UpperChain ==
    /\ upper # "push" => outbox = <<>>
    /\ upper \in {"empty", "forward", "done"} => output_termination_flag_
    /\ upper \in {"forward", "done"} => DOMAIN output_map_ = {}
    /\ borzoi_sender_termination_flag_ => upper = "done"

\* What the BorzoiSender thread has seen when it leaves its loop.
BorzoiChain ==
    /\ borzoi \in {"empty", "done"} => borzoi_sender_termination_flag_
    /\ borzoi = "done" => queue_ = <<>>

\* The bursts are counted by the executor; a result has an index.
Counted ==
    /\ Len(bursts) = input_counter_
    /\ result # {} => output_counter_ > 0

PInv == ExecutorInv /\ StageTypes /\ UpperChain /\ BorzoiChain /\ Counted

\* What the proofs below need to know of the executor.
LEMMA ExecutorTypes ==
  ASSUME ExecutorInv
  PROVE  /\ Exec!TypeOK
         /\ input_counter_ \in Nat /\ output_counter_ \in Nat /\ result \in SUBSET Work
         /\ output_termination_flag_ => \A t \in Workers : pc[t] = "done"
BY DEF ExecutorInv, Proved!IInv, Proved!TypeOK, Exec!TypeOK, Exec!Item, Proved!Item,
       Exec!WorkerPC, Proved!WorkerPC, Exec!GetPC, Proved!GetPC, Proved!PropagatedByLastWorker

LEMMA ElementsTyped ==
  ASSUME NEW i \in Nat, NEW b \in Work
  PROVE  ElementsOf(i, b) \in Seq(Element)
<1> DEFINE n == Outputs[b]
<1>1. n \in Nat
  BY OutputsAssumption
<1>2. \A k \in 1 .. n : <<i, k>> \in Element
  BY <1>1 DEF Element
<1>3. ElementsOf(i, b) = [k \in 1 .. n |-> <<i, k>>]
  BY DEF ElementsOf
<1>. QED
  BY <1>1, <1>2, <1>3

LEMMA InitPInv == InitBegun /\ ExecutorInv => PInv
BY EmptySeq
   DEF InitBegun, InitStages, Exec!InitBegun, Exec!InitData, BorzoiQueue!Init, PInv, StageTypes,
       UpperChain, BorzoiChain, Counted, BorzoiQueue!TypeOK

\* The main thread changes nothing of the stages behind the executor.
LEMMA MainPreserves ==
  ASSUME PInv,
         \/ \E b \in Work : MainQueueWork(b)
         \/ MainSteps \/ MainInput \/ Sigint \/ Exited
  PROVE  StageTypes' /\ UpperChain' /\ BorzoiChain' /\ Counted'
<1> USE DEF PInv, StageTypes, UpperChain, BorzoiChain, Counted, BorzoiQueue!TypeOK,
            execVars, fifoVars, upperVars, borzoiVars, MainUnchanged
<1>1. ASSUME NEW b \in Work, MainQueueWork(b) PROVE StageTypes' /\ UpperChain' /\ BorzoiChain' /\ Counted'
  <2>1. /\ bursts' = Append(bursts, b) /\ input_counter_' = input_counter_ + 1
        /\ UNCHANGED <<output_map_, output_counter_, result, output_termination_flag_>>
    BY <1>1 DEF MainQueueWork, Exec!QueueWork, Exec!outputVars, Exec!flagVars
  <2>2. bursts' \in Seq(Work) /\ Len(bursts') = Len(bursts) + 1
    BY <2>1
  <2>. QED
    BY <1>1, <2>1, <2>2 DEF MainQueueWork
<1>2. CASE MainLeave
  BY <1>2 DEF MainLeave, Exec!Terminate, Exec!inputVars, Exec!outputVars
<1>3. CASE MainRead \/ MainDecoded \/ MainJoin
  BY <1>3 DEF MainRead, MainDecoded, MainJoin
<1>4. CASE MainInput
  <2>1. /\ UNCHANGED <<bursts, execVars, fifoVars, upperVars, borzoiVars>>
        /\ main' \in {"decode", "loop"} /\ stop' \in BOOLEAN
    BY <1>4 DEF MainInput, MainReceive, MainEndOfInput
  <2>. QED
    BY <2>1
<1>5. CASE Sigint
  BY <1>5 DEF Sigint
<1>6. CASE Exited
  BY <1>6 DEF Exited, vars, mainVars
<1>. QED
  BY <1>1, <1>2, <1>3, <1>4, <1>5, <1>6 DEF MainSteps

\* A worker that still runs has not been seen to be done.
LEMMA WorkerKeeps ==
  ASSUME PInv, NEW t \in Workers, Worker(t)
  PROVE  StageTypes' /\ UpperChain' /\ BorzoiChain' /\ Counted'
<1>1. pc[t] # "done"
  BY DEF Worker, Exec!Worker, Exec!WorkerBegin, Exec!WorkerPop, Exec!WorkerBreak,
         Exec!WorkerMiss, Exec!WorkerTimeout, Exec!WorkerStore, Exec!WorkerEnd
<1>2. ~output_termination_flag_
  BY <1>1, ExecutorTypes DEF PInv
<1>3. UNCHANGED <<input_counter_, output_counter_, result, output_termination_flag_>>
  BY DEF Worker, Exec!Worker, Exec!WorkerBegin, Exec!WorkerPop, Exec!WorkerBreak,
         Exec!WorkerMiss, Exec!WorkerTimeout, Exec!WorkerStore, Exec!WorkerEnd,
         Exec!inputVars, Exec!outputVars, Exec!flagVars
<1>. QED
  BY <1>2, <1>3
     DEF PInv, StageTypes, UpperChain, BorzoiChain, Counted, BorzoiQueue!TypeOK, Worker,
         fifoVars, mainVars, upperVars, borzoiVars

\* The UpperMac thread: the flag it has seen stays raised, and what it found
\* empty stays empty, as all workers have ended.
LEMMA UpperPreserves ==
  ASSUME PInv, Upper
  PROVE  StageTypes' /\ UpperChain' /\ BorzoiChain' /\ Counted'
<1> USE DEF PInv, StageTypes, UpperChain, BorzoiChain, Counted, BorzoiQueue!TypeOK,
            execVars, fifoVars, mainVars, upperVars, borzoiVars, UpperUnchanged
<1>1. CASE UpperCall
  BY <1>1 DEF UpperCall, Exec!GetCall, Exec!inputVars, Exec!flagVars
<1>2. CASE UpperGet
  <2>1. upper = "get" /\ UNCHANGED <<upperVars, fifoVars, mainVars, borzoiVars, input_counter_>>
    BY <1>2 DEF UpperGet, Exec!GetHit, Exec!GetMiss, Exec!GetTimeout, Exec!GetNull,
                Exec!inputVars
  <2>2. result' # {} => output_counter_' > 0
    BY <1>2, ExecutorTypes DEF UpperGet, Exec!GetHit, Exec!GetMiss, Exec!GetTimeout, Exec!GetNull
  <2>. QED
    BY <2>1, <2>2
<1>3. CASE UpperProcess
  <2>1. PICK b \in result : outbox' = ElementsOf(output_counter_ - 1, b)
    BY <1>3 DEF UpperProcess
  <2>2. b \in Work /\ output_counter_ - 1 \in Nat /\ Outputs[b] \in Nat
    BY <2>1, ExecutorTypes, OutputsAssumption
  <2>3. outbox' \in Seq(Element)
    BY <2>1, <2>2, ElementsTyped
  <2>. QED
    BY <1>3, <2>3 DEF UpperProcess
<1>4. CASE UpperPush
  <2>1. /\ Head(outbox) \in Element /\ Tail(outbox) \in Seq(Element)
        /\ Append(queue_, Head(outbox)) \in Seq(Element)
    BY <1>4 DEF UpperPush
  <2>. QED
    BY <1>4, <2>1 DEF UpperPush, BorzoiQueue!PushBack
<1>5. CASE UpperProcessed
  BY <1>5 DEF UpperProcessed
<1>6. CASE UpperCheckFlag
  BY <1>6 DEF UpperCheckFlag
<1>7. CASE UpperCheckEmpty
  BY <1>7 DEF UpperCheckEmpty, Exec!Empty
<1>8. CASE UpperForward
  BY <1>8 DEF UpperForward
<1>. QED
  BY <1>1, <1>2, <1>3, <1>4, <1>5, <1>6, <1>7, <1>8 DEF Upper

\* The BorzoiSender thread: once it has seen the flag nothing is pushed any more.
LEMMA BorzoiPreserves ==
  ASSUME PInv, Borzoi
  PROVE  StageTypes' /\ UpperChain' /\ BorzoiChain' /\ Counted'
<1> USE DEF PInv, StageTypes, UpperChain, BorzoiChain, Counted, BorzoiQueue!TypeOK,
            execVars, fifoVars, mainVars, upperVars, borzoiVars, BorzoiUnchanged
<1>1. CASE BorzoiCall
  BY <1>1 DEF BorzoiCall, BorzoiQueue!Call
<1>2. CASE BorzoiGet
  <2>1. /\ queue_' \in Seq(Element) /\ fifo_get' \in {"idle", "find", "wait"}
        /\ element' \in SUBSET Element
    <3>1. CASE BorzoiQueue!Hit
      <4>1. Head(queue_) \in Element /\ Tail(queue_) \in Seq(Element)
        BY <3>1 DEF BorzoiQueue!Hit
      <4>. QED
        BY <3>1, <4>1 DEF BorzoiQueue!Hit
    <3>2. CASE BorzoiQueue!Miss \/ BorzoiQueue!Timeout
      BY <3>2 DEF BorzoiQueue!Miss, BorzoiQueue!Timeout
    <3>. QED
      BY <1>2, <3>1, <3>2 DEF BorzoiGet, BorzoiQueue!GetOrNull
  <2>2. borzoi = "get" /\ UNCHANGED <<execVars, mainVars, upperVars, borzoiVars>>
    BY <1>2 DEF BorzoiGet
  <2>. QED
    BY <2>1, <2>2
<1>3. CASE BorzoiSend
  <2>1. sent' \in Seq(Element)
    BY <1>3 DEF BorzoiSend
  <2>. QED
    BY <1>3, <2>1 DEF BorzoiSend
<1>4. CASE BorzoiCheckFlag
  BY <1>4 DEF BorzoiCheckFlag
<1>5. CASE BorzoiCheckEmpty
  BY <1>5 DEF BorzoiCheckEmpty, BorzoiQueue!Empty
<1>. QED
  BY <1>1, <1>2, <1>3, <1>4, <1>5 DEF Borzoi

LEMMA PInvPreserved == PInv /\ [Next]_vars => PInv'
<1> SUFFICES ASSUME PInv, [Next]_vars PROVE PInv'
  OBVIOUS
<1>1. ExecutorInv'
  BY ExecutorInvPreserved DEF PInv
<1>2. CASE \/ \E b \in Work : MainQueueWork(b)
           \/ MainSteps \/ MainInput \/ Sigint \/ Exited
  BY <1>1, <1>2, MainPreserves DEF PInv
<1>3. ASSUME NEW t \in Workers, Worker(t) PROVE PInv'
  BY <1>1, <1>3, WorkerKeeps DEF PInv
<1>4. CASE Upper
  BY <1>1, <1>4, UpperPreserves DEF PInv
<1>5. CASE Borzoi
  BY <1>1, <1>5, BorzoiPreserves DEF PInv
<1>6. CASE UNCHANGED vars
  BY <1>1, <1>6
     DEF PInv, StageTypes, UpperChain, BorzoiChain, Counted, BorzoiQueue!TypeOK, vars, execVars,
         fifoVars, mainVars, upperVars, borzoiVars
<1>. QED
  BY <1>2, <1>3, <1>4, <1>5, <1>6 DEF Next

\* The conjunction from which the theorems below follow is an invariant.
THEOREM PipelineInvariance == SpecBegun => []PInv
<1>1. SpecBegun => InitBegun /\ [][Next]_vars
  BY DEF SpecBegun
<1>2. SpecBegun => []ExecutorInv
  BY ExecutorInvariance
<1>. QED
  BY <1>1, <1>2, InitPInv, PInvPreserved, PTL

\* The queues, flags and places of all threads have their types.
THEOREM TypeCorrect == SpecBegun => []TypeOK
<1>1. PInv => TypeOK
  BY ExecutorTypes DEF PInv, StageTypes, TypeOK, Element
<1>. QED
  BY <1>1, PipelineInvariance, PTL

\* No thread ends before the threads it gets its data from, nor with data left
\* in its queue.
THEOREM StagesEndInOrderCorrect == SpecBegun => []StagesEndInOrder
<1>1. PInv => StagesEndInOrder
  BY ExecutorTypes DEF PInv, UpperChain, BorzoiChain, StagesEndInOrder
<1>. QED
  BY <1>1, PipelineInvariance, PTL

LEMMA FlagFinished ==
  ASSUME PInv, borzoi_sender_termination_flag_
  PROVE  /\ input_termination_flag_ /\ output_counter_ = Len(bursts) /\ outbox = <<>>
         /\ upper = "done"
<1>1. upper = "done" /\ output_termination_flag_ /\ DOMAIN output_map_ = {} /\ outbox = <<>>
  BY DEF PInv, UpperChain
<1>2. input_termination_flag_ /\ Proved!Owed = DOMAIN output_map_
  BY <1>1, ExecutorTypes, ProvedAssumptions, Proved!DrainedWhenDone DEF PInv, ExecutorInv
<1>3. ~(output_counter_ <= input_counter_ - 1)
  BY <1>1, <1>2, ExecutorTypes DEF Proved!Owed, PInv
<1>4. output_counter_ <= input_counter_
  BY DEF PInv, ExecutorInv, Proved!IInv, Proved!TypeOK, Proved!OnePlace, Proved!QueueInOrder,
         Proved!FrontIndex
<1>. QED
  BY <1>1, <1>2, <1>3, <1>4, ExecutorTypes DEF PInv, Counted

\* The flag that the UpperMac thread forwards means that every burst has been
\* handed to it and that it has pushed all that it made of them.
THEOREM FlagCorrect == SpecBegun => []FlagMeansFinished
<1>1. PInv => FlagMeansFinished
  BY FlagFinished DEF FlagMeansFinished
<1>. QED
  BY <1>1, PipelineInvariance, PTL

-----------------------------------------------------------------------------
(* The elements owed for the first n bursts: what the recursion computes.  *)

\* Induction, as a fact about sets of numbers.
LEMMA LeastNumber ==
  ASSUME NEW S, S \subseteq Nat, S # {}
  PROVE  \E m \in S : \A k \in S : m <= k
<1>1. PICK m \in S : \A k \in S : ~(<<k, m>> \in OpToRel(<, Nat))
  BY NatLessThanWellFounded, WFMin
<1>2. \A k \in S : ~(k < m)
  BY <1>1 DEF OpToRel
<1>. QED
  BY <1>2

\* The function in ElementsOfFirst(n), and its value, for the bursts s.
Enumerates(first, s, n) ==
    first = [k \in 0 .. n |->
                IF k = 0 THEN <<>> ELSE first[k - 1] \o ElementsOf(k - 1, s[k])]

Elements(s, n) == (CHOOSE first : Enumerates(first, s, n))[n]

LEMMA FirstIsElements == \A n : ElementsOfFirst(n) = Elements(bursts, n)
BY DEF ElementsOfFirst, Enumerates, Elements

LEMMA EnumerationValues ==
  ASSUME NEW n \in Nat, NEW s, NEW f, Enumerates(f, s, n)
  PROVE  /\ f[0] = <<>>
         /\ \A k \in 1 .. n : f[k] = f[k - 1] \o ElementsOf(k - 1, s[k])
<1>. DEFINE Value(k) == IF k = 0 THEN <<>> ELSE f[k - 1] \o ElementsOf(k - 1, s[k])
<1>1. f = [k \in 0 .. n |-> Value(k)]
  BY DEF Enumerates
<1>. HIDE DEF Value
<1>2. \A k \in 0 .. n : f[k] = Value(k)
  BY <1>1
<1>3. Value(0) = <<>>
  BY DEF Value
<1>4. ASSUME NEW k \in 1 .. n
      PROVE  k \in 0 .. n /\ Value(k) = f[k - 1] \o ElementsOf(k - 1, s[k])
  <2>1. k \in 0 .. n /\ k # 0
    OBVIOUS
  <2>. QED
    BY <2>1 DEF Value
<1>5. 0 \in 0 .. n
  OBVIOUS
<1>. QED
  BY <1>2, <1>3, <1>4, <1>5

LEMMA EnumerationExists ==
  ASSUME NEW s \in Seq(Work), NEW n \in 0 .. Len(s)
  PROVE  \E f \in [0 .. n -> Seq(Element)] : Enumerates(f, s, n)
<1>. DEFINE Has(m) == \E f \in [0 .. m -> Seq(Element)] : Enumerates(f, s, m)
            Without == {m \in 0 .. Len(s) : ~Has(m)}
<1>. SUFFICES ASSUME Without # {} PROVE FALSE
  OBVIOUS
<1>1. PICK m \in Without : \A k \in Without : m <= k
  <2>1. Without \subseteq Nat
    BY EmptySeq
  <2>. HIDE DEF Without
  <2>. QED
    BY <2>1, LeastNumber
<1>2. CASE m = 0
  <2>. DEFINE f == [k \in 0 .. 0 |-> <<>>]
  <2>1. f \in [0 .. 0 -> Seq(Element)]
    OBVIOUS
  <2>2. Enumerates(f, s, 0)
    BY DEF Enumerates
  <2>. QED
    BY <1>1, <1>2, <2>1, <2>2
<1>3. CASE m > 0
  <2>1. m \in 1 .. Len(s) /\ m - 1 \in 0 .. Len(s) /\ Len(s) \in Nat
    BY <1>3
  <2>2. Has(m - 1)
    <3>1. m - 1 \notin Without
      <4>. HIDE DEF Without
      <4>. QED
        BY <1>1, <2>1
    <3>. HIDE DEF Has
    <3>. QED
      BY <2>1, <3>1
  <2>3. PICK f \in [0 .. m - 1 -> Seq(Element)] : Enumerates(f, s, m - 1)
    BY <2>2
  <2>. DEFINE last == f[m - 1] \o ElementsOf(m - 1, s[m])
              g == [k \in 0 .. m |-> IF k = m THEN last ELSE f[k]]
  <2>4. last \in Seq(Element)
    <3>1. s[m] \in Work /\ f[m - 1] \in Seq(Element) /\ m - 1 \in Nat
      BY <2>1
    <3>2. ElementsOf(m - 1, s[m]) \in Seq(Element)
      BY <3>1, ElementsTyped
    <3>. QED
      BY <3>1, <3>2
  <2>5. g \in [0 .. m -> Seq(Element)]
    <3>1. \A k \in 0 .. m : k # m => k \in 0 .. m - 1
      BY <2>1
    <3>. HIDE DEF last
    <3>. QED
      BY <2>4, <3>1
  <2>6. Enumerates(g, s, m)
    <3>. DEFINE Value(k) == IF k = 0 THEN <<>> ELSE g[k - 1] \o ElementsOf(k - 1, s[k])
    <3>1. ASSUME NEW k \in 0 .. m PROVE g[k] = Value(k)
      <4>1. f[0] = <<>> /\ \A j \in 1 .. m - 1 : f[j] = f[j - 1] \o ElementsOf(j - 1, s[j])
        BY <2>1, <2>3, EnumerationValues
      <4>2. CASE k = 0
        BY <2>1, <4>1, <4>2
      <4>3. CASE k = m
        <5>1. g[k] = last /\ k # 0 /\ g[k - 1] = f[m - 1]
          BY <2>1, <4>3
        <5>. QED
          BY <4>3, <5>1
      <4>4. CASE k # 0 /\ k # m
        <5>1. k \in 1 .. m - 1 /\ g[k] = f[k] /\ g[k - 1] = f[k - 1]
          BY <2>1, <4>4
        <5>. QED
          BY <4>1, <4>4, <5>1
      <4>. QED
        BY <4>2, <4>3, <4>4
    <3>2. g = [k \in 0 .. m |-> g[k]]
      OBVIOUS
    <3>3. g = [k \in 0 .. m |-> Value(k)]
      <4>. HIDE DEF g, Value
      <4>. QED
        BY <3>1, <3>2
    <3>. QED
      BY <3>3 DEF Enumerates
  <2>. HIDE DEF g
  <2>. QED
    BY <1>1, <2>5, <2>6
<1>. QED
  BY <1>1, <1>2, <1>3

\* Bursts that agree have the same elements.
LEMMA EnumerationsAgree ==
  ASSUME NEW s, NEW t, NEW n \in Nat, NEW m \in Nat, n <= m,
         \A k \in 1 .. n : s[k] = t[k],
         NEW f, Enumerates(f, s, n), NEW g, Enumerates(g, t, m)
  PROVE  \A k \in 0 .. n : f[k] = g[k]
<1>. DEFINE Differ == {k \in 0 .. n : f[k] # g[k]}
<1>. SUFFICES ASSUME Differ # {} PROVE FALSE
  OBVIOUS
<1>1. PICK k \in Differ : \A j \in Differ : k <= j
  <2>1. Differ \subseteq Nat
    OBVIOUS
  <2>. HIDE DEF Differ
  <2>. QED
    BY <2>1, LeastNumber
<1>2. /\ f[0] = <<>> /\ \A j \in 1 .. n : f[j] = f[j - 1] \o ElementsOf(j - 1, s[j])
      /\ g[0] = <<>> /\ \A j \in 1 .. m : g[j] = g[j - 1] \o ElementsOf(j - 1, t[j])
  BY EnumerationValues
<1>3. k \in 1 .. n /\ k \in 1 .. m /\ k - 1 \in 0 .. n
  BY <1>1, <1>2
<1>4. f[k - 1] = g[k - 1]
  BY <1>1, <1>3
<1>. QED
  BY <1>1, <1>2, <1>3, <1>4

LEMMA ElementsValues ==
  ASSUME NEW s \in Seq(Work)
  PROVE  /\ Elements(s, 0) = <<>>
         /\ \A n \in 0 .. Len(s) : Elements(s, n) \in Seq(Element)
         /\ \A n \in 1 .. Len(s) : Elements(s, n) = Elements(s, n - 1) \o ElementsOf(n - 1, s[n])
<1>. DEFINE F(n) == CHOOSE first : Enumerates(first, s, n)
<1>1. ASSUME NEW n \in 0 .. Len(s)
      PROVE  Enumerates(F(n), s, n) /\ F(n) \in [0 .. n -> Seq(Element)]
  <2>1. PICK f \in [0 .. n -> Seq(Element)] : Enumerates(f, s, n)
    BY EnumerationExists
  <2>2. Enumerates(F(n), s, n)
    BY <2>1
  <2>3. \A k \in 0 .. n : f[k] = F(n)[k]
    BY <2>1, <2>2, EnumerationsAgree
  <2>4. F(n) = [k \in 0 .. n |-> F(n)[k]]
    <3>. HIDE DEF F
    <3>. QED
      BY <2>2 DEF Enumerates
  <2>. HIDE DEF F
  <2>. QED
    BY <2>1, <2>2, <2>3, <2>4
<1>2. \A n : Elements(s, n) = F(n)[n]
  BY DEF Elements
<1>. HIDE DEF F
<1>3. Len(s) \in Nat
  OBVIOUS
<1>4. Elements(s, 0) = <<>>
  <2>1. Enumerates(F(0), s, 0)
    BY <1>1, <1>3
  <2>. QED
    BY <1>2, <2>1, EnumerationValues
<1>5. \A n \in 0 .. Len(s) : Elements(s, n) \in Seq(Element)
  BY <1>1, <1>2
<1>6. ASSUME NEW n \in 1 .. Len(s)
      PROVE  Elements(s, n) = Elements(s, n - 1) \o ElementsOf(n - 1, s[n])
  <2>1. n - 1 \in 0 .. Len(s) /\ n - 1 \in Nat /\ n \in Nat /\ n \in 0 .. Len(s)
    BY <1>3
  <2>2. Enumerates(F(n), s, n) /\ Enumerates(F(n - 1), s, n - 1)
    BY <1>1, <2>1
  <2>3. \A k \in 0 .. n - 1 : F(n - 1)[k] = F(n)[k]
    BY <2>1, <2>2, EnumerationsAgree
  <2>4. F(n)[n] = F(n)[n - 1] \o ElementsOf(n - 1, s[n])
    <3>1. \A k \in 1 .. n : F(n)[k] = F(n)[k - 1] \o ElementsOf(k - 1, s[k])
      BY <2>1, <2>2, EnumerationValues
    <3>2. n \in 1 .. n
      BY <2>1
    <3>. QED
      BY <3>1, <3>2
  <2>5. F(n - 1)[n - 1] = F(n)[n - 1]
    BY <2>1, <2>3
  <2>6. Elements(s, n) = F(n)[n] /\ Elements(s, n - 1) = F(n - 1)[n - 1]
    BY <1>2
  <2>. QED
    BY <2>4, <2>5, <2>6
<1>. QED
  BY <1>4, <1>5, <1>6

LEMMA EnumerationsSame ==
  ASSUME NEW s, NEW t, NEW n \in Nat, \A k \in 1 .. n : s[k] = t[k],
         \E f : Enumerates(f, s, n), \E g : Enumerates(g, t, n)
  PROVE  Elements(s, n) = Elements(t, n)
<1>1. PICK F : F = CHOOSE first : Enumerates(first, s, n)
  OBVIOUS
<1>2. PICK G : G = CHOOSE first : Enumerates(first, t, n)
  OBVIOUS
<1>3. Enumerates(F, s, n)
  BY <1>1
<1>4. Enumerates(G, t, n)
  BY <1>2
<1>5. n <= n /\ n \in 0 .. n
  OBVIOUS
<1>6. \A k \in 0 .. n : F[k] = G[k]
  BY <1>3, <1>4, <1>5, EnumerationsAgree
<1>. QED
  BY <1>1, <1>2, <1>5, <1>6 DEF Elements

\* A burst that is found later adds to what is owed, and changes none of it.
LEMMA ElementsKept ==
  ASSUME NEW s \in Seq(Work), NEW b \in Work, NEW n \in 0 .. Len(s)
  PROVE  Elements(Append(s, b), n) = Elements(s, n)
<1>1. /\ Append(s, b) \in Seq(Work) /\ n \in 0 .. Len(Append(s, b)) /\ n \in Nat
      /\ \A k \in 1 .. n : Append(s, b)[k] = s[k]
  OBVIOUS
<1>2. (\E f : Enumerates(f, s, n)) /\ (\E g : Enumerates(g, Append(s, b), n))
  BY <1>1, EnumerationExists
<1>. QED
  BY <1>1, <1>2, EnumerationsSame

LEMMA ElementsGrow ==
  ASSUME NEW s \in Seq(Work), NEW n \in 0 .. Len(s)
  PROVE  \E u \in Seq(Element) : Elements(s, Len(s)) = Elements(s, n) \o u
<1>. DEFINE Grows(m) == \E u \in Seq(Element) : Elements(s, m) = Elements(s, n) \o u
            Not == {m \in n .. Len(s) : ~Grows(m)}
<1>0. Len(s) \in Nat /\ n \in Nat
  OBVIOUS
<1>. SUFFICES ASSUME Not # {} PROVE FALSE
  <2>1. Not = {} => Grows(Len(s))
    <3>. HIDE DEF Grows
    <3>. QED
      BY <1>0
  <2>. QED
    BY <2>1
<1>1. PICK m \in Not : \A k \in Not : m <= k
  <2>1. Not \subseteq Nat
    BY <1>0
  <2>. QED
    BY <2>1, LeastNumber
<1>2. CASE m = n
  <2>1. Elements(s, n) \in Seq(Element) /\ <<>> \in Seq(Element)
    BY ElementsValues
  <2>2. Elements(s, n) = Elements(s, n) \o <<>>
    BY <2>1, ConcatEmptySeq
  <2>. QED
    BY <1>1, <1>2, <2>1, <2>2
<1>3. CASE m # n
  <2>1. m \in 1 .. Len(s) /\ m - 1 \in n .. Len(s) /\ m - 1 \in Nat
    BY <1>0, <1>3
  <2>2. Grows(m - 1)
    <3>1. m - 1 \notin Not
      <4>. HIDE DEF Not
      <4>. QED
        BY <1>1, <2>1
    <3>. HIDE DEF Grows
    <3>. QED
      BY <2>1, <3>1
  <2>3. PICK u \in Seq(Element) : Elements(s, m - 1) = Elements(s, n) \o u
    BY <2>2
  <2>4. s[m] \in Work
    BY <2>1
  <2>. DEFINE last == ElementsOf(m - 1, s[m])
  <2>5. last \in Seq(Element)
    BY <2>1, <2>4, ElementsTyped
  <2>6. Elements(s, n) \in Seq(Element)
    BY ElementsValues
  <2>7. (Elements(s, n) \o u) \o last = Elements(s, n) \o (u \o last)
    BY <2>5, <2>6, ConcatAssociative
  <2>8. u \o last \in Seq(Element)
    BY <2>5
  <2>9. Elements(s, m) = Elements(s, m - 1) \o last
    BY <2>1, ElementsValues
  <2>. QED
    BY <1>1, <2>3, <2>7, <2>8, <2>9
<1>. QED
  BY <1>2, <1>3

-----------------------------------------------------------------------------
(* What is on its way: between them, the stages hold exactly the elements  *)
(* of the bursts that were handed out and are not sent yet, in order.      *)

\* What follows the first n elements of a sequence.
After(s, n) == [k \in 1 .. Len(s) - n |-> s[n + k]]

\* What the executor owes is what was found last.
BurstsPending == Proved!Pending = After(bursts, output_counter_)

\* The UpperMac thread is in get_or_null(), or has the last burst handed out.
UpperHands ==
    /\ get # "idle" => upper = "get" /\ result = {}
    /\ upper = "get" /\ result # {} => result = {bursts[output_counter_]}

\* The BorzoiSender thread is in get_or_null(), or has an element to send.
BorzoiHands ==
    /\ fifo_get # "idle" => borzoi = "get" /\ element = {}
    /\ borzoi = "get" /\ element # {} => \E e \in Element : element = {e}
    /\ borzoi \in {"empty", "done"} => element = {}

Sending == IF borzoi = "get" /\ element # {} THEN <<CHOOSE e \in element : TRUE>> ELSE <<>>

\* How many bursts process() has made elements of.
Made == IF upper = "get" /\ result # {} THEN output_counter_ - 1 ELSE output_counter_

OnItsWay == ((sent \o Sending) \o queue_) \o outbox = Elements(bursts, Made)

\* The main thread joins the stages from the last one on.
Joined == main \in {"joinUpper", "joinWorkers", "exited"} => borzoi = "done"

FlowInv == BurstsPending /\ UpperHands /\ BorzoiHands /\ OnItsWay /\ Joined

LEMMA FlowTypes ==
  ASSUME PInv
  PROVE  /\ bursts \in Seq(Work) /\ Len(bursts) \in Nat
         /\ output_counter_ \in 0 .. Len(bursts) /\ Made \in 0 .. Len(bursts)
         /\ result # {} => output_counter_ \in 1 .. Len(bursts)
         /\ sent \in Seq(Element) /\ queue_ \in Seq(Element) /\ outbox \in Seq(Element)
<1>1. output_counter_ \in Nat /\ bursts \in Seq(Work) /\ Len(bursts) \in Nat
  BY ExecutorTypes DEF PInv, StageTypes
<1>2. output_counter_ <= input_counter_ /\ input_counter_ = Len(bursts)
  <2>1. output_counter_ <= input_counter_ - Len(input_queue_) /\ Len(input_queue_) \in Nat
    BY DEF PInv, ExecutorInv, Proved!IInv, Proved!TypeOK, Proved!OnePlace, Proved!QueueInOrder,
           Proved!FrontIndex
  <2>. QED
    BY <1>1, <2>1 DEF PInv, Counted
<1>3. result # {} => output_counter_ > 0
  BY DEF PInv, Counted
<1>. QED
  BY <1>1, <1>2, <1>3 DEF PInv, StageTypes, BorzoiQueue!TypeOK, Made

LEMMA SendingTyped == ASSUME BorzoiHands PROVE Sending \in Seq(Element)
<1>1. CASE borzoi = "get" /\ element # {}
  <2>1. PICK e \in Element : element = {e}
    BY <1>1 DEF BorzoiHands
  <2>2. Sending = <<e>>
    BY <1>1, <2>1 DEF Sending
  <2>. QED
    BY <2>2
<1>2. CASE ~(borzoi = "get" /\ element # {})
  BY <1>2 DEF Sending
<1>. QED
  BY <1>1, <1>2

\* The head of a sequence can be moved to the end of the one before it.
LEMMA MoveHead ==
  ASSUME NEW S, NEW a \in Seq(S), NEW b \in Seq(S), b # <<>>
  PROVE  a \o b = Append(a, Head(b)) \o Tail(b)
<1>1. /\ Head(b) \in S /\ Tail(b) \in Seq(S) /\ b = <<Head(b)>> \o Tail(b)
      /\ <<Head(b)>> \in Seq(S)
  OBVIOUS
<1>2. (a \o <<Head(b)>>) \o Tail(b) = a \o (<<Head(b)>> \o Tail(b))
  BY <1>1, ConcatAssociative
<1>3. Append(a, Head(b)) = a \o <<Head(b)>>
  BY <1>1, AppendIsConcat
<1>. QED
  BY <1>1, <1>2, <1>3

LEMMA AfterTyped ==
  ASSUME NEW s \in Seq(Work), NEW n \in 0 .. Len(s)
  PROVE  After(s, n) \in Seq(Work) /\ Len(After(s, n)) = Len(s) - n
<1>1. Len(s) - n \in Nat /\ \A k \in 1 .. Len(s) - n : s[n + k] \in Work
  <2>1. Len(s) \in Nat /\ n \in Nat
    OBVIOUS
  <2>2. ASSUME NEW k \in 1 .. Len(s) - n PROVE n + k \in 1 .. Len(s)
    BY <2>1
  <2>. QED
    BY <2>1, <2>2
<1>2. ASSUME NEW m \in Nat, NEW f, \A k \in 1 .. m : f[k] \in Work, f = [k \in 1 .. m |-> f[k]]
      PROVE  f \in Seq(Work) /\ Len(f) = m
  <2>1. f \in [1 .. m -> Work]
    BY <1>2
  <2>. QED
    BY <2>1
<1>3. ASSUME NEW k \in 1 .. Len(s) - n PROVE After(s, n)[k] \in Work
  BY <1>1 DEF After
<1>4. After(s, n) = [k \in 1 .. Len(s) - n |-> After(s, n)[k]]
  BY DEF After
<1>. QED
  BY <1>1, <1>2, <1>3, <1>4

LEMMA AfterAppend ==
  ASSUME NEW s \in Seq(Work), NEW n \in 0 .. Len(s), NEW b \in Work
  PROVE  After(Append(s, b), n) = Append(After(s, n), b)
<1>. DEFINE t == Append(s, b)
<1>1. t \in Seq(Work) /\ Len(t) = Len(s) + 1 /\ Len(s) \in Nat /\ n \in Nat
  OBVIOUS
<1>2. t[Len(s) + 1] = b /\ \A k \in 1 .. Len(s) : t[k] = s[k]
  OBVIOUS
<1>. HIDE DEF t
<1>3. /\ After(t, n) \in Seq(Work) /\ Len(After(t, n)) = Len(s) - n + 1
      /\ After(s, n) \in Seq(Work) /\ Len(After(s, n)) = Len(s) - n
  BY <1>1, AfterTyped
<1>4. ASSUME NEW k \in 1 .. Len(s) - n + 1
      PROVE  After(t, n)[k] = Append(After(s, n), b)[k]
  <2>1. After(t, n)[k] = t[n + k]
    BY <1>1 DEF After
  <2>2. CASE k = Len(s) - n + 1
    <3>1. n + k = Len(s) + 1
      BY <1>1, <2>2
    <3>2. Append(After(s, n), b)[Len(After(s, n)) + 1] = b
      BY <1>3
    <3>. QED
      BY <1>2, <1>3, <2>1, <2>2, <3>1, <3>2
  <2>3. CASE k # Len(s) - n + 1
    <3>1. k \in 1 .. Len(s) - n /\ n + k \in 1 .. Len(s)
      BY <1>1, <2>3
    <3>2. After(s, n)[k] = s[n + k]
      BY <3>1 DEF After
    <3>. QED
      BY <1>2, <1>3, <2>1, <3>1, <3>2
  <2>. QED
    BY <2>2, <2>3
<1>5. Append(After(s, n), b) \in Seq(Work) /\ Len(Append(After(s, n), b)) = Len(s) - n + 1
  BY <1>3
<1>6. After(t, n) = Append(After(s, n), b)
  BY <1>3, <1>4, <1>5, SeqEqual
<1>. QED
  BY <1>6 DEF t

LEMMA AfterTail ==
  ASSUME NEW s \in Seq(Work), NEW n \in 0 .. Len(s), After(s, n) # <<>>
  PROVE  /\ n + 1 \in 1 .. Len(s)
         /\ Head(After(s, n)) = s[n + 1]
         /\ Tail(After(s, n)) = After(s, n + 1)
<1>1. /\ After(s, n) \in Seq(Work) /\ Len(After(s, n)) = Len(s) - n
      /\ Len(s) \in Nat /\ n \in Nat
  BY AfterTyped
<1>2. n + 1 \in 1 .. Len(s)
  BY <1>1
<1>3. Head(After(s, n)) = s[n + 1]
  <2>1. Head(After(s, n)) = After(s, n)[1] /\ 1 \in 1 .. Len(s) - n
    BY <1>1, <1>2
  <2>. QED
    BY <2>1 DEF After
<1>4. /\ Tail(After(s, n)) \in Seq(Work) /\ Len(Tail(After(s, n))) = Len(s) - n - 1
      /\ \A k \in 1 .. Len(s) - n - 1 : Tail(After(s, n))[k] = After(s, n)[k + 1]
  BY <1>1, <1>2, HeadTailProperties
<1>5. n + 1 \in 0 .. Len(s) /\ Len(s) - (n + 1) = Len(s) - n - 1
  BY <1>1, <1>2
<1>6. After(s, n + 1) \in Seq(Work) /\ Len(After(s, n + 1)) = Len(s) - n - 1
  BY <1>5, AfterTyped
<1>7. ASSUME NEW k \in 1 .. Len(s) - n - 1
      PROVE  Tail(After(s, n))[k] = After(s, n + 1)[k]
  <2>1. k + 1 \in 1 .. Len(s) - n /\ k \in 1 .. Len(s) - (n + 1) /\ n + (k + 1) = (n + 1) + k
    BY <1>1
  <2>2. After(s, n)[k + 1] = s[n + (k + 1)]
    BY <2>1 DEF After
  <2>3. After(s, n + 1)[k] = s[(n + 1) + k]
    BY <2>1 DEF After
  <2>. QED
    BY <1>4, <2>1, <2>2, <2>3
<1>. QED
  BY <1>2, <1>3, <1>4, <1>6, <1>7, SeqEqual

\* A step of which the stages behind the executor see nothing.
LEMMA FlowRests ==
  ASSUME FlowInv, Proved!Pending' = Proved!Pending,
         UNCHANGED <<bursts, output_counter_, get, result, upper, outbox, fifo_get, element,
                     queue_, borzoi, sent>>
  PROVE  BurstsPending' /\ UpperHands' /\ BorzoiHands' /\ OnItsWay'
<1>1. Sending' = Sending /\ Made' = Made
  BY DEF Sending, Made
<1>. QED
  BY <1>1 DEF FlowInv, BurstsPending, UpperHands, BorzoiHands, OnItsWay

LEMMA ExecutorRests ==
  ASSUME ExecutorInv, ExecutorInv',
         UNCHANGED <<input_queue_, input_counter_, output_map_, output_counter_, work>>
  PROVE  Proved!Pending' = Proved!Pending
BY ProvedAssumptions, Proved!ControlKeeps DEF ExecutorInv

LEMMA QueueWorkFlow ==
  ASSUME PInv, PInv', FlowInv, NEW b \in Work, MainQueueWork(b)
  PROVE  FlowInv'
<1>1. /\ bursts' = Append(bursts, b) /\ Proved!QueueWork(b) /\ main = "decode" /\ main' = main
      /\ UNCHANGED <<output_counter_, get, result, upper, outbox, fifo_get, element, queue_,
                     borzoi, sent>>
  BY SameProducer
     DEF MainQueueWork, Exec!QueueWork, Exec!outputVars, fifoVars, upperVars, borzoiVars
<1>2. Proved!Pending' = Append(Proved!Pending, b)
  BY <1>1, ProvedAssumptions, Proved!QueueWorkPuts DEF PInv, ExecutorInv
<1>3. /\ bursts \in Seq(Work) /\ Len(bursts) \in Nat /\ Made \in 0 .. Len(bursts)
      /\ output_counter_ \in 0 .. Len(bursts)
      /\ result # {} => output_counter_ \in 1 .. Len(bursts)
  BY FlowTypes
<1>4. /\ Len(bursts') = Len(bursts) + 1 /\ bursts'[Len(bursts) + 1] = b
      /\ \A k \in 1 .. Len(bursts) : bursts'[k] = bursts[k]
  BY <1>1, <1>3
<1>5. BurstsPending'
  BY <1>1, <1>2, <1>3, AfterAppend DEF FlowInv, BurstsPending
<1>6. UpperHands'
  BY <1>1, <1>3, <1>4 DEF FlowInv, UpperHands
<1>7. OnItsWay'
  <2>1. Sending' = Sending /\ Made' = Made
    BY <1>1 DEF Sending, Made
  <2>2. Elements(bursts', Made) = Elements(bursts, Made)
    BY <1>1, <1>3, ElementsKept
  <2>. QED
    BY <1>1, <2>1, <2>2 DEF FlowInv, OnItsWay
<1>. QED
  BY <1>1, <1>5, <1>6, <1>7 DEF FlowInv, BorzoiHands, Joined

LEMMA MainFlow ==
  ASSUME PInv, PInv', FlowInv, MainSteps \/ MainInput \/ Sigint \/ Exited
  PROVE  FlowInv'
<1>1. /\ UNCHANGED <<bursts, output_counter_, get, result, upper, outbox, fifo_get, element,
                     queue_, borzoi, sent>>
      /\ UNCHANGED <<input_queue_, input_counter_, output_map_, output_counter_, work>>
      /\ Joined'
  <2>. USE DEF execVars, fifoVars, upperVars, borzoiVars, mainVars, MainUnchanged, Joined, FlowInv
  <2>1. CASE MainLeave
    BY <2>1 DEF MainLeave, Exec!Terminate, Exec!inputVars, Exec!outputVars, Exec!workerVars
  <2>2. CASE MainRead \/ MainDecoded \/ MainJoin
    BY <2>2 DEF MainRead, MainDecoded, MainJoin
  <2>3. CASE MainInput
    BY <2>3 DEF MainInput, MainReceive, MainEndOfInput
  <2>4. CASE Sigint
    BY <2>4 DEF Sigint
  <2>5. CASE Exited
    BY <2>5 DEF Exited, vars
  <2>. QED
    BY <2>1, <2>2, <2>3, <2>4, <2>5 DEF MainSteps
<1>. QED
  BY <1>1, FlowRests, ExecutorRests DEF PInv, FlowInv

LEMMA WorkerFlow ==
  ASSUME PInv, PInv', FlowInv, NEW t \in Workers, Worker(t)
  PROVE  FlowInv'
<1>1. Proved!Worker(t)
  BY SameWorker DEF Worker
<1>2. /\ UNCHANGED <<bursts, output_counter_, get, result, upper, outbox, fifo_get, element,
                     queue_, borzoi, sent>>
      /\ Joined'
  BY DEF Worker, Exec!Worker, Exec!WorkerBegin, Exec!WorkerPop, Exec!WorkerBreak,
         Exec!WorkerMiss, Exec!WorkerTimeout, Exec!WorkerStore, Exec!WorkerEnd,
         Exec!inputVars, Exec!outputVars, Exec!flagVars, fifoVars, mainVars, upperVars,
         borzoiVars, FlowInv, Joined
<1>3. Proved!Pending' = Proved!Pending
  <2>1. Proved!IInv /\ Proved!IInv'
    BY DEF PInv, ExecutorInv
  <2>2. CASE Proved!WorkerPop(t)
    BY <2>1, <2>2, ProvedAssumptions, Proved!WorkerPopKeeps
  <2>3. CASE Proved!WorkerStore(t)
    BY <2>1, <2>3, ProvedAssumptions, Proved!WorkerStoreKeeps
  <2>4. CASE Proved!WorkerBegin(t) \/ Proved!WorkerBreak(t) \/ Proved!WorkerMiss(t)
             \/ Proved!WorkerTimeout(t) \/ Proved!WorkerEnd(t)
    <3>1. UNCHANGED <<input_queue_, input_counter_, output_map_, output_counter_, work>>
      BY <2>4 DEF Proved!WorkerBegin, Proved!WorkerBreak, Proved!WorkerMiss,
                  Proved!WorkerTimeout, Proved!WorkerEnd, Proved!inputVars, Proved!outputVars
    <3>. QED
      BY <2>1, <3>1, ProvedAssumptions, Proved!ControlKeeps
  <2>. QED
    BY <1>1, <2>2, <2>3, <2>4 DEF Proved!Worker
<1>. QED
  BY <1>2, <1>3, FlowRests DEF FlowInv

\* The burst that is handed out is the next one found, and it is on its way then.
LEMMA GetHitFlow ==
  ASSUME PInv, PInv', FlowInv, upper = "get", Exec!GetHit,
         UNCHANGED <<bursts, upper, outbox, fifo_get, element, queue_, borzoi, sent, main>>
  PROVE  FlowInv'
<1>1. /\ get # "idle" /\ get' = "idle" /\ output_counter_' = output_counter_ + 1
      /\ Proved!GetHit
  BY SameConsumer DEF Exec!GetHit
<1>2. /\ Proved!Pending # <<>> /\ result' = {Head(Proved!Pending)}
      /\ Proved!Pending' = Tail(Proved!Pending)
  BY <1>1, ProvedAssumptions, Proved!GetHitGets DEF PInv, ExecutorInv
<1>3. bursts \in Seq(Work) /\ output_counter_ \in 0 .. Len(bursts)
  BY FlowTypes
<1>4. Proved!Pending = After(bursts, output_counter_)
  BY DEF FlowInv, BurstsPending
<1>5. /\ Head(Proved!Pending) = bursts[output_counter_ + 1]
      /\ Tail(Proved!Pending) = After(bursts, output_counter_ + 1)
  BY <1>2, <1>3, <1>4, AfterTail
<1>6. result' = {bursts'[output_counter_']}
  BY <1>1, <1>2, <1>5
<1>7. BurstsPending'
  BY <1>1, <1>2, <1>5 DEF BurstsPending
<1>8. UpperHands'
  BY <1>1, <1>6 DEF UpperHands
<1>9. OnItsWay'
  <2>1. Made = output_counter_ /\ Made' = output_counter_ /\ Sending' = Sending
    BY <1>1, <1>3, <1>6 DEF FlowInv, UpperHands, Made, Sending
  <2>. QED
    BY <2>1 DEF FlowInv, OnItsWay
<1>. QED
  BY <1>7, <1>8, <1>9 DEF FlowInv, BorzoiHands, Joined

LEMMA AppendLast ==
  ASSUME NEW S, NEW a \in Seq(S), NEW b \in Seq(S), NEW e \in S
  PROVE  a \o Append(b, e) = Append(a \o b, e)
<1>1. <<e>> \in Seq(S) /\ a \o b \in Seq(S)
  OBVIOUS
<1>2. (a \o b) \o <<e>> = a \o (b \o <<e>>)
  BY <1>1, ConcatAssociative
<1>3. Append(b, e) = b \o <<e>> /\ Append(a \o b, e) = (a \o b) \o <<e>>
  BY <1>1, AppendIsConcat
<1>. QED
  BY <1>2, <1>3

\* The UpperMac thread takes a burst, makes its elements and pushes one by one.
LEMMA UpperFlow ==
  ASSUME PInv, PInv', FlowInv, Upper
  PROVE  FlowInv'
<1>0. /\ bursts \in Seq(Work) /\ output_counter_ \in 0 .. Len(bursts)
      /\ result # {} => output_counter_ \in 1 .. Len(bursts)
      /\ sent \in Seq(Element) /\ queue_ \in Seq(Element) /\ outbox \in Seq(Element)
      /\ Sending \in Seq(Element)
  BY FlowTypes, SendingTyped DEF FlowInv
<1>1. /\ UNCHANGED <<fifo_get, element, borzoi, sent, main, bursts>>
      /\ Sending' = Sending /\ BorzoiHands' /\ Joined'
  <2>1. UNCHANGED <<fifo_get, element, borzoi, sent, main, bursts>>
    BY DEF Upper, UpperCall, UpperGet, UpperProcess, UpperPush, UpperProcessed, UpperCheckFlag,
           UpperCheckEmpty, UpperForward, UpperUnchanged, BorzoiQueue!PushBack, fifoVars,
           mainVars, borzoiVars
  <2>. QED
    BY <2>1 DEF FlowInv, BorzoiHands, Joined, Sending
<1>2. ASSUME UNCHANGED <<execVars, queue_, outbox>>, Made' = Made, get = "idle", result = {} \/ upper' # "get"
      PROVE  FlowInv'
  <2>1. Proved!Pending' = Proved!Pending
    BY <1>2, ExecutorRests DEF PInv, execVars
  <2>. QED
    BY <1>1, <1>2, <2>1 DEF FlowInv, BurstsPending, UpperHands, OnItsWay, execVars
<1>3. CASE UpperCall
  <2>1. /\ upper = "loop" /\ upper' = "get" /\ get = "idle" /\ result' = {}
        /\ UNCHANGED <<input_queue_, input_counter_, output_map_, output_counter_, work>>
        /\ UNCHANGED <<queue_, outbox>>
    BY <1>3 DEF UpperCall, Exec!GetCall, Exec!inputVars, Exec!workerVars, UpperUnchanged,
                fifoVars
  <2>2. Proved!Pending' = Proved!Pending
    BY <2>1, ExecutorRests DEF PInv
  <2>3. Made' = Made
    BY <2>1 DEF Made
  <2>. QED
    BY <1>1, <2>1, <2>2, <2>3 DEF FlowInv, BurstsPending, UpperHands, OnItsWay
<1>4. CASE UpperGet
  <2>1. upper = "get" /\ UNCHANGED <<upper, outbox, queue_>>
    BY <1>4 DEF UpperGet, UpperUnchanged, upperVars, fifoVars
  <2>2. CASE Exec!GetHit
    BY <1>1, <2>1, <2>2, GetHitFlow
  <2>3. CASE Exec!GetMiss \/ Exec!GetTimeout \/ Exec!GetNull
    <3>1. /\ get # "idle"
          /\ UNCHANGED <<result, input_queue_, input_counter_, output_map_, output_counter_, work>>
      BY <2>3 DEF Exec!GetMiss, Exec!GetTimeout, Exec!GetNull, Exec!inputVars, Exec!workerVars
    <3>2. Proved!Pending' = Proved!Pending
      BY <3>1, ExecutorRests DEF PInv
    <3>3. Made' = Made /\ result = {}
      BY <2>1, <3>1 DEF Made, FlowInv, UpperHands
    <3>. QED
      BY <1>1, <2>1, <3>1, <3>2, <3>3 DEF FlowInv, BurstsPending, UpperHands, OnItsWay
  <2>. QED
    BY <1>4, <2>2, <2>3 DEF UpperGet
<1>5. CASE UpperProcess
  <2>1. PICK b \in result : outbox' = ElementsOf(output_counter_ - 1, b)
    BY <1>5 DEF UpperProcess
  <2>2. /\ upper = "get" /\ upper' = "push" /\ get = "idle"
        /\ UNCHANGED <<execVars, queue_>>
    BY <1>5 DEF UpperProcess, UpperUnchanged, fifoVars
  <2>3. b = bursts[output_counter_] /\ output_counter_ \in 1 .. Len(bursts) /\ outbox = <<>>
    BY <1>0, <2>1, <2>2 DEF FlowInv, UpperHands, PInv, UpperChain
  <2>4. Elements(bursts, output_counter_) = Elements(bursts, output_counter_ - 1) \o outbox'
    BY <1>0, <2>1, <2>3, ElementsValues
  <2>5. Made = output_counter_ - 1 /\ Made' = output_counter_
    BY <2>1, <2>2 DEF Made, execVars
  <2>6. (sent \o Sending) \o queue_ = Elements(bursts, output_counter_ - 1)
    <3>1. (sent \o Sending) \o queue_ \in Seq(Element)
      BY <1>0
    <3>2. ((sent \o Sending) \o queue_) \o <<>> = (sent \o Sending) \o queue_
      BY <3>1, ConcatEmptySeq
    <3>. QED
      BY <2>3, <2>5, <3>2 DEF FlowInv, OnItsWay
  <2>7. OnItsWay'
    BY <1>1, <2>2, <2>4, <2>5, <2>6 DEF OnItsWay
  <2>8. BurstsPending' /\ UpperHands'
    <3>1. Proved!Pending' = Proved!Pending
      BY <2>2, ExecutorRests DEF PInv, execVars
    <3>. QED
      BY <1>1, <2>2, <3>1 DEF FlowInv, BurstsPending, UpperHands, execVars
  <2>. QED
    BY <1>1, <2>7, <2>8 DEF FlowInv
<1>6. CASE UpperPush
  <2>1. /\ outbox # <<>> /\ outbox' = Tail(outbox) /\ queue_' = Append(queue_, Head(outbox))
        /\ upper' = upper /\ UNCHANGED execVars
    BY <1>6 DEF UpperPush, BorzoiQueue!PushBack
  <2>2. Head(outbox) \in Element /\ sent \o Sending \in Seq(Element)
    BY <1>0, <2>1
  <2>3. (sent \o Sending) \o queue_ \in Seq(Element)
    BY <1>0, <2>2
  <2>4. ((sent \o Sending) \o queue_) \o outbox
            = Append((sent \o Sending) \o queue_, Head(outbox)) \o Tail(outbox)
    BY <1>0, <2>1, <2>3, MoveHead
  <2>5. (sent \o Sending) \o queue_' = Append((sent \o Sending) \o queue_, Head(outbox))
    BY <1>0, <2>1, <2>2, AppendLast
  <2>6. Made' = Made
    BY <2>1 DEF Made, execVars
  <2>7. OnItsWay'
    BY <1>1, <2>1, <2>4, <2>5, <2>6 DEF FlowInv, OnItsWay
  <2>8. BurstsPending' /\ UpperHands'
    <3>1. Proved!Pending' = Proved!Pending
      BY <2>1, ExecutorRests DEF PInv, execVars
    <3>. QED
      BY <1>1, <2>1, <3>1 DEF FlowInv, BurstsPending, UpperHands, execVars
  <2>. QED
    BY <1>1, <2>7, <2>8 DEF FlowInv
<1>7. CASE UpperProcessed \/ UpperCheckEmpty \/ UpperForward
  <2>1. /\ upper # "get" /\ upper' # "get" /\ UNCHANGED <<execVars, queue_, outbox>>
    BY <1>7 DEF UpperProcessed, UpperCheckEmpty, UpperForward, UpperUnchanged, fifoVars
  <2>2. Made' = Made /\ get = "idle"
    BY <2>1 DEF Made, FlowInv, UpperHands, execVars
  <2>. QED
    BY <1>2, <2>1, <2>2
<1>8. CASE UpperCheckFlag
  <2>1. result = {} /\ get = "idle" /\ UNCHANGED <<execVars, queue_, outbox>>
    BY <1>8 DEF UpperCheckFlag, UpperUnchanged, fifoVars
  <2>2. Made' = Made
    BY <2>1 DEF Made, execVars
  <2>. QED
    BY <1>2, <2>1, <2>2
<1>. QED
  BY <1>3, <1>4, <1>5, <1>6, <1>7, <1>8 DEF Upper

\* The BorzoiSender thread takes the front of the queue and sends it.
LEMMA BorzoiFlow ==
  ASSUME PInv, PInv', FlowInv, Borzoi
  PROVE  FlowInv'
<1>0. /\ sent \in Seq(Element) /\ queue_ \in Seq(Element) /\ Sending \in Seq(Element)
  BY FlowTypes, SendingTyped DEF FlowInv
<1>1. UNCHANGED <<execVars, main, bursts, upper, outbox>> /\ borzoi # "done"
  BY DEF Borzoi, BorzoiCall, BorzoiGet, BorzoiSend, BorzoiCheckFlag, BorzoiCheckEmpty,
         BorzoiUnchanged, mainVars, upperVars
<1>2. BurstsPending' /\ UpperHands' /\ Joined' /\ Made' = Made
  <2>1. Proved!Pending' = Proved!Pending
    BY <1>1, ExecutorRests DEF PInv, execVars
  <2>. QED
    BY <1>1, <2>1 DEF FlowInv, BurstsPending, UpperHands, Joined, Made, execVars
<1>3. ASSUME BorzoiHands', (sent' \o Sending') \o queue_' = (sent \o Sending) \o queue_
      PROVE  FlowInv'
  BY <1>1, <1>2, <1>3 DEF FlowInv, OnItsWay
<1>4. CASE BorzoiCall
  <2>1. /\ borzoi = "loop" /\ borzoi' = "get" /\ fifo_get' = "find" /\ element' = {}
        /\ UNCHANGED <<sent, queue_>>
    BY <1>4 DEF BorzoiCall, BorzoiQueue!Call
  <2>2. Sending = <<>> /\ Sending' = <<>> /\ BorzoiHands'
    BY <2>1 DEF Sending, BorzoiHands
  <2>. QED
    BY <1>3, <2>1, <2>2
<1>5. CASE BorzoiGet
  <2>1. borzoi = "get" /\ UNCHANGED <<borzoi, sent>>
    BY <1>5 DEF BorzoiGet, borzoiVars
  <2>2. CASE BorzoiQueue!Hit
    <3>1. /\ queue_ # <<>> /\ queue_' = Tail(queue_) /\ element' = {Head(queue_)}
          /\ fifo_get' = "idle" /\ element = {}
      BY <2>2 DEF BorzoiQueue!Hit, FlowInv, BorzoiHands
    <3>2. Head(queue_) \in Element
      BY <1>0, <3>1
    <3>3. Sending = <<>> /\ Sending' = <<Head(queue_)>> /\ BorzoiHands'
      BY <2>1, <3>1, <3>2 DEF Sending, BorzoiHands
    <3>4. sent \o Sending = sent /\ sent' \o Sending' = Append(sent, Head(queue_))
      BY <1>0, <2>1, <3>2, <3>3, ConcatEmptySeq, AppendIsConcat
    <3>5. sent \o queue_ = Append(sent, Head(queue_)) \o Tail(queue_)
      BY <1>0, <3>1, MoveHead
    <3>. QED
      BY <1>3, <3>1, <3>3, <3>4, <3>5
  <2>3. CASE BorzoiQueue!Miss \/ BorzoiQueue!Timeout
    <3>1. fifo_get # "idle" /\ UNCHANGED <<queue_, element>>
      BY <2>3 DEF BorzoiQueue!Miss, BorzoiQueue!Timeout
    <3>2. Sending' = Sending /\ BorzoiHands'
      BY <2>1, <3>1 DEF Sending, FlowInv, BorzoiHands
    <3>. QED
      BY <1>3, <2>1, <3>1, <3>2
  <2>. QED
    BY <1>5, <2>2, <2>3 DEF BorzoiGet, BorzoiQueue!GetOrNull
<1>6. CASE BorzoiSend
  <2>1. PICK e \in element : sent' = Append(sent, e)
    BY <1>6 DEF BorzoiSend
  <2>2. borzoi = "get" /\ borzoi' = "loop" /\ fifo_get = "idle" /\ UNCHANGED <<queue_, fifo_get>>
    BY <1>6 DEF BorzoiSend, fifoVars
  <2>3. e \in Element /\ element = {e}
    BY <2>1, <2>2 DEF FlowInv, BorzoiHands
  <2>4. Sending = <<e>> /\ Sending' = <<>> /\ BorzoiHands'
    BY <2>2, <2>3 DEF Sending, BorzoiHands
  <2>5. sent \o Sending = sent' /\ sent' \o Sending' = sent'
    <3>1. sent' \in Seq(Element)
      BY <1>0, <2>1, <2>3
    <3>. QED
      BY <1>0, <2>1, <2>3, <2>4, <3>1, ConcatEmptySeq, AppendIsConcat
  <2>. QED
    BY <1>3, <2>2, <2>4, <2>5
<1>7. CASE BorzoiCheckFlag \/ BorzoiCheckEmpty
  <2>1. /\ (borzoi = "get" /\ fifo_get = "idle") \/ borzoi = "empty"
        /\ borzoi' \in {"empty", "loop", "done"} /\ UNCHANGED <<sent, queue_, fifo_get, element>>
    BY <1>7 DEF BorzoiCheckFlag, BorzoiCheckEmpty, fifoVars
  <2>2. element = {} /\ fifo_get = "idle"
    BY <1>7 DEF BorzoiCheckFlag, BorzoiCheckEmpty, FlowInv, BorzoiHands
  <2>3. Sending = <<>> /\ Sending' = <<>> /\ BorzoiHands'
    BY <2>1, <2>2 DEF Sending, BorzoiHands
  <2>. QED
    BY <1>3, <2>1, <2>3
<1>. QED
  BY <1>4, <1>5, <1>6, <1>7 DEF Borzoi

LEMMA InitFlow == InitBegun /\ PInv => FlowInv
<1> SUFFICES ASSUME InitBegun, PInv PROVE FlowInv
  OBVIOUS
<1>1. /\ bursts = <<>> /\ output_counter_ = 0 /\ get = "idle" /\ result = {} /\ upper = "loop"
      /\ outbox = <<>> /\ queue_ = <<>> /\ fifo_get = "idle" /\ element = {}
      /\ borzoi = "loop" /\ sent = <<>> /\ main = "loop"
  BY DEF InitBegun, InitStages, Exec!InitBegun, Exec!InitData, BorzoiQueue!Init
<1>2. BurstsPending
  <2>1. Proved!Pending = <<>>
    BY SameInit, ProvedAssumptions, Proved!InitRefines DEF InitBegun, Proved!InitBegun
  <2>2. After(<<>>, 0) = <<>>
    BY DEF After
  <2>. QED
    BY <1>1, <2>1, <2>2 DEF BurstsPending
<1>3. OnItsWay
  <2>1. <<>> \in Seq(Work)
    OBVIOUS
  <2>2. Elements(<<>>, 0) = <<>>
    BY <2>1, ElementsValues
  <2>3. Sending = <<>> /\ Made = 0
    BY <1>1 DEF Sending, Made
  <2>4. ((<<>> \o <<>>) \o <<>>) \o <<>> = <<>>
    OBVIOUS
  <2>. QED
    BY <1>1, <2>2, <2>3, <2>4 DEF OnItsWay
<1>. QED
  BY <1>1, <1>2, <1>3 DEF FlowInv, UpperHands, BorzoiHands, Joined

LEMMA FlowPreserved == PInv /\ PInv' /\ FlowInv /\ [Next]_vars => FlowInv'
<1> SUFFICES ASSUME PInv, PInv', FlowInv, [Next]_vars PROVE FlowInv'
  OBVIOUS
<1>1. ASSUME NEW b \in Work, MainQueueWork(b) PROVE FlowInv'
  BY <1>1, QueueWorkFlow
<1>2. CASE MainSteps \/ MainInput \/ Sigint \/ Exited
  BY <1>2, MainFlow
<1>3. ASSUME NEW t \in Workers, Worker(t) PROVE FlowInv'
  BY <1>3, WorkerFlow
<1>4. CASE Upper
  BY <1>4, UpperFlow
<1>5. CASE Borzoi
  BY <1>5, BorzoiFlow
<1>6. CASE UNCHANGED vars
  <2>1. /\ UNCHANGED <<bursts, output_counter_, get, result, upper, outbox, fifo_get, element,
                       queue_, borzoi, sent>>
        /\ UNCHANGED <<input_queue_, input_counter_, output_map_, output_counter_, work>>
        /\ Joined'
    BY <1>6 DEF vars, execVars, fifoVars, mainVars, upperVars, borzoiVars, FlowInv, Joined
  <2>. QED
    BY <2>1, FlowRests, ExecutorRests DEF PInv, FlowInv
<1>. QED
  BY <1>1, <1>2, <1>3, <1>4, <1>5, <1>6 DEF Next

\* What is sent, what is on its way in the stages and what the executor still
\* owes are, in this order, the elements of the bursts found.
THEOREM FlowInvariance == SpecBegun => [](PInv /\ FlowInv)
<1>1. SpecBegun => InitBegun /\ [][Next]_vars
  BY DEF SpecBegun
<1>. QED
  BY <1>1, PipelineInvariance, InitFlow, FlowPreserved, PTL

LEMMA PrefixOfConcat ==
  ASSUME NEW S, NEW s \in Seq(S), NEW u \in Seq(S)
  PROVE  IsPrefixOf(s, s \o u)
<1>1. Len(s \o u) = Len(s) + Len(u) /\ Len(s) \in Nat /\ Len(u) \in Nat
  OBVIOUS
<1>2. SubSeq(s \o u, 1, Len(s)) = s
  <2>1. /\ s \o u \in Seq(S) /\ SubSeq(s \o u, 1, Len(s)) \in Seq(S)
        /\ Len(SubSeq(s \o u, 1, Len(s))) = Len(s)
        /\ \A i \in 1 .. Len(s) : SubSeq(s \o u, 1, Len(s))[i] = (s \o u)[i]
        /\ \A i \in 1 .. Len(s) : (s \o u)[i] = s[i]
    BY <1>1
  <2>. QED
    BY <2>1, SeqEqual
<1>. QED
  BY <1>1, <1>2 DEF IsPrefixOf

LEMMA PrefixOfFive ==
  ASSUME NEW S, NEW a \in Seq(S), NEW b \in Seq(S), NEW c \in Seq(S), NEW d \in Seq(S),
         NEW e \in Seq(S)
  PROVE  IsPrefixOf(a, (((a \o b) \o c) \o d) \o e)
<1>. DEFINE bc == b \o c
            bd == bc \o d
<1>1. bc \in Seq(S) /\ (a \o b) \o c = a \o bc
  BY ConcatProperties, ConcatAssociative
<1>. HIDE DEF bc
<1>2. bd \in Seq(S) /\ (a \o bc) \o d = a \o bd
  BY <1>1, ConcatProperties, ConcatAssociative
<1>. HIDE DEF bd
<1>3. (a \o bd) \o e = a \o (bd \o e) /\ bd \o e \in Seq(S)
  BY <1>2, ConcatProperties, ConcatAssociative
<1>4. (((a \o b) \o c) \o d) \o e = a \o (bd \o e)
  BY <1>1, <1>2, <1>3, Zenon
<1>5. IsPrefixOf(a, a \o (bd \o e))
  BY <1>3, PrefixOfConcat
<1>. QED
  BY <1>4, <1>5

\* What is sent to Borzoi are the elements of the bursts in the order of the
\* bursts, none skipped and none sent twice: main queues, any number of workers
\* decode at their own pace, the UpperMac thread and the BorzoiSender thread
\* pass on one by one (main.cpp to borzoi_sender.cpp).
THEOREM SentInOrderCorrect == SpecBegun => []SentInOrder
<1>1. ASSUME PInv, FlowInv PROVE SentInOrder
  <2>1. /\ bursts \in Seq(Work) /\ Made \in 0 .. Len(bursts)
        /\ sent \in Seq(Element) /\ queue_ \in Seq(Element) /\ outbox \in Seq(Element)
        /\ Sending \in Seq(Element)
    BY <1>1, FlowTypes, SendingTyped DEF FlowInv
  <2>2. PICK u \in Seq(Element) : Elements(bursts, Len(bursts)) = Elements(bursts, Made) \o u
    BY <2>1, ElementsGrow
  <2>3. (((sent \o Sending) \o queue_) \o outbox) \o u = Elements(bursts, Len(bursts))
    BY <1>1, <2>2 DEF FlowInv, OnItsWay
  <2>4. IsPrefixOf(sent, (((sent \o Sending) \o queue_) \o outbox) \o u)
    <3>1. /\ sent \in Seq(Element) /\ Sending \in Seq(Element) /\ queue_ \in Seq(Element)
          /\ outbox \in Seq(Element) /\ u \in Seq(Element)
      BY <2>1, <2>2
    <3>. QED
      BY <3>1, PrefixOfFive
  <2>. QED
    BY <2>3, <2>4, FirstIsElements DEF SentInOrder
<1>. QED
  BY <1>1, FlowInvariance, PTL

\* When the program has exited, all elements of all bursts were sent: no stage
\* was joined with something on its way (decoder.cpp:79, upper_mac.cpp:57,
\* borzoi_sender.cpp).
THEOREM NothingLostCorrect == SpecBegun => []NothingLostAtExit
<1>1. ASSUME PInv, FlowInv, main = "exited" PROVE sent = Elements(bursts, Len(bursts))
  <2>1. borzoi = "done"
    BY <1>1 DEF FlowInv, Joined
  <2>2. borzoi_sender_termination_flag_ /\ queue_ = <<>>
    BY <1>1, <2>1 DEF PInv, BorzoiChain
  <2>3. output_counter_ = Len(bursts) /\ outbox = <<>> /\ upper = "done"
    BY <1>1, <2>2, FlagFinished
  <2>4. Made = Len(bursts) /\ Sending = <<>>
    BY <2>1, <2>3 DEF Made, Sending
  <2>5. sent \in Seq(Element)
    BY <1>1, FlowTypes
  <2>6. ((sent \o <<>>) \o <<>>) \o <<>> = sent
    BY <2>5, ConcatEmptySeq
  <2>. QED
    BY <1>1, <2>2, <2>3, <2>4, <2>6 DEF FlowInv, OnItsWay
<1>2. PInv /\ FlowInv => NothingLostAtExit
  BY <1>1, FirstIsElements DEF NothingLostAtExit
<1>. QED
  BY <1>2, FlowInvariance, PTL

=============================================================================
