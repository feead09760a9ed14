----------------------- MODULE OrderedExecutor_proofs -----------------------
(***************************************************************************)
(* Proofs about OrderedExecutor, for every number of workers, every set of *)
(* work and every bound on how much of it is queued.                       *)
(***************************************************************************)
EXTENDS OrderedExecutor, FiniteSetTheorems, SequenceTheorems, TLAPS

\* The inductive invariant.  OnePlace alone is not inductive: that a stored
\* result does not replace another one needs the type of the workers' hands,
\* and that no work is stranded when the last worker leaves needs
\* LeaveOnlyDrained.
IInv == TypeOK /\ AliveIsCounted /\ OnePlace /\ LeaveOnlyDrained

-----------------------------------------------------------------------------
(* The alive counter.                                                      *)

\* The empty sequence serves as the empty map.
LEMMA EmptyMapType == DOMAIN <<>> = {} /\ <<>> \in [{} -> Work]
OBVIOUS

\* The parts of the invariant that do not depend on whether the workers have
\* begun.
LEMMA InitDataType ==
  ASSUME InitData, alive_thread_count_ \in Nat, pc \in [Workers -> {"start", "check"}]
  PROVE  TypeOK /\ OnePlace /\ LeaveOnlyDrained
<1> USE DEF InitData
<1>1. TypeOK
  <2>1. input_queue_ \in Seq(Item)
    OBVIOUS
  <2>2. DOMAIN output_map_ \subseteq Nat /\ output_map_ \in [DOMAIN output_map_ -> Work]
    BY EmptyMapType
  <2>3. pc \in [Workers -> WorkerPC] /\ get \in GetPC
    BY DEF WorkerPC, GetPC
  <2>4. work \in [Workers -> SUBSET Item] /\ result \in SUBSET Work
    OBVIOUS
  <2>5. \A t \in Workers : pc[t] # "run" /\ work[t] = {}
    OBVIOUS
  <2>. QED
    BY <2>1, <2>2, <2>3, <2>4, <2>5 DEF TypeOK
<1>2. OnePlace
  BY EmptyMapType DEF OnePlace, QueueInOrder, NoWorkLost, NoWorkTwice, FrontIndex, Finished
<1>3. LeaveOnlyDrained
  BY DEF LeaveOnlyDrained
<1>. QED
  BY <1>1, <1>2, <1>3

\* Both initial states satisfy the invariant.
LEMMA InitEstablishes == Init => IInv
<1> SUFFICES ASSUME Init PROVE IInv
  OBVIOUS
<1>1. AliveIsCounted
  <2>1. Alive = {}
    BY DEF Alive, Init
  <2>. QED
    BY <2>1, FS_EmptySet DEF AliveIsCounted, Init
<1>. QED
  BY <1>1, InitDataType DEF IInv, Init

LEMMA InitBegunEstablishes == InitBegun => IInv
<1> SUFFICES ASSUME InitBegun PROVE IInv
  OBVIOUS
<1>1. AliveIsCounted
  <2>1. Alive = Workers
    BY DEF Alive, InitBegun
  <2>. QED
    BY <2>1 DEF AliveIsCounted, InitBegun
<1>2. alive_thread_count_ \in Nat
  BY WorkersAssumption, FS_CardinalityType DEF InitBegun
<1>. QED
  BY <1>1, <1>2, InitDataType DEF IInv, InitBegun

\* A step that lets no thread begin or end leaves the counter right.
LEMMA AliveUnchanged ==
  ASSUME AliveIsCounted, alive_thread_count_' = alive_thread_count_, Alive' = Alive
  PROVE  AliveIsCounted'
BY DEF AliveIsCounted

LEMMA AliveBegin ==
  ASSUME TypeOK, AliveIsCounted, NEW t \in Workers, WorkerBegin(t)
  PROVE  AliveIsCounted'
<1>1. Alive' = Alive \cup {t} /\ t \notin Alive
  BY DEF Alive, WorkerBegin, TypeOK
<1>2. IsFiniteSet(Alive)
  BY WorkersAssumption, FS_Subset DEF Alive
<1>3. Cardinality(Alive') = Cardinality(Alive) + 1
  BY <1>1, <1>2, FS_AddElement
<1>. QED
  BY <1>3 DEF AliveIsCounted, WorkerBegin

LEMMA AliveEnd ==
  ASSUME TypeOK, AliveIsCounted, NEW t \in Workers, WorkerEnd(t)
  PROVE  AliveIsCounted' /\ alive_thread_count_' \in Nat
<1>1. Alive' = Alive \ {t} /\ t \in Alive
  BY DEF Alive, WorkerEnd, TypeOK
<1>2. IsFiniteSet(Alive)
  BY WorkersAssumption, FS_Subset DEF Alive
<1>3. Cardinality(Alive') = Cardinality(Alive) - 1
  BY <1>1, <1>2, FS_RemoveElement
<1>4. Cardinality(Alive') \in Nat
  BY <1>1, <1>2, FS_RemoveElement, FS_CardinalityType
<1>. QED
  BY <1>3, <1>4 DEF AliveIsCounted, WorkerEnd

-----------------------------------------------------------------------------
(* Each step preserves the invariant.                                      *)

LEMMA QueueWorkPreserves ==
  ASSUME IInv, NEW w \in Work, QueueWork(w)
  PROVE  IInv'
<1> DEFINE item == [index |-> input_counter_, work |-> w]
<1> USE DEF IInv
<1>1. item \in Item /\ item.index = input_counter_
  BY DEF TypeOK, Item
<1>2. /\ input_queue_' \in Seq(Item)
      /\ Len(input_queue_') = Len(input_queue_) + 1
      /\ \A k \in 1 .. Len(input_queue_) : input_queue_'[k] = input_queue_[k]
      /\ input_queue_'[Len(input_queue_) + 1] = item
  BY <1>1 DEF TypeOK, QueueWork
<1>3. TypeOK'
  BY <1>2 DEF TypeOK, QueueWork, outputVars, flagVars, workerVars
<1>4. AliveIsCounted'
  BY DEF AliveIsCounted, Alive, QueueWork, workerVars
<1>5. FrontIndex' = FrontIndex /\ FrontIndex \in Int
  BY <1>2 DEF FrontIndex, TypeOK, QueueWork
<1>6. QueueInOrder'
  BY <1>1, <1>2, <1>5 DEF OnePlace, QueueInOrder, FrontIndex, QueueWork, TypeOK, outputVars
<1>7. NoWorkLost' /\ NoWorkTwice'
  BY <1>5 DEF OnePlace, NoWorkLost, NoWorkTwice, Running, Finished, QueueWork,
              outputVars, workerVars
<1>8. LeaveOnlyDrained'
  BY DEF LeaveOnlyDrained, QueueWork, flagVars, workerVars
<1>. QED
  BY <1>3, <1>4, <1>6, <1>7, <1>8 DEF OnePlace

LEMMA WorkerPopPreserves ==
  ASSUME IInv, NEW t \in Workers, WorkerPop(t)
  PROVE  IInv'
<1> DEFINE item == Head(input_queue_)
<1> USE DEF IInv
<1>1. /\ input_queue_ \in Seq(Item)
      /\ item \in Item
      /\ item = input_queue_[1]
      /\ input_queue_' \in Seq(Item)
      /\ Len(input_queue_) \in Nat \ {0}
      /\ Len(input_queue_') = Len(input_queue_) - 1
      /\ \A k \in 1 .. Len(input_queue_') : input_queue_'[k] = input_queue_[k + 1]
  BY DEF TypeOK, WorkerPop
<1>2. work'[t] = {item} /\ \A u \in Workers \ {t} : work'[u] = work[u]
  BY DEF WorkerPop, TypeOK
<1>3. pc'[t] = "run" /\ \A u \in Workers \ {t} : pc'[u] = pc[u]
  BY DEF WorkerPop, TypeOK
<1>4. pc[t] \in {"check", "wait"} /\ work[t] = {}
  BY DEF WorkerPop, TypeOK
<1>5. TypeOK'
  <2>1. pc' \in [Workers -> WorkerPC] /\ work' \in [Workers -> SUBSET Item]
    BY <1>1 DEF WorkerPop, TypeOK, WorkerPC
  <2>2. \A u \in Workers : IF pc'[u] = "run" THEN \E i \in work'[u] : work'[u] = {i}
                                             ELSE work'[u] = {}
    BY <1>2, <1>3 DEF TypeOK
  <2>. QED
    BY <1>1, <2>1, <2>2 DEF TypeOK, WorkerPop, outputVars, flagVars
<1>6. AliveIsCounted'
  <2>1. Alive' = Alive
    BY <1>3, <1>4 DEF Alive
  <2>. QED
    BY <2>1 DEF AliveIsCounted, WorkerPop
<1>7. /\ FrontIndex' = FrontIndex + 1
      /\ item.index = FrontIndex
      /\ FrontIndex \in Nat
      /\ output_counter_ <= FrontIndex
      /\ output_counter_ \in Nat
      /\ output_counter_' = output_counter_
      /\ output_map_' = output_map_
  <2>1. output_counter_' = output_counter_ /\ output_map_' = output_map_
    BY DEF WorkerPop, outputVars
  <2>2. /\ output_counter_ \in Nat /\ output_counter_ <= FrontIndex
        /\ \A k \in 1 .. Len(input_queue_) : input_queue_[k].index = FrontIndex + k - 1
    BY DEF OnePlace, QueueInOrder, TypeOK
  <2>3. FrontIndex \in Int /\ FrontIndex' = FrontIndex + 1
    BY <1>1 DEF FrontIndex, WorkerPop, TypeOK
  <2>4. item.index = FrontIndex + 1 - 1
    BY <1>1, <2>2
  <2>. QED
    BY <2>1, <2>2, <2>3, <2>4
<1>8. QueueInOrder'
  <2>1. ASSUME NEW k \in 1 .. Len(input_queue_')
        PROVE  input_queue_'[k].index = FrontIndex' + k - 1
    <3>1. k + 1 \in 1 .. Len(input_queue_) /\ input_queue_'[k] = input_queue_[k + 1]
      BY <1>1
    <3>2. input_queue_[k + 1].index = FrontIndex + (k + 1) - 1
      BY <3>1 DEF OnePlace, QueueInOrder
    <3>. QED
      BY <1>7, <3>1, <3>2
  <2>. QED
    BY <1>7, <2>1 DEF QueueInOrder
<1>9. NoWorkLost'
  BY <1>2, <1>4, <1>7 DEF OnePlace, NoWorkLost, Running, Finished
<1>10. NoWorkTwice'
  <2>1. ASSUME NEW u \in Workers, NEW i \in work'[u]
        PROVE  /\ i.index \in output_counter_ .. FrontIndex
               /\ i.index \notin DOMAIN output_map_
               /\ \A v \in Workers : \A j \in work'[v] : i.index = j.index => u = v /\ i = j
    BY <1>2, <1>4, <1>7, <2>1 DEF OnePlace, NoWorkTwice, Finished
  <2>2. DOMAIN output_map_ \subseteq output_counter_ .. FrontIndex
    BY <1>7 DEF OnePlace, NoWorkTwice
  <2>. QED
    BY <1>7, <2>1, <2>2 DEF NoWorkTwice, Finished
<1>11. LeaveOnlyDrained'
  BY <1>1, <1>3 DEF LeaveOnlyDrained
<1>. QED
  BY <1>5, <1>6, <1>8, <1>9, <1>10, <1>11 DEF OnePlace

\* Beginning, looking at an empty queue, waiting in vain and ending move a
\* worker along worker() and touch no work.
LEMMA WorkerMovePreserves ==
  ASSUME IInv, NEW t \in Workers, NEW p \in WorkerPC \ {"run"},
         pc[t] # "run", pc' = [pc EXCEPT ![t] = p],
         p \in {"leave", "done"} => input_termination_flag_ /\ input_queue_ = <<>>,
         alive_thread_count_' \in Nat,
         UNCHANGED <<inputVars, outputVars, flagVars, work>>
  PROVE  TypeOK' /\ OnePlace' /\ LeaveOnlyDrained'
<1> USE DEF IInv
<1>1. pc'[t] = p /\ \A u \in Workers \ {t} : pc'[u] = pc[u]
  BY DEF TypeOK
<1>2. TypeOK'
  BY <1>1 DEF TypeOK, inputVars, outputVars, flagVars
<1>3. OnePlace'
  BY DEF OnePlace, QueueInOrder, NoWorkLost, NoWorkTwice, FrontIndex, Running, Finished,
         inputVars, outputVars
<1>4. LeaveOnlyDrained'
  BY <1>1 DEF LeaveOnlyDrained, inputVars, flagVars
<1>. QED
  BY <1>2, <1>3, <1>4

LEMMA WorkerStorePreserves ==
  ASSUME IInv, NEW t \in Workers, WorkerStore(t)
  PROVE  IInv'
<1> USE DEF IInv
<1>1. PICK item \in work[t] : work[t] = {item}
  BY DEF WorkerStore, TypeOK
<1>2. /\ item \in Item /\ item.index \in Nat /\ item.work \in Work
      /\ pc[t] = "run"
  BY <1>1 DEF TypeOK, Item, WorkerStore
<1>3. /\ DOMAIN output_map_' = DOMAIN output_map_ \cup {item.index}
      /\ output_map_'[item.index] = item.work
      /\ \A i \in DOMAIN output_map_ \ {item.index} : output_map_'[i] = output_map_[i]
  BY <1>1 DEF WorkerStore
<1>4. output_map_' \in [DOMAIN output_map_' -> Work]
  BY <1>1, <1>2, <1>3 DEF WorkerStore, TypeOK
<1>5. /\ work'[t] = {} /\ \A u \in Workers \ {t} : work'[u] = work[u]
      /\ pc'[t] = "check" /\ \A u \in Workers \ {t} : pc'[u] = pc[u]
  BY DEF WorkerStore, TypeOK
<1>6. UNCHANGED <<inputVars, output_counter_, get, result, flagVars, alive_thread_count_>>
  BY DEF WorkerStore
<1>7. TypeOK'
  <2>1. pc' \in [Workers -> WorkerPC] /\ work' \in [Workers -> SUBSET Item]
    BY DEF WorkerStore, TypeOK, WorkerPC
  <2>. QED
    BY <1>2, <1>3, <1>4, <1>5, <1>6, <2>1 DEF TypeOK, inputVars, flagVars
<1>8. AliveIsCounted'
  <2>1. Alive' = Alive
    BY <1>2, <1>5 DEF Alive
  <2>. QED
    BY <2>1, <1>6 DEF AliveIsCounted
<1>9. FrontIndex' = FrontIndex /\ output_counter_' = output_counter_
  BY <1>6 DEF FrontIndex, inputVars
<1>10. QueueInOrder'
  BY <1>6, <1>9 DEF OnePlace, QueueInOrder, inputVars
<1>11. NoWorkLost'
  BY <1>1, <1>3, <1>5, <1>9 DEF OnePlace, NoWorkLost, Running, Finished
<1>12. NoWorkTwice'
  <2>1. item.index \in output_counter_ .. FrontIndex - 1
    BY <1>1 DEF OnePlace, NoWorkTwice
  <2>2. DOMAIN output_map_' \subseteq output_counter_ .. FrontIndex - 1
    BY <1>3, <2>1 DEF OnePlace, NoWorkTwice
  <2>3. ASSUME NEW u \in Workers, NEW i \in work'[u]
        PROVE  /\ i.index \in output_counter_ .. FrontIndex - 1
               /\ i.index \notin DOMAIN output_map_'
               /\ \A v \in Workers : \A j \in work'[v] : i.index = j.index => u = v /\ i = j
    <3>1. u # t /\ i \in work[u]
      BY <1>5
    <3>2. i.index # item.index
      BY <1>1, <3>1 DEF OnePlace, NoWorkTwice
    <3>. QED
      BY <1>3, <1>5, <3>1, <3>2 DEF OnePlace, NoWorkTwice, Finished
  <2>. QED
    BY <1>9, <2>2, <2>3 DEF NoWorkTwice, Finished
<1>13. LeaveOnlyDrained'
  BY <1>5, <1>6 DEF LeaveOnlyDrained, inputVars, flagVars
<1>. QED
  BY <1>7, <1>8, <1>10, <1>11, <1>12, <1>13 DEF OnePlace

LEMMA WorkerPreserves ==
  ASSUME IInv, NEW t \in Workers, Worker(t)
  PROVE  IInv'
<1> USE DEF IInv
<1>1. CASE WorkerBegin(t)
  <2>1. AliveIsCounted'
    BY <1>1, AliveBegin
  <2>2. alive_thread_count_' \in Nat
    BY <1>1 DEF WorkerBegin, TypeOK
  <2>. QED
    BY <1>1, <2>1, <2>2, WorkerMovePreserves DEF WorkerBegin, WorkerPC, TypeOK
<1>2. CASE WorkerPop(t)
  BY <1>2, WorkerPopPreserves
<1>3. CASE WorkerBreak(t)
  <2>1. Alive' = Alive
    BY <1>3 DEF WorkerBreak, Alive
  <2>. QED
    BY <1>3, <2>1, WorkerMovePreserves, AliveUnchanged DEF WorkerBreak, WorkerPC, TypeOK
<1>4. CASE WorkerMiss(t)
  <2>1. Alive' = Alive
    BY <1>4 DEF WorkerMiss, Alive
  <2>. QED
    BY <1>4, <2>1, WorkerMovePreserves, AliveUnchanged DEF WorkerMiss, WorkerPC, TypeOK
<1>5. CASE WorkerTimeout(t)
  <2>1. Alive' = Alive
    BY <1>5 DEF WorkerTimeout, Alive
  <2>. QED
    BY <1>5, <2>1, WorkerMovePreserves, AliveUnchanged DEF WorkerTimeout, WorkerPC, TypeOK
<1>6. CASE WorkerStore(t)
  BY <1>6, WorkerStorePreserves
<1>7. CASE WorkerEnd(t)
  <2>1. input_termination_flag_ /\ input_queue_ = <<>>
    BY <1>7 DEF WorkerEnd, LeaveOnlyDrained
  <2>2. AliveIsCounted' /\ alive_thread_count_' \in Nat
    BY <1>7, AliveEnd
  <2>. QED
    BY <1>7, <2>1, <2>2, WorkerMovePreserves DEF WorkerEnd, WorkerPC, TypeOK
<1>. QED
  BY <1>1, <1>2, <1>3, <1>4, <1>5, <1>6, <1>7 DEF Worker

\* What neither touches the work nor the workers, and lowers no flag.
LEMMA ControlPreserves ==
  ASSUME IInv, UNCHANGED <<inputVars, output_map_, output_counter_, workerVars>>,
         get' \in GetPC, result' \in SUBSET Work,
         input_termination_flag_' \in BOOLEAN, output_termination_flag_' \in BOOLEAN,
         input_termination_flag_ => input_termination_flag_'
  PROVE  IInv'
<1> USE DEF IInv, inputVars, workerVars
<1>1. TypeOK'
  BY DEF TypeOK
<1>2. AliveIsCounted'
  BY DEF AliveIsCounted, Alive
<1>3. OnePlace'
  BY DEF OnePlace, QueueInOrder, NoWorkLost, NoWorkTwice, FrontIndex, Running, Finished
<1>4. LeaveOnlyDrained'
  BY DEF LeaveOnlyDrained
<1>. QED
  BY <1>1, <1>2, <1>3, <1>4

LEMMA GetHitPreserves ==
  ASSUME IInv, GetHit
  PROVE  IInv'
<1> USE DEF IInv, GetHit
<1>1. /\ DOMAIN output_map_' = DOMAIN output_map_ \ {output_counter_}
      /\ output_map_' \in [DOMAIN output_map_' -> Work]
      /\ output_counter_ \in Nat /\ output_counter_' = output_counter_ + 1
  BY DEF TypeOK
<1>2. UNCHANGED <<inputVars, flagVars, workerVars>> /\ FrontIndex' = FrontIndex
  BY DEF FrontIndex, inputVars
<1>3. output_counter_ \in output_counter_ .. FrontIndex - 1 /\ FrontIndex \in Int
  BY DEF OnePlace, NoWorkTwice, FrontIndex, TypeOK
<1>4. TypeOK'
  BY <1>1 DEF TypeOK, GetPC, inputVars, flagVars, workerVars
<1>5. AliveIsCounted'
  BY DEF AliveIsCounted, Alive, workerVars
<1>6. OnePlace'
  <2>1. QueueInOrder'
    BY <1>1, <1>2, <1>3 DEF OnePlace, QueueInOrder, inputVars
  <2>2. NoWorkLost'
    BY <1>1, <1>2, <1>3 DEF OnePlace, NoWorkLost, Running, Finished, workerVars
  <2>3. NoWorkTwice'
    <3>1. \A t \in Workers : \A item \in work[t] :
             item.index \in output_counter_ + 1 .. FrontIndex - 1
      BY <1>1, <1>3 DEF OnePlace, NoWorkTwice, Finished
    <3>2. DOMAIN output_map_' \subseteq output_counter_ + 1 .. FrontIndex - 1
      BY <1>1, <1>3 DEF OnePlace, NoWorkTwice
    <3>. QED
      BY <1>1, <1>2, <3>1, <3>2 DEF OnePlace, NoWorkTwice, Finished, workerVars
  <2>. QED
    BY <2>1, <2>2, <2>3 DEF OnePlace
<1>7. LeaveOnlyDrained'
  BY DEF LeaveOnlyDrained, inputVars, flagVars, workerVars
<1>. QED
  BY <1>4, <1>5, <1>6, <1>7

LEMMA NextPreserves == IInv /\ [Next]_vars => IInv'
<1> SUFFICES ASSUME IInv, [Next]_vars PROVE IInv'
  OBVIOUS
<1>1. ASSUME NEW w \in Work, QueueWork(w) PROVE IInv'
  BY <1>1, QueueWorkPreserves
<1>2. CASE Terminate
  BY <1>2, ControlPreserves DEF Terminate, IInv, TypeOK, outputVars
<1>3. ASSUME NEW t \in Workers, Worker(t) PROVE IInv'
  BY <1>3, WorkerPreserves
<1>4. CASE GetCall
  BY <1>4, ControlPreserves DEF GetCall, IInv, TypeOK, GetPC, flagVars
<1>5. CASE GetHit
  BY <1>5, GetHitPreserves
<1>6. CASE GetMiss
  BY <1>6, ControlPreserves DEF GetMiss, IInv, TypeOK, GetPC, flagVars
<1>7. CASE GetTimeout
  BY <1>7, ControlPreserves DEF GetTimeout, IInv, TypeOK, GetPC, flagVars
<1>8. CASE GetNull
  BY <1>8, ControlPreserves DEF GetNull, IInv, TypeOK, GetPC
<1>9. CASE UNCHANGED vars
  BY <1>9, ControlPreserves DEF vars, IInv, TypeOK, outputVars, flagVars
<1>. QED
  BY <1>1, <1>2, <1>3, <1>4, <1>5, <1>6, <1>7, <1>8, <1>9 DEF Next, GetOrNull

-----------------------------------------------------------------------------
(* The invariants, as theorems of the specification.                       *)

\* The conjunction that the proofs carry holds in every reachable state.
THEOREM Invariance == Spec => []IInv
<1>. QED
  BY InitEstablishes, NextPreserves, PTL DEF Spec

THEOREM InvarianceBegun == SpecBegun => []IInv
<1>. QED
  BY InitBegunEstablishes, NextPreserves, PTL DEF SpecBegun

\* The counters, the queue, the map and the hands of the workers have their
\* types, however many workers there are.
THEOREM TypeCorrect == Spec => []TypeOK
<1>1. IInv => TypeOK
  BY DEF IInv
<1>. QED
  BY <1>1, Invariance, PTL

\* alive_thread_count_ is the number of threads that have begun and not ended.
THEOREM AliveCountCorrect == Spec => []AliveIsCounted
<1>1. IInv => AliveIsCounted
  BY DEF IInv
<1>. QED
  BY <1>1, Invariance, PTL

\* No interleaving of the producer, the workers and the consumer loses a unit
\* of work, does one twice or hands a result out twice.
THEOREM NoLossNoDuplicate == Spec => []OnePlace
<1>1. IInv => OnePlace
  BY DEF IInv
<1>. QED
  BY <1>1, Invariance, PTL

\* A worker ends only after the last work has been taken from the queue.
THEOREM WorkersDrainTheQueue == Spec => []LeaveOnlyDrained
<1>1. IInv => LeaveOnlyDrained
  BY DEF IInv
<1>. QED
  BY <1>1, Invariance, PTL

-----------------------------------------------------------------------------
(* The end of the stream.                                                  *)

\* Once all workers have begun, none is counted as not alive before it ends.
AllBegun == \A t \in Workers : pc[t] # "start"

LEMMA EndPreserved ==
  ASSUME IInv, AllBegun, PropagatedByLastWorker, [Next]_vars
  PROVE  AllBegun' /\ PropagatedByLastWorker'
<1> USE DEF AllBegun, PropagatedByLastWorker
<1>1. ASSUME NEW t \in Workers, Worker(t) PROVE AllBegun' /\ PropagatedByLastWorker'
  <2>1. pc[t] # "done"
    BY <1>1 DEF Worker, WorkerBegin, WorkerPop, WorkerBreak, WorkerMiss, WorkerTimeout,
                WorkerStore, WorkerEnd
  <2>2. UNCHANGED output_termination_flag_
    BY <1>1 DEF Worker, WorkerBegin, WorkerPop, WorkerBreak, WorkerMiss, WorkerTimeout,
                WorkerStore, WorkerEnd, flagVars
  <2>3. \E p \in {"check", "wait", "run", "leave", "done"} : pc' = [pc EXCEPT ![t] = p]
    BY <1>1 DEF Worker, WorkerBegin, WorkerPop, WorkerBreak, WorkerMiss, WorkerTimeout,
                WorkerStore, WorkerEnd
  <2>. QED
    BY <2>1, <2>2, <2>3 DEF IInv, TypeOK
<1>2. CASE GetNull
  <2>1. pc' = pc
    BY <1>2 DEF GetNull, workerVars
  <2>2. ASSUME alive_thread_count_ = 0 PROVE \A t \in Workers : pc[t] = "done"
    <3>1. IsFiniteSet(Alive)
      BY WorkersAssumption, FS_Subset DEF Alive
    <3>2. Alive = {}
      BY <2>2, <3>1, FS_EmptySet DEF IInv, AliveIsCounted
    <3>. QED
      BY <3>2 DEF Alive
  <2>. QED
    BY <1>2, <2>1, <2>2 DEF GetNull
<1>3. CASE UNCHANGED <<output_termination_flag_, pc>>
  BY <1>3
<1>4. ASSUME Next, ~GetNull, \A t \in Workers : ~Worker(t)
      PROVE  UNCHANGED <<output_termination_flag_, pc>>
  BY <1>4 DEF Next, QueueWork, Terminate, GetOrNull, GetCall, GetHit, GetMiss, GetTimeout,
              workerVars, flagVars
<1>. QED
  BY <1>1, <1>2, <1>3, <1>4 DEF vars, workerVars, flagVars

\* Provided that the workers have all begun, the consumer's termination flag is
\* raised only after the last of them has ended.
THEOREM PropagationCorrect == SpecBegun => []PropagatedByLastWorker
<1>1. InitBegun => AllBegun /\ PropagatedByLastWorker
  BY DEF InitBegun, InitData, AllBegun, PropagatedByLastWorker
<1>2. IInv /\ AllBegun /\ PropagatedByLastWorker /\ [Next]_vars
        => AllBegun' /\ PropagatedByLastWorker'
  BY EndPreserved
<1>. QED
  BY <1>1, <1>2, InvarianceBegun, PTL DEF SpecBegun

-----------------------------------------------------------------------------
(* Refinement: the executor implements the FIFO queue.                     *)

\* The work with index i is somewhere, and r is what it returns.
Holds(i, r) ==
    \/ \E k \in 1 .. Len(input_queue_) : input_queue_[k].index = i /\ input_queue_[k].work = r
    \/ \E t \in Workers : \E item \in work[t] : item.index = i /\ item.work = r
    \/ i \in DOMAIN output_map_ /\ output_map_[i] = r

Owed == output_counter_ .. input_counter_ - 1

\* ResultOf, the refinement mapping, names the one result an owed index has.
ResultsKnown ==
    \A i \in Owed : /\ ResultOf(i) \in Work
                    /\ \A r \in Work : Holds(i, r) <=> r = ResultOf(i)

LEMMA KnownResults == IInv => ResultsKnown
<1> SUFFICES ASSUME IInv, NEW i \in Owed
             PROVE  /\ ResultOf(i) \in Work
                    /\ \A r \in Work : Holds(i, r) <=> r = ResultOf(i)
  BY DEF ResultsKnown
<1> USE DEF IInv
<1>1. /\ input_queue_ \in Seq(Item) /\ Len(input_queue_) \in Nat
      /\ input_counter_ \in Nat /\ output_counter_ \in Nat /\ i \in Int
      /\ FrontIndex = input_counter_ - Len(input_queue_)
  BY DEF TypeOK, Owed, FrontIndex
<1>2. \A k \in 1 .. Len(input_queue_) : /\ input_queue_[k].index = FrontIndex + k - 1
                                        /\ input_queue_[k].work \in Work
  <2>1. \A k \in 1 .. Len(input_queue_) : input_queue_[k] \in Item
    BY <1>1, ElementOfSeq
  <2>. QED
    BY <2>1 DEF OnePlace, QueueInOrder, Item
<1>3. \A t \in Workers : \A item \in work[t] : item.index < FrontIndex /\ item.work \in Work
  BY <1>1 DEF OnePlace, NoWorkTwice, TypeOK, Item
<1>4. \A j \in DOMAIN output_map_ : j < FrontIndex /\ output_map_[j] \in Work
  BY <1>1 DEF OnePlace, NoWorkTwice, TypeOK
<1>5. CASE i >= FrontIndex
  <2> DEFINE n == i - FrontIndex + 1
  <2>1. n \in 1 .. Len(input_queue_)
    BY <1>1, <1>5 DEF Owed
  <2>2. ResultOf(i) = input_queue_[n].work
    BY <1>5 DEF ResultOf
  <2>3. input_queue_[n].index = i
    BY <1>1, <1>2, <2>1
  <2>4. \A k \in 1 .. Len(input_queue_) : input_queue_[k].index = i => k = n
    BY <1>1, <1>2
  <2>5. /\ \A t \in Workers : \A item \in work[t] : item.index # i
        /\ i \notin DOMAIN output_map_
    BY <1>1, <1>3, <1>4, <1>5
  <2>. QED
    BY <1>2, <2>1, <2>2, <2>3, <2>4, <2>5 DEF Holds
<1>6. CASE i < FrontIndex /\ Finished(i)
  <2>1. ResultOf(i) = output_map_[i]
    BY <1>1, <1>6 DEF ResultOf
  <2>2. \A k \in 1 .. Len(input_queue_) : input_queue_[k].index # i
    BY <1>1, <1>2, <1>6
  <2>3. \A t \in Workers : \A item \in work[t] : item.index # i
    BY <1>6 DEF OnePlace, NoWorkTwice
  <2>. QED
    BY <1>4, <1>6, <2>1, <2>2, <2>3 DEF Holds, Finished
<1>7. CASE i < FrontIndex /\ ~Finished(i)
  <2>1. i \in output_counter_ .. FrontIndex - 1
    BY <1>1, <1>7 DEF Owed
  <2>2. PICK held : held.index = i /\ \E t \in Workers : held \in work[t]
    BY <1>7, <2>1 DEF OnePlace, NoWorkLost, Running
  <2>3. \A u \in Workers : \A item \in work[u] : item.index = i => item = held
    BY <2>2 DEF OnePlace, NoWorkTwice
  <2>4. (CHOOSE item \in UNION {work[u] : u \in Workers} : item.index = i) = held
    <3> DEFINE Held == UNION {work[u] : u \in Workers}
    <3>1. held \in Held /\ held.index = i
      BY <2>2
    <3>2. \A item \in Held : item.index = i => item = held
      BY <2>3
    <3> HIDE DEF Held
    <3>3. (CHOOSE item \in Held : item.index = i) = held
      BY <3>1, <3>2, Zenon
    <3>. QED
      BY <3>3 DEF Held
  <2>5. ResultOf(i) = held.work
    <3>1. ~(i >= FrontIndex)
      BY <1>1, <1>7
    <3>. QED
      BY <1>7, <2>4, <3>1, Zenon DEF ResultOf
  <2>6. \A k \in 1 .. Len(input_queue_) : input_queue_[k].index # i
    BY <1>1, <1>2, <1>7
  <2>. QED
    BY <1>3, <1>7, <2>2, <2>3, <2>5, <2>6 DEF Holds, Finished
<1>. QED
  BY <1>1, <1>5, <1>6, <1>7

\* An index that is owed before and after a step that moves no result keeps
\* its result.
LEMMA ResultKept ==
  ASSUME ResultsKnown, ResultsKnown', NEW i \in Owed, i \in Owed',
         \A r \in Work : Holds(i, r) => Holds(i, r)'
  PROVE  ResultOf(i)' = ResultOf(i)
<1> DEFINE r == ResultOf(i)
<1>1. r \in Work /\ Holds(i, r)
  BY DEF ResultsKnown
<1>2. PICK s \in Work : s = r
  BY <1>1
<1>3. Holds(i, s)'
  BY <1>1, <1>2
<1>4. s = ResultOf(i)'
  BY <1>3 DEF ResultsKnown
<1>. QED
  BY <1>2, <1>4

\* Pending is a sequence of results, one for each owed index.  The index is a
\* variable of its own so that it stays what it is when the formula is primed.
PendingTyped ==
    /\ Pending \in Seq(Work)
    /\ Len(Pending) = input_counter_ - output_counter_
    /\ \A k, i \in Nat : k \in 1 .. input_counter_ - output_counter_ /\ i = output_counter_ + k - 1
                            => Pending[k] = ResultOf(i)

LEMMA PendingType == IInv => PendingTyped
<1> SUFFICES ASSUME IInv PROVE PendingTyped
  OBVIOUS
<1>1. /\ input_counter_ \in Nat /\ output_counter_ \in Nat
      /\ input_counter_ - output_counter_ \in Nat
  BY DEF IInv, TypeOK, OnePlace, QueueInOrder, FrontIndex
<1>2. \A k \in 1 .. input_counter_ - output_counter_ : ResultOf(output_counter_ + k - 1) \in Work
  <2>1. \A k \in 1 .. input_counter_ - output_counter_ : output_counter_ + k - 1 \in Owed
    BY <1>1 DEF Owed
  <2>. QED
    BY <2>1, KnownResults DEF ResultsKnown
<1>. QED
  BY <1>1, <1>2 DEF Pending, PendingTyped

LEMMA PendingTypeNext == IInv' => PendingTyped'
BY PendingType, PTL

LEMMA PendingKept ==
  ASSUME IInv, IInv', UNCHANGED <<input_counter_, output_counter_>>,
         \A i \in Owed : ResultOf(i)' = ResultOf(i)
  PROVE  Pending' = Pending
<1>1. input_counter_ \in Nat /\ output_counter_ \in Nat
  BY DEF IInv, TypeOK
<1>2. \A k \in 1 .. input_counter_ - output_counter_ : output_counter_ + k - 1 \in Owed
  BY <1>1 DEF Owed
<1>. QED
  BY <1>2 DEF Pending

LEMMA KnownResultsNext == IInv' => ResultsKnown'
BY KnownResults, PTL

\* queue_work appends to what is owed.
LEMMA QueueWorkPuts ==
  ASSUME IInv, IInv', NEW w \in Work, QueueWork(w)
  PROVE  Pending' = Append(Pending, w)
<1> DEFINE n == input_counter_ - output_counter_
<1>1. /\ input_counter_ \in Nat /\ output_counter_ \in Nat /\ n \in Nat
      /\ input_counter_' = input_counter_ + 1 /\ output_counter_' = output_counter_
      /\ input_queue_ \in Seq(Item)
  BY DEF IInv, TypeOK, OnePlace, QueueInOrder, FrontIndex, QueueWork, outputVars
<1>2. /\ Len(input_queue_') = Len(input_queue_) + 1
      /\ \A k \in 1 .. Len(input_queue_) : input_queue_'[k] = input_queue_[k]
      /\ input_queue_'[Len(input_queue_) + 1] = [index |-> input_counter_, work |-> w]
  BY <1>1 DEF QueueWork, Item
<1>3. work' = work /\ output_map_' = output_map_
  BY DEF QueueWork, outputVars, workerVars
<1>4. ResultsKnown /\ ResultsKnown'
  BY KnownResults, KnownResultsNext
<1>5. ASSUME NEW i \in Owed PROVE ResultOf(i)' = ResultOf(i)
  <2>1. i \in Owed'
    BY <1>1 DEF Owed
  <2>2. \A r \in Work : Holds(i, r) => Holds(i, r)'
    BY <1>1, <1>2, <1>3 DEF Holds
  <2>. QED
    BY <1>4, <2>1, <2>2, ResultKept
<1>6. ASSUME NEW c \in Nat, c = input_counter_ PROVE ResultOf(c)' = w
  <2>1. c \in Owed'
    BY <1>1, <1>6 DEF Owed
  <2>2. Len(input_queue_) + 1 \in 1 .. Len(input_queue_')
    BY <1>1, <1>2
  <2>3. Holds(c, w)'
    BY <1>2, <1>6, <2>2 DEF Holds
  <2>. QED
    BY <1>4, <2>1, <2>3 DEF ResultsKnown
<1>7. /\ Append(Pending, w) \in Seq(Work)
      /\ Len(Append(Pending, w)) = n + 1
      /\ \A k \in 1 .. n : Append(Pending, w)[k] = Pending[k]
      /\ Append(Pending, w)[n + 1] = w
  BY <1>1, PendingType DEF PendingTyped
<1>8. ASSUME NEW k \in 1 .. n + 1 PROVE Pending'[k] = Append(Pending, w)[k]
  <2>1. PICK i \in Nat : i = output_counter_ + k - 1
    BY <1>1
  <2>2. Pending'[k] = ResultOf(i)'
    BY <1>1, <2>1, PendingTypeNext DEF PendingTyped
  <2>3. CASE k = n + 1
    BY <1>1, <1>6, <1>7, <2>1, <2>2, <2>3
  <2>4. CASE k \in 1 .. n
    <3>1. i \in Owed
      BY <1>1, <2>1, <2>4 DEF Owed
    <3>2. Pending[k] = ResultOf(i)
      BY <1>1, <2>1, <2>4, PendingType DEF PendingTyped
    <3>. QED
      BY <1>5, <1>7, <2>2, <2>4, <3>1, <3>2
  <2>5. k = n + 1 \/ k \in 1 .. n
    BY <1>1
  <2>. QED
    BY <2>3, <2>4, <2>5
<1>. QED
  <2>1. Pending' \in Seq(Work) /\ Len(Pending') = n + 1
    BY <1>1, PendingTypeNext DEF PendingTyped
  <2>. QED
    BY <1>7, <1>8, <2>1, SeqEqual

\* Taking work from the queue and storing its result move it: what is owed
\* stays the same.
LEMMA WorkerPopKeeps ==
  ASSUME IInv, IInv', NEW t \in Workers, WorkerPop(t)
  PROVE  Pending' = Pending
<1>1. /\ UNCHANGED <<input_counter_, output_counter_>> /\ output_map_' = output_map_
      /\ work'[t] = {Head(input_queue_)} /\ work[t] = {}
      /\ \A u \in Workers \ {t} : work'[u] = work[u]
  BY DEF WorkerPop, outputVars, IInv, TypeOK
<1>2. /\ input_queue_ \in Seq(Item)
      /\ Len(input_queue_) \in Nat \ {0}
      /\ Head(input_queue_) = input_queue_[1]
      /\ Len(input_queue_') = Len(input_queue_) - 1
      /\ \A k \in 1 .. Len(input_queue_) - 1 : input_queue_'[k] = input_queue_[k + 1]
  BY DEF WorkerPop, IInv, TypeOK
<1>3. ASSUME NEW i \in Owed PROVE ResultOf(i)' = ResultOf(i)
  <2>1. ASSUME NEW r \in Work, Holds(i, r) PROVE Holds(i, r)'
    <3>1. CASE \E k \in 1 .. Len(input_queue_) :
                  input_queue_[k].index = i /\ input_queue_[k].work = r
      <4>1. PICK k \in 1 .. Len(input_queue_) :
               input_queue_[k].index = i /\ input_queue_[k].work = r
        BY <3>1
      <4>2. CASE k = 1
        BY <1>1, <1>2, <4>1, <4>2 DEF Holds
      <4>3. CASE k # 1
        <5>1. k - 1 \in 1 .. Len(input_queue_') /\ input_queue_'[k - 1] = input_queue_[k]
          BY <1>2, <4>3
        <5>. QED
          BY <4>1, <5>1 DEF Holds
      <4>. QED
        BY <4>2, <4>3
    <3>2. CASE \E u \in Workers : \E item \in work[u] : item.index = i /\ item.work = r
      BY <1>1, <3>2 DEF Holds
    <3>3. CASE i \in DOMAIN output_map_ /\ output_map_[i] = r
      BY <1>1, <3>3 DEF Holds
    <3>. QED
      BY <2>1, <3>1, <3>2, <3>3 DEF Holds
  <2>2. i \in Owed'
    BY <1>1 DEF Owed
  <2>. QED
    BY <2>1, <2>2, KnownResults, KnownResultsNext, ResultKept
<1>. QED
  BY <1>1, <1>3, PendingKept

LEMMA WorkerStoreKeeps ==
  ASSUME IInv, IInv', NEW t \in Workers, WorkerStore(t)
  PROVE  Pending' = Pending
<1>1. PICK item \in work[t] : work[t] = {item}
  BY DEF WorkerStore, IInv, TypeOK
<1>2. /\ UNCHANGED <<input_counter_, output_counter_>> /\ input_queue_' = input_queue_
      /\ \A u \in Workers \ {t} : work'[u] = work[u]
      /\ DOMAIN output_map_' = DOMAIN output_map_ \cup {item.index}
      /\ output_map_'[item.index] = item.work
      /\ \A i \in DOMAIN output_map_ \ {item.index} : output_map_'[i] = output_map_[i]
  BY <1>1 DEF WorkerStore, inputVars, IInv, TypeOK
<1>3. item.index \notin DOMAIN output_map_
  BY <1>1 DEF IInv, OnePlace, NoWorkTwice, Finished
<1>4. ASSUME NEW i \in Owed PROVE ResultOf(i)' = ResultOf(i)
  <2>1. \A r \in Work : Holds(i, r) => Holds(i, r)'
    BY <1>1, <1>2, <1>3 DEF Holds
  <2>2. i \in Owed'
    BY <1>2 DEF Owed
  <2>. QED
    BY <2>1, <2>2, KnownResults, KnownResultsNext, ResultKept
<1>. QED
  BY <1>2, <1>4, PendingKept

\* get_or_null hands out the oldest of the results that are owed.
LEMMA GetHitGets ==
  ASSUME IInv, IInv', GetHit
  PROVE  /\ Pending # <<>>
         /\ result' = {Head(Pending)}
         /\ Pending' = Tail(Pending)
<1> DEFINE n == input_counter_ - output_counter_
<1>1. /\ UNCHANGED <<input_counter_, input_queue_, work>>
      /\ output_counter_' = output_counter_ + 1
      /\ result' = {output_map_[output_counter_]}
      /\ output_counter_ \in DOMAIN output_map_
      /\ DOMAIN output_map_' = DOMAIN output_map_ \ {output_counter_}
      /\ \A i \in DOMAIN output_map_' : output_map_'[i] = output_map_[i]
  BY DEF GetHit, inputVars, workerVars
<1>2. /\ input_counter_ \in Nat /\ output_counter_ \in Nat
      /\ output_counter_ \in Owed /\ n \in Nat \ {0}
      /\ output_map_[output_counter_] \in Work
  BY <1>1 DEF IInv, TypeOK, OnePlace, NoWorkTwice, FrontIndex, Owed
<1>3. output_map_[output_counter_] = ResultOf(output_counter_)
  BY <1>1, <1>2, KnownResults DEF ResultsKnown, Holds
<1>4. Pending \in Seq(Work) /\ Len(Pending) = n /\ Pending[1] = ResultOf(output_counter_)
  <2>1. 1 \in 1 .. n /\ output_counter_ = output_counter_ + 1 - 1
    BY <1>2
  <2>. QED
    BY <1>2, <2>1, PendingType DEF PendingTyped
<1>5. Pending # <<>> /\ Head(Pending) = ResultOf(output_counter_)
  BY <1>2, <1>4
<1>6. /\ Tail(Pending) \in Seq(Work) /\ Len(Tail(Pending)) = n - 1
      /\ \A k \in 1 .. n - 1 : Tail(Pending)[k] = Pending[k + 1]
  BY <1>2, <1>4, <1>5
<1>7. ASSUME NEW i \in Owed, i # output_counter_ PROVE ResultOf(i)' = ResultOf(i)
  <2>1. \A r \in Work : Holds(i, r) => Holds(i, r)'
    BY <1>1, <1>7 DEF Holds
  <2>2. i \in Owed'
    BY <1>1, <1>2, <1>7 DEF Owed
  <2>. QED
    BY <2>1, <2>2, KnownResults, KnownResultsNext, ResultKept
<1>8. ASSUME NEW k \in 1 .. n - 1 PROVE Pending'[k] = Tail(Pending)[k]
  <2>1. PICK i \in Nat : i = output_counter_ + k
    BY <1>2
  <2>2. i = output_counter_' + k - 1 /\ k \in 1 .. input_counter_' - output_counter_' /\ k \in Nat
    BY <1>1, <1>2, <2>1
  <2>3. Pending'[k] = ResultOf(i)'
    BY <2>1, <2>2, PendingTypeNext DEF PendingTyped
  <2>4. i \in Owed /\ i # output_counter_ /\ k + 1 \in 1 .. n /\ i = output_counter_ + (k + 1) - 1
    BY <1>2, <2>1 DEF Owed
  <2>5. Pending[k + 1] = ResultOf(i)
    BY <2>1, <2>4, PendingType DEF PendingTyped
  <2>. QED
    BY <1>6, <1>7, <2>3, <2>4, <2>5
<1>9. Pending' \in Seq(Work) /\ Len(Pending') = n - 1
  BY <1>1, <1>2, PendingTypeNext DEF PendingTyped
<1>. QED
  BY <1>1, <1>3, <1>5, <1>6, <1>8, <1>9, SeqEqual

\* Every other step leaves what is owed as it is.
LEMMA ControlKeeps ==
  ASSUME IInv, IInv',
         UNCHANGED <<input_queue_, input_counter_, output_map_, output_counter_, work>>
  PROVE  Pending' = Pending
<1>1. ASSUME NEW i \in Owed PROVE ResultOf(i)' = ResultOf(i)
  BY DEF ResultOf, FrontIndex, Finished
<1>. QED
  BY <1>1, PendingKept

LEMMA StepRefinesFifo ==
  ASSUME IInv, IInv', [Next]_vars
  PROVE  [Fifo!Next]_(Fifo!vars)
<1> USE DEF Fifo!Next, Fifo!vars
<1>1. ASSUME NEW w \in Work, QueueWork(w) PROVE Fifo!Put(w)
  BY <1>1, QueueWorkPuts DEF QueueWork, Fifo!Put, outputVars, flagVars
<1>2. CASE Terminate
  BY <1>2, ControlKeeps DEF Terminate, Fifo!Close, inputVars, outputVars, workerVars
<1>3. ASSUME NEW t \in Workers, Worker(t) PROVE UNCHANGED Fifo!vars
  <2>1. UNCHANGED <<result, input_termination_flag_>>
    BY <1>3 DEF Worker, WorkerBegin, WorkerPop, WorkerBreak, WorkerMiss, WorkerTimeout,
                WorkerStore, WorkerEnd, flagVars, outputVars
  <2>2. Pending' = Pending
    BY <1>3, WorkerPopKeeps, WorkerStoreKeeps, ControlKeeps
       DEF Worker, WorkerBegin, WorkerBreak, WorkerMiss, WorkerTimeout, WorkerEnd,
           inputVars, outputVars
  <2>. QED
    BY <2>1, <2>2
<1>4. CASE GetCall
  BY <1>4, ControlKeeps DEF GetCall, Fifo!Ask, inputVars, workerVars, flagVars
<1>5. CASE GetHit
  BY <1>5, GetHitGets DEF GetHit, Fifo!Get, flagVars
<1>6. CASE GetMiss \/ GetTimeout
  BY <1>6, ControlKeeps DEF GetMiss, GetTimeout, inputVars, workerVars, flagVars
<1>7. CASE GetNull
  BY <1>7, ControlKeeps DEF GetNull, inputVars, workerVars
<1>8. CASE UNCHANGED vars
  BY <1>8, ControlKeeps DEF vars, inputVars, outputVars, workerVars, flagVars
<1>. QED
  BY <1>1, <1>2, <1>3, <1>4, <1>5, <1>6, <1>7, <1>8 DEF Next, GetOrNull

LEMMA InitRefines == InitData => Fifo!Init /\ Pending = <<>>
BY DEF InitData, Fifo!Init, Pending

\* For any number of workers, the pool outputs the results in the order of the
\* input: it implements the FIFO queue.
THEOREM OrderedOutputCorrect == Spec => OrderedOutput
<1>1. Init => Fifo!Init
  BY InitRefines DEF Init
<1>2. IInv /\ IInv' /\ [Next]_vars => [Fifo!Next]_(Fifo!vars)
  BY StepRefinesFifo
<1>. QED
  BY <1>1, <1>2, Invariance, PTL DEF Spec, OrderedOutput, Fifo!Spec

-----------------------------------------------------------------------------
(* Refinement of the whole promise, the end of the stream included.        *)

\* When all workers have ended, what is still owed is stored.
LEMMA DrainedWhenDone ==
  ASSUME IInv, \A t \in Workers : pc[t] = "done"
  PROVE  input_termination_flag_ /\ Owed = DOMAIN output_map_
<1>1. PICK t \in Workers : pc[t] = "done"
  BY WorkersAssumption
<1>2. input_termination_flag_ /\ input_queue_ = <<>>
  BY <1>1 DEF IInv, LeaveOnlyDrained
<1>3. FrontIndex = input_counter_
  BY <1>2 DEF FrontIndex, IInv, TypeOK
<1>4. \A u \in Workers : work[u] = {}
  BY DEF IInv, TypeOK
<1>5. Owed \subseteq DOMAIN output_map_
  BY <1>3, <1>4 DEF Owed, IInv, OnePlace, NoWorkLost, Running, Finished
<1>6. DOMAIN output_map_ \subseteq Owed
  BY <1>3 DEF Owed, IInv, OnePlace, NoWorkTwice
<1>. QED
  BY <1>2, <1>5, <1>6

LEMMA StepRefinesPromise ==
  ASSUME IInv, IInv', PropagatedByLastWorker, PropagatedByLastWorker', [Next]_vars
  PROVE  [Promise!Next]_(Promise!vars)
<1> USE DEF Promise!Next, Promise!vars
<1>1. ASSUME NEW w \in Work, QueueWork(w) PROVE Promise!Put(w)
  BY <1>1, QueueWorkPuts DEF QueueWork, Promise!Put, outputVars, flagVars, Empty
<1>2. CASE Terminate
  BY <1>2, ControlKeeps DEF Terminate, Promise!Close, inputVars, outputVars, workerVars, Empty
<1>3. ASSUME NEW t \in Workers, Worker(t) PROVE UNCHANGED Promise!vars
  <2>1. UNCHANGED <<result, input_termination_flag_, output_termination_flag_>>
    BY <1>3 DEF Worker, WorkerBegin, WorkerPop, WorkerBreak, WorkerMiss, WorkerTimeout,
                WorkerStore, WorkerEnd, flagVars, outputVars
  <2>2. Pending' = Pending
    BY <1>3, WorkerPopKeeps, WorkerStoreKeeps, ControlKeeps
       DEF Worker, WorkerBegin, WorkerBreak, WorkerMiss, WorkerTimeout, WorkerEnd,
           inputVars, outputVars
  <2>3. pc[t] # "done"
    BY <1>3 DEF Worker, WorkerBegin, WorkerPop, WorkerBreak, WorkerMiss, WorkerTimeout,
                WorkerStore, WorkerEnd
  <2>4. ~output_termination_flag_
    BY <2>3 DEF PropagatedByLastWorker
  <2>. QED
    BY <2>1, <2>2, <2>4
<1>4. CASE GetCall
  BY <1>4, ControlKeeps DEF GetCall, Promise!Ask, inputVars, workerVars, flagVars, Empty
<1>5. CASE GetHit
  <2>1. /\ Pending # <<>> /\ result' = {Head(Pending)} /\ Pending' = Tail(Pending)
        /\ UNCHANGED <<input_termination_flag_, output_termination_flag_, pc>>
    BY <1>5, GetHitGets DEF GetHit, flagVars, workerVars
  <2>2. ~Empty
    BY <1>5 DEF GetHit, Empty
  <2>3. ASSUME output_termination_flag_, Empty' PROVE input_termination_flag_ /\ Pending' = <<>>
    <3>1. \A t \in Workers : pc'[t] = "done"
      BY <2>1, <2>3 DEF PropagatedByLastWorker
    <3>2. input_termination_flag_ /\ Owed = DOMAIN output_map_
      BY <2>3, DrainedWhenDone DEF PropagatedByLastWorker
    <3>3. DOMAIN output_map_' = DOMAIN output_map_ \ {output_counter_}
      BY <1>5 DEF GetHit
    <3>4. Owed \subseteq {output_counter_}
      BY <2>3, <3>2, <3>3 DEF Empty
    <3>5. /\ input_counter_ \in Nat /\ output_counter_ \in Nat
          /\ input_counter_' = input_counter_ /\ output_counter_' = output_counter_ + 1
          /\ input_counter_' - output_counter_' \in Nat
      BY <1>5 DEF IInv, TypeOK, OnePlace, QueueInOrder, FrontIndex, GetHit, inputVars
    <3>6. input_counter_' - output_counter_' = 0
      <4>1. input_counter_ - 1 \in Owed
        BY <3>5 DEF Owed
      <4>. QED
        BY <3>4, <3>5, <4>1
    <3>7. Pending' \in Seq(Work) /\ Len(Pending') = 0
      BY <3>6, PendingTypeNext DEF PendingTyped
    <3>. QED
      BY <3>2, <3>7, EmptySeq
  <2>. QED
    BY <2>1, <2>2, <2>3 DEF Promise!Get
<1>6. CASE GetMiss \/ GetTimeout
  BY <1>6, ControlKeeps DEF GetMiss, GetTimeout, inputVars, workerVars, flagVars, Empty
<1>7. CASE GetNull
  <2>1. /\ UNCHANGED <<result, input_termination_flag_, pc, output_map_>>
        /\ Pending' = Pending
        /\ output_termination_flag_ => output_termination_flag_'
        /\ output_termination_flag_ \in BOOLEAN /\ output_termination_flag_' \in BOOLEAN
    BY <1>7, ControlKeeps DEF GetNull, inputVars, workerVars, IInv, TypeOK
  <2>2. ASSUME output_termination_flag_', Empty PROVE input_termination_flag_ /\ Pending = <<>>
    <3>1. \A t \in Workers : pc[t] = "done"
      BY <2>1, <2>2 DEF PropagatedByLastWorker
    <3>2. input_termination_flag_ /\ Owed = {}
      BY <2>2, <3>1, DrainedWhenDone DEF Empty
    <3>3. /\ input_counter_ \in Nat /\ output_counter_ \in Nat
          /\ input_counter_ - output_counter_ \in Nat
      BY DEF IInv, TypeOK, OnePlace, QueueInOrder, FrontIndex
    <3>4. input_counter_ - output_counter_ = 0
      <4>1. ~(output_counter_ <= input_counter_ - 1)
        BY <3>2, <3>3 DEF Owed
      <4>. QED
        BY <3>3, <4>1
    <3>5. Pending \in Seq(Work) /\ Len(Pending) = 0
      BY <3>4, PendingType DEF PendingTyped
    <3>. QED
      BY <3>2, <3>5, EmptySeq
  <2>3. Empty' = Empty
    BY <2>1 DEF Empty
  <2>. QED
    BY <2>1, <2>2, <2>3 DEF Promise!End
<1>8. CASE UNCHANGED vars
  BY <1>8, ControlKeeps DEF vars, inputVars, outputVars, workerVars, flagVars, Empty
<1>. QED
  BY <1>1, <1>2, <1>3, <1>4, <1>5, <1>6, <1>7, <1>8 DEF Next, GetOrNull

\* Provided that the workers have all begun, a consumer that finds its flag
\* raised and no result stored has been given everything there will ever be.
THEOREM EndOfStreamCorrect == SpecBegun => OrderedOutputAndEnd
<1>1. InitBegun => Promise!Init
  BY InitRefines DEF InitBegun, InitData, Promise!Init, Fifo!Init
<1>2. /\ IInv /\ IInv' /\ PropagatedByLastWorker /\ PropagatedByLastWorker' /\ [Next]_vars
      => [Promise!Next]_(Promise!vars)
  BY StepRefinesPromise
<1>. QED
  BY <1>1, <1>2, InvarianceBegun, PropagationCorrect, PTL
     DEF SpecBegun, OrderedOutputAndEnd, Promise!Spec

=============================================================================
