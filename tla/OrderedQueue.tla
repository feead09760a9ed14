---------------------------- MODULE OrderedQueue ----------------------------
(***************************************************************************)
(* What StreamingOrderedOutputThreadPoolExecutor promises to the two       *)
(* threads that use it: it is a FIFO queue.  The producer puts units of    *)
(* work and at last closes the queue; the consumer is given the results in *)
(* the order in which the work was put, each of them once, and may take    *)
(* the queue to be ended only when it is closed and everything put into it *)
(* has been handed out.                                                    *)
(*                                                                         *)
(* A unit of work and the value it returns go by the same name, a member   *)
(* of Work.                                                                *)
(***************************************************************************)
EXTENDS Sequences

CONSTANT Work    \* the units of work

VARIABLES
    pending,     \* results owed to the consumer, in the order of the work
    result,      \* the optional the consumer was given last: {} or {r}
    closed,      \* the producer will put no more work
    ended        \* the consumer has been told that there is nothing left

vars == <<pending, result, closed, ended>>

Init ==
    /\ pending = <<>>
    /\ result = {}
    /\ closed = FALSE
    /\ ended = FALSE

Put(w) ==
    /\ ~closed
    /\ pending' = Append(pending, w)
    /\ UNCHANGED <<result, closed, ended>>

Close ==
    /\ closed' = TRUE
    /\ UNCHANGED <<pending, result, ended>>

\* The consumer asks again: it has nothing in its hands.
Ask ==
    /\ result' = {}
    /\ UNCHANGED <<pending, closed, ended>>

\* The consumer is given the oldest result; the last one may end the queue.
Get ==
    /\ pending # <<>>
    /\ result' = {Head(pending)}
    /\ pending' = Tail(pending)
    /\ \/ ended' = ended
       \/ closed /\ Tail(pending) = <<>> /\ ended' = TRUE
    /\ UNCHANGED closed

End ==
    /\ closed
    /\ pending = <<>>
    /\ ended' = TRUE
    /\ UNCHANGED <<pending, result, closed>>

Next ==
    \/ \E w \in Work : Put(w)
    \/ Close
    \/ Ask
    \/ Get
    \/ End

Spec == Init /\ [][Next]_vars

=============================================================================
