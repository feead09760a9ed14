--------------------------- MODULE ThreadSafeFifo ---------------------------
(***************************************************************************)
(* ThreadSafeFifo (include/thread_safe_fifo.hpp): the queue between the    *)
(* UpperMac thread, which alone pushes, and the BorzoiSender thread, which *)
(* alone takes.  As in OrderedExecutor a scope that holds the mutex is one *)
(* step, a wait_for gives up only with its predicate false, and an         *)
(* optional is a set of at most one element.                               *)
(***************************************************************************)
EXTENDS Sequences

VARIABLES
    queue_,      \* the wrapped queue
    fifo_get,    \* where the consumer is in get_or_null()
    element      \* the optional get_or_null() returned last

vars == <<queue_, fifo_get, element>>

Init ==
    /\ queue_ = <<>>
    /\ fifo_get = "idle"
    /\ element = {}

PushBack_Front(e) ==
    /\ queue_' = <<e>> \o queue_
    /\ UNCHANGED <<fifo_get, element>>

PushBack(e) ==
    /\ queue_' = Append(queue_, e)
    /\ UNCHANGED <<fifo_get, element>>

Call ==
    /\ fifo_get = "idle"
    /\ fifo_get' = "find"
    /\ element' = {}
    /\ UNCHANGED queue_

\* An element is there, at the first look or while waiting.
Hit ==
    /\ fifo_get \in {"find", "wait"}
    /\ queue_ # <<>>
    /\ element' = {Head(queue_)}
    /\ queue_' = Tail(queue_)
    /\ fifo_get' = "idle"

Miss ==
    /\ fifo_get = "find"
    /\ queue_ = <<>>
    /\ fifo_get' = "wait"
    /\ UNCHANGED <<queue_, element>>

Timeout ==
    /\ fifo_get = "wait"
    /\ queue_ = <<>>
    /\ fifo_get' = "idle"
    /\ UNCHANGED <<queue_, element>>

GetOrNull == Hit \/ Miss \/ Timeout

Empty == queue_ = <<>>

TypeOK(Element) ==
    /\ queue_ \in Seq(Element)
    /\ fifo_get \in {"idle", "find", "wait"}
    /\ element \in SUBSET Element

=============================================================================
