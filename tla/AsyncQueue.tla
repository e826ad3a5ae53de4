------------------------------- MODULE AsyncQueue -------------------------------
(***************************************************************************)
(* What a bounded single-consumer queue of the library promises, with no   *)
(* slots, flags, tickets or suspended coroutines: values come out in the   *)
(* order in which they went in, each of them once; at most Capacity values *)
(* are in the queue or in the consumer's hand; and the consumer is told    *)
(* CLOSED only after close(), when there will be nothing to pull any more. *)
(***************************************************************************)
EXTENDS Naturals, Sequences

CONSTANTS
    Value,
    Capacity,
    PushOverlapsClose  \* may a push that is under way outlast close()?

VARIABLES
    queue,   \* the values in the queue, oldest first
    held,    \* the values the consumer's zero-copy scope holds: at most one
    closed,  \* close() was called
    told     \* the last pull said CLOSED

vars == <<queue, held, closed, told>>

Init == queue = <<>> /\ held = <<>> /\ closed = FALSE /\ told = FALSE

\* push, try_push or push_bulk: all the values of a bulk appear at once.
Enqueue ==
    /\ ~told
    /\ closed => PushOverlapsClose
    /\ Len(queue') > Len(queue) /\ Len(queue') + Len(held) <= Capacity
    /\ SubSeq(queue', 1, Len(queue)) = queue
    /\ queue' \in Seq(Value)
    /\ UNCHANGED <<held, closed, told>>

Close ==
    /\ closed' = TRUE
    /\ UNCHANGED <<queue, held, told>>

\* A pull that finds a value: the consumer sees it in place.
Dequeue ==
    /\ held = <<>> /\ queue # <<>>
    /\ held' = <<Head(queue)>>
    /\ queue' = Tail(queue)
    /\ UNCHANGED <<closed, told>>

Release ==
    /\ held # <<>> /\ held' = <<>>
    /\ UNCHANGED <<queue, closed, told>>

SayClosed ==
    /\ held = <<>> /\ queue = <<>> /\ closed
    /\ told' = TRUE
    /\ UNCHANGED <<queue, held, closed>>

\* The destructor throws away what was not consumed.
Discard ==
    /\ held = <<>>
    /\ queue' = <<>> /\ closed' = TRUE
    /\ UNCHANGED <<held, told>>

Next == Enqueue \/ Close \/ Dequeue \/ Release \/ SayClosed \/ Discard

Spec == Init /\ [][Next]_vars
=================================================================================
