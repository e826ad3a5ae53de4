------------------------------ MODULE SpscBounded ------------------------------
(***************************************************************************)
(* coro_util::qu_spsc_bounded: one producer coroutine and one consumer     *)
(* coroutine over a ring of Capacity slots.  Each slot has one atomic word *)
(* (element::flags) that says whether it is free, holds data, carries the  *)
(* CLOSED sentinel, or holds the pointer of a suspended coroutine.         *)
(*                                                                         *)
(* A step is one access to shared memory, with the accesses to private     *)
(* variables that surround it.  Every shared access that matters is an     *)
(* acquire / release operation on the flags word of the slot concerned, so *)
(* interleavings are enough.  Resuming a coroutine is a step of its own:   *)
(* an inline resumption is one of the interleavings of a posted one.       *)
(***************************************************************************)
EXTENDS Integers

CONSTANTS
    Capacity,           \* constructor argument
    WordMod,            \* 2^w, the number of values of a size_t offset
    ConsumerCanSuspend, \* Config::ConsumerCanSuspend
    MaxBulk,            \* largest count the producer passes to push_bulk()
    MaxPush             \* model bound: values pushed in a behaviour

\* The constructor asserts the first and second conjuncts, push_bulk() the
\* third.  The last one says when a run of consecutive offsets that crosses
\* the wraparound of size_t still names consecutive slots.
ASSUME CapacityAssumption == Capacity \in Nat /\ Capacity > 0
ASSUME WordAssumption     == WordMod \in Nat /\ 2 * Capacity < WordMod
ASSUME BulkAssumption     == MaxBulk \in 1..Capacity
ASSUME BoundAssumption    == ConsumerCanSuspend \in BOOLEAN /\ MaxPush \in Nat

WrapIsSeamless == MaxBulk = 1 \/ WordMod % Capacity = 0

VARIABLES
    flags,           \* element::flags of every slot
    stored,          \* element::data of every slot: a value, or NoValue
    write_offset,    \* read and written only by the producer
    read_offset,     \* read and written only by the consumer
    closed,          \* set once by close()
    write_closed_at, \* the offset at which close() cut the queue off
    ppc,             \* what the producer does next
    count,           \* number of values of the current push
    filled,          \* how many of them were constructed so far
    cpc,             \* what the consumer does next
    elem,            \* consumer_base::elem # nullptr of the last suspension
    outcome,         \* status of the consumer's last pull
    sent,            \* history: number of values published so far
    taken            \* history: number of slots the consumer has freed

shared   == <<flags, stored>>
producer == <<write_offset, closed, write_closed_at, ppc, count, filled, sent>>
consumer == <<read_offset, cpc, outcome, taken>>
vars     == <<shared, producer, consumer, elem>>

(***************************************************************************)
(* Slots, words and values                                                 *)
(***************************************************************************)
Slot    == 0 .. Capacity - 1
Word    == 0 .. WordMod - 1
NoValue == 0
\* The n-th value pushed is the number n.
Value   == 1 .. MaxPush

\* "cons" and "prod" stand for the address of the suspended coroutine's base.
Flag    == {"empty", "data", "closed", "data|closed", "cons", "prod"}

Plus(off, n)  == (off + n) % WordMod
SlotOf(off)   == off % Capacity
WriteSlot     == SlotOf(write_offset)
ReadSlot      == SlotOf(read_offset)

\* The slot await_ready() looks at: the last one a push of n values fills.
LastSlotIsFirst(n) == WriteSlot
LastSlot(n)   == SlotOf(Plus(write_offset, n - 1))

\* is_data_waiting(), and the tests of await_ready() and try_pull(): a
\* pointer in the consumer's own slot can only be a suspended producer's.
HasPointer(f) == f \in {"cons", "prod"}
DataWaitingNotClosed(f) == f = "data" \/ HasPointer(f)
DataWaitingNotNull(f) == f # "empty"
DataWaiting(f) == f \in {"data", "data|closed"} \/ HasPointer(f)

\* empty(), as the running consumer sees it.
Empty == flags[ReadSlot] = "empty"

CircularLess(a, b) == 2 * ((a - b) % WordMod) > WordMod

Init ==
    /\ flags = [s \in Slot |-> "empty"]
    /\ stored = [s \in Slot |-> NoValue]
    /\ write_offset = 0 /\ read_offset = 0
    /\ closed = FALSE /\ write_closed_at = 0
    /\ ppc = "idle" /\ count = 0 /\ filled = 0
    /\ cpc = "idle" /\ elem = FALSE /\ outcome = "none"
    /\ sent = 0 /\ taken = 0

(***************************************************************************)
(* The producer                                                            *)
(***************************************************************************)
MayPush(n) == ppc = "idle" /\ ~closed /\ sent + n <= MaxPush

\* aw_push(_bulk)::await_ready: poll the last slot needed.
PushReady(n) ==
    /\ MayPush(n)
    /\ count' = n
    /\ ppc' = IF flags[LastSlot(n)] = "data" THEN "suspend" ELSE "emplace"
    /\ UNCHANGED <<shared, write_offset, closed, write_closed_at, filled, sent,
                   consumer, elem>>

\* try_push that finds its slot free.  Finding data, it changes nothing.
TryPush ==
    /\ MayPush(1)
    /\ flags[WriteSlot] # "data"
    /\ count' = 1
    /\ ppc' = "emplace"
    /\ UNCHANGED <<shared, write_offset, closed, write_closed_at, filled, sent,
                   consumer, elem>>

ParkByStore ==
    /\ ppc = "suspend"
    /\ flags' = [flags EXCEPT ![LastSlot(count)] = "prod"]
    /\ ppc' = "parked"
    /\ UNCHANGED <<stored, write_offset, closed, write_closed_at, count, filled,
                   sent, consumer, elem>>

\* aw_push(_bulk)::await_suspend: CAS(DATA -> &base); if the consumer freed
\* the slot in the meantime the push goes on without suspending.
PushSuspend ==
    /\ ppc = "suspend"
    /\ IF flags[LastSlot(count)] = "data"
          THEN /\ flags' = [flags EXCEPT ![LastSlot(count)] = "prod"]
               /\ ppc' = "parked"
          ELSE /\ ppc' = "emplace"
               /\ UNCHANGED flags
    /\ UNCHANGED <<stored, write_offset, closed, write_closed_at, count, filled,
                   sent, consumer, elem>>

\* await_resume: construct the first value; its flag is published last.
EmplaceFirstAndPublish ==
    /\ ppc = "emplace"
    /\ stored' = [stored EXCEPT ![WriteSlot] = sent + 1]
    /\ flags' = [flags EXCEPT ![WriteSlot] = "data"]
    /\ filled' = 1
    /\ ppc' = "fill"
    /\ UNCHANGED <<write_offset, closed, write_closed_at, count, sent,
                   consumer, elem>>
EmplaceFirst ==
    /\ ppc = "emplace"
    /\ stored' = [stored EXCEPT ![WriteSlot] = sent + 1]
    /\ filled' = 1
    /\ ppc' = "fill"
    /\ UNCHANGED <<flags, write_offset, closed, write_closed_at, count, sent,
                   consumer, elem>>

\* The other values of a bulk: construct, then a relaxed store of DATA.
EmplaceNext ==
    LET s == SlotOf(Plus(write_offset, filled)) IN
    /\ ppc = "fill" /\ filled < count
    /\ stored' = [stored EXCEPT ![s] = sent + filled + 1]
    /\ flags' = [flags EXCEPT ![s] = "data"]
    /\ filled' = filled + 1
    /\ UNCHANGED <<write_offset, closed, write_closed_at, ppc, count, sent,
                   consumer, elem>>

\* Exchange the first slot's flag to DATA (a plain store when the consumer
\* never suspends) and advance write_offset.
Publish ==
    /\ ppc = "fill" /\ filled = count
    /\ flags' = [flags EXCEPT ![WriteSlot] = "data"]
    /\ write_offset' = Plus(write_offset, count)
    /\ sent' = sent + count
    /\ ppc' = IF ConsumerCanSuspend /\ flags[WriteSlot] # "empty"
                 THEN "wake" ELSE "idle"
    /\ UNCHANGED <<stored, closed, write_closed_at, count, filled, consumer, elem>>

\* resume_consumer(cons), after a publication or a close().
ResumeConsumer ==
    /\ ppc = "wake"
    /\ cpc' = "resume"
    /\ ppc' = "idle"
    /\ UNCHANGED <<shared, write_offset, closed, write_closed_at, count, filled,
                   sent, read_offset, outcome, taken, elem>>

\* set_closed_get_waiting_consumer: the sentinel keeps data that is there.
SentinelDropsData(f) == "closed"
WithSentinel(f) == IF f = "data" THEN "data|closed" ELSE "closed"

\* close(): a second call returns at once.
Close ==
    /\ ppc = "idle" /\ ~closed
    /\ closed' = TRUE
    /\ write_closed_at' = write_offset
    /\ flags' = [flags EXCEPT ![WriteSlot] = WithSentinel(@)]
    /\ IF HasPointer(flags[WriteSlot])
          THEN ppc' = "wake" /\ elem' = FALSE
          ELSE UNCHANGED <<ppc, elem>>
    /\ UNCHANGED <<stored, write_offset, count, filled, sent, consumer>>

(***************************************************************************)
(* The consumer                                                            *)
(***************************************************************************)
\* aw_pull::await_ready: poll the slot at read_offset.
PullReady ==
    /\ ConsumerCanSuspend
    /\ cpc = "idle"
    /\ IF DataWaiting(flags[ReadSlot])
          THEN cpc' = "holding" /\ outcome' = "OK"
          ELSE cpc' = "suspend" /\ UNCHANGED outcome
    /\ UNCHANGED <<shared, producer, read_offset, taken, elem>>

\* aw_pull::await_suspend: try_wait() is CAS(nullptr -> &base).
PullSuspend ==
    /\ cpc = "suspend"
    /\ \/ /\ flags[ReadSlot] = "empty"
          /\ flags' = [flags EXCEPT ![ReadSlot] = "cons"]
          /\ elem' = TRUE
          /\ cpc' = "parked"
          /\ UNCHANGED outcome
       \/ /\ flags[ReadSlot] = "closed"
          /\ outcome' = "CLOSED"
          /\ cpc' = "idle"
          /\ UNCHANGED <<flags, elem>>
       \/ /\ flags[ReadSlot] \notin {"empty", "closed"}
          /\ outcome' = "OK"
          /\ cpc' = "holding"
          /\ UNCHANGED <<flags, elem>>
    /\ UNCHANGED <<stored, producer, read_offset, taken>>

\* aw_pull::await_resume of a resumed consumer: elem tells data from CLOSED.
PullResume ==
    /\ cpc = "resume"
    /\ IF elem THEN cpc' = "holding" /\ outcome' = "OK"
               ELSE cpc' = "idle" /\ outcome' = "CLOSED"
    /\ UNCHANGED <<shared, producer, read_offset, taken, elem>>

\* try_pull()
TryPull ==
    /\ cpc = "idle"
    /\ IF DataWaiting(flags[ReadSlot])
          THEN cpc' = "holding" /\ outcome' = "OK"
          ELSE /\ outcome' = IF flags[ReadSlot] = "closed" THEN "CLOSED" ELSE "EMPTY"
               /\ UNCHANGED cpc
    /\ UNCHANGED <<shared, producer, read_offset, taken, elem>>

\* The zero-copy scope ends: finish_read destroys the value ...
DestroyValue ==
    /\ cpc = "holding"
    /\ stored' = [stored EXCEPT ![ReadSlot] = NoValue]
    /\ cpc' = "free"
    /\ UNCHANGED <<flags, producer, read_offset, outcome, taken, elem>>

AfterFreeNoRepublish(prev) == IF HasPointer(prev) THEN "wake" ELSE "idle"
AfterFree(prev) ==
    CASE HasPointer(prev)                   -> "wake"
      [] prev \in {"closed", "data|closed"} -> "republish"
      [] OTHER                              -> "idle"

\* ... exchanges the flag to nullptr and advances read_offset ...
FreeSlot ==
    LET prev == flags[ReadSlot] IN
    /\ cpc = "free"
    /\ flags' = [flags EXCEPT ![ReadSlot] = "empty"]
    /\ read_offset' = Plus(read_offset, 1)
    /\ taken' = taken + 1
    /\ cpc' = AfterFree(prev)
    /\ UNCHANGED <<stored, producer, outcome, elem>>

\* ... and wakes the producer that had suspended on the slot ...
ResumeProducer ==
    /\ cpc = "wake"
    /\ ppc' = "emplace"
    /\ cpc' = "idle"
    /\ UNCHANGED <<shared, write_offset, closed, write_closed_at, count, filled,
                   sent, read_offset, outcome, taken, elem>>

\* ... or puts the sentinel back for the consumer's next visit of the slot.
Republish ==
    /\ cpc = "republish"
    /\ flags' = [flags EXCEPT ![SlotOf(Plus(read_offset, WordMod - 1))] = "closed"]
    /\ cpc' = "idle"
    /\ UNCHANGED <<stored, producer, read_offset, outcome, taken, elem>>

(***************************************************************************)
(* The destructor: both sides are outside any call.  It closes the queue   *)
(* and destroys what lies between read_offset and write_closed_at.         *)
(***************************************************************************)
Leftover(end) ==
    { SlotOf(Plus(read_offset, k)) :
        k \in { k \in Word : \A j \in 0..k : CircularLess(Plus(read_offset, j), end) } }

Destruct ==
    LET end   == IF closed THEN write_closed_at ELSE write_offset
        final == IF closed THEN flags
                 ELSE [flags EXCEPT ![WriteSlot] = WithSentinel(@)]
    IN
    /\ ppc = "idle" /\ cpc = "idle"
    /\ closed' = TRUE
    /\ write_closed_at' = end
    /\ flags' = final
    /\ stored' = [s \in Slot |-> IF s \in Leftover(end) /\ DataWaiting(final[s])
                                    THEN NoValue ELSE stored[s]]
    /\ ppc' = "gone" /\ cpc' = "gone"
    /\ UNCHANGED <<write_offset, count, filled, sent, read_offset, outcome, taken, elem>>

Gone == ppc = "gone" /\ UNCHANGED vars

ProducerStep ==
    \/ PushSuspend \/ EmplaceFirst \/ EmplaceNext \/ Publish \/ ResumeConsumer
ConsumerStep ==
    \/ PullSuspend \/ PullResume \/ DestroyValue \/ FreeSlot
    \/ ResumeProducer \/ Republish

Next ==
    \/ \E n \in 1..MaxBulk : PushReady(n)
    \/ TryPush
    \/ ProducerStep
    \/ Close
    \/ PullReady
    \/ TryPull
    \/ ConsumerStep
    \/ Destruct
    \/ Gone

Spec == Init /\ [][Next]_vars

(***************************************************************************)
(* Fairness: a coroutine that runs, or was resumed, is eventually given    *)
(* processor time by its executor; and the client follows the recommended  *)
(* teardown: it closes the queue, and it keeps pulling until CLOSED.       *)
(***************************************************************************)
FairSpec ==
    /\ Spec
    /\ WF_vars(ProducerStep)
    /\ WF_vars(ConsumerStep)
    /\ WF_vars(Close)
    /\ WF_vars(PullReady \/ TryPull)

-----------------------------------------------------------------------------
(***************************************************************************)
(* Type invariant                                                          *)
(***************************************************************************)
TypeOK ==
    /\ flags \in [Slot -> Flag]
    /\ stored \in [Slot -> Value \cup {NoValue}]
    /\ write_offset \in Word /\ read_offset \in Word
    /\ closed \in BOOLEAN /\ write_closed_at \in Word
    /\ ppc \in {"idle", "suspend", "parked", "emplace", "fill", "wake", "gone"}
    /\ count \in 0..MaxBulk /\ filled \in 0..MaxBulk
    /\ cpc \in {"idle", "suspend", "parked", "resume", "holding", "free", "wake",
                "republish", "gone"}
    /\ elem \in BOOLEAN
    /\ outcome \in {"none", "OK", "EMPTY", "CLOSED"}
    /\ sent \in 0..MaxPush /\ taken \in 0..sent

(***************************************************************************)
(* Safety                                                                  *)
(***************************************************************************)
\* What the comments of aw_push_bulk rely on: once the last slot it needs is
\* free, all of them are.  A slot about to be written holds no value
\* (qu_storage::emplace asserts it) and its flag is clear, save that a
\* consumer may be suspended on the first; so does the first slot's flag stay
\* until the exchange, which casts what it finds to a consumer_base*.
PushOverwritesNothing ==
    ppc \in {"emplace", "fill"} =>
        /\ flags[WriteSlot] \in {"empty", "cons"}
        /\ \A k \in (IF ppc = "fill" THEN filled ELSE 0) .. count - 1 :
              LET s == SlotOf(Plus(write_offset, k)) IN
              stored[s] = NoValue /\ (k > 0 => flags[s] = "empty")

\* Every value comes out in the order pushed, once: what the consumer's
\* scope refers to is the value after the ones it took before, whatever the
\* slots and wraparounds in between.
FifoDelivery ==
    cpc = "holding" => taken < sent /\ stored[ReadSlot] = taken + 1

\* qu_storage's destructor asserts that no value is left alive: the queue's
\* own destructor has destroyed everything that was not consumed.
DestructorLeavesNothing ==
    ppc = "gone" => \A s \in Slot : stored[s] = NoValue

\* No lost wakeup: the pointer of a suspended coroutine is in the flag of the
\* slot the other side visits next, or the other side is about to resume it;
\* and nobody is resumed that is not suspended.
NoLostWakeup ==
    /\ ppc = "parked" <=>
          (cpc = "wake") # (\E s \in Slot : flags[s] = "prod")
    /\ cpc = "parked" <=>
          (ppc = "wake") # (\E s \in Slot : flags[s] = "cons")
    /\ ppc = "parked" /\ cpc # "wake" => taken < sent
    /\ cpc = "parked" /\ ppc # "wake" => taken = sent /\ ~closed

\* pull and try_pull say CLOSED, and try_pull and empty() say that there is
\* nothing, only when that is so: the flag of the consumer's next slot alone
\* tells, while the producer publishes, closes, or fills a bulk out of order.
StatusIsRight ==
    cpc \in {"idle", "suspend"} =>
        /\ flags[ReadSlot] = "closed" <=> closed /\ taken = sent
        /\ Empty <=> ~closed /\ taken = sent

(***************************************************************************)
(* Liveness                                                                *)
(***************************************************************************)
\* After close() the consumer drains the queue and is told CLOSED (unless
\* the queue is destroyed first), and nobody stays suspended.
DrainsAndCloses ==
    /\ closed ~> (outcome = "CLOSED" \/ ppc = "gone")
    /\ ppc = "parked" ~> ppc = "emplace"
    /\ cpc = "parked" ~> cpc = "resume"

(***************************************************************************)
(* Refinement                                                              *)
(***************************************************************************)
\* Positions taken + 1 .. sent are in the ring; the first of them is the one
\* the consumer holds, from the moment it sees it until it has destroyed it.
InHand == IF cpc \in {"holding", "free"} THEN 1 ELSE 0
StoredAt(k) == stored[SlotOf(Plus(read_offset, k))]

Queue == IF ppc = "gone" THEN <<>>
         ELSE [k \in 1 .. sent - taken - InHand |-> StoredAt(k - 1 + InHand)]
Held  == IF cpc = "holding" THEN <<StoredAt(0)>> ELSE <<>>
Told  == outcome = "CLOSED"

\* The ring implements the abstract queue: a bulk is published by the one
\* exchange of its first slot, a pull takes effect when it sees the flag.
Abstract == INSTANCE AsyncQueue WITH
    queue <- Queue, held <- Held, told <- Told, PushOverlapsClose <- FALSE

ImplementsAsyncQueue == Abstract!Spec
================================================================================
