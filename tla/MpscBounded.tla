------------------------------ MODULE MpscBounded ------------------------------
(***************************************************************************)
(* coro_util::qu_mpsc_bounded: any number of producer coroutines, one      *)
(* consumer and one effective call of close(), over a ring of Capacity     *)
(* slots.  A producer draws a ticket from write_offset; the ticket names   *)
(* the slot it competes for.  Losers park on a stack in the slot's flags,  *)
(* which the consumer reverses into its own list to wake them in order,    *)
(* handing the slot over with PROD already set.                            *)
(*                                                                         *)
(* A step is one access to shared memory (a load / compare-exchange loop   *)
(* is its successful exchange) with the private accesses around it.  The   *)
(* flag `closed' is read with memory_order_relaxed: the consumer may miss  *)
(* it until a release / acquire edge orders it, and the only such edge the *)
(* model grants is the one through the flags of the cutoff slot.  All      *)
(* other shared variables are sequentially consistent.                     *)
(***************************************************************************)
EXTENDS Integers, Sequences

CONSTANTS
    Producers,
    Capacity,           \* constructor argument
    WordMod,            \* 2^w, the number of values of a size_t offset
    SuspendModes,       \* the values of Config::ConsumerCanSuspend
    FirstTicket,        \* the model starts when so many values went through
    MaxPush             \* model bound: tickets drawn in a behaviour

ASSUME CapacityAssumption == Capacity \in Nat /\ Capacity > 0
ASSUME WordAssumption     == WordMod \in Nat /\ 2 * Capacity <= WordMod
ASSUME BoundAssumption    == /\ SuspendModes \subseteq BOOLEAN
                             /\ FirstTicket \in 0 .. WordMod - 1
                             /\ MaxPush \in Nat /\ 2 * MaxPush < WordMod

VARIABLES
    can_suspend,      \* Config::ConsumerCanSuspend: never changes
    flags,            \* element::flags of every slot
    waiting,          \* element::waiting_consumer # nullptr
    waiting_idx,      \* element::waiting_consumer_idx
    output,           \* element::output_producers, the consumer's own
    stored,           \* element::data: a value, or NoValue
    write_offset,
    closed, closed_ready, write_closed_at,
    pc, ticket,       \* of each producer: what it does next, its reservation
    cpc,              \* what the consumer does next
    call,             \* its pull: the mode, and the sentinel it saw, if any
    told,             \* the last pull said CLOSED
    read_offset,
    next,             \* the producer that finish_read is about to resume
    sees_closed,      \* a read of `closed' by the consumer must return true
    kpc, snapshot,    \* of the closer: what it does next, the flags it read
    marked,           \* it has done its fetch_or on the cutoff slot's flags
    accepted,         \* history: the values published
    delivered         \* history: the values the consumer has released

slots     == <<flags, waiting, waiting_idx, output, stored>>
producers == <<pc, ticket>>
consumer  == <<cpc, call, told, read_offset, next, sees_closed>>
closer    == <<kpc, snapshot, marked>>
closing   == <<closed, closed_ready, write_closed_at>>
history   == <<accepted, delivered>>
vars == <<slots, write_offset, closing, producers, consumer, closer, history, can_suspend>>

Slot    == 0 .. Capacity - 1
Word    == 0 .. WordMod - 1
Nobody  == "nobody"
NoValue == <<>>
Value   == Producers \X Word        \* a value: who pushed it, with which ticket
Owner   == {"none", "prod", "data", "closed"}   \* PROD_BIT, DATA_BIT, CLOSE_SENTINEL

Plus(off, n)       == (off + n) % WordMod
SlotOf(off)        == off % Capacity
CircularLess(a, b) == 2 * ((a - b) % WordMod) > WordMod

MySlot(p)  == SlotOf(ticket[p])
ReadSlot   == SlotOf(read_offset)
CutoffSlot == SlotOf(write_closed_at)

\* The chain is a stack: its first element is the producer that came last.
NoCall       == [mode |-> "none", sentinel |-> FALSE]
Free         == [owner |-> "none", cons |-> FALSE, chain |-> <<>>]
Claimable(f) == f.owner = "none" /\ f.chain = <<>>

NotReversed(s) == s
Reversed(s) == [i \in 1 .. Len(s) |-> s[Len(s) + 1 - i]]

Init ==
    /\ can_suspend \in SuspendModes
    /\ flags = [s \in Slot |-> Free]
    /\ waiting = [s \in Slot |-> FALSE] /\ waiting_idx = [s \in Slot |-> 0]
    /\ output = [s \in Slot |-> <<>>]
    /\ stored = [s \in Slot |-> NoValue]
    /\ write_offset = FirstTicket /\ read_offset = FirstTicket
    /\ closed = FALSE /\ closed_ready = FALSE /\ write_closed_at = 0
    /\ pc = [p \in Producers |-> "idle"]
    /\ ticket = [p \in Producers |-> 0]
    /\ cpc = "idle" /\ call = NoCall /\ told = FALSE /\ next = Nobody /\ sees_closed = FALSE
    /\ kpc = "idle" /\ snapshot = Free /\ marked = FALSE
    /\ accepted = {} /\ delivered = {}

(***************************************************************************)
(* A producer: co_await push()                                             *)
(***************************************************************************)
\* A call that returns forgets its ticket.
ProducerGoes(p, l) ==
    /\ pc' = [pc EXCEPT ![p] = l]
    /\ ticket' = IF l = "idle" THEN [ticket EXCEPT ![p] = 0] ELSE ticket

\* get_write_ticket: the fetch_add ...
TakeTicket(p) ==
    /\ pc[p] = "idle" /\ (write_offset - FirstTicket) % WordMod < MaxPush
    /\ ticket' = [ticket EXCEPT ![p] = write_offset]
    /\ write_offset' = Plus(write_offset, 1)
    /\ pc' = [pc EXCEPT ![p] = "check"]
    /\ UNCHANGED <<slots, closing, consumer, closer, history, can_suspend>>

\* ... the relaxed load of closed: a fetch_add that comes after the closer's
\* acquires it, another one may miss it ...
MustSeeClosed(p) ==
    /\ kpc \notin {"idle", "cut"}
    /\ ~CircularLess(ticket[p], write_closed_at)

CheckClosed(p) ==
    /\ pc[p] = "check"
    /\ \/ ~MustSeeClosed(p) /\ ProducerGoes(p, "claim")
       \/ closed /\ ProducerGoes(p, "spin")
    /\ UNCHANGED <<slots, write_offset, closing, consumer, closer, history, can_suspend>>

\* ... and, closed, the wait for the cutoff and the comparison with it.
CompareCutoff(p) ==
    /\ pc[p] = "spin" /\ closed_ready
    /\ ProducerGoes(p, IF CircularLess(ticket[p], write_closed_at)
                          THEN "claim" ELSE "idle")
    /\ UNCHANGED <<slots, write_offset, closing, consumer, closer, history, can_suspend>>

\* producer_try_claim, from await_ready and from the loop of await_suspend.
\* Push returns false (to "idle") when it meets the close sentinel.
TryClaim(p) ==
    LET s == MySlot(p) f == flags[s] IN
    /\ pc[p] = "claim"
    /\ IF Claimable(f)
          THEN /\ flags' = [flags EXCEPT ![s].owner = "prod"]
               /\ ProducerGoes(p, "emplace")
          ELSE /\ ProducerGoes(p, IF f.owner = "closed" THEN "idle" ELSE "park")
               /\ UNCHANGED flags
    /\ UNCHANGED <<waiting, waiting_idx, output, stored, write_offset, closing, consumer, closer,
                   history, can_suspend>>

\* producer_park: push this producer on the slot's stack.
ParkedAlone(p, f) == [f EXCEPT !.chain = <<p>>]
ParkedOn(p, f)    == [f EXCEPT !.chain = <<p>> \o @]

Park(p) ==
    LET s == MySlot(p) f == flags[s] IN
    /\ pc[p] = "park"
    /\ IF Claimable(f) \/ f.owner = "closed"
          THEN /\ ProducerGoes(p, IF f.owner = "closed" THEN "idle" ELSE "claim")
               /\ UNCHANGED flags
          ELSE /\ flags' = [flags EXCEPT ![s] = ParkedOn(p, f)]
               /\ ProducerGoes(p, "parked")
    /\ UNCHANGED <<waiting, waiting_idx, output, stored, write_offset, closing, consumer, closer,
                   history, can_suspend>>

\* await_resume: construct the value in the slot this producer owns ...
Emplace(p) ==
    /\ pc[p] = "emplace"
    /\ stored' = [stored EXCEPT ![MySlot(p)] = <<p, ticket[p]>>]
    /\ ProducerGoes(p, "publish")
    /\ UNCHANGED <<flags, waiting, waiting_idx, output, write_offset, closing, consumer, closer,
                   history, can_suspend>>

\* ... producer_publish: PROD becomes DATA, CONS is cleared, the chain stays ...
PublishedFlags(f) == [f EXCEPT !.owner = "data", !.cons = FALSE]

Publish(p) ==
    LET s == MySlot(p) f == flags[s] IN
    /\ pc[p] = "publish"
    /\ flags' = [flags EXCEPT ![s] = PublishedFlags(f)]
    /\ accepted' = accepted \cup {<<p, ticket[p]>>}
    /\ ProducerGoes(p, IF can_suspend /\ f.cons THEN "extract" ELSE "idle")
    /\ UNCHANGED <<waiting, waiting_idx, output, stored, write_offset, closing, consumer, closer,
                   delivered, can_suspend>>

\* ... then, had CONS been set, the exchange of waiting_consumer ...
ExtractConsumer(p) ==
    LET s == MySlot(p) IN
    /\ pc[p] = "extract"
    /\ waiting' = [waiting EXCEPT ![s] = FALSE]
    /\ ProducerGoes(p, IF waiting[s] THEN "wake" ELSE "idle")
    /\ UNCHANGED <<flags, waiting_idx, output, stored, write_offset, closing, consumer, closer,
                   history, can_suspend>>

\* ... and the resumption of the consumer.
WakeConsumer(p) ==
    /\ pc[p] = "wake"
    /\ cpc' = "resume"
    /\ ProducerGoes(p, "idle")
    /\ UNCHANGED <<slots, write_offset, closing, call, told, read_offset, next, sees_closed,
                   closer, history, can_suspend>>

(***************************************************************************)
(* The consumer                                                            *)
(***************************************************************************)
\* An acquiring access to the flags of slot s by the consumer.
Acquire(s) == sees_closed' = (sees_closed \/ (marked /\ s = CutoffSlot))

Mode == {"try"} \cup (IF can_suspend THEN {"pull"} ELSE {})

\* try_pull() and aw_pull::await_ready start alike: load the flags ...
LookForAnyBit(m) ==
    LET f == flags[ReadSlot] IN
    /\ Acquire(ReadSlot)
    /\ IF f.owner # "none"
          THEN cpc' = "holding" /\ told' = FALSE /\ call' = NoCall
          ELSE cpc' = "check" /\ call' = [mode |-> m, sentinel |-> FALSE] /\ UNCHANGED told
    /\ UNCHANGED <<slots, write_offset, closing, producers, read_offset, next, closer, history,
                   can_suspend>>
Look(m) ==
    LET f == flags[ReadSlot] IN
    /\ Acquire(ReadSlot)
    /\ IF f.owner = "data"
          THEN cpc' = "holding" /\ told' = FALSE /\ call' = NoCall
          ELSE /\ cpc' = "check"
               /\ call' = [mode |-> m, sentinel |-> f.owner = "closed"]
               /\ UNCHANGED told
    /\ UNCHANGED <<slots, write_offset, closing, producers, read_offset, next, closer, history,
                   can_suspend>>

StartPull == cpc = "idle" /\ \E m \in Mode : Look(m)
LookAgain == cpc = "look" /\ Look(call.mode)

\* What a pull does that found no data and no reason to say CLOSED.
NothingYet ==
    /\ IF call.mode = "pull" THEN cpc' = "arm" /\ UNCHANGED told
                             ELSE cpc' = "idle" /\ told' = FALSE
    /\ call' = NoCall

\* ... load closed (relaxed: it may be missed while no edge orders it) ...
LoadClosed ==
    /\ cpc = "check"
    /\ \/ ~sees_closed /\ NothingYet /\ UNCHANGED sees_closed
       \/ closed /\ cpc' = "spin" /\ sees_closed' = TRUE /\ UNCHANGED <<told, call>>
    /\ UNCHANGED <<slots, write_offset, closing, producers, read_offset, next, closer, history,
                   can_suspend>>

\* ... and wait for the cutoff: CLOSED at or past it; a sentinel met before
\* it stands for a ticket that was turned away, and is skipped.
ReachedCutoffEarly == ~CircularLess(Plus(read_offset, 1), write_closed_at)
ReachedCutoff == ~CircularLess(read_offset, write_closed_at)

LoadCutoff ==
    /\ cpc = "spin" /\ closed_ready
    /\ \/ /\ ReachedCutoff
          /\ cpc' = "idle" /\ told' = TRUE /\ call' = NoCall
          /\ UNCHANGED read_offset
       \/ /\ ~ReachedCutoff /\ call.sentinel
          /\ read_offset' = Plus(read_offset, 1)
          /\ cpc' = "look"
          /\ UNCHANGED <<told, call>>
       \/ /\ ~ReachedCutoff /\ ~call.sentinel
          /\ NothingYet
          /\ UNCHANGED read_offset
    /\ UNCHANGED <<slots, write_offset, closing, producers, next, sees_closed, closer, history,
                   can_suspend>>

\* aw_pull::await_suspend: publish the consumer's index and pointer ...
Arm ==
    /\ cpc = "arm"
    /\ waiting_idx' = [waiting_idx EXCEPT ![ReadSlot] = read_offset]
    /\ waiting' = [waiting EXCEPT ![ReadSlot] = TRUE]
    /\ cpc' = "confirm"
    /\ UNCHANGED <<flags, output, stored, write_offset, closing, producers, call, told,
                   read_offset, next, sees_closed, closer, history, can_suspend>>

\* ... and set CONS, unless data or the sentinel came in the meantime.
Confirm ==
    LET f == flags[ReadSlot] IN
    /\ cpc = "confirm"
    /\ Acquire(ReadSlot)
    /\ cpc' = CASE f.owner = "data"   -> "disarm_data"
                [] f.owner = "closed" -> "disarm_closed"
                [] OTHER              -> "parked"
    /\ flags' = IF f.owner \in {"data", "closed"} THEN flags
                ELSE [flags EXCEPT ![ReadSlot].cons = TRUE]
    /\ UNCHANGED <<waiting, waiting_idx, output, stored, write_offset, closing, producers, call,
                   told, read_offset, next, closer, history, can_suspend>>

\* Take the pointer back; if somebody has it already, wait to be resumed.
Disarm ==
    /\ cpc \in {"disarm_data", "disarm_closed"}
    /\ waiting' = [waiting EXCEPT ![ReadSlot] = FALSE]
    /\ CASE ~waiting[ReadSlot]  -> cpc' = "parked" /\ UNCHANGED told
         [] cpc = "disarm_data" -> cpc' = "holding" /\ told' = FALSE
         [] OTHER               -> cpc' = "rearm" /\ UNCHANGED told
    /\ UNCHANGED <<flags, waiting_idx, output, stored, write_offset, closing, producers, call,
                   read_offset, next, sees_closed, closer, history, can_suspend>>

\* Having met the sentinel: CLOSED at the cutoff, else on to the next index.
Rearm ==
    /\ cpc = "rearm" /\ closed_ready
    /\ IF ReachedCutoff
          THEN cpc' = "idle" /\ told' = TRUE /\ UNCHANGED read_offset
          ELSE cpc' = "arm" /\ read_offset' = Plus(read_offset, 1) /\ UNCHANGED told
    /\ UNCHANGED <<slots, write_offset, closing, producers, call, next, sees_closed, closer,
                   history, can_suspend>>

\* await_resume of a consumer that was resumed, with a value or by close(),
\* which made its elem null.
PullResume ==
    /\ cpc \in {"resume", "resume_closed"}
    /\ cpc' = IF cpc = "resume" THEN "holding" ELSE "idle"
    /\ told' = (cpc = "resume_closed")
    /\ UNCHANGED <<slots, write_offset, closing, producers, call, read_offset, next, sees_closed,
                   closer, history, can_suspend>>

\* The scope ends.  finish_read destroys the value ...
DestroyValue ==
    /\ cpc = "holding"
    /\ stored' = [stored EXCEPT ![ReadSlot] = NoValue]
    /\ delivered' = delivered \cup {stored[ReadSlot]}
    /\ cpc' = "drain"
    /\ UNCHANGED <<flags, waiting, waiting_idx, output, write_offset, closing, producers, call,
                   told, read_offset, next, sees_closed, closer, accepted, can_suspend>>

\* ... frees the slot or hands it to the producer that waited longest: the
\* first of the output list or, that being empty, of the reversed chain ...
Line(s) == output[s] \o Reversed(flags[s].chain)

\* The output list is served before the chain is taken, so while it is not
\* empty the chain stays in the flags.
HandedUnclaimed(s) ==
    [Free EXCEPT !.chain = IF output[s] # <<>> THEN flags[s].chain ELSE <<>>]
HandedFlags(s) ==
    [Free EXCEPT !.owner = "prod",
                 !.chain = IF output[s] # <<>> THEN flags[s].chain ELSE <<>>]

DrainAndHandoff ==
    LET s    == ReadSlot
        list == IF output[s] # <<>> THEN output[s] ELSE Reversed(flags[s].chain)
    IN
    /\ cpc = "drain"
    /\ Acquire(s)
    /\ read_offset' = Plus(read_offset, 1)
    /\ IF list = <<>>
          THEN /\ flags' = [flags EXCEPT ![s] = Free]
               /\ cpc' = "idle"
               /\ UNCHANGED <<output, next>>
          ELSE /\ flags' = [flags EXCEPT ![s] = HandedFlags(s)]
               /\ output' = [output EXCEPT ![s] = Tail(list)]
               /\ next' = Head(list)
               /\ cpc' = "wake"
    /\ UNCHANGED <<waiting, waiting_idx, stored, write_offset, closing, producers, call, told,
                   closer, history, can_suspend>>

\* ... and resumes that producer, which owns the slot now.
WakeProducer ==
    /\ cpc = "wake"
    /\ ProducerGoes(next, "emplace")
    /\ next' = Nobody
    /\ cpc' = "idle"
    /\ UNCHANGED <<slots, write_offset, closing, call, told, read_offset, sees_closed, closer,
                   history, can_suspend>>

(***************************************************************************)
(* close(), from any thread; only the call that wins the exchange goes on  *)
(***************************************************************************)
CloserGoes(l) == kpc' = l

SetClosed ==
    /\ kpc = "idle"
    /\ closed' = TRUE
    /\ CloserGoes("cut")
    /\ UNCHANGED <<slots, write_offset, closed_ready, write_closed_at, producers, consumer,
                   snapshot, marked, history, can_suspend>>

\* The fetch_add on write_offset draws the cutoff.
DrawCutoff ==
    /\ kpc = "cut"
    /\ write_closed_at' = write_offset
    /\ write_offset' = Plus(write_offset, 1)
    /\ CloserGoes("ready")
    /\ UNCHANGED <<slots, closed, closed_ready, producers, consumer, snapshot, marked, history,
                   can_suspend>>

SetReady ==
    /\ kpc = "ready"
    /\ closed_ready' = TRUE
    /\ CloserGoes("mark")
    /\ UNCHANGED <<slots, write_offset, closed, write_closed_at, producers, consumer, snapshot,
                   marked, history, can_suspend>>

MarkByLoad ==
    /\ kpc = "mark"
    /\ snapshot' = flags[CutoffSlot]
    /\ CloserGoes(IF can_suspend THEN "settle" ELSE "done")
    /\ UNCHANGED <<slots, write_offset, closing, producers, consumer, marked, history,
                   can_suspend>>

\* fetch_or(0): from here on an acquiring access to the cutoff slot's flags
\* makes `closed' visible.
MarkCutoffSlot ==
    /\ kpc = "mark"
    /\ marked' = TRUE
    /\ snapshot' = flags[CutoffSlot]
    /\ CloserGoes(IF can_suspend THEN "settle" ELSE "done")
    /\ UNCHANGED <<slots, write_offset, closing, producers, consumer, history, can_suspend>>

\* Put the sentinel, by compare-exchange against the snapshot, into a slot
\* that is free or where the consumer waits for the cutoff itself.
LeaveAnyConsumerAlone(f) == f.owner \in {"prod", "data"} \/ f.cons
LeaveNoDataAlone(f) ==
    f.owner = "prod" \/ (f.cons /\ CircularLess(waiting_idx[CutoffSlot], write_closed_at))
LeaveAlone(f) ==
    \/ f.owner \in {"prod", "data"}
    \/ f.cons /\ CircularLess(waiting_idx[CutoffSlot], write_closed_at)

PlaceSentinel ==
    /\ kpc = "settle"
    /\ \/ /\ LeaveAlone(snapshot)
          /\ CloserGoes("done") /\ snapshot' = Free
          /\ UNCHANGED flags
       \/ /\ ~LeaveAlone(snapshot) /\ flags[CutoffSlot] = snapshot
          /\ flags' = [flags EXCEPT ![CutoffSlot] = [Free EXCEPT !.owner = "closed"]]
          /\ CloserGoes(IF snapshot.cons THEN "extract" ELSE "done") /\ snapshot' = Free
       \/ /\ ~LeaveAlone(snapshot) /\ flags[CutoffSlot] # snapshot
          /\ snapshot' = flags[CutoffSlot]
          /\ UNCHANGED <<flags, kpc>>
    /\ UNCHANGED <<waiting, waiting_idx, output, stored, write_offset, closing, producers,
                   consumer, marked, history, can_suspend>>

\* Take the consumer's pointer, make its elem null, and resume it.
CloserExtracts ==
    /\ kpc = "extract"
    /\ waiting' = [waiting EXCEPT ![CutoffSlot] = FALSE]
    /\ CloserGoes(IF waiting[CutoffSlot] THEN "wake" ELSE "done")
    /\ UNCHANGED <<flags, waiting_idx, output, stored, write_offset, closing, producers,
                   consumer, snapshot, marked, history, can_suspend>>

CloserWakes ==
    /\ kpc = "wake"
    /\ cpc' = "resume_closed"
    /\ CloserGoes("done")
    /\ UNCHANGED <<slots, write_offset, closing, producers, call, told, read_offset, next,
                   sees_closed, snapshot, marked, history, can_suspend>>

(***************************************************************************)
(* The destructor: nobody is in a call.  It closes a queue that is open,   *)
(* and destroys the data it finds between read_offset and the cutoff.      *)
(***************************************************************************)
Leftover(end) ==
    { SlotOf(Plus(read_offset, k)) :
        k \in { k \in Word : \A j \in 0..k : CircularLess(Plus(read_offset, j), end) } }

Destruct ==
    LET end == IF closed THEN write_closed_at ELSE write_offset IN
    /\ \A p \in Producers : pc[p] = "idle"
    /\ cpc = "idle" /\ kpc \in {"idle", "done"}
    /\ closed' = TRUE /\ closed_ready' = TRUE /\ write_closed_at' = end
    /\ marked' = TRUE
    /\ flags' = IF closed \/ ~can_suspend \/ flags[SlotOf(end)].owner # "none" THEN flags
                ELSE [flags EXCEPT ![SlotOf(end)].owner = "closed"]
    /\ stored' = [s \in Slot |->
                    IF s \in Leftover(end) /\ flags[s].owner = "data" THEN NoValue
                    ELSE stored[s]]
    /\ write_offset' = IF closed THEN write_offset ELSE Plus(write_offset, 1)
    /\ pc' = [p \in Producers |-> "gone"]
    /\ cpc' = "gone" /\ kpc' = "done"
    /\ UNCHANGED <<waiting, waiting_idx, output, ticket, call, told, read_offset, next,
                   sees_closed, snapshot, history, can_suspend>>

Gone == cpc = "gone" /\ UNCHANGED vars

ProducerStep(p) ==
    \/ CheckClosed(p) \/ CompareCutoff(p) \/ TryClaim(p) \/ Park(p) \/ Emplace(p)
    \/ Publish(p) \/ ExtractConsumer(p) \/ WakeConsumer(p)
ConsumerStep ==
    \/ LookAgain \/ LoadClosed \/ LoadCutoff \/ Arm \/ Confirm \/ Disarm \/ Rearm
    \/ PullResume \/ DestroyValue \/ DrainAndHandoff \/ WakeProducer
CloserStep ==
    \/ DrawCutoff \/ SetReady \/ MarkCutoffSlot \/ PlaceSentinel \/ CloserExtracts
    \/ CloserWakes

Next ==
    \/ \E p \in Producers : TakeTicket(p) \/ ProducerStep(p)
    \/ StartPull \/ ConsumerStep
    \/ SetClosed \/ CloserStep
    \/ Destruct \/ Gone

Spec == Init /\ [][Next]_vars

(***************************************************************************)
(* Fairness: a coroutine that runs, or was resumed, and the caller of      *)
(* close() are eventually given processor time; the client follows the     *)
(* recommended teardown: it closes the queue, and pulls until CLOSED.      *)
(***************************************************************************)
FairSpec ==
    /\ Spec
    /\ \A p \in Producers : WF_vars(ProducerStep(p))
    /\ WF_vars(ConsumerStep)
    /\ WF_vars(StartPull /\ ~told)
    /\ WF_vars(SetClosed)
    /\ WF_vars(CloserStep)

-----------------------------------------------------------------------------
TypeOK ==
    /\ flags \in [Slot -> [owner : Owner, cons : BOOLEAN, chain : Seq(Producers)]]
    /\ waiting \in [Slot -> BOOLEAN] /\ waiting_idx \in [Slot -> Word]
    /\ output \in [Slot -> Seq(Producers)]
    /\ stored \in [Slot -> Value \cup {NoValue}]
    /\ write_offset \in Word /\ read_offset \in Word /\ write_closed_at \in Word
    /\ closed \in BOOLEAN /\ closed_ready \in BOOLEAN
    /\ pc \in [Producers -> {"idle", "check", "spin", "claim", "park", "parked", "emplace",
                             "publish", "extract", "wake", "gone"}]
    /\ ticket \in [Producers -> Word]
    /\ cpc \in {"idle", "look", "check", "spin", "arm", "confirm", "disarm_data",
                "disarm_closed", "rearm", "parked", "resume", "resume_closed", "holding",
                "drain", "wake", "gone"}
    /\ call \in [mode : {"none", "try", "pull"}, sentinel : BOOLEAN]
    /\ told \in BOOLEAN
    /\ next \in Producers \cup {Nobody}
    /\ sees_closed \in BOOLEAN /\ marked \in BOOLEAN
    /\ kpc \in {"idle", "cut", "ready", "mark", "settle", "extract", "wake", "done"}
    /\ snapshot \in [owner : Owner, cons : BOOLEAN, chain : Seq(Producers)]
    /\ accepted \subseteq Value /\ delivered \subseteq Value

(***************************************************************************)
(* Safety                                                                  *)
(***************************************************************************)
\* Who holds slot s: the producers that write in it (or were handed it and
\* are about to be resumed), and the consumer that reads it.
Writers(s) == { p \in Producers : pc[p] \in {"emplace", "publish"} /\ MySlot(p) = s }
                \cup (IF cpc = "wake" /\ MySlot(next) = s THEN {next} ELSE {})
Reads(s)   == cpc \in {"holding", "drain"} /\ ReadSlot = s

\* The flags word is a lock on the slot: PROD means exactly one writer and no
\* reader, DATA a constructed value, anything else neither.  So emplace() finds
\* no value and destroy() finds one, and the assertions of producer_publish,
\* consumer_drain_and_handoff and await_suspend on the flags hold.
SlotIsExclusive ==
    cpc # "gone" => \A s \in Slot :
        /\ flags[s].owner = "prod" <=> Writers(s) # {}
        /\ \A p, q \in Writers(s) : p = q
        /\ Reads(s) => flags[s].owner = "data"
        /\ stored[s] # NoValue <=> \/ flags[s].owner = "data" /\ ~(Reads(s) /\ cpc = "drain")
                                   \/ \E p \in Writers(s) : pc[p] = "publish"
        /\ cpc = "confirm" => ~flags[ReadSlot].cons

\* Every value that push() accepted is in its slot until the consumer has
\* had it, and the consumer has it once; the destructor destroys the rest.
DeliveredOnce ==
    /\ cpc = "holding" => stored[ReadSlot] \in accepted \ delivered
    /\ IF cpc = "gone"
       THEN \A s \in Slot : stored[s] = NoValue
       ELSE accepted = delivered \cup { stored[s] : s \in { t \in Slot : flags[t].owner = "data"
                                                         /\ ~(cpc = "drain" /\ t = ReadSlot) } }

\* CLOSED is said only when every push that will ever return true has had its
\* value delivered: nobody still writes, is parked, or can claim a slot.
ClosedMeansDrained ==
    told =>
        /\ accepted = delivered
        /\ \A p \in Producers :
              /\ pc[p] \notin {"parked", "emplace", "publish"}
              /\ pc[p] \in {"check", "spin", "claim", "park"} /\ CircularLess(ticket[p], write_closed_at)
                    => flags[MySlot(p)].owner = "closed"

\* A parked producer is on the line of its slot once, and a slot with a line
\* is being written or read: the consumer will come by and hand it over.
NoProducerForgotten ==
    \A s \in Slot :
        /\ { p \in Producers : pc[p] = "parked" /\ MySlot(p) = s }
             = { Line(s)[i] : i \in 1 .. Len(Line(s)) }
               \cup (IF cpc = "wake" /\ MySlot(next) = s THEN {next} ELSE {})
        /\ \A i, j \in 1 .. Len(Line(s)) : Line(s)[i] = Line(s)[j] => i = j
        /\ Line(s) # <<>> => flags[s].owner \in {"prod", "data"}

\* Producers parked on a slot get it in the order in which they parked, over
\* any number of hand-offs from the list and reversals of the stack.
HandoffIsFifo ==
    [][\A s \in Slot :
          \/ Line(s)' = Line(s)
          \/ Line(s) # <<>> /\ Line(s)' = Tail(Line(s)) /\ next' = Head(Line(s))
          \/ \E p \in Producers : pc'[p] = "parked" /\ Line(s)' = Append(Line(s), p)]_vars

\* A suspended consumer has its pointer in the slot it waits for with CONS
\* set, or one other actor has taken both and is about to resume it; nobody
\* resumes a consumer that is not suspended, nor does it twice.
ConsumerIsRoused ==
    LET rousers == { p \in Producers : pc[p] \in {"extract", "wake"} }
        armed   == { s \in Slot : flags[s].cons }
    IN
    /\ cpc = "parked" <=> armed # {} \/ rousers # {} \/ kpc \in {"extract", "wake"}
    /\ armed \subseteq {ReadSlot} /\ (armed # {} => rousers = {} /\ waiting[ReadSlot])
    /\ rousers # {} => kpc \notin {"extract", "wake"} /\ \A p, q \in rousers : p = q

\* And it does not wait on a queue whose cutoff it has reached once close()
\* has returned (an edge through the cutoff slot's flags).
NoConsumerForgotten ==
    /\ ConsumerIsRoused
    /\ cpc = "parked" /\ (\E s \in Slot : flags[s].cons) /\ kpc = "done" => ~ReachedCutoff

\* Values of one producer come out in the order in which it pushed them.
PerProducerFifo ==
    cpc = "holding" =>
        \A v \in accepted \ delivered :
            LET h == stored[ReadSlot] IN v[1] = h[1] => ~CircularLess(v[2], h[2])

(***************************************************************************)
(* Liveness                                                                *)
(***************************************************************************)
\* After close() the consumer is told CLOSED (unless the queue is destroyed),
\* and every push under way returns, parked or spinning as it may be.
ClosesAndSettles ==
    /\ closed ~> (told \/ cpc = "gone")
    /\ \A p \in Producers : pc[p] # "idle" ~> pc[p] \in {"idle", "gone"}

(***************************************************************************)
(* Refinement                                                              *)
(***************************************************************************)
\* With a single slot the queue implements the abstract one: a push takes
\* effect when it publishes, in spite of parking, hand-offs and rejections.
Queue == IF cpc \in {"holding", "gone"} \/ flags[0].owner # "data" \/ stored[0] = NoValue
            THEN <<>> ELSE <<stored[0]>>
Held  == IF cpc = "holding" THEN <<stored[0]>> ELSE <<>>

Abstract == INSTANCE AsyncQueue WITH
    queue <- Queue, held <- Held, told <- told, PushOverlapsClose <- TRUE

ImplementsAsyncQueue == Abstract!Spec
================================================================================
