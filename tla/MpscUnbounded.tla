----------------------------- MODULE MpscUnbounded -----------------------------
(***************************************************************************)
(* coro_util::qu_mpsc_unbounded: many producers and one consumer over a    *)
(* linked list of blocks.  A producer draws a ticket, finds its block from *)
(* a hint that the others move on too, or else from write_block, which the *)
(* consumer moves when it comes into a new block.  The blocks before that  *)
(* are recycled once the consumer is past every ticket that was drawn when *)
(* write_block and the hint had moved: nobody else can have seen them.     *)
(*                                                                         *)
(* A step is one access to memory that others may reach, with the private  *)
(* accesses around it.  An offset is read with the pointer that leads to   *)
(* it; a load and the compare-exchange loop after it are one step where a  *)
(* failed round changes nothing; and a load of next with the exchange that *)
(* appends a block ends with the next block at the time of the exchange.   *)
(* All of these accesses are sequentially consistent, or acquire loads of  *)
(* what was released, so that interleaving is all there is.                *)
(***************************************************************************)
EXTENDS Integers, Sequences

CONSTANTS
    Producers,          \* the threads that post; any of them may call close()
    BlockSize,          \* Config::BlockSize
    WordMod,            \* 2^w, the number of values of a size_t offset
    SuspendModes,       \* the values of Config::ConsumerCanSuspend
    MaxBulk,            \* largest Count passed to post_bulk()
    FirstTicket,        \* the offsets start as if so many values had gone through
    MaxTicket,          \* model bound: values posted are among the first so many tickets
    MaxBlocks           \* model bound: blocks alive at a time

\* The static assertions: a power of two divides 2^w.
ASSUME BlockAssumption == BlockSize \in Nat /\ BlockSize > 0
ASSUME WordAssumption  == WordMod \in Nat /\ WordMod > 0 /\ WordMod % BlockSize = 0
ASSUME StartAssumption == FirstTicket \in 0 .. WordMod - 1
\* Half the range of a word is never drawn: it stands for 2^63 posts.
ASSUME RangeAssumption == MaxTicket \in Nat /\ 2 * (MaxTicket + BlockSize + 1) < WordMod
ASSUME BoundAssumption == /\ SuspendModes \subseteq BOOLEAN
                          /\ MaxBlocks \in Nat \ {0} /\ MaxBulk \in 1 .. MaxTicket

VARIABLES
    can_suspend,     \* Config::ConsumerCanSuspend: never changes
    blocks,          \* the blocks allocated and not deleted
    next,            \* data_block::next
    offset,          \* data_block::offset
    flags,           \* element::flags of every element of every block
    stored,          \* element::data: a value, or NoValue
    write_offset,
    write_block_hint,
    write_block,
    closed,
    write_closed_at,
    closed_ready,
    ppc,             \* what each producer does next
    idx,             \* the first ticket of its call,
    count,           \*   how many it drew; 0 in close()
    written,         \*   how many of them it has published
    observed,        \*   the block it started from,
    walk,            \*   the cursor of find_block(),
    pblock,          \*   and the block it writes to
    read_offset,     \* private to the consumer, as all that follows
    read_block,
    head_block,
    tail_block,
    pending_old_head, pending_new_head, pending_cutoff,
    cpc,             \* what the consumer does next
    call,            \* which function it is in
    rblock,          \* the block of its read ticket
    started,         \* try_reclaim_blocks(): try_start_reclaim() is done
    oldHead,         \* reclaim_blocks(): the next block to unlink,
    unlinked,        \*   the group of blocks being moved,
    tailBlock,       \*   and the cursor that looks for the tail
    elem,            \* consumer_base::elem # nullptr
    outcome,         \* status of the consumer's last pull
    taken            \* history: number of values the consumer is done with

list     == <<blocks, next, offset>>
elements == <<flags, stored>>
heads    == <<write_block_hint, write_block>>
cutoff   == <<closed, write_closed_at, closed_ready>>
locals   == <<idx, count, written, observed, walk, pblock>>
producer == <<ppc, locals>>
pending  == <<pending_old_head, pending_new_head, pending_cutoff>>
reading  == <<read_offset, read_block, call, rblock, outcome, taken>>
reclaim  == <<head_block, tail_block, started, oldHead, unlinked, tailBlock>>
consumer == <<reading, reclaim, pending, cpc>>
vars     == <<list, elements, write_offset, heads, cutoff, producer, consumer, elem, can_suspend>>

(***************************************************************************)
(* Words, blocks and values                                                *)
(***************************************************************************)
Block   == 1 .. MaxBlocks
Null    == 0
Index   == 0 .. BlockSize - 1
Word    == 0 .. WordMod - 1
Value   == 1 .. MaxTicket  \* the value of the n-th ticket is the number n
NoValue == 0
Flag    == {"empty", "data", "closed", "cons"}

Plus(off, n)  == (off + n) % WordMod
IndexOf(off)  == off % BlockSize
StartOf(off)  == off - IndexOf(off)    \* Idx & ~BlockSizeMask
StartsBlock(off) == IndexOf(off) = 0

CircularLess(a, b) == 2 * ((a - b) % WordMod) > WordMod

BlockBefore(a, b) == CircularLess(offset[a], offset[b])

Closing(p)  == count[p] = 0
WriteAt(p)  == Plus(idx[p], written[p])
LastOf(p)   == IF Closing(p) THEN idx[p] ELSE Plus(idx[p], count[p] - 1)
ValueAt(off) == ((off - FirstTicket) % WordMod) + 1
ReadFlag    == flags[rblock][IndexOf(read_offset)]

Fresh == [i \in Index |-> "empty"]

Init ==
    /\ can_suspend \in SuspendModes
    /\ blocks = {1}
    /\ next = [b \in Block |-> Null]
    /\ offset = [b \in Block |-> StartOf(FirstTicket)]
    /\ flags = [b \in Block |->
          [i \in Index |-> IF b = 1 /\ i < IndexOf(FirstTicket) THEN "data" ELSE "empty"]]
    /\ stored = [b \in Block |-> [i \in Index |-> NoValue]]
    /\ write_offset = FirstTicket /\ write_block_hint = 1 /\ write_block = 1
    /\ closed = FALSE /\ write_closed_at = 0 /\ closed_ready = FALSE
    /\ ppc = [p \in Producers |-> "idle"]
    /\ idx = [p \in Producers |-> 0] /\ count = [p \in Producers |-> 0]
    /\ written = [p \in Producers |-> 0]
    /\ observed = [p \in Producers |-> Null] /\ walk = [p \in Producers |-> Null]
    /\ pblock = [p \in Producers |-> Null]
    /\ read_offset = FirstTicket /\ read_block = 1 /\ head_block = 1 /\ tail_block = 1
    /\ pending_old_head = Null /\ pending_new_head = Null /\ pending_cutoff = 0
    /\ cpc = "idle" /\ call = "none" /\ rblock = Null /\ started = FALSE
    /\ oldHead = Null /\ unlinked = <<>> /\ tailBlock = Null
    /\ elem = FALSE /\ outcome = "none" /\ taken = 0

\* The step of find_block() from block b to block c.
NewBlock == CHOOSE b \in Block \ blocks : \A c \in Block \ blocks : b <= c

Advance(b, c) ==
    \/ next[b] # Null /\ c = next[b] /\ UNCHANGED <<list, flags>>
    \/ /\ next[b] = Null /\ blocks # Block /\ c = NewBlock
       /\ blocks' = blocks \cup {c}
       /\ next' = [next EXCEPT ![b] = c, ![c] = Null]
       /\ offset' = [offset EXCEPT ![c] = Plus(offset[b], BlockSize)]
       /\ flags' = [flags EXCEPT ![c] = Fresh]

(***************************************************************************)
(* post() and post_bulk()                                                  *)
(***************************************************************************)
GoTo(p, s) == ppc' = [ppc EXCEPT ![p] = s]

\* The call ends, and its locals with it.
Return(p) ==
    /\ GoTo(p, "idle")
    /\ idx' = [idx EXCEPT ![p] = 0] /\ count' = [count EXCEPT ![p] = 0]
    /\ written' = [written EXCEPT ![p] = 0]
    /\ observed' = [observed EXCEPT ![p] = Null]
    /\ walk' = [walk EXCEPT ![p] = Null] /\ pblock' = [pblock EXCEPT ![p] = Null]

\* Calls go on after close(): they draw tickets for nothing.
Tickets == (write_offset - FirstTicket) % WordMod

TakeTicket(p, n) ==
    /\ ppc[p] = "idle"
    /\ Tickets + n <= MaxTicket
    /\ write_offset' = Plus(write_offset, n)
    /\ idx' = [idx EXCEPT ![p] = write_offset] /\ count' = [count EXCEPT ![p] = n]
    /\ GoTo(p, "check_closed")
    /\ UNCHANGED <<list, elements, heads, cutoff, written, observed, walk, pblock, consumer,
                   elem, can_suspend>>

CheckClosed(p) ==
    /\ ppc[p] = "check_closed"
    /\ GoTo(p, IF closed THEN "spin" ELSE "load_hint")
    /\ UNCHANGED <<list, elements, write_offset, heads, cutoff, locals, consumer, elem,
                   can_suspend>>

\* Wait for closed_ready; a ticket from the cutoff on is turned away.
TurnedAway(p) == CircularLess(write_closed_at, Plus(idx[p], 1))

CompareCutoff(p) ==
    /\ ppc[p] = "spin" /\ closed_ready
    /\ IF TurnedAway(p) THEN Return(p)
                        ELSE GoTo(p, "load_hint") /\ UNCHANGED locals
    /\ UNCHANGED <<list, elements, write_offset, heads, cutoff, consumer, elem, can_suspend>>

(***************************************************************************)
(* get_mpsc_write_start_block(): the hint, unless it is past the ticket.   *)
(***************************************************************************)
StartFrom(p, b) ==
    /\ observed' = [observed EXCEPT ![p] = b] /\ walk' = [walk EXCEPT ![p] = b]
    /\ GoTo(p, "seek")

AtOrBefore(b, off) == CircularLess(offset[b], Plus(off, 1))

LoadHintUnchecked(p) ==
    /\ ppc[p] = "load_hint"
    /\ StartFrom(p, write_block_hint)
    /\ UNCHANGED <<list, elements, write_offset, heads, cutoff, idx, count, written, pblock,
                   consumer, elem, can_suspend>>
LoadHint(p) ==
    /\ ppc[p] = "load_hint"
    /\ IF AtOrBefore(write_block_hint, idx[p])
          THEN StartFrom(p, write_block_hint)
          ELSE GoTo(p, "load_write_block") /\ UNCHANGED <<observed, walk>>
    /\ UNCHANGED <<list, elements, write_offset, heads, cutoff, idx, count, written, pblock,
                   consumer, elem, can_suspend>>

LoadWriteBlock(p) ==
    /\ ppc[p] = "load_write_block"
    /\ StartFrom(p, write_block)
    /\ UNCHANGED <<list, elements, write_offset, heads, cutoff, idx, count, written, pblock,
                   consumer, elem, can_suspend>>

\* find_block(observed, StartIdx).
Seek(p) ==
    /\ ppc[p] = "seek"
    /\ IF offset[walk[p]] = StartOf(idx[p])
          THEN /\ GoTo(p, IF Closing(p) THEN "sentinel" ELSE "reserve")
               /\ pblock' = [pblock EXCEPT ![p] = walk[p]]
               /\ UNCHANGED <<list, flags, walk>>
          ELSE /\ \E b \in Block : Advance(walk[p], b) /\ walk' = [walk EXCEPT ![p] = b]
               /\ UNCHANGED <<ppc, pblock>>
    /\ UNCHANGED <<stored, write_offset, heads, cutoff, idx, count, written, observed, consumer,
                   elem, can_suspend>>

\* find_block(startBlock, EndIdx - 1): all blocks of a bulk are in the list
\* before its first value is.  Then the hint is moved to the last of them,
\* unless it is there or further.
Reserve(p) ==
    /\ ppc[p] = "reserve"
    /\ IF offset[walk[p]] = StartOf(LastOf(p))
          THEN /\ write_block_hint' =
                     IF BlockBefore(observed[p], walk[p]) /\ BlockBefore(write_block_hint, walk[p])
                        THEN walk[p] ELSE write_block_hint
               /\ GoTo(p, "write")
               /\ UNCHANGED <<list, flags, walk>>
          ELSE /\ \E b \in Block : Advance(walk[p], b) /\ walk' = [walk EXCEPT ![p] = b]
               /\ UNCHANGED <<ppc, write_block_hint>>
    /\ UNCHANGED <<stored, write_offset, write_block, cutoff, idx, count, written, observed,
                   pblock, consumer, elem, can_suspend>>

\* write_element(): construct the value in the element the ticket stands for,
\* then exchange its flag to DATA (a plain store if the consumer never
\* suspends).  A consumer that was there is resumed at once.
WaiterIgnored(f) == FALSE
Waiter(f) == can_suspend /\ f # "empty"

Continue(p) ==
    CASE written[p] + 1 = count[p] -> Return(p)
      [] written[p] + 1 < count[p] ->
            /\ GoTo(p, IF StartsBlock(Plus(WriteAt(p), 1)) THEN "cross" ELSE "write")
            /\ written' = [written EXCEPT ![p] = @ + 1]
            /\ UNCHANGED <<idx, count, observed, walk, pblock>>

WriteElement(p) ==
    LET b == pblock[p]
        i == IndexOf(WriteAt(p))
    IN
    /\ ppc[p] = "write"
    /\ stored' = [stored EXCEPT ![b][i] = ValueAt(WriteAt(p))]
    /\ flags' = [flags EXCEPT ![b][i] = "data"]
    /\ IF Waiter(flags[b][i]) THEN GoTo(p, "wake") /\ UNCHANGED locals ELSE Continue(p)
    /\ UNCHANGED <<list, write_offset, heads, cutoff, consumer, elem, can_suspend>>

NotifyConsumer(p) ==
    /\ ppc[p] = "wake"
    /\ cpc' = "resume"
    /\ IF Closing(p) THEN Return(p) ELSE Continue(p)
    /\ UNCHANGED <<list, elements, write_offset, heads, cutoff, reading, reclaim, pending, elem,
                   can_suspend>>

\* post_bulk() goes on in the next block.  (What it loads after its last value
\* is only looked at by an assertion.)
Cross(p) ==
    /\ ppc[p] = "cross"
    /\ pblock' = [pblock EXCEPT ![p] = next[pblock[p]]]
    /\ GoTo(p, "write")
    /\ UNCHANGED <<list, elements, write_offset, heads, cutoff, idx, count, written, observed,
                   walk, consumer, elem, can_suspend>>

(***************************************************************************)
(* close(): the first call draws the cutoff like a ticket, publishes it,   *)
(* and leaves a sentinel where the consumer must come to.                  *)
(***************************************************************************)
Close(p) ==
    /\ ppc[p] = "idle" /\ ~closed
    /\ closed' = TRUE
    /\ GoTo(p, "draw_cutoff")
    /\ UNCHANGED <<list, elements, write_offset, heads, write_closed_at, closed_ready, locals,
                   consumer, elem, can_suspend>>

DrawCutoff(p) ==
    /\ ppc[p] = "draw_cutoff"
    /\ write_offset' = Plus(write_offset, 1)
    /\ idx' = [idx EXCEPT ![p] = write_offset]
    /\ GoTo(p, "set_cutoff")
    /\ UNCHANGED <<list, elements, heads, cutoff, count, written, observed, walk, pblock,
                   consumer, elem, can_suspend>>

SetCutoff(p) ==
    /\ ppc[p] = "set_cutoff"
    /\ write_closed_at' = idx[p] /\ closed_ready' = TRUE
    /\ GoTo(p, "load_hint")
    /\ UNCHANGED <<list, elements, write_offset, heads, closed, locals, consumer, elem,
                   can_suspend>>

SentinelByStore(p) ==
    /\ ppc[p] = "sentinel"
    /\ flags' = [flags EXCEPT ![pblock[p]][IndexOf(idx[p])] = "closed"]
    /\ Return(p)
    /\ UNCHANGED <<list, stored, write_offset, heads, cutoff, consumer, elem, can_suspend>>
PlaceSentinel(p) ==
    LET found == flags[pblock[p]][IndexOf(idx[p])] = "cons" IN
    /\ ppc[p] = "sentinel"
    /\ flags' = [flags EXCEPT ![pblock[p]][IndexOf(idx[p])] = "closed"]
    /\ elem' = (elem /\ ~found)
    /\ IF found THEN GoTo(p, "wake") /\ UNCHANGED locals ELSE Return(p)
    /\ UNCHANGED <<list, stored, write_offset, heads, cutoff, consumer, can_suspend>>

(***************************************************************************)
(* The consumer                                                            *)
(***************************************************************************)
Function == {"try_pull", "empty"} \cup (IF can_suspend THEN {"pull"} ELSE {})

Call(f) ==
    /\ cpc = "idle"
    /\ cpc' = "seek" /\ call' = f /\ rblock' = read_block
    /\ UNCHANGED <<list, elements, write_offset, heads, cutoff, producer, read_offset,
                   read_block, outcome, taken, reclaim, pending, elem, can_suspend>>

Leave == cpc' = "idle" /\ call' = "none" /\ rblock' = Null

\* get_read_ticket(), empty(): find_block(read_block, read_offset) ...
SeekRead ==
    /\ cpc = "seek" /\ offset[rblock] # StartOf(read_offset)
    /\ \E b \in Block : Advance(rblock, b) /\ rblock' = b
    /\ UNCHANGED <<stored, write_offset, heads, cutoff, producer, read_offset, read_block, call,
                   outcome, taken, reclaim, pending, cpc, elem, can_suspend>>

\* ... and poll its flag.
StatusByClosed(f) == IF closed THEN "CLOSED" ELSE "EMPTY"
StatusOf(f) == IF f = "closed" THEN "CLOSED" ELSE "EMPTY"

Poll ==
    /\ cpc = "seek" /\ offset[rblock] = StartOf(read_offset)
    /\ \/ /\ call # "empty" /\ ReadFlag = "data"
          /\ cpc' = "holding" /\ outcome' = "OK" /\ UNCHANGED <<call, rblock>>
       \/ /\ call = "pull" /\ ReadFlag # "data"
          /\ cpc' = "suspend" /\ UNCHANGED <<call, rblock, outcome>>
       \/ /\ call = "try_pull" /\ ReadFlag # "data"
          /\ Leave /\ outcome' = StatusOf(ReadFlag)
       \/ call = "empty" /\ Leave /\ UNCHANGED outcome
    /\ UNCHANGED <<list, elements, write_offset, heads, cutoff, producer, read_offset,
                   read_block, taken, reclaim, pending, elem, can_suspend>>

\* try_wait() is an exchange: data found there keeps the pointer of a base
\* that will be gone; a sentinel must be put back.
Suspend ==
    /\ cpc = "suspend"
    /\ flags' = [flags EXCEPT ![rblock][IndexOf(read_offset)] = "cons"]
    /\ \/ /\ ReadFlag = "empty"
          /\ cpc' = "parked" /\ elem' = TRUE /\ UNCHANGED outcome
       \/ /\ ReadFlag = "closed"
          /\ cpc' = "restore" /\ UNCHANGED <<elem, outcome>>
       \/ /\ ReadFlag \notin {"empty", "closed"}
          /\ cpc' = "holding" /\ outcome' = "OK" /\ UNCHANGED elem
    /\ UNCHANGED <<list, stored, write_offset, heads, cutoff, producer, read_offset, read_block,
                   call, rblock, taken, reclaim, pending, can_suspend>>

RestoreNothing ==
    /\ cpc = "restore"
    /\ Leave /\ outcome' = "CLOSED"
    /\ UNCHANGED <<list, elements, write_offset, heads, cutoff, producer, read_offset,
                   read_block, taken, reclaim, pending, elem, can_suspend>>
Restore ==
    /\ cpc = "restore"
    /\ flags' = [flags EXCEPT ![rblock][IndexOf(read_offset)] = "closed"]
    /\ Leave /\ outcome' = "CLOSED"
    /\ UNCHANGED <<list, stored, write_offset, heads, cutoff, producer, read_offset, read_block,
                   taken, reclaim, pending, elem, can_suspend>>

PullResume ==
    /\ cpc = "resume"
    /\ IF elem THEN cpc' = "holding" /\ outcome' = "OK" /\ UNCHANGED <<call, rblock>>
               ELSE Leave /\ outcome' = "CLOSED"
    /\ elem' = FALSE
    /\ UNCHANGED <<list, elements, write_offset, heads, cutoff, producer, read_offset,
                   read_block, taken, reclaim, pending, can_suspend>>

\* The scope ends: finish_read() destroys the value, and when it was the first
\* of a block goes on to try_reclaim_blocks().
FinishRead ==
    /\ cpc = "holding"
    /\ stored' = [stored EXCEPT ![rblock][IndexOf(read_offset)] = NoValue]
    /\ read_offset' = Plus(read_offset, 1)
    /\ taken' = taken + 1
    /\ IF StartsBlock(read_offset)
          THEN /\ read_block' = rblock /\ started' = FALSE /\ cpc' = "try_finish"
               /\ UNCHANGED <<call, rblock>>
          ELSE Leave /\ UNCHANGED <<read_block, started>>
    /\ UNCHANGED <<list, flags, write_offset, heads, cutoff, producer, outcome, head_block,
                   tail_block, oldHead, unlinked, tailBlock, pending, elem, can_suspend>>

(***************************************************************************)
(* try_reclaim_blocks(): try_finish_pending_reclaim(), try_start_reclaim() *)
(* and again try_finish_pending_reclaim().                                 *)
(***************************************************************************)
AfterTry == IF started THEN Leave ELSE cpc' = "try_start" /\ UNCHANGED <<call, rblock>>

CutoffPassedAtOnce == TRUE
CutoffPassed == ~CircularLess(read_offset, pending_cutoff)

TryFinish ==
    /\ cpc = "try_finish"
    /\ IF pending_old_head # Null /\ CutoffPassed
          THEN /\ head_block' = pending_new_head /\ oldHead' = pending_old_head
               /\ pending_old_head' = Null /\ pending_new_head' = Null /\ pending_cutoff' = 0
               /\ cpc' = "collect" /\ UNCHANGED <<call, rblock>>
          ELSE AfterTry /\ UNCHANGED <<head_block, oldHead, pending>>
    /\ UNCHANGED <<list, elements, write_offset, heads, cutoff, producer, read_offset,
                   read_block, outcome, taken, tail_block, started, unlinked, tailBlock, elem,
                   can_suspend>>

TryStart ==
    /\ cpc = "try_start"
    /\ started' = TRUE
    /\ IF pending_old_head = Null /\ CircularLess(offset[head_block], StartOf(read_offset))
          THEN write_block' = rblock /\ cpc' = "move_hint"
          ELSE cpc' = "try_finish" /\ UNCHANGED write_block
    /\ UNCHANGED <<list, elements, write_offset, write_block_hint, cutoff, producer, reading,
                   head_block, tail_block, oldHead, unlinked, tailBlock, pending, elem,
                   can_suspend>>

MoveHint ==
    /\ cpc = "move_hint"
    /\ write_block_hint' =
          IF BlockBefore(write_block_hint, rblock) THEN rblock ELSE write_block_hint
    /\ cpc' = "read_cutoff"
    /\ UNCHANGED <<list, elements, write_offset, write_block, cutoff, producer, reading, reclaim,
                   pending, elem, can_suspend>>

ReadCutoff ==
    /\ cpc = "read_cutoff"
    /\ pending_cutoff' = write_offset
    /\ pending_old_head' = head_block /\ pending_new_head' = rblock
    /\ cpc' = "try_finish"
    /\ UNCHANGED <<list, elements, write_offset, heads, cutoff, producer, reading, reclaim, elem,
                   can_suspend>>

(***************************************************************************)
(* reclaim_blocks(): in groups of up to four                               *)
(***************************************************************************)
GroupSize == 4
Unlinked  == { unlinked[i] : i \in 1 .. Len(unlinked) }

Collect ==
    /\ cpc = "collect"
    /\ IF oldHead # head_block /\ Len(unlinked) < GroupSize
          THEN /\ unlinked' = Append(unlinked, oldHead)
               /\ oldHead' = next[oldHead]
               /\ UNCHANGED <<cpc, call, rblock>>
          ELSE /\ UNCHANGED unlinked
               /\ IF unlinked = <<>> THEN AfterTry /\ oldHead' = Null
                                     ELSE cpc' = "reset" /\ UNCHANGED <<call, rblock, oldHead>>
    /\ UNCHANGED <<list, elements, write_offset, heads, cutoff, producer, read_offset,
                   read_block, outcome, taken, head_block, tail_block, started, tailBlock,
                   pending, elem, can_suspend>>

\* reset_values() of the group.
AfterReset(b) == IF b \in Unlinked THEN Fresh ELSE flags[b]

ResetValues ==
    /\ cpc = "reset"
    /\ flags' = [b \in Block |-> AfterReset(b)]
    /\ tailBlock' = tail_block
    /\ cpc' = "find_tail"
    /\ UNCHANGED <<list, stored, write_offset, heads, cutoff, producer, reading, pending,
                   head_block, tail_block, started, oldHead, unlinked, elem, can_suspend>>

FindTail ==
    /\ cpc = "find_tail"
    /\ IF next[tailBlock] # Null
          THEN tailBlock' = next[tailBlock] /\ UNCHANGED cpc
          ELSE cpc' = "unlink" /\ UNCHANGED tailBlock
    /\ UNCHANGED <<list, elements, write_offset, heads, cutoff, producer, reading, pending,
                   head_block, tail_block, started, oldHead, unlinked, elem, can_suspend>>

Unlink ==
    /\ cpc = "unlink"
    /\ next' = [next EXCEPT ![unlinked[Len(unlinked)]] = Null]
    /\ cpc' = "relink"
    /\ UNCHANGED <<blocks, offset, elements, write_offset, heads, cutoff, producer, reading,
                   reclaim, pending, elem, can_suspend>>

\* Stamp the group with the offsets after the tail's and append it, or walk on
\* when somebody appended first.
Stamped(b, k) == Plus(offset[b], k * BlockSize)

RelinkByStore ==
    /\ cpc = "relink"
    /\ next' = [next EXCEPT ![tailBlock] = unlinked[1]]
    /\ offset' = [b \in Block |->
          IF b \in Unlinked
             THEN Stamped(tailBlock, CHOOSE k \in 1 .. Len(unlinked) : unlinked[k] = b)
             ELSE offset[b]]
    /\ tail_block' = unlinked[Len(unlinked)]
    /\ unlinked' = <<>> /\ tailBlock' = Null /\ cpc' = "collect"
    /\ UNCHANGED <<blocks, elements, write_offset, heads, cutoff, producer, reading, pending,
                   head_block, started, oldHead, elem, can_suspend>>
Relink ==
    /\ cpc = "relink"
    /\ IF next[tailBlock] = Null
          THEN /\ next' = [next EXCEPT ![tailBlock] = unlinked[1]]
               /\ offset' = [b \in Block |->
                     IF b \in Unlinked
                        THEN Stamped(tailBlock, CHOOSE k \in 1 .. Len(unlinked) : unlinked[k] = b)
                        ELSE offset[b]]
               /\ tail_block' = unlinked[Len(unlinked)]
               /\ unlinked' = <<>> /\ tailBlock' = Null /\ cpc' = "collect"
          ELSE /\ tailBlock' = next[tailBlock]
               /\ UNCHANGED <<next, offset, tail_block, unlinked, cpc>>
    /\ UNCHANGED <<blocks, elements, write_offset, heads, cutoff, producer, reading, pending,
                   head_block, started, oldHead, elem, can_suspend>>

(***************************************************************************)
(* The destructor: everybody is outside any call.  It closes the queue,    *)
(* destroys what lies between read_offset and the cutoff and deletes every *)
(* block that it reaches from head_block.                                  *)
(***************************************************************************)
\* The blocks on the list from b on: the least set with b that next does not leave.
ReachableFrom(b) ==
    { c \in blocks : \A S \in SUBSET blocks :
          b \in S /\ (\A d \in S : next[d] # Null => next[d] \in S) => c \in S }

Leftover(end) ==
    { Plus(read_offset, k) :
        k \in { k \in Word : \A j \in 0..k : CircularLess(Plus(read_offset, j), end) } }

Destruct ==
    LET end  == IF closed THEN write_closed_at ELSE write_offset
        all  == ReachableFrom(head_block)
        Gets(b, i) == /\ b \in all /\ flags[b][i] = "data"
                      /\ Plus(offset[b], i) \in Leftover(end)
    IN
    /\ \A p \in Producers : ppc[p] = "idle"
    /\ cpc = "idle"
    /\ closed' = TRUE /\ write_closed_at' = end /\ closed_ready' = TRUE
    /\ stored' = [b \in Block |-> [i \in Index |-> IF Gets(b, i) THEN NoValue ELSE stored[b][i]]]
    /\ blocks' = blocks \ all
    /\ ppc' = [p \in Producers |-> "gone"] /\ cpc' = "gone"
    /\ UNCHANGED <<next, offset, flags, write_offset, heads, locals, reading, reclaim, pending,
                   elem, can_suspend>>

Gone == cpc = "gone" /\ UNCHANGED vars

ProducerStep(p) ==
    \/ CheckClosed(p) \/ CompareCutoff(p) \/ DrawCutoff(p) \/ SetCutoff(p)
    \/ LoadHint(p) \/ LoadWriteBlock(p) \/ Seek(p) \/ Reserve(p)
    \/ WriteElement(p) \/ Cross(p) \/ PlaceSentinel(p) \/ NotifyConsumer(p)
ReclaimStep ==
    \/ TryFinish \/ TryStart \/ MoveHint \/ ReadCutoff
    \/ Collect \/ ResetValues \/ FindTail \/ Unlink \/ Relink
ConsumerStep ==
    SeekRead \/ Poll \/ Suspend \/ Restore \/ PullResume \/ FinishRead \/ ReclaimStep

Next ==
    \/ \E p \in Producers :
          (\E n \in 1 .. MaxBulk : TakeTicket(p, n)) \/ Close(p) \/ ProducerStep(p)
    \/ \E f \in Function : Call(f)
    \/ ConsumerStep
    \/ Destruct
    \/ Gone

Spec == Init /\ [][Next]_vars

(***************************************************************************)
(* Fairness: whoever runs, or was resumed, is eventually given processor   *)
(* time; and the client closes the queue and keeps pulling, whatever calls *)
(* of empty() it makes in between.                                         *)
(***************************************************************************)
FairSpec ==
    /\ Spec
    /\ \A p \in Producers : WF_vars(ProducerStep(p))
    /\ WF_vars(ConsumerStep)
    /\ WF_vars(\E p \in Producers : Close(p))
    /\ SF_vars(\E f \in Function \ {"empty"} : Call(f))

-----------------------------------------------------------------------------
(***************************************************************************)
(* Type invariant                                                          *)
(***************************************************************************)
TypeOK ==
    /\ blocks \subseteq Block
    /\ next \in [Block -> Block \cup {Null}] /\ offset \in [Block -> Word]
    /\ flags \in [Block -> [Index -> Flag]]
    /\ stored \in [Block -> [Index -> Value \cup {NoValue}]]
    /\ {write_offset, write_closed_at, read_offset, pending_cutoff} \subseteq Word
    /\ {closed, closed_ready, elem, started} \subseteq BOOLEAN
    /\ ppc \in [Producers -> {"idle", "check_closed", "spin", "load_hint", "load_write_block", "seek",
                              "reserve", "write", "cross", "wake", "draw_cutoff", "set_cutoff",
                              "sentinel", "gone"}]
    /\ idx \in [Producers -> Word]
    /\ count \in [Producers -> 0 .. MaxBulk] /\ written \in [Producers -> 0 .. MaxBulk]
    /\ {observed, walk, pblock} \subseteq [Producers -> Block \cup {Null}]
    /\ {write_block_hint, write_block, read_block, head_block, tail_block} \subseteq Block
    /\ {pending_old_head, pending_new_head, rblock, oldHead, tailBlock} \subseteq Block \cup {Null}
    /\ cpc \in {"idle", "seek", "suspend", "restore", "parked", "resume", "holding", "try_finish",
                "try_start", "move_hint", "read_cutoff", "collect", "reset", "find_tail", "unlink",
                "relink", "gone"}
    /\ call \in Function \cup {"none"}
    /\ unlinked \in Seq(Block) /\ Len(unlinked) <= GroupSize
    /\ outcome \in {"none", "OK", "EMPTY", "CLOSED"}
    /\ taken \in 0 .. MaxTicket

(***************************************************************************)
(* Safety                                                                  *)
(***************************************************************************)
\* The blocks a producer or the closer may still touch: while it walks, all
\* that it can get to; then the one it writes to, until its last value is out.
Cursors(p) ==
    CASE ppc[p] \in {"seek", "reserve"} -> {observed[p], walk[p], pblock[p]} \ {Null}
      [] ppc[p] \in {"write", "cross", "sentinel"} -> {pblock[p]}
      [] ppc[p] = "wake" /\ written[p] + 1 < count[p] -> {pblock[p]}
      [] OTHER -> {}

\* What the cutoff is for: when blocks are reset and moved to the tail, nobody
\* gets to them any more, from the hint, from write_block, or from where a
\* call that is under way has started.
ReclaimedIsUnreached ==
    cpc \in {"reset", "find_tail", "unlink", "relink"} =>
        \A b \in {write_block_hint, write_block} \cup UNION { Cursors(p) : p \in Producers } :
            Unlinked \cap ReachableFrom(b) = {}

\* The assertions of get_mpsc_write_start_block() and get_read_ticket(): no
\* search begins past its target.  The hint may be past a ticket that is still
\* out, but write_block, where the search begins then, never is, although the
\* consumer moves it all the time.
StartsAtOrBefore ==
    /\ \A p \in Producers :
          /\ ppc[p] \in {"load_hint", "load_write_block"} => AtOrBefore(write_block, idx[p])
          /\ ppc[p] = "seek" => AtOrBefore(observed[p], idx[p]) /\ AtOrBefore(walk[p], idx[p])
    /\ cpc # "gone" => AtOrBefore(read_block, read_offset)

\* The assertions of find_block(): from head_block on, blocks follow each other
\* in the order of their offsets, whoever appended them; and all the heads are
\* on that list, one behind the other.
ListInOrder ==
    cpc # "gone" =>
        /\ write_block \in ReachableFrom(head_block)
        /\ cpc # "move_hint" => write_block_hint \in ReachableFrom(write_block)
        /\ read_block \in ReachableFrom(write_block)
        /\ \A b \in ReachableFrom(head_block) :
              next[b] # Null => offset[next[b]] = Plus(offset[b], BlockSize)

\* No block is lost while producers and the consumer append: each is on the
\* list or being moved, not both, and the destructor deletes them all.
NoBlockLost ==
    IF cpc = "gone" THEN blocks = {}
    ELSE /\ blocks = ReachableFrom(head_block) \cup Unlinked
                     \cup (IF oldHead # Null THEN ReachableFrom(oldHead) ELSE {})
         /\ cpc = "relink" => Unlinked \cap ReachableFrom(head_block) = {}

\* A value is constructed, and the sentinel is placed, in the block of its
\* ticket, in an element that is clear save for a suspended consumer, even when
\* the block was recycled; and a bulk never runs out of blocks.
PostOverwritesNothing ==
    \A p \in Producers :
        /\ ppc[p] \in {"write", "sentinel"} =>
              /\ offset[pblock[p]] = StartOf(WriteAt(p))
              /\ flags[pblock[p]][IndexOf(WriteAt(p))] \in {"empty", "cons"}
              /\ stored[pblock[p]][IndexOf(WriteAt(p))] = NoValue
        /\ ppc[p] = "cross" => next[pblock[p]] # Null

\* A post gets to the element of its ticket, from the hint or from write_block,
\* and finds it clear; neither a stale hint nor a recycled block misleads it.
WritesAreSafe == StartsAtOrBefore /\ PostOverwritesNothing

\* Values come out in the order of their tickets, so also in the order in which
\* each producer posted them, each once and none left out, across blocks, their
\* reuse and the wraparound.
FifoDelivery ==
    cpc = "holding" =>
        /\ stored[rblock][IndexOf(read_offset)] = taken + 1
        /\ taken < Tickets
        /\ closed_ready => read_offset # write_closed_at

\* When the consumer was told CLOSED, nothing is left: no post that draws a
\* ticket before the cutoff is still under way, and every value of such a post
\* has been taken.
ClosedMeansDrained ==
    outcome = "CLOSED" =>
        /\ closed_ready /\ read_offset = write_closed_at
        /\ \A p \in Producers : ppc[p] \notin {"idle", "gone"} /\ ~Closing(p) =>
              ~CircularLess(idx[p], write_closed_at)

\* What the consumer is told is right: the value of the next ticket, or CLOSED
\* when no more will come.
DeliversRight == FifoDelivery /\ ClosedMeansDrained

\* The destructor destroys every value left, before the blocks go.
DestructorLeavesNothing ==
    cpc = "gone" => \A b \in Block, i \in Index : stored[b][i] = NoValue

\* The storage is sound at all times: well typed, the blocks in order and the
\* heads among them, none lost or leaked, and no value left behind in the end.
StorageIsSound == TypeOK /\ ListInOrder /\ NoBlockLost /\ DestructorLeavesNothing

\* A suspended consumer is in the flag of the next element, or in the hands of
\* exactly one caller that will resume it; and in that element it waits for a
\* ticket that is not drawn yet or whose owner, a post or close(), is on its
\* way.  A pointer that try_wait() left in an element with data is never taken
\* for one.
Owner(p) ==
    /\ ppc[p] \notin {"idle", "draw_cutoff", "gone"}
    /\ \E k \in written[p] .. (IF Closing(p) THEN 0 ELSE count[p] - 1) :
          Plus(idx[p], k) = read_offset

NoConsumerForgotten ==
    LET wakers == { p \in Producers : ppc[p] = "wake" } IN
    /\ \A p, q \in wakers : p = q
    /\ wakers # {} => cpc = "parked" /\ ReadFlag # "cons"
    /\ cpc = "parked" /\ wakers = {} =>
          ReadFlag = "cons" /\ (read_offset = write_offset \/ \E p \in Producers : Owner(p))

(***************************************************************************)
(* Liveness                                                                *)
(***************************************************************************)
\* Every post returns, although it may spin for the closer's cutoff; once
\* close() was called the consumer drains the queue and is told CLOSED (unless
\* the queue is destroyed first), and does not stay suspended; a reclamation
\* ends, although producers may append before every exchange of its.
ClosesAndSettles ==
    /\ \A p \in Producers : ppc[p] # "idle" ~> ppc[p] \in {"idle", "gone"}
    /\ closed ~> (outcome = "CLOSED" \/ cpc = "gone")
    /\ cpc = "parked" ~> cpc = "resume"
    /\ cpc = "collect" ~> cpc = "idle"

(***************************************************************************)
(* Refinement                                                              *)
(***************************************************************************)
InHand == IF cpc = "holding" THEN 1 ELSE 0
StoredAt(k) ==
    LET at == Plus(read_offset, k)
        b  == CHOOSE b \in ReachableFrom(head_block) : offset[b] = StartOf(at)
    IN  stored[b][IndexOf(at)]

\* The queue is what has been published without a gap before it: a value whose
\* ticket is after one that is still out does not count yet, and comes in
\* together with that one.
Waiting(off) ==
    \E b \in ReachableFrom(head_block) :
        offset[b] = StartOf(off) /\ flags[b][IndexOf(off)] = "data"
Visible == { n \in 0 .. MaxTicket : \A k \in 0 .. n - 1 : Waiting(Plus(read_offset, k + InHand)) }

Length  == CHOOSE n \in Visible : \A m \in Visible : m <= n

Queue == IF cpc = "gone" THEN <<>> ELSE [k \in 1 .. Length |-> StoredAt(k - 1 + InHand)]
Held  == IF cpc = "holding" THEN <<StoredAt(0)>> ELSE <<>>
Told  == outcome = "CLOSED"

Abstract == INSTANCE AsyncQueue WITH
    Capacity <- MaxTicket, queue <- Queue, held <- Held, told <- Told,
    PushOverlapsClose <- TRUE

ImplementsAsyncQueue == Abstract!Spec
================================================================================
