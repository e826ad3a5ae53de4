----------------------------- MODULE SpscUnbounded -----------------------------
(***************************************************************************)
(* coro_util::qu_spsc_unbounded: one producer and one consumer over a      *)
(* linked list of blocks.  The producer writes where write_block is, the   *)
(* consumer reads behind it, and gives every block it has finished back    *)
(* to the tail of the list, where the producer may be appending at the     *)
(* same time.  Either side appends a block when it comes to the end.       *)
(*                                                                         *)
(* A step is one access to memory the other side may reach, with the       *)
(* private accesses around it.  A load of next followed by the exchange    *)
(* that appends a new block is one step: what it ends with is the next     *)
(* block at the time of the exchange (a new block that lost is deleted).   *)
(***************************************************************************)
EXTENDS Integers, Sequences

CONSTANTS
    BlockSize,          \* Config::BlockSize
    WordMod,            \* 2^w, the number of values of a size_t offset
    SuspendModes,       \* the values of Config::ConsumerCanSuspend
    MaxBulk,            \* largest Count passed to post_bulk()
    FirstOffset,        \* the offsets start as if so many values had gone through
    MaxPost,            \* model bound: values posted in a behaviour
    MaxWaiting,         \* model bound: values in the queue at a time
    MaxBlocks           \* model bound: blocks alive at a time

\* The static assertions: a power of two divides 2^w.
ASSUME BlockAssumption == BlockSize \in Nat /\ BlockSize > 0
ASSUME WordAssumption  == WordMod \in Nat /\ WordMod > 0 /\ WordMod % BlockSize = 0
ASSUME StartAssumption == FirstOffset \in 0 .. WordMod - 1 /\ FirstOffset % BlockSize = 0
\* Memory ends long before half the range of a word is waiting.
ASSUME RangeAssumption == MaxWaiting \in Nat /\ 2 * (MaxWaiting + BlockSize) < WordMod
ASSUME BoundAssumption == /\ SuspendModes \subseteq BOOLEAN
                          /\ MaxPost \in Nat /\ MaxBlocks \in Nat \ {0} /\ MaxBulk \in 1..MaxWaiting

VARIABLES
    can_suspend,     \* Config::ConsumerCanSuspend: never changes
    blocks,          \* the blocks allocated and not deleted
    next,            \* data_block::next
    offset,          \* data_block::offset
    flags,           \* element::flags of every element of every block
    stored,          \* element::data: a value, or NoValue
    write_offset,    \* private to the producer, as the next ten
    write_block,
    closed,
    write_closed_at,
    ppc,             \* what the producer does next
    closing,         \* is it in close()?
    count,           \* Count of the current post_bulk(); 1 in post()
    written,         \* how many of them it has published
    pblock,          \* its block cursor
    walk,            \* the cursor with which it allocates ahead
    cons,            \* has it met a suspended consumer?
    read_offset,     \* private to the consumer, as the next nine
    head_block,
    tail_block,
    cpc,             \* what the consumer does next
    call,            \* which function it is in
    rblock,          \* the block of its read ticket
    oldHead,         \* reclaim_blocks(): the next block to unlink,
    unlinked,        \*   the group of blocks being moved,
    tailBlock,       \*   and the cursor that looks for the tail
    elem,            \* consumer_base::elem # nullptr
    outcome,         \* status of the consumer's last pull
    sent,            \* history: number of values published
    taken            \* history: number of values the consumer is done with

list     == <<blocks, next, offset>>
elements == <<flags, stored>>
pushing  == <<closing, count, written, pblock, walk, cons>>
cutoff   == <<closed, write_closed_at>>
producer == <<write_offset, write_block, cutoff, ppc, pushing, sent>>
reading  == <<read_offset, head_block, call, rblock, taken>>
reclaim  == <<tail_block, oldHead, unlinked, tailBlock>>
consumer == <<reading, reclaim, cpc, outcome>>
vars     == <<list, elements, producer, consumer, elem, can_suspend>>

(***************************************************************************)
(* Words, blocks and values                                                *)
(***************************************************************************)
Block   == 1 .. MaxBlocks
Null    == 0
Index   == 0 .. BlockSize - 1
Word    == 0 .. WordMod - 1
Value   == 1 .. MaxPost    \* the n-th value posted is the number n
NoValue == 0
Flag    == {"empty", "data", "closed", "cons"}

Plus(off, n)  == (off + n) % WordMod
IndexOf(off)  == off % BlockSize
StartOf(off)  == off - IndexOf(off)    \* Idx & ~BlockSizeMask
StartsBlock(off) == IndexOf(off) = 0

CircularLess(a, b) == 2 * ((a - b) % WordMod) > WordMod

WriteAt    == Plus(write_offset, written)
ReadFlag   == flags[rblock][IndexOf(read_offset)]

Fresh == [i \in Index |-> "empty"]

Init ==
    /\ can_suspend \in SuspendModes
    /\ blocks = {1}
    /\ next = [b \in Block |-> Null] /\ offset = [b \in Block |-> FirstOffset]
    /\ flags = [b \in Block |-> Fresh]
    /\ stored = [b \in Block |-> [i \in Index |-> NoValue]]
    /\ write_offset = FirstOffset /\ write_block = 1
    /\ closed = FALSE /\ write_closed_at = 0
    /\ ppc = "idle" /\ closing = FALSE /\ count = 0 /\ written = 0
    /\ pblock = 1 /\ walk = 1 /\ cons = FALSE
    /\ read_offset = FirstOffset /\ head_block = 1 /\ tail_block = 1
    /\ cpc = "idle" /\ call = "none" /\ rblock = 1
    /\ oldHead = 1 /\ unlinked = <<>> /\ tailBlock = 1
    /\ elem = FALSE /\ outcome = "none"
    /\ sent = 0 /\ taken = 0

\* The step of find_block() and find_write_block() from block b to block c.
NewBlock == CHOOSE b \in Block \ blocks : \A c \in Block \ blocks : b <= c

Advance(b, c) ==
    \/ next[b] # Null /\ c = next[b] /\ UNCHANGED <<list, flags>>
    \/ /\ next[b] = Null /\ blocks # Block /\ c = NewBlock
       /\ blocks' = blocks \cup {c}
       /\ next' = [next EXCEPT ![b] = c, ![c] = Null]
       /\ offset' = [offset EXCEPT ![c] = Plus(offset[b], BlockSize)]
       /\ flags' = [flags EXCEPT ![c] = Fresh]

(***************************************************************************)
(* The producer                                                            *)
(***************************************************************************)
\* post(), with n = 1, and post_bulk(): both begin at write_block.
Post(n) ==
    /\ ppc = "idle" /\ ~closed
    /\ sent + n <= MaxPost /\ sent + n - taken <= MaxWaiting
    /\ count' = n /\ written' = 0 /\ pblock' = write_block
    /\ ppc' = "seek"
    /\ UNCHANGED <<list, elements, write_offset, write_block, cutoff, closing, walk, cons, sent,
                   consumer, elem, can_suspend>>

\* close(): a second call returns at once.
Close ==
    /\ ppc = "idle" /\ ~closed
    /\ closed' = TRUE /\ write_closed_at' = write_offset
    /\ closing' = TRUE /\ written' = 0 /\ pblock' = write_block
    /\ ppc' = "seek"
    /\ UNCHANGED <<list, elements, write_offset, write_block, count, walk, cons, sent, consumer,
                   elem, can_suspend>>

\* find_block(write_block, StartIdx), find_write_block().
SeekWrite ==
    /\ ppc = "seek"
    /\ IF offset[pblock] = StartOf(write_offset)
          THEN /\ ppc' = IF closing THEN "sentinel" ELSE "reserve"
               /\ write_block' = IF closing THEN pblock ELSE write_block
               /\ walk' = pblock
               /\ UNCHANGED <<list, flags, pblock>>
          ELSE /\ \E b \in Block : Advance(pblock, b) /\ pblock' = b
               /\ UNCHANGED <<ppc, walk, write_block>>
    /\ UNCHANGED <<stored, write_offset, cutoff, closing, count, written, cons, sent, consumer,
                   elem, can_suspend>>

\* find_block(startBlock, EndIdx - 1): all blocks of the bulk are in the list
\* before the first of its values is visible; then write_block moves.
ReserveNone ==
    /\ ppc = "reserve"
    /\ write_block' = pblock /\ ppc' = "emplace"
    /\ UNCHANGED <<list, elements, write_offset, cutoff, pushing, sent, consumer, elem,
                   can_suspend>>
Reserve ==
    /\ ppc = "reserve"
    /\ IF offset[walk] = StartOf(Plus(write_offset, count - 1))
          THEN /\ write_block' = pblock /\ ppc' = "emplace"
               /\ UNCHANGED <<list, flags, walk>>
          ELSE /\ \E b \in Block : Advance(walk, b) /\ walk' = b
               /\ UNCHANGED <<write_block, ppc>>
    /\ UNCHANGED <<stored, write_offset, cutoff, closing, count, written, pblock, cons, sent,
                   consumer, elem, can_suspend>>

\* write_element(): construct the value ...
Emplace ==
    /\ ppc = "emplace"
    /\ stored' = [stored EXCEPT ![pblock][IndexOf(WriteAt)] = sent + 1]
    /\ ppc' = "publish"
    /\ UNCHANGED <<list, flags, write_offset, write_block, cutoff, pushing, sent, consumer, elem,
                   can_suspend>>

\* ... then exchange the flag to DATA (a plain store when the consumer never
\* suspends).  After the last value write_offset moves.
WaiterIgnored(f) == FALSE
Waiter(f) == can_suspend /\ f # "empty"

Publish ==
    LET i == IndexOf(WriteAt)
        last == written + 1 = count
    IN
    /\ ppc = "publish"
    /\ flags' = [flags EXCEPT ![pblock][i] = "data"]
    /\ sent' = sent + 1
    /\ written' = IF last THEN 0 ELSE written + 1
    /\ write_offset' = IF last THEN Plus(write_offset, count) ELSE write_offset
    /\ cons' = (cons \/ Waiter(flags[pblock][i]))
    /\ ppc' = CASE last /\ cons'  -> "wake"
                [] last /\ ~cons' -> "idle"
                [] ~last -> IF StartsBlock(Plus(WriteAt, 1)) THEN "cross" ELSE "emplace"
    /\ UNCHANGED <<list, stored, write_block, cutoff, closing, count, pblock, walk, consumer,
                   elem, can_suspend>>

\* post_bulk() goes on in the next block; write_block goes with it before the
\* first value there is visible.
CrossWithoutWriteBlock ==
    /\ ppc = "cross"
    /\ pblock' = next[pblock]
    /\ ppc' = "emplace"
    /\ UNCHANGED <<list, elements, write_offset, write_block, cutoff, closing, count, written,
                   walk, cons, sent, consumer, elem, can_suspend>>
Cross ==
    /\ ppc = "cross"
    /\ pblock' = next[pblock] /\ write_block' = next[pblock]
    /\ ppc' = "emplace"
    /\ UNCHANGED <<list, elements, write_offset, cutoff, closing, count, written, walk, cons,
                   sent, consumer, elem, can_suspend>>

\* close() exchanges the flag of the next slot to CLOSED; a consumer it finds
\* there is given no element.
SentinelByStore ==
    /\ ppc = "sentinel"
    /\ flags' = [flags EXCEPT ![pblock][IndexOf(write_offset)] = "closed"]
    /\ ppc' = "idle" /\ closing' = FALSE
    /\ UNCHANGED <<list, stored, write_offset, write_block, cutoff, count, written, pblock, walk,
                   cons, sent, consumer, elem, can_suspend>>
PlaceSentinel ==
    LET found == flags[pblock][IndexOf(write_offset)] = "cons" IN
    /\ ppc = "sentinel"
    /\ flags' = [flags EXCEPT ![pblock][IndexOf(write_offset)] = "closed"]
    /\ closing' = FALSE
    /\ cons' = found /\ elem' = (elem /\ ~found)
    /\ ppc' = IF found THEN "wake" ELSE "idle"
    /\ UNCHANGED <<list, stored, write_offset, write_block, cutoff, count, written, pblock, walk,
                   sent, consumer, can_suspend>>

ResumeConsumer ==
    /\ ppc = "wake"
    /\ cpc' = "resume"
    /\ ppc' = "idle" /\ cons' = FALSE
    /\ UNCHANGED <<list, elements, write_offset, write_block, cutoff, closing, count, written,
                   pblock, walk, sent, reading, reclaim, outcome, elem, can_suspend>>

(***************************************************************************)
(* The consumer                                                            *)
(***************************************************************************)
Function == {"try_pull", "empty"} \cup (IF can_suspend THEN {"pull"} ELSE {})

Call(f) ==
    /\ cpc = "idle"
    /\ cpc' = "seek" /\ call' = f /\ rblock' = head_block
    /\ UNCHANGED <<list, elements, producer, read_offset, head_block, taken, reclaim, outcome,
                   elem, can_suspend>>

\* get_read_ticket(), empty(): find_block(head_block, read_offset) ...
SeekRead ==
    /\ cpc = "seek" /\ offset[rblock] # StartOf(read_offset)
    /\ \E b \in Block : Advance(rblock, b) /\ rblock' = b
    /\ UNCHANGED <<stored, producer, read_offset, head_block, call, taken, reclaim, cpc, outcome,
                   elem, can_suspend>>

\* ... and poll its flag.
Poll ==
    /\ cpc = "seek" /\ offset[rblock] = StartOf(read_offset)
    /\ \/ /\ call # "empty" /\ ReadFlag = "data"
          /\ cpc' = "holding" /\ outcome' = "OK"
       \/ /\ call = "pull" /\ ReadFlag # "data"
          /\ cpc' = "suspend" /\ UNCHANGED outcome
       \/ /\ call = "try_pull" /\ ReadFlag # "data"
          /\ cpc' = "idle"
          /\ outcome' = IF ReadFlag = "closed" THEN "CLOSED" ELSE "EMPTY"
       \/ /\ call = "empty"
          /\ cpc' = "idle" /\ UNCHANGED outcome
    /\ UNCHANGED <<list, elements, producer, reading, reclaim, elem, can_suspend>>

\* try_wait() is an exchange: data found there keeps the pointer of a base
\* that will be gone; a sentinel must be put back.
Suspend ==
    /\ cpc = "suspend"
    /\ flags' = [flags EXCEPT ![rblock][IndexOf(read_offset)] = "cons"]
    /\ \/ /\ ReadFlag = "empty"
          /\ cpc' = "parked" /\ elem' = TRUE /\ UNCHANGED outcome
       \/ /\ ReadFlag = "closed"
          /\ cpc' = "restore" /\ UNCHANGED <<elem, outcome>>
       \/ /\ ReadFlag \notin {"empty", "closed"}
          /\ cpc' = "holding" /\ outcome' = "OK" /\ UNCHANGED elem
    /\ UNCHANGED <<list, stored, producer, reading, reclaim, can_suspend>>

RestoreNothing ==
    /\ cpc = "restore"
    /\ cpc' = "idle" /\ outcome' = "CLOSED"
    /\ UNCHANGED <<list, elements, producer, reading, reclaim, elem, can_suspend>>
Restore ==
    /\ cpc = "restore"
    /\ flags' = [flags EXCEPT ![rblock][IndexOf(read_offset)] = "closed"]
    /\ cpc' = "idle" /\ outcome' = "CLOSED"
    /\ UNCHANGED <<list, stored, producer, reading, reclaim, elem, can_suspend>>

PullResume ==
    /\ cpc = "resume"
    /\ IF elem THEN cpc' = "holding" /\ outcome' = "OK"
               ELSE cpc' = "idle" /\ outcome' = "CLOSED"
    /\ UNCHANGED <<list, elements, producer, reading, reclaim, elem, can_suspend>>

\* The scope ends: finish_read() destroys the value, and when it was the first
\* of a block makes that block the head and reclaims those before it.
FinishRead ==
    /\ cpc = "holding"
    /\ stored' = [stored EXCEPT ![rblock][IndexOf(read_offset)] = NoValue]
    /\ read_offset' = Plus(read_offset, 1)
    /\ taken' = taken + 1
    /\ IF StartsBlock(read_offset)
          THEN cpc' = "collect" /\ oldHead' = head_block /\ head_block' = rblock
          ELSE cpc' = "idle" /\ UNCHANGED <<oldHead, head_block>>
    /\ UNCHANGED <<list, flags, producer, call, rblock, tail_block, unlinked, tailBlock, outcome,
                   elem, can_suspend>>

(***************************************************************************)
(* reclaim_blocks(): in groups of up to four                               *)
(***************************************************************************)
GroupSize == 4
Unlinked  == { unlinked[i] : i \in 1 .. Len(unlinked) }

Collect ==
    /\ cpc = "collect"
    /\ IF oldHead # head_block /\ Len(unlinked) < GroupSize
          THEN /\ unlinked' = Append(unlinked, oldHead)
               /\ oldHead' = next[oldHead]
               /\ UNCHANGED cpc
          ELSE /\ cpc' = IF unlinked = <<>> THEN "idle" ELSE "reset"
               /\ UNCHANGED <<unlinked, oldHead>>
    /\ UNCHANGED <<list, elements, producer, reading, tail_block, tailBlock, outcome, elem,
                   can_suspend>>

\* reset_values() of the group.
AfterNoReset(b) == flags[b]
AfterReset(b) == IF b \in Unlinked THEN Fresh ELSE flags[b]

ResetValues ==
    /\ cpc = "reset"
    /\ flags' = [b \in Block |-> AfterReset(b)]
    /\ tailBlock' = tail_block
    /\ cpc' = "find_tail"
    /\ UNCHANGED <<list, stored, producer, reading, tail_block, oldHead, unlinked, outcome, elem,
                   can_suspend>>

FindTail ==
    /\ cpc = "find_tail"
    /\ IF next[tailBlock] # Null
          THEN tailBlock' = next[tailBlock] /\ UNCHANGED cpc
          ELSE cpc' = "unlink" /\ UNCHANGED tailBlock
    /\ UNCHANGED <<list, elements, producer, reading, tail_block, oldHead, unlinked, outcome,
                   elem, can_suspend>>

Unlink ==
    /\ cpc = "unlink"
    /\ next' = [next EXCEPT ![unlinked[Len(unlinked)]] = Null]
    /\ cpc' = "relink"
    /\ UNCHANGED <<blocks, offset, elements, producer, reading, reclaim, outcome, elem,
                   can_suspend>>

\* Stamp the group with the offsets after the tail's and append it, or walk on
\* when somebody appended first.
Stamped(b, k) == Plus(offset[b], k * BlockSize)

RelinkByStore ==
    /\ cpc = "relink"
    /\ next' = [next EXCEPT ![tailBlock] = unlinked[1]]
    /\ offset' = [b \in Block |->
          IF b \in Unlinked
             THEN Stamped(tailBlock, CHOOSE k \in 1 .. Len(unlinked) : unlinked[k] = b)
             ELSE offset[b]]
    /\ tail_block' = unlinked[Len(unlinked)]
    /\ unlinked' = <<>> /\ cpc' = "collect"
    /\ UNCHANGED <<blocks, elements, producer, reading, tailBlock, oldHead, outcome, elem,
                   can_suspend>>
Relink ==
    /\ cpc = "relink"
    /\ IF next[tailBlock] = Null
          THEN /\ next' = [next EXCEPT ![tailBlock] = unlinked[1]]
               /\ offset' = [b \in Block |->
                     IF b \in Unlinked
                        THEN Stamped(tailBlock, CHOOSE k \in 1 .. Len(unlinked) : unlinked[k] = b)
                        ELSE offset[b]]
               /\ tail_block' = unlinked[Len(unlinked)]
               /\ unlinked' = <<>> /\ cpc' = "collect"
               /\ UNCHANGED tailBlock
          ELSE /\ tailBlock' = next[tailBlock]
               /\ UNCHANGED <<next, offset, tail_block, unlinked, cpc>>
    /\ UNCHANGED <<blocks, elements, producer, reading, oldHead, outcome, elem, can_suspend>>

(***************************************************************************)
(* The destructor: both sides are outside any call.  It closes the queue,  *)
(* destroys what lies between read_offset and the cutoff and deletes every *)
(* block that it reaches from head_block.                                  *)
(***************************************************************************)
\* The blocks on the list from b on: the least set with b that next does not leave.
ReachableFrom(b) ==
    { c \in blocks : \A S \in SUBSET blocks :
          b \in S /\ (\A d \in S : next[d] # Null => next[d] \in S) => c \in S }

Leftover(end) ==
    { Plus(read_offset, k) :
        k \in { k \in Word : \A j \in 0..k : CircularLess(Plus(read_offset, j), end) } }

Destruct ==
    LET end  == IF closed THEN write_closed_at ELSE write_offset
        all  == ReachableFrom(head_block)
        Gets(b, i) == /\ b \in all /\ flags[b][i] = "data"
                      /\ Plus(offset[b], i) \in Leftover(end)
    IN
    /\ ppc = "idle" /\ cpc = "idle"
    /\ closed' = TRUE /\ write_closed_at' = end
    /\ stored' = [b \in Block |-> [i \in Index |-> IF Gets(b, i) THEN NoValue ELSE stored[b][i]]]
    /\ blocks' = blocks \ all
    /\ ppc' = "gone" /\ cpc' = "gone"
    /\ UNCHANGED <<next, offset, flags, write_offset, write_block, pushing, sent, reading,
                   reclaim, outcome, elem, can_suspend>>

Gone == ppc = "gone" /\ UNCHANGED vars

ProducerStep ==
    \/ SeekWrite \/ Reserve \/ Emplace \/ Publish \/ Cross \/ PlaceSentinel \/ ResumeConsumer
ReclaimStep == Collect \/ ResetValues \/ FindTail \/ Unlink \/ Relink
ConsumerStep ==
    SeekRead \/ Poll \/ Suspend \/ Restore \/ PullResume \/ FinishRead \/ ReclaimStep

Next ==
    \/ \E n \in 1 .. MaxBulk : Post(n)
    \/ Close
    \/ ProducerStep
    \/ \E f \in Function : Call(f)
    \/ ConsumerStep
    \/ Destruct
    \/ Gone

Spec == Init /\ [][Next]_vars

(***************************************************************************)
(* Fairness: whoever runs, or was resumed, is eventually given processor   *)
(* time; and the client closes the queue and keeps pulling, whatever calls *)
(* of empty() it makes in between.                                         *)
(***************************************************************************)
FairSpec ==
    /\ Spec
    /\ WF_vars(ProducerStep)
    /\ WF_vars(ConsumerStep)
    /\ WF_vars(Close)
    /\ SF_vars(\E f \in Function \ {"empty"} : Call(f))

-----------------------------------------------------------------------------
(***************************************************************************)
(* Type invariant                                                          *)
(***************************************************************************)
TypeOK ==
    /\ blocks \subseteq Block
    /\ next \in [Block -> Block \cup {Null}] /\ offset \in [Block -> Word]
    /\ flags \in [Block -> [Index -> Flag]]
    /\ stored \in [Block -> [Index -> Value \cup {NoValue}]]
    /\ write_offset \in Word /\ read_offset \in Word /\ write_closed_at \in Word
    /\ closed \in BOOLEAN /\ closing \in BOOLEAN /\ cons \in BOOLEAN /\ elem \in BOOLEAN
    /\ ppc \in {"idle", "seek", "reserve", "emplace", "publish", "cross", "sentinel", "wake", "gone"}
    /\ count \in 0 .. MaxBulk /\ written \in 0 .. MaxBulk
    /\ {write_block, pblock, walk, head_block, tail_block, rblock, oldHead, tailBlock} \subseteq Block
    /\ cpc \in {"idle", "seek", "suspend", "restore", "parked", "resume", "holding", "collect",
                "reset", "find_tail", "unlink", "relink", "gone"}
    /\ call \in Function \cup {"none"}
    /\ unlinked \in Seq(Block) /\ Len(unlinked) <= GroupSize
    /\ outcome \in {"none", "OK", "EMPTY", "CLOSED"}
    /\ sent \in 0 .. MaxPost /\ taken \in 0 .. MaxPost

(***************************************************************************)
(* Safety                                                                  *)
(***************************************************************************)
\* What reclaim_blocks() relies on: the producer moved write_block before it
\* made the first value of a block visible, so when the consumer has had that
\* value, the producer cannot get to the blocks before it any more, from
\* write_block or from the cursor of the post that is under way.
ReclaimedIsUnreached ==
    cpc \in {"reset", "find_tail", "unlink", "relink"} =>
        /\ Unlinked \cap ReachableFrom(write_block) = {}
        /\ ppc \notin {"idle", "wake", "gone"} => pblock \notin Unlinked

\* The assertions of find_block(): from head_block on, blocks follow each other
\* in the order of their offsets, whichever side appended them; and the
\* producer is somewhere on that list.
ListInOrder ==
    ppc # "gone" =>
        /\ write_block \in ReachableFrom(head_block)
        /\ \A b \in ReachableFrom(head_block) :
              next[b] # Null => offset[next[b]] = Plus(offset[b], BlockSize)

\* No block is lost while both sides append: each is on the list or being
\* moved, not both, and the destructor deletes them all.
NoBlockLost ==
    IF ppc = "gone" THEN blocks = {}
    ELSE /\ blocks = ReachableFrom(head_block) \cup Unlinked
                     \cup (IF cpc = "collect" THEN ReachableFrom(oldHead) ELSE {})
         /\ cpc = "relink" => Unlinked \cap ReachableFrom(head_block) = {}

\* A value is constructed, and the sentinel is placed, in the block of its
\* offset, in an element that is clear save for a suspended consumer, even when
\* the block was recycled; and a bulk never runs out of blocks.
PostOverwritesNothing ==
    /\ ppc \in {"emplace", "publish", "sentinel"} =>
          /\ offset[pblock] = StartOf(WriteAt)
          /\ flags[pblock][IndexOf(WriteAt)] \in {"empty", "cons"}
          /\ ppc # "publish" => stored[pblock][IndexOf(WriteAt)] = NoValue
    /\ ppc = "cross" => next[pblock] # Null

\* Values come out in the order posted, each once, across blocks, their reuse
\* and the wraparound.
FifoDelivery ==
    cpc = "holding" => taken < sent /\ stored[rblock][IndexOf(read_offset)] = taken + 1

\* The destructor destroys every value left, before the blocks go.
DestructorLeavesNothing ==
    ppc = "gone" => \A b \in Block, i \in Index : stored[b][i] = NoValue

\* The storage is sound at all times: well typed, the blocks in order, none
\* lost or leaked, and no value left behind in the end.
StorageIsSound == TypeOK /\ ListInOrder /\ NoBlockLost /\ DestructorLeavesNothing

\* A suspended consumer's pointer is in the next element, or the producer has
\* it and will resume it when its call ends; a pointer that try_wait() left
\* behind in an element with data is never taken for one.
NoLostWakeup ==
    /\ cpc = "parked" => cons # (ReadFlag = "cons")
    /\ cons => cpc = "parked" /\ ppc # "idle"
    /\ cpc = "parked" /\ ~cons => taken = sent /\ (closed => closing)

\* What the poll of the next element says is so, although try_wait() takes a
\* sentinel away for a moment.
StatusIsRight ==
    cpc = "seek" /\ offset[rblock] = StartOf(read_offset) =>
        /\ ReadFlag = "data" <=> taken < sent
        /\ ReadFlag = "closed" <=> closed /\ ~closing /\ taken = sent

\* What the consumer is told is right: the next value in order when there is
\* one, CLOSED when there will be none, neither of them otherwise.
DeliversRight == FifoDelivery /\ StatusIsRight

(***************************************************************************)
(* Liveness                                                                *)
(***************************************************************************)
\* After close() the consumer drains the queue and is told CLOSED (unless the
\* queue is destroyed first); nobody stays suspended; and a reclamation ends,
\* although the producer may append before every exchange of its.
DrainsAndCloses ==
    /\ closed ~> (outcome = "CLOSED" \/ ppc = "gone")
    /\ cpc = "parked" ~> cpc = "resume"
    /\ cpc = "collect" ~> cpc = "idle"

(***************************************************************************)
(* Refinement                                                              *)
(***************************************************************************)
InHand == IF cpc = "holding" THEN 1 ELSE 0

\* find_block(head_block, off): the first block of that offset.
BlockAt(off) ==
    LET all == { b \in ReachableFrom(head_block) : offset[b] = StartOf(off) }
    IN  CHOOSE b \in all : \A c \in all \ {b} : c \in ReachableFrom(b)
StoredAt(k) ==
    LET off == Plus(read_offset, k) IN stored[BlockAt(off)][IndexOf(off)]

\* The list of blocks implements the abstract queue, with as much room as the
\* model has; the values of a bulk become visible one by one.
Queue == IF ppc = "gone" THEN <<>>
         ELSE [k \in 1 .. sent - taken - InHand |-> StoredAt(k - 1 + InHand)]
Held  == IF cpc = "holding" THEN <<StoredAt(0)>> ELSE <<>>
Told  == outcome = "CLOSED"

Abstract == INSTANCE AsyncQueue WITH
    Capacity <- MaxWaiting,
    queue <- Queue,
    held <- Held,
    told <- Told,
    PushOverlapsClose <- FALSE

ImplementsAsyncQueue == Abstract!Spec
================================================================================
