-------------------------------- MODULE Channel --------------------------------
(***************************************************************************)
(* coro_util::channel: any number of producers and consumers over a linked *)
(* list of blocks.  Each works through a token of its own (chan_tok), and  *)
(* a token holds a hazard pointer: the blocks where its next post and its  *)
(* next pull begin their search, and active_offset, which protects what it *)
(* has in use.  A consumer that comes to index 1 of a block recycles the   *)
(* blocks before all hazard pointers.  It moves idle hazard pointers ahead *)
(* itself, and two counters tell it and a token that is just taking a      *)
(* hazard pointer of each other.                                           *)
(*                                                                         *)
(* A token is the hazard pointer it uses: one that is released and taken   *)
(* again stands for two tokens that had the same hazard pointer in turn.   *)
(*                                                                         *)
(* A step is one access to memory that others may reach, with the private  *)
(* accesses around it.  An offset is read with the pointer that leads to   *)
(* it, an append is one step, and so is what commutes with what others do. *)
(***************************************************************************)
EXTENDS Integers, Sequences, FiniteSets

CONSTANTS
    Tokens,
    Setups,        \* who makes which calls, under which continuation policy
    Maker,         \* the token that was there before the others
    Nobody,        \* no token
    BlockSize,     \* Config::BlockSize
    WordMod,       \* 2^w, the number of values of a size_t offset
    MaxBulk,       \* largest Count passed to post_bulk(); 0: no bulks
    FirstTicket,   \* 0: a new channel; else so many values have gone through
    MaxTicket,     \* model bound: tickets for posts,
    MaxPull,       \*   for pulls (`pulls' in a setup),
    MaxAcquire,    \*   hazard pointers taken (before retries),
    MaxBlocks      \*   and blocks alive at a time

\* The static assertions: a power of two divides 2^w.
ASSUME BlockAssumption == BlockSize \in Nat /\ BlockSize > 0
ASSUME WordAssumption  == WordMod \in Nat /\ WordMod % 4 = 0 /\ WordMod % BlockSize = 0
ASSUME TokenAssumption ==
    /\ Maker \in Tokens /\ Nobody \notin Tokens /\ IsFiniteSet(Tokens)
    /\ \A t \in Tokens : t \notin {"empty", "data", "both"}
\* A token leaves when it goes out of scope; with `inline', resume() of the
\* policy runs the consumer before it returns.
Calls == {"post", "post_bulk", "pull", "try_pull", "close", "leave"}
ASSUME SetupAssumption ==
    Setups \subseteq [does : [Tokens -> SUBSET Calls], inline : BOOLEAN, pulls : 0 .. MaxPull]
\* A steady state is what posting and pulling in turn leads to.
ASSUME StartAssumption == FirstTicket = 0 \/
    (BlockSize = 2 /\ FirstTicket % 2 = 0 /\ FirstTicket \in 6 .. WordMod - 1)
\* Memory ends long before a quarter of the range of a word is in use.
ASSUME RangeAssumption ==
    /\ MaxTicket \in Nat /\ MaxPull \in Nat /\ MaxAcquire \in Nat /\ MaxBulk \in Nat
    /\ MaxBlocks \in Nat /\ MaxBlocks >= 3
    /\ 4 * (MaxTicket + MaxPull + 4 * BlockSize) < WordMod

VARIABLES
    setup,            \* the one of Setups that this is: never changes
    blocks,           \* the blocks allocated and not deleted
    next,             \* data_block::next
    offset,           \* data_block::offset
    flags,            \* element::flags of every element of every block
    stored,           \* element::data: a value, or NoValue
    write_offset,
    read_offset,
    closed,           \* "open", "closing": WRITE_CLOSING_BIT, "closed": and WRITE_CLOSED_BIT
    write_closed_at,
    haz_ptr_counter,
    reclaim_counter,
    head_block,
    head_offset,
    tail_block,
    lock,             \* blocks_lock: the token that holds it
    rec,              \* locals of try_reclaim_blocks()
    haz,              \* the hazard pointers
    pc,               \* what each token does next
    op,               \* the locals of its call
    told,             \* history: its last pull said CLOSED
    under             \* whose call has resumed it, on that caller's stack

list      == <<blocks, next, offset>>
elements  == <<flags, stored>>
offsets   == <<write_offset, read_offset>>
cutoff    == <<closed, write_closed_at>>
counters  == <<haz_ptr_counter, reclaim_counter>>
heads     == <<head_block, head_offset, tail_block>>
reclaim   == <<heads, lock, rec>>
clients   == <<setup, told, under>>
queue     == <<list, elements, offsets, cutoff>>
vars      == <<queue, counters, reclaim, haz, pc, op, clients>>

(***************************************************************************)
(* Words, blocks and values                                                *)
(***************************************************************************)
Block   == 1 .. MaxBlocks
Null    == 0
Index   == 0 .. BlockSize - 1
Word    == 0 .. WordMod - 1
Value   == 1 .. MaxTicket  \* the value of the n-th ticket is the number n
NoValue == 0
Flag    == {"empty", "data", "both"} \cup Tokens  \* a token: its consumer_base
InactiveHazptrOffset == WordMod \div 4

Plus(off, n) == (off + n) % WordMod
Inactive(off) == Plus(off, InactiveHazptrOffset)
IndexOf(off) == off % BlockSize
StartOf(off) == off - IndexOf(off)    \* Idx & ~BlockSizeMask

CircularLess(a, b) == 2 * ((a - b) % WordMod) > WordMod
AtOrBefore(a, b) == CircularLess(a, Plus(b, 1))

KeepDst(dst, src) == dst
KeepMin(dst, src) == IF CircularLess(src, dst) THEN src ELSE dst

ValueAt(off) == ((off - FirstTicket) % WordMod) + 1
Fresh == [i \in Index |-> "empty"]

NoHaz  == [owned |-> FALSE, active_offset |-> InactiveHazptrOffset, write_block |-> Null,
           read_block |-> Null, next_protect_write |-> 0, next_protect_read |-> 0]
NoCall == [name |-> "none", idx |-> 0, count |-> 0, written |-> 0, boff |-> 0,
           walk |-> Null, block |-> Null, end |-> 0, past |-> FALSE, seen |-> 0]
NoRec  == [old |-> Null, new |-> Null, protect |-> 0, count |-> 0, todo |-> {}, at |-> Nobody,
           field |-> "write_block", expected |-> Null, unlinked |-> <<>>, tail |-> Null]

\* The steady state after FirstTicket values: the block before last has been
\* used up, the maker is in the last, and a recycled one follows.
Used == FirstTicket # 0
Init ==
    /\ setup \in Setups
    /\ blocks = IF Used THEN {1, 2, 3} ELSE {1}
    /\ next = [b \in Block |-> IF Used /\ b < 3 THEN b + 1 ELSE Null]
    /\ offset = [b \in Block |-> IF Used /\ b <= 3 THEN FirstTicket - (3 - b) * BlockSize ELSE 0]
    /\ flags = [b \in Block |-> IF Used /\ b < 3 THEN [i \in Index |-> "data"] ELSE Fresh]
    /\ stored = [b \in Block |-> [i \in Index |-> NoValue]]
    /\ write_offset = FirstTicket /\ read_offset = FirstTicket
    /\ closed = "open" /\ write_closed_at = 0
    /\ haz_ptr_counter = 0 /\ reclaim_counter = 0
    /\ head_block = 1 /\ head_offset = offset[1] /\ tail_block = IF Used THEN 3 ELSE 1
    /\ lock = Nobody /\ rec = NoRec
    /\ haz = [t \in Tokens |->
          IF Used /\ t = Maker
             THEN [owned |-> TRUE, active_offset |-> Inactive(FirstTicket - 1),
                   write_block |-> 2, read_block |-> 2,
                   next_protect_write |-> offset[2], next_protect_read |-> offset[2]]
             ELSE NoHaz]
    /\ pc = [t \in Tokens |-> "idle"] /\ op = [t \in Tokens |-> NoCall]
    /\ told = [t \in Tokens |-> FALSE] /\ under = [t \in Tokens |-> Nobody]

\* The step of find_block() from block b to block c.
NewBlock == CHOOSE b \in Block \ blocks : \A c \in Block \ blocks : b <= c

Advance(b, c) ==
    \/ next[b] # Null /\ c = next[b] /\ UNCHANGED <<list, flags>>
    \/ /\ next[b] = Null /\ blocks # Block /\ c = NewBlock
       /\ blocks' = blocks \cup {c}
       /\ next' = [next EXCEPT ![b] = c, ![c] = Null]
       /\ offset' = [offset EXCEPT ![c] = Plus(offset[b], BlockSize)]
       /\ flags' = [flags EXCEPT ![c] = Fresh]

(***************************************************************************)
(* Calls                                                                   *)
(***************************************************************************)
GoTo(t, s) == pc' = [pc EXCEPT ![t] = s]
Return(t)  == GoTo(t, "idle") /\ op' = [op EXCEPT ![t] = NoCall]

Posting(t) == op[t].name \in {"post", "post_bulk"}
EndOf(t)   == Plus(op[t].idx, op[t].count)
LastOf(t)  == IF op[t].count = 0 THEN op[t].idx ELSE Plus(op[t].idx, op[t].count - 1)
WriteAt(t) == Plus(op[t].idx, op[t].written)
FlagAt(b, off) == flags[b][IndexOf(off)]

Bulks == IF MaxBulk = 0 THEN {} ELSE 0 .. MaxBulk
Counts(name) == CASE name = "post" -> {1} [] name = "post_bulk" -> Bulks [] OTHER -> {0}

\* The bounds count the tickets that calls under way have not drawn yet.
BeforeDraw == {"acquire", "own", "load_offset", "load_head", "init", "count", "recheck", "protect",
               "draw"}
Asked(names) == { t \in Tokens : pc[t] \in BeforeDraw /\ op[t].name \in names }
TicketsAsked ==
    ((write_offset - FirstTicket) % WordMod)
    + Cardinality({ e \in Asked({"post", "post_bulk"}) \X (1 .. MaxTicket) : e[2] <= op[e[1]].count })
PullsAsked == ((read_offset - FirstTicket) % WordMod) + Cardinality(Asked({"pull", "try_pull"}))

Start(t, name, n) ==
    /\ pc[t] = "idle"
    /\ name \in {"post", "post_bulk"} => TicketsAsked + n <= MaxTicket
    /\ name \in {"pull", "try_pull"} => PullsAsked < setup.pulls
    /\ name # "close" => haz[t].owned \/ haz_ptr_counter < MaxAcquire
    /\ op' = [op EXCEPT ![t] = [NoCall EXCEPT !.name = name, !.count = n]]
    /\ GoTo(t, CASE name = "close" -> "lock"
                 [] name # "close" /\ haz[t].owned -> "protect"
                 [] name # "close" /\ ~haz[t].owned -> "acquire")
    /\ UNCHANGED <<queue, counters, reclaim, haz, clients>>

(***************************************************************************)
(* get_hazard_ptr() and its release                                        *)
(***************************************************************************)
LoadReclaimCounter(t) ==
    /\ pc[t] = "acquire"
    /\ op' = [op EXCEPT ![t].seen = reclaim_counter]
    /\ GoTo(t, "own")
    /\ UNCHANGED <<queue, counters, reclaim, haz, clients>>

TryTakeOwnership(t) ==
    /\ pc[t] = "own"
    /\ haz' = [haz EXCEPT ![t].owned = TRUE]
    /\ GoTo(t, "load_offset")
    /\ UNCHANGED <<queue, counters, reclaim, op, clients>>

LoadHeadOffset(t) ==
    /\ pc[t] = "load_offset"
    /\ op' = [op EXCEPT ![t].boff = head_offset]
    /\ GoTo(t, "load_head")
    /\ UNCHANGED <<queue, counters, reclaim, haz, clients>>

LoadHead(t) ==
    /\ pc[t] = "load_head"
    /\ op' = [op EXCEPT ![t].block = head_block]
    /\ GoTo(t, "init")
    /\ UNCHANGED <<queue, counters, reclaim, haz, clients>>

InitHazPtr(t) ==
    /\ pc[t] = "init"
    /\ haz' = [haz EXCEPT ![t] =
          [owned |-> TRUE, active_offset |-> Inactive(op[t].boff),
           write_block |-> op[t].block, read_block |-> op[t].block,
           next_protect_write |-> op[t].boff, next_protect_read |-> op[t].boff]]
    /\ GoTo(t, "count")
    /\ UNCHANGED <<queue, counters, reclaim, op, clients>>

CountHazPtr(t) ==
    /\ pc[t] = "count"
    /\ haz_ptr_counter' = haz_ptr_counter + 1
    /\ GoTo(t, "recheck")
    /\ UNCHANGED <<queue, reclaim_counter, reclaim, haz, op, clients>>

\* Again, if a reclamation went on meanwhile.
Settled(t) == op[t].seen = reclaim_counter
RecheckReclaim(t) ==
    /\ pc[t] = "recheck"
    /\ op' = [op EXCEPT ![t].seen = IF Settled(t) THEN 0 ELSE reclaim_counter,
                        ![t].boff = 0, ![t].block = Null]
    /\ GoTo(t, IF Settled(t) THEN "protect" ELSE "load_offset")
    /\ UNCHANGED <<queue, counters, reclaim, haz, clients>>

\* free_hazard_ptr(): the token goes out of scope.
Free(t) ==
    /\ pc[t] = "idle" /\ haz[t].owned /\ "leave" \in setup.does[t]
    /\ haz' = [haz EXCEPT ![t].write_block = Null, ![t].read_block = Null]
    /\ GoTo(t, "disown")
    /\ UNCHANGED <<queue, counters, reclaim, op, clients>>

ReleaseOwnership(t) ==
    /\ pc[t] = "disown"
    /\ haz' = [haz EXCEPT ![t].owned = FALSE]
    /\ Return(t)
    /\ UNCHANGED <<queue, counters, reclaim, clients>>

(***************************************************************************)
(* get_write_ticket(), get_write_ticket_bulk(), get_read_ticket() and the  *)
(* first half of try_pull(): protect, then draw, then load the block.      *)
(***************************************************************************)
Protect(t) ==
    /\ pc[t] = "protect"
    /\ haz' = [haz EXCEPT ![t].active_offset =
          IF Posting(t) THEN haz[t].next_protect_write ELSE haz[t].next_protect_read]
    /\ GoTo(t, "draw")
    /\ UNCHANGED <<queue, counters, reclaim, op, clients>>

Draw(t) ==
    /\ pc[t] = "draw"
    /\ \/ /\ Posting(t)
          /\ write_offset' = Plus(write_offset, op[t].count) /\ UNCHANGED read_offset
          /\ op' = [op EXCEPT ![t].idx = write_offset]
          /\ GoTo(t, "load_block")
       \/ /\ op[t].name = "pull"
          /\ read_offset' = Plus(read_offset, 1) /\ UNCHANGED write_offset
          /\ op' = [op EXCEPT ![t].idx = read_offset]
          /\ GoTo(t, "load_block")
       \/ /\ op[t].name = "try_pull"
          /\ UNCHANGED <<write_offset, read_offset>>
          /\ op' = [op EXCEPT ![t].idx = read_offset]
          /\ GoTo(t, "load_woff")
    /\ UNCHANGED <<list, elements, cutoff, counters, reclaim, haz, clients>>

LoadBlock(t) ==
    LET b == IF Posting(t) THEN haz[t].write_block ELSE haz[t].read_block IN
    /\ pc[t] = "load_block"
    /\ op' = [op EXCEPT ![t].walk = b, ![t].boff = offset[b]]
    /\ GoTo(t, IF op[t].name = "try_pull" THEN "seek" ELSE "check_closed")
    /\ UNCHANGED <<queue, counters, reclaim, haz, clients>>

\* is_closed_past(Idx): spin while close() is between its two stores.
PastAnywhere(t) == closed = "closed"
PastCutoff(t) == closed = "closed" /\ AtOrBefore(write_closed_at, op[t].idx)

\* A post past the cutoff gives up.  A pull past the cutoff still goes to its
\* element, to tell close().
CheckClosed(t) ==
    /\ pc[t] = "check_closed" /\ closed # "closing"
    /\ GoTo(t, IF PastCutoff(t) /\ Posting(t) THEN "release" ELSE "seek")
    /\ op' = [op EXCEPT ![t].past = PastCutoff(t)]
    /\ told' = [told EXCEPT ![t] = PastCutoff(t) /\ ~Posting(t)]
    /\ UNCHANGED <<queue, counters, reclaim, haz, under, setup>>

\* find_block(block, Idx).
Found(t) == offset[op[t].walk] = StartOf(op[t].idx)

Seek(t) ==
    /\ pc[t] = "seek" /\ ~Found(t)
    /\ \E b \in Block : Advance(op[t].walk, b) /\ op' = [op EXCEPT ![t].walk = b]
    /\ UNCHANGED <<stored, offsets, cutoff, counters, reclaim, haz, pc, clients>>

SeekEndsInPost(t) ==
    /\ pc[t] = "seek" /\ Found(t) /\ op[t].name = "post"
    /\ haz' = [haz EXCEPT ![t].write_block = op[t].walk, ![t].next_protect_write = op[t].boff]
    /\ op' = [op EXCEPT ![t].block = op[t].walk]
    /\ GoTo(t, "write")
    /\ UNCHANGED <<queue, counters, reclaim, clients>>

SeekEndsInBulk(t) ==
    /\ pc[t] = "seek" /\ Found(t) /\ op[t].name = "post_bulk"
    /\ op' = [op EXCEPT ![t].block = op[t].walk]
    /\ GoTo(t, "reserve")
    /\ UNCHANGED <<queue, counters, reclaim, haz, clients>>

\* find_block(startBlock, EndIdx - 1): the last block becomes write_block.
Reserve(t) ==
    /\ pc[t] = "reserve"
    /\ IF offset[op[t].walk] = StartOf(LastOf(t))
          THEN /\ haz' = [haz EXCEPT ![t].write_block = op[t].walk,
                                     ![t].next_protect_write = offset[op[t].walk]]
               /\ GoTo(t, IF op[t].count = 0 THEN "release" ELSE "write")
               /\ UNCHANGED <<list, flags, op>>
          ELSE /\ \E b \in Block : Advance(op[t].walk, b) /\ op' = [op EXCEPT ![t].walk = b]
               /\ UNCHANGED <<haz, pc>>
    /\ UNCHANGED <<stored, offsets, cutoff, counters, reclaim, clients>>

\* Only the consumer at index 1 tries to reclaim, and only if nobody else does.
AtIndexOne(t) == IndexOf(op[t].idx) = 1

SeekEndsInPull(t) ==
    /\ pc[t] = "seek" /\ Found(t) /\ op[t].name = "pull" /\ ~op[t].past
    /\ haz' = [haz EXCEPT ![t].read_block = op[t].walk, ![t].next_protect_read = op[t].boff]
    /\ op' = [op EXCEPT ![t].block = op[t].walk]
    /\ GoTo(t, IF AtIndexOne(t) THEN "try_lock" ELSE "wait")
    /\ UNCHANGED <<queue, counters, reclaim, clients>>

\* set_not_waiting(): close() need not wait for this reader.
SetNothing(t) ==
    /\ pc[t] = "seek" /\ Found(t) /\ op[t].name = "pull" /\ op[t].past
    /\ GoTo(t, "release")
    /\ UNCHANGED <<queue, counters, reclaim, haz, op, clients>>
SetNotWaiting(t) ==
    /\ pc[t] = "seek" /\ Found(t) /\ op[t].name = "pull" /\ op[t].past
    /\ flags' = [flags EXCEPT ![op[t].walk][IndexOf(op[t].idx)] = "both"]
    /\ GoTo(t, "release")
    /\ UNCHANGED <<list, stored, offsets, cutoff, counters, reclaim, haz, op, clients>>

\* active_offset = Idx + InactiveHazptrOffset (EndIdx in post_bulk()): the last
\* step of every call that protected something, and of the scope of a value.
ReleaseIdx(t) == Inactive(IF op[t].name = "post_bulk" THEN EndOf(t) ELSE op[t].idx)
Release(t) ==
    /\ pc[t] = "release"
    /\ haz' = [haz EXCEPT ![t].active_offset = ReleaseIdx(t)]
    /\ Return(t)
    /\ UNCHANGED <<queue, counters, reclaim, clients>>

(***************************************************************************)
(* write_element(): construct the value, then exchange the flag.  If there *)
(* is a consumer it stays in the flag, and is resumed.                     *)
(***************************************************************************)
AfterElement(t) ==
    CASE op[t].name = "post_bulk" /\ IndexOf(Plus(WriteAt(t), 1)) = 0 -> "cross"
      [] op[t].name = "post_bulk" /\ IndexOf(Plus(WriteAt(t), 1)) # 0
            /\ op[t].written + 1 < op[t].count -> "write"
      [] OTHER -> "release"

WriteElement(t) ==
    LET b == op[t].block
        i == IndexOf(WriteAt(t))
    IN
    /\ pc[t] = "write"
    /\ stored' = [stored EXCEPT ![b][i] = ValueAt(WriteAt(t))]
    /\ IF flags[b][i] = "empty"
          THEN /\ flags' = [flags EXCEPT ![b][i] = "data"]
               /\ op' = [op EXCEPT ![t].written = @ + 1]
               /\ GoTo(t, AfterElement(t))
          ELSE GoTo(t, "wake") /\ UNCHANGED <<flags, op>>
    /\ UNCHANGED <<list, offsets, cutoff, counters, reclaim, haz, clients>>

\* The consumer goes on, on its own or inside the caller.
Resume(t, c) ==
    under' = [under EXCEPT ![c] = IF setup.inline THEN t ELSE Nobody]

ResumeConsumer(t) ==
    LET c == FlagAt(op[t].block, WriteAt(t)) IN
    /\ pc[t] = "wake"
    /\ pc' = [pc EXCEPT ![c] = "holding", ![t] = AfterElement(t)]
    /\ op' = [op EXCEPT ![t].written = @ + 1]
    /\ Resume(t, c)
    /\ UNCHANGED <<queue, counters, reclaim, haz, told, setup>>

\* post_bulk() goes on in the next block, which may be none after its last value.
Cross(t) ==
    /\ pc[t] = "cross"
    /\ op' = [op EXCEPT ![t].block = next[op[t].block]]
    /\ GoTo(t, IF op[t].written < op[t].count THEN "write" ELSE "release")
    /\ UNCHANGED <<queue, counters, reclaim, haz, clients>>

(***************************************************************************)
(* The rest of pull(): await_ready() and await_suspend() as one exchange,  *)
(* since data that was seen stays; and the scope of the value.             *)
(***************************************************************************)
Wait(t) ==
    LET b == op[t].block
        i == IndexOf(op[t].idx)
    IN
    /\ pc[t] = "wait"
    /\ IF flags[b][i] = "empty"
          THEN /\ flags' = [flags EXCEPT ![b][i] = t]
               /\ GoTo(t, "parked") /\ under' = [under EXCEPT ![t] = Nobody]
          ELSE /\ GoTo(t, "holding") /\ UNCHANGED <<flags, under>>
    /\ UNCHANGED <<list, stored, offsets, cutoff, counters, reclaim, haz, op, told, setup>>

DestroyValue(t) ==
    /\ pc[t] = "holding"
    /\ stored' = [stored EXCEPT ![op[t].block][IndexOf(op[t].idx)] = NoValue]
    /\ GoTo(t, "release")
    /\ UNCHANGED <<list, flags, offsets, cutoff, counters, reclaim, haz, op, clients>>

(***************************************************************************)
(* The rest of try_pull()                                                  *)
(***************************************************************************)
LoadWriteOffset(t) ==
    /\ pc[t] = "load_woff"
    /\ op' = [op EXCEPT ![t].end = write_offset]
    /\ GoTo(t, IF AtOrBefore(write_offset, op[t].idx) THEN "status" ELSE "load_block")
    /\ UNCHANGED <<queue, counters, reclaim, haz, clients>>

Poll(t) ==
    /\ pc[t] = "seek" /\ Found(t) /\ op[t].name = "try_pull"
    /\ op' = [op EXCEPT ![t].block = op[t].walk]
    /\ GoTo(t, IF FlagAt(op[t].walk, op[t].idx) = "data" THEN "claim" ELSE "reread")
    /\ UNCHANGED <<queue, counters, reclaim, haz, clients>>

\* The exchange of read_offset fails if another consumer was there first.
ClaimAnyway(t) ==
    /\ pc[t] = "claim"
    /\ read_offset' = Plus(op[t].idx, 1)
    /\ haz' = [haz EXCEPT ![t].read_block = op[t].block, ![t].next_protect_read = op[t].boff]
    /\ told' = [told EXCEPT ![t] = FALSE]
    /\ GoTo(t, IF AtIndexOne(t) THEN "try_lock" ELSE "holding")
    /\ UNCHANGED <<list, elements, write_offset, cutoff, counters, reclaim, op, under, setup>>
Claim(t) ==
    /\ pc[t] = "claim"
    /\ IF read_offset = op[t].idx
          THEN /\ read_offset' = Plus(read_offset, 1)
               /\ haz' = [haz EXCEPT ![t].read_block = op[t].block,
                                     ![t].next_protect_read = op[t].boff]
               /\ told' = [told EXCEPT ![t] = FALSE]
               /\ GoTo(t, IF AtIndexOne(t) THEN "try_lock" ELSE "holding")
               /\ UNCHANGED op
          ELSE /\ op' = [op EXCEPT ![t].idx = read_offset]
               /\ GoTo(t, "load_woff")
               /\ UNCHANGED <<read_offset, haz, told>>
    /\ UNCHANGED <<list, elements, write_offset, cutoff, counters, reclaim, under, setup>>

\* No data: has another consumer claimed the slot meanwhile?
RereadOffset(t) ==
    /\ pc[t] = "reread"
    /\ op' = [op EXCEPT ![t].idx = read_offset]
    /\ GoTo(t, IF read_offset = op[t].idx THEN "status" ELSE "load_woff")
    /\ UNCHANGED <<queue, counters, reclaim, haz, clients>>

Status(t) ==
    /\ pc[t] = "status" /\ closed # "closing"
    /\ told' = [told EXCEPT ![t] = PastCutoff(t)]
    /\ GoTo(t, "release")
    /\ UNCHANGED <<queue, counters, reclaim, haz, op, under, setup>>

(***************************************************************************)
(* try_reclaim_blocks(), under blocks_lock                                 *)
(***************************************************************************)
AfterTicket(t) == IF op[t].name = "pull" THEN "wait" ELSE "holding"

\* pull() protects from write_offset on, try_pull() from what it loaded before.
TryLock(t) ==
    /\ pc[t] = "try_lock"
    /\ IF lock = Nobody
          THEN /\ lock' = t
               /\ rec' = [NoRec EXCEPT !.protect =
                     StartOf(IF op[t].name = "pull" THEN write_offset ELSE op[t].end)]
               /\ GoTo(t, "load_count")
          ELSE GoTo(t, AfterTicket(t)) /\ UNCHANGED <<lock, rec>>
    /\ UNCHANGED <<queue, counters, heads, haz, op, clients>>

LoadCount(t) ==
    /\ pc[t] = "load_count"
    /\ rec' = [rec EXCEPT !.old = head_block, !.new = head_block, !.count = haz_ptr_counter,
                          !.todo = Tokens]
    /\ GoTo(t, "scan")
    /\ UNCHANGED <<queue, counters, heads, lock, haz, op, clients>>

Unlock(t) ==
    /\ pc[t] = "unlock"
    /\ lock' = Nobody /\ rec' = NoRec
    /\ IF op[t].name = "close" THEN Return(t) ELSE GoTo(t, AfterTicket(t)) /\ UNCHANGED op
    /\ UNCHANGED <<queue, counters, heads, haz, clients>>

\* for_each_owned_hazptr() goes around the list from the token's own, and stops
\* when nothing is left to recycle.
Going == CircularLess(offset[rec.old], rec.protect)

Scan(t) ==
    /\ pc[t] = "scan" /\ rec.todo # {} /\ Going
    /\ \E u \in rec.todo :
          rec' = [rec EXCEPT !.todo = @ \ {u},
                     !.protect = IF haz[u].owned THEN KeepMin(@, haz[u].active_offset) ELSE @]
    /\ UNCHANGED <<queue, counters, heads, lock, haz, pc, op, clients>>

\* The blocks that next leads to from b on: what every set has that has b and
\* that next does not leave.
ReachableFrom(b) ==
    LET closed_sets == { S \in SUBSET blocks :
            b \in S /\ \A d \in S : next[d] # Null => next[d] \in S }
    IN  { c \in blocks : \A S \in closed_sets : c \in S }

\* The first block from b on that is not before off.
FirstFrom(b, off) ==
    LET from == { c \in ReachableFrom(b) : ~CircularLess(offset[c], off) }
    IN  CHOOSE c \in from : from \subseteq ReachableFrom(c)

EndScan(t) ==
    /\ pc[t] = "scan" /\ (rec.todo = {} \/ ~Going)
    /\ IF AtOrBefore(rec.protect, offset[rec.old])
          THEN GoTo(t, "unlock") /\ UNCHANGED rec
          ELSE /\ rec' = [rec EXCEPT !.new = FirstFrom(rec.old, rec.protect), !.todo = Tokens]
               /\ GoTo(t, "advance")
    /\ UNCHANGED <<queue, counters, heads, lock, haz, op, clients>>

\* try_advance_hazptr_block(), for the write and the read block of each hazard
\* pointer: one that is before the new head is moved to it ...
Visit(t, u, field) ==
    LET b == haz[u][field] IN
    IF b # Null /\ CircularLess(offset[b], offset[rec.new])
       THEN /\ rec' = [rec EXCEPT !.at = u, !.field = field, !.expected = b, !.todo = @ \ {u}]
            /\ GoTo(t, "swap")
       ELSE /\ rec' = [rec EXCEPT !.at = u, !.todo = @ \ {u}, !.expected = Null]
            /\ GoTo(t, IF field = "write_block" THEN "visit_read" ELSE "advance")

VisitWrite(t) ==
    /\ pc[t] = "advance" /\ rec.todo # {} /\ Going
    /\ \E u \in rec.todo :
          \/ haz[u].owned /\ Visit(t, u, "write_block")
          \/ ~haz[u].owned /\ rec' = [rec EXCEPT !.todo = @ \ {u}] /\ UNCHANGED pc
    /\ UNCHANGED <<queue, counters, heads, lock, haz, op, clients>>

VisitRead(t) ==
    /\ pc[t] = "visit_read"
    /\ Visit(t, rec.at, "read_block")
    /\ UNCHANGED <<queue, counters, heads, lock, haz, op, clients>>

\* ... unless its owner moved it first: then that block counts as well.
SwapHazPtr(t) ==
    LET b == haz[rec.at][rec.field] IN
    /\ pc[t] = "swap"
    /\ IF b = rec.expected
          THEN /\ haz' = [haz EXCEPT ![rec.at][rec.field] = rec.new]
               /\ GoTo(t, "revalidate") /\ UNCHANGED rec
          ELSE /\ UNCHANGED haz
               /\ IF b = Null
                     THEN /\ UNCHANGED rec
                          /\ GoTo(t, IF rec.field = "write_block" THEN "visit_read" ELSE "advance")
                     ELSE /\ rec' = [rec EXCEPT !.protect = KeepMin(@, offset[b])]
                          /\ GoTo(t, "revalidate")
    /\ UNCHANGED <<queue, counters, heads, lock, op, clients>>

\* The owner may have loaded the old block before, but then it has protected it.
Revalidated(dst, src) == KeepMin(dst, src)
RevalidateHazard(t) ==
    /\ pc[t] = "revalidate"
    /\ rec' = [rec EXCEPT !.protect = Revalidated(@, haz[rec.at].active_offset)]
    /\ GoTo(t, IF rec.field = "write_block" THEN "visit_read" ELSE "advance")
    /\ UNCHANGED <<queue, counters, heads, lock, haz, op, clients>>

\* The new head falls back to what is protected now.
Reduced == IF CircularLess(rec.protect, offset[rec.new])
              THEN FirstFrom(rec.old, rec.protect) ELSE rec.new

StoreHead(t) ==
    /\ pc[t] = "advance" /\ (rec.todo = {} \/ ~Going)
    /\ rec' = [rec EXCEPT !.new = Reduced, !.at = Nobody, !.field = "write_block", !.expected = Null,
                          !.todo = {}]
    /\ IF Reduced = rec.old
          THEN GoTo(t, "unlock") /\ UNCHANGED head_block
          ELSE GoTo(t, "announce") /\ head_block' = Reduced
    /\ UNCHANGED <<queue, counters, head_offset, tail_block, lock, haz, op, clients>>

Announce(t) ==
    /\ pc[t] = "announce"
    /\ reclaim_counter' = reclaim_counter + 1
    /\ GoTo(t, "validate")
    /\ UNCHANGED <<queue, haz_ptr_counter, reclaim, haz, op, clients>>

\* Did anybody take a hazard pointer meanwhile?
AssumeNobodyCame == TRUE
NobodyCame == haz_ptr_counter = rec.count
CheckHazPtrCounter(t) ==
    /\ pc[t] = "validate"
    /\ GoTo(t, IF NobodyCame THEN "commit" ELSE "rollback")
    /\ UNCHANGED <<queue, counters, reclaim, haz, op, clients>>

Rollback(t) ==
    /\ pc[t] = "rollback"
    /\ head_block' = rec.old
    /\ GoTo(t, "unlock")
    /\ UNCHANGED <<queue, counters, head_offset, tail_block, lock, rec, haz, op, clients>>

(***************************************************************************)
(* reclaim_blocks(): in groups of up to four                               *)
(***************************************************************************)
GroupSize == 4
Group(b) ==
    CHOOSE s \in UNION { [1 .. n -> Block] : n \in 1 .. GroupSize } :
        /\ s[1] = b
        /\ \A k \in DOMAIN s \ {1} : s[k] = next[s[k - 1]] /\ s[k] # rec.new
        /\ Len(s) = GroupSize \/ next[s[Len(s)]] = rec.new
Unlinked == { rec.unlinked[k] : k \in 1 .. Len(rec.unlinked) }
LastBlock(b) == CHOOSE c \in ReachableFrom(b) : next[c] = Null

Commit(t) ==
    /\ pc[t] = "commit"
    /\ head_offset' = offset[rec.new]
    /\ rec' = [rec EXCEPT !.unlinked = Group(rec.old)]
    /\ GoTo(t, "reset")
    /\ UNCHANGED <<queue, counters, head_block, tail_block, lock, haz, op, clients>>

\* reset_values(), and the walk to the tail.
AfterNoReset(b) == flags[b]
AfterReset(b) == IF b \in Unlinked THEN Fresh ELSE flags[b]

ResetValues(t) ==
    /\ pc[t] = "reset"
    /\ flags' = [b \in Block |-> AfterReset(b)]
    /\ rec' = [rec EXCEPT !.tail = LastBlock(tail_block)]
    /\ GoTo(t, "relink")
    /\ UNCHANGED <<list, stored, offsets, cutoff, counters, heads, lock, haz, op, clients>>

\* Cut the group off, stamp it with the offsets after the tail's and append it;
\* or walk on when somebody appended first.
Stamped(b, k) == Plus(offset[b], k * BlockSize)

LinkGroup(t) ==
    LET last == rec.unlinked[Len(rec.unlinked)] IN
    /\ next' = [next EXCEPT ![rec.tail] = rec.unlinked[1], ![last] = Null]
    /\ offset' = [b \in Block |->
          IF b \in Unlinked
             THEN Stamped(rec.tail, CHOOSE k \in 1 .. Len(rec.unlinked) : rec.unlinked[k] = b)
             ELSE offset[b]]
    /\ tail_block' = last
    /\ LET rest == IF next[last] = rec.new THEN <<>> ELSE Group(next[last])
       IN  /\ rec' = [rec EXCEPT !.unlinked = rest, !.tail = Null]
           /\ GoTo(t, IF rest = <<>> THEN "unlock" ELSE "reset")
    /\ UNCHANGED <<blocks, elements, offsets, cutoff, counters, head_block, head_offset, lock,
                   haz, op, clients>>

RelinkByStore(t) == pc[t] = "relink" /\ LinkGroup(t)
Relink(t) ==
    \/ pc[t] = "relink" /\ next[rec.tail] = Null /\ LinkGroup(t)
    \/ /\ pc[t] = "relink" /\ next[rec.tail] # Null
       /\ rec' = [rec EXCEPT !.tail = LastBlock(rec.tail)]
       /\ UNCHANGED <<queue, counters, heads, lock, haz, pc, op, clients>>

(***************************************************************************)
(* close(): under blocks_lock from its first step to its last              *)
(***************************************************************************)
Lock(t) ==
    /\ pc[t] = "lock" /\ lock = Nobody
    /\ IF closed = "open"
          THEN lock' = t /\ closed' = "closing" /\ GoTo(t, "cutoff") /\ UNCHANGED op
          ELSE Return(t) /\ UNCHANGED <<lock, closed>>
    /\ UNCHANGED <<list, elements, offsets, write_closed_at, counters, heads, rec, haz, clients>>

DrawCutoff(t) ==
    /\ pc[t] = "cutoff"
    /\ write_offset' = Plus(write_offset, 1)
    /\ op' = [op EXCEPT ![t].idx = write_offset]
    /\ GoTo(t, "publish")
    /\ UNCHANGED <<list, elements, read_offset, cutoff, counters, reclaim, haz, clients>>

PublishCutoff(t) ==
    /\ pc[t] = "publish"
    /\ write_closed_at' = op[t].idx /\ closed' = "closed"
    /\ GoTo(t, "load_readers")
    /\ UNCHANGED <<list, elements, offsets, counters, reclaim, haz, op, clients>>

\* wake_waiting_consumers(): what was claimed after this load sees closed.
LoadReaders(t) ==
    /\ pc[t] = "load_readers"
    /\ op' = [op EXCEPT ![t].end = read_offset, ![t].walk = head_block]
    /\ GoTo(t, IF CircularLess(op[t].idx, read_offset) THEN "seek_reader" ELSE "unlock")
    /\ UNCHANGED <<queue, counters, reclaim, haz, clients>>

SeekReader(t) ==
    /\ pc[t] = "seek_reader"
    /\ IF Found(t)
          THEN GoTo(t, "spin") /\ UNCHANGED <<list, flags, op>>
          ELSE /\ \E b \in Block : Advance(op[t].walk, b) /\ op' = [op EXCEPT ![t].walk = b]
               /\ UNCHANGED pc
    /\ UNCHANGED <<stored, offsets, cutoff, counters, reclaim, haz, clients>>

\* spin_wait_for_waiting_consumer(), and resume who waits with ok = false.
\* await_resume() then leaves active_offset as it is.
AfterReaderInBlock(t) == IF CircularLess(Plus(op[t].idx, 1), op[t].end) THEN "spin" ELSE "unlock"
AfterReader(t) ==
    CASE ~CircularLess(Plus(op[t].idx, 1), op[t].end) -> "unlock"
      [] CircularLess(Plus(op[t].idx, 1), op[t].end)
            /\ IndexOf(Plus(op[t].idx, 1)) = 0 -> "seek_reader"
      [] OTHER -> "spin"

WakeReader(t) ==
    LET c == FlagAt(op[t].walk, op[t].idx) IN
    /\ pc[t] = "spin" /\ c # "empty"
    /\ IF c = "both"
          THEN /\ GoTo(t, AfterReader(t))
               /\ op' = [op EXCEPT ![t].idx = Plus(@, 1)]
               /\ UNCHANGED clients
          ELSE /\ pc' = [pc EXCEPT ![c] = "idle", ![t] = AfterReader(t)]
               /\ op' = [op EXCEPT ![c] = NoCall, ![t].idx = Plus(@, 1)]
               /\ told' = [told EXCEPT ![c] = TRUE]
               /\ Resume(t, c)
    /\ UNCHANGED <<queue, counters, reclaim, haz, setup>>

(***************************************************************************)
(* The destructor: the last token is gone.  It closes the channel, destroys *)
(* what lies between read_offset and the cutoff and deletes every block    *)
(* that it reaches from head_block.                                        *)
(***************************************************************************)
LeftoverButOne(end) ==
    { Plus(read_offset, k) :
        k \in { k \in 0 .. MaxTicket :
                  \A j \in 0 .. k : CircularLess(Plus(read_offset, j + 1), end) } }
Leftover(end) ==
    { Plus(read_offset, k) :
        k \in { k \in 0 .. MaxTicket :
                  \A j \in 0 .. k : CircularLess(Plus(read_offset, j), end) } }

Destruct ==
    LET end == IF closed = "closed" THEN write_closed_at ELSE write_offset
        all == ReachableFrom(head_block)
        Gets(b, i) == /\ b \in all /\ flags[b][i] = "data"
                      /\ Plus(offset[b], i) \in Leftover(end)
    IN
    /\ \A t \in Tokens : pc[t] = "idle" /\ ~haz[t].owned /\ under[t] = Nobody
    /\ closed' = "closed" /\ write_closed_at' = end
    /\ stored' = [b \in Block |-> [i \in Index |-> IF Gets(b, i) THEN NoValue ELSE stored[b][i]]]
    /\ blocks' = blocks \ all
    /\ write_offset' = IF closed = "closed" THEN write_offset ELSE Plus(write_offset, 1)
    /\ pc' = [t \in Tokens |-> "gone"]
    /\ UNCHANGED <<next, offset, flags, read_offset, counters, reclaim, haz, op, clients>>

Gone == (\A t \in Tokens : pc[t] = "gone") /\ UNCHANGED vars

\* A coroutine that was resumed inside a call lets it go on when it suspends,
\* in a pull() or elsewhere.
Yield(t) ==
    /\ pc[t] = "idle" /\ under[t] # Nobody
    /\ under' = [under EXCEPT ![t] = Nobody]
    /\ UNCHANGED <<queue, counters, reclaim, haz, pc, op, told, setup>>
Blocked(t) == \E c \in Tokens : under[c] = t

AcquireStep(t) ==
    \/ LoadReclaimCounter(t) \/ TryTakeOwnership(t) \/ LoadHeadOffset(t) \/ LoadHead(t)
    \/ InitHazPtr(t) \/ CountHazPtr(t) \/ RecheckReclaim(t)
TicketStep(t) ==
    \/ Protect(t) \/ Draw(t) \/ LoadBlock(t) \/ CheckClosed(t) \/ Seek(t) \/ Release(t)
PostStep(t) ==
    \/ SeekEndsInPost(t) \/ SeekEndsInBulk(t) \/ Reserve(t) \/ WriteElement(t)
    \/ ResumeConsumer(t) \/ Cross(t)
PullStep(t) ==
    \/ SeekEndsInPull(t) \/ SetNotWaiting(t) \/ Wait(t) \/ DestroyValue(t)
    \/ LoadWriteOffset(t) \/ Poll(t) \/ Claim(t) \/ RereadOffset(t) \/ Status(t)
ReclaimStep(t) ==
    \/ TryLock(t) \/ LoadCount(t) \/ Scan(t) \/ EndScan(t) \/ VisitWrite(t) \/ VisitRead(t)
    \/ SwapHazPtr(t) \/ RevalidateHazard(t) \/ StoreHead(t) \/ Announce(t) \/ CheckHazPtrCounter(t)
    \/ Rollback(t) \/ Commit(t) \/ ResetValues(t) \/ Relink(t) \/ Unlock(t)
CloseStep(t) ==
    \/ Lock(t) \/ DrawCutoff(t) \/ PublishCutoff(t) \/ LoadReaders(t) \/ SeekReader(t)
    \/ WakeReader(t)

Step(t) ==
    /\ ~Blocked(t)
    /\ \/ AcquireStep(t) \/ TicketStep(t) \/ PostStep(t) \/ PullStep(t) \/ ReclaimStep(t)
       \/ CloseStep(t) \/ ReleaseOwnership(t)

Call(t) ==
    /\ ~Blocked(t)
    /\ \E name \in setup.does[t] \ {"leave"} : \E n \in Counts(name) : Start(t, name, n)

Next ==
    \/ \E t \in Tokens : Call(t) \/ Step(t) \/ Yield(t) \/ (~Blocked(t) /\ Free(t))
    \/ Destruct
    \/ Gone

Spec == Init /\ [][Next]_vars

(***************************************************************************)
(* Fairness: every call that does not wait for a value runs on, and a       *)
(* coroutine that runs on a caller's stack lets it go on at last.          *)
(***************************************************************************)
FairSpec ==
    /\ Spec
    /\ \A t \in Tokens : WF_vars(Step(t)) /\ WF_vars(Yield(t))

-----------------------------------------------------------------------------
(***************************************************************************)
(* Type invariant                                                          *)
(***************************************************************************)
CallType ==
    [name : {"none", "post", "post_bulk", "pull", "try_pull", "close"},
     idx : Word, boff : Word, end : Word,
     count : 0 .. MaxTicket, written : 0 .. MaxTicket,
     walk : Block \cup {Null}, block : Block \cup {Null}, past : BOOLEAN, seen : Nat]
HazType ==
    [owned : BOOLEAN, active_offset : Word, next_protect_write : Word, next_protect_read : Word,
     write_block : Block \cup {Null}, read_block : Block \cup {Null}]
RecType ==
    [old : Block \cup {Null}, new : Block \cup {Null}, protect : Word, count : Nat,
     todo : SUBSET Tokens, at : Tokens \cup {Nobody}, field : {"write_block", "read_block"},
     expected : Block \cup {Null}, unlinked : Seq(Block), tail : Block \cup {Null}]
TypeOK ==
    /\ setup \in Setups
    /\ blocks \subseteq Block
    /\ next \in [Block -> Block \cup {Null}] /\ offset \in [Block -> Word]
    /\ flags \in [Block -> [Index -> Flag]]
    /\ stored \in [Block -> [Index -> Value \cup {NoValue}]]
    /\ {write_offset, read_offset, write_closed_at, head_offset} \subseteq Word
    /\ closed \in {"open", "closing", "closed"}
    /\ {haz_ptr_counter, reclaim_counter} \subseteq Nat
    /\ {head_block, tail_block} \subseteq Block
    /\ lock \in Tokens \cup {Nobody}
    /\ rec \in RecType /\ rec.count <= haz_ptr_counter /\ Len(rec.unlinked) <= GroupSize
    /\ haz \in [Tokens -> HazType]
    /\ op \in [Tokens -> CallType]
    /\ \A t \in Tokens : op[t].written <= op[t].count /\ op[t].seen <= reclaim_counter
    /\ told \in [Tokens -> BOOLEAN]
    /\ under \in [Tokens -> Tokens \cup {Nobody}]

(***************************************************************************)
(* Safety                                                                  *)
(***************************************************************************)
\* A token has its hazard pointer once get_hazard_ptr() is sure of it.
Acquired(t) ==
    haz[t].owned /\ pc[t] \notin {"own", "load_offset", "load_head", "init", "count", "disown"}
    /\ (pc[t] = "recheck" => Settled(t))
Hazards(t) == IF Acquired(t) THEN {haz[t].write_block, haz[t].read_block} ELSE {}

\* The blocks that a call touches now, and those that it may walk to.
Walks(t) == (IF pc[t] \in {"check_closed", "seek", "reserve"} THEN {op[t].walk} ELSE {})
            \cup (IF pc[t] \in {"reserve", "cross"} THEN {op[t].block} ELSE {})
Holds(t) == IF pc[t] \in {"write", "wake", "try_lock", "wait", "parked", "holding", "claim"}
               \/ (lock = t /\ op[t].name # "close")
               THEN {op[t].block} ELSE {}

\* What hazard pointers are for: when blocks are reset and moved to the tail, no
\* token gets to them, neither from what it is using nor from where its next
\* call will start, although tokens moved their own pointers, came and went
\* while the reclaimer looked at them.
ReclaimedIsUnprotected ==
    lock # Nobody /\ pc[lock] \in {"reset", "relink"} =>
        /\ \A t \in Tokens : \A b \in Walks(t) \cup Hazards(t) : Unlinked \cap ReachableFrom(b) = {}
        /\ \A t \in Tokens : Unlinked \cap Holds(t) = {}

\* The split lock of get_hazard_ptr() and try_reclaim_blocks(): a token that got
\* a hazard pointer while head_block moved has a block that is on the list, and
\* what it will protect is at or before that block.
ListHead == IF lock # Nobody /\ pc[lock] \in {"announce", "validate", "rollback"}
               THEN rec.old ELSE head_block
AcquiredIsLive ==
    LET onList == ReachableFrom(ListHead)
    IN  \A t \in Tokens : Acquired(t) =>
        /\ {haz[t].write_block, haz[t].read_block} \subseteq onList
        /\ AtOrBefore(haz[t].next_protect_write, offset[haz[t].write_block])
        /\ AtOrBefore(haz[t].next_protect_read, offset[haz[t].read_block])

\* The assertions of get_write_ticket(), get_read_ticket() and try_pull(): what a
\* call protects and where it begins is never past its ticket, although others
\* move the pointers of an idle token ahead.
StartsAtOrBefore ==
    \A t \in Tokens :
        /\ pc[t] \in {"load_block", "check_closed", "seek"} =>
              AtOrBefore(haz[t].active_offset, op[t].idx)
        /\ pc[t] \in {"check_closed", "seek"} => AtOrBefore(offset[op[t].walk], op[t].idx)
        /\ pc[t] = "idle" /\ haz[t].owned =>
              /\ AtOrBefore(offset[haz[t].write_block], write_offset)
              /\ AtOrBefore(offset[haz[t].read_block], read_offset)

\* The assertion of find_block(): from head_block on, blocks follow each other in
\* the order of their offsets, whoever appended them.
ListInOrder ==
    \A b \in ReachableFrom(ListHead) :
        next[b] # Null => offset[next[b]] = Plus(offset[b], BlockSize)

\* No block is lost while tokens and a reclaimer append: each is on the list or
\* being moved, not both, and the destructor deletes them all.
Moving == IF lock # Nobody /\ pc[lock] \in {"commit", "reset", "relink"}
             THEN ReachableFrom(IF pc[lock] = "commit" THEN rec.old ELSE rec.unlinked[1]) ELSE {}
NoBlockLost ==
    IF \A t \in Tokens : pc[t] = "gone" THEN blocks = {}
    ELSE LET onList == ReachableFrom(ListHead)
         IN  blocks = onList \cup Moving /\ Unlinked \cap onList = {}

\* The storage is sound at all times: well typed, the blocks in order, none lost
\* or leaked.
StorageIsSound == TypeOK /\ ListInOrder /\ NoBlockLost

\* A value is constructed in the block of its ticket, in an element that is clear
\* save for a suspended consumer, even when the block was recycled; and a bulk
\* never runs out of blocks.
PostOverwritesNothing ==
    \A t \in Tokens : pc[t] = "write" =>
        /\ op[t].block # Null
        /\ offset[op[t].block] = StartOf(WriteAt(t))
        /\ FlagAt(op[t].block, WriteAt(t)) \in {"empty"} \cup Tokens
        /\ stored[op[t].block][IndexOf(WriteAt(t))] = NoValue

\* A call gets to the element of its ticket and finds it as it must be, whoever
\* moved its pointers and whichever block was recycled to be there.
WritesAreSafe == StartsAtOrBefore /\ PostOverwritesNothing

\* A consumer is handed the value of its own ticket, which no other consumer has,
\* whether pull() or try_pull() claimed it, in the order of the tickets.
DeliveredOnce ==
    \A t \in Tokens : pc[t] = "holding" =>
        /\ stored[op[t].block][IndexOf(op[t].idx)] = ValueAt(op[t].idx)
        /\ \A u \in Tokens \ {t} : pc[u] \in {"wait", "parked", "holding"} => op[u].idx # op[t].idx

\* When a consumer was told CLOSED, nothing is left for it: every ticket before
\* the cutoff is claimed, so posts that are still under way have their consumer.
ClosedMeansDrained ==
    \A t \in Tokens : told[t] => closed = "closed" /\ AtOrBefore(write_closed_at, read_offset)

\* A suspended consumer is in the flag of its element, and either its ticket is
\* not drawn yet, or the post that drew it is on its way, or it is past the
\* cutoff and close() has still to come to it.
Owner(t, off) ==
    /\ Posting(t) /\ pc[t] \notin BeforeDraw
    /\ \E k \in op[t].written .. op[t].count - 1 : Plus(op[t].idx, k) = off
Sweeps(t, off) ==
    /\ op[t].name = "close"
    /\ \/ pc[t] = "load_readers"
       \/ /\ pc[t] \in {"seek_reader", "spin"}
          /\ AtOrBefore(op[t].idx, off) /\ CircularLess(off, op[t].end)
Expected ==
    \A c \in Tokens : pc[c] = "parked" =>
        /\ FlagAt(op[c].block, op[c].idx) = c
        /\ IF closed = "closed" /\ AtOrBefore(write_closed_at, op[c].idx)
              THEN \E t \in Tokens : Sweeps(t, op[c].idx)
              ELSE \/ AtOrBefore(write_offset, op[c].idx)
                   \/ \E t \in Tokens : Owner(t, op[c].idx) \/ pc[t] = "publish"

\* close() finds a consumer or the mark of one at each index it looks at.
SweepFindsReaders ==
    \A t \in Tokens : pc[t] = "spin" =>
        FlagAt(op[t].walk, op[t].idx) \in {"empty", "both"} \cup { c \in Tokens : pc[c] = "parked" }

\* No suspended consumer is forgotten: somebody is on the way to each, and close()
\* takes nothing for a consumer that is none.
NoConsumerForgotten == Expected /\ SweepFindsReaders

\* The destructor destroys every value left, before the blocks go.
DestructorLeavesNothing ==
    (\A t \in Tokens : pc[t] = "gone") => \A b \in Block, i \in Index : stored[b][i] = NoValue

\* The comment of chan_tok::close(), that it may contend with other calls of
\* close(): when it waits for blocks_lock, the holder can still give it up, so is
\* not waiting itself, on the same stack, for the caller to suspend.
Above(t) ==
    LET on[n \in 0 .. Cardinality(Tokens)] ==
          IF n = 0 THEN {t} ELSE on[n - 1] \cup { c \in Tokens : under[c] \in on[n - 1] }
    IN  on[Cardinality(Tokens)]
NoSelfDeadlock ==
    \A t \in Tokens : pc[t] = "lock" /\ lock # Nobody => t \notin Above(lock)

(***************************************************************************)
(* Liveness                                                                *)
(***************************************************************************)
\* Every call returns but a pull() that has no value, although tokens spin for the
\* cutoff, close() spins for readers, and acquiring and reclaiming disturb each
\* other; and once the channel is closed no pull() waits any more.
Waiting(t) == pc[t] = "parked"
ClosesAndSettles ==
    \A t \in Tokens :
        /\ ~Waiting(t) ~> pc[t] \in {"idle", "gone", "parked"}
        /\ closed = "closed" /\ Waiting(t) ~> ~Waiting(t)
================================================================================
