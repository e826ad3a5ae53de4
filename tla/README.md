# coro_util, specified

This directory holds TLA+ specifications of the data structures of `coro_util`
(header-only queues for C++20 coroutines, under `src/include/coro_util/`), the
TLC models that check them and TLAPS proofs about them. Paths of headers below
are relative to that directory.

## The system

Five structures, each one header and each a template over a configuration
(`ConsumerCanSuspend`, padding, ...) and a *continuation policy* that says how a
suspended coroutine is resumed:

| component | state it keeps | operations | what is hard |
|---|---|---|---|
| `qu_spsc_bounded` | a ring of slots, each with a value and one atomic word `flags`; a private offset for either side; `closed`, `write_closed_at` | `push`, `try_push`, `push_bulk`, `pull`, `try_pull`, `close`, `empty`, destructor | one word per slot is at once full/empty marker, close sentinel and the pointer of whoever sleeps there; bulks test one slot for many; offsets wrap |
| `qu_mpsc_bounded` | the ring, `write_offset` drawn from by fetch_add; per slot a flags word with owner bits and a stack of parked producers, a list of the consumer's (`output_producers`), the consumer's pointer and index; `closed`, `closed_ready`, `write_closed_at` | `push`, `pull`, `try_pull`, `close`, `empty`, destructor | producers contend for a slot and are handed it; `close()` races everybody, and `closed` is read relaxed |
| `qu_spsc_unbounded` | a list of blocks of slots, offsets, head and tail blocks | `post`, `post_bulk`, `pull`, `try_pull`, `close`, `empty` | the consumer resets used blocks and appends them where the producer is appending |
| `qu_mpsc_unbounded` | the same, with a shared `write_offset`, a write head and a hint | the same | when a used block is out of every producer's reach |
| `channel` | the same for many consumers, a ring of hazard pointers, a split lock of two counters, a mutex, closing bits | tokens: `post`, `post_bulk`, `pull`, `try_pull`, `close`; hazard pointer acquisition and release | safe reclamation against both sides, rollback, waking readers past the cutoff |
| `shared.hpp` | `qu_storage`: one value in place, with assertions on its lifetime | `emplace`, `destroy` | a value constructed over a live one, or destroyed twice |
| policies (`inline/`, `tmc/`, `yaclib/`, `cobalt/`) | what is needed to resume: an executor, a priority | `capture`, `resume`, `resume_inline` | a resumption runs inside the call that made it, or at any later time |
| adapters (`asio/op.hpp`, `asio/boost_op.hpp`, `capy/op.hpp`, `libfork/op.hpp`) | a detached coroutine that awaits the queue and posts the completion | `asio_wrap` and its like | the order of the frame's end and of the handler |
| alias headers (`cppcoro/`, `libcoro/`, `concurrencpp/`, ...) | none | none | nothing |

They interact through one thing only: a coroutine that finds no data (or no
room) leaves the address of its awaiter in a word of the structure and
suspends; whoever makes data (or room) takes the address out and calls
`ContinuationPolicy::resume`. Nothing is persisted and nothing is sent: there
are no crashes, no lost messages and no timeouts. What can go wrong is the
interleaving of atomic accesses, and arithmetic on offsets. `PROJECT.json` lists
those hazards line by line.

What makes each structure correct: a value comes out once, intact and in order;
a slot is never written while its value is alive, nor read before; nobody who
sleeps is forgotten, or resumed twice; a consumer is told CLOSED if, and only
if, nothing will come any more; and the destructor leaves no value behind. For
the block-based ones: no block is reset while somebody can still reach it.

## Plan

The bounded rings come first: their protocol (suspension through the slot's own
word, closing by a sentinel) is the one the other structures vary.

1. `SpscBounded` and its proofs, the refinement included: **done**.
2. `MpscBounded`: **done**, and all its safety properties proved.
3. `AsyncQueue`, what a queue promises, and the refinement of both rings to it (of the
   MPSC ring with one slot): **done**, checked and proved.
4. `SpscUnbounded`: block list, recycling by the consumer, bulks, close, and its
   refinement to `AsyncQueue`: **done**, checked and proved.
5. `MpscUnbounded`: tickets, write head and hint, the reclamation cutoff, and its
   refinement to `AsyncQueue`: **done**, checked and proved.
6. `Channel`: tokens and hazard pointers, reclamation and its rollback, `pull`,
   `try_pull` and `close`: **done**, and all its safety properties proved.

## The modules

### `AsyncQueue`: the promise

A sequence of values, the value the consumer's scope holds, a closed flag, and
whether the consumer was told. Bulks appear at once; at most `Capacity` values
are in the queue or in hand; CLOSED is said when the queue is closed and empty,
and nothing is enqueued after that. `PushOverlapsClose` says whether a push that
began before `close()` may end after it (MPSC: yes; SPSC: the producer itself
closes).

### `SpscBounded`: `qu_spsc_bounded.hpp`

`flags[s]` is `element::flags`: `"empty"` (null), `"data"`, `"closed"`,
`"data|closed"`, or the pointer of a suspended consumer (`"cons"`) or producer
(`"prod"`). `stored[s]` is `qu_storage`. `write_offset`, `read_offset`,
`write_closed_at` are words, added to modulo `WordMod` = 2^w. `ppc` and `cpc` are
where the producer and the consumer are in their code. `sent` and `taken` are
history: they count the values published and the slots freed, and do not wrap.

| code | actions |
|---|---|
| `push`, `push_bulk` | `PushReady` (await_ready), `PushSuspend` (await_suspend), `EmplaceFirst`, `EmplaceNext`, `Publish`, `ResumeConsumer` (await_resume) |
| `try_push` | `TryPush`, then as above |
| `pull` | `PullReady`, `PullSuspend`, `PullResume` |
| `try_pull` | `TryPull` |
| end of the scope, `finish_read` | `DestroyValue`, `FreeSlot`, `ResumeProducer` or `Republish` |
| `close`, `close_resume_inline` | `Close`, `ResumeConsumer` |
| destructor | `Destruct` |

`push` is `push_bulk` of one value (its code is the same with `count` = 1). A call
that changes nothing (`try_push` on a full ring, `push_bulk` of nothing, a second
`close`) is a stutter and has no action. `empty()` is the operator `Empty`, held
against the truth in `StatusIsRight`. A `resume` is a step of its own after the
one that took the pointer: when it is inline, the resumed coroutine simply goes
first.

A step makes at most one access to shared memory. The orderings in the code are
acquire/release on the flags word of one slot, which is the only thing both
sides touch (besides the value, ordered by it): interleaving semantics is enough.

### `MpscBounded`: `qu_mpsc_bounded.hpp`

`flags[s]` is a record: `owner` (none, `PROD_BIT`, `DATA_BIT`, `CLOSE_SENTINEL`),
`cons` (`CONS_BIT`) and `chain`, the stack of parked producers, last one first.
`output[s]` is `output_producers`, `waiting[s]` and `waiting_idx[s]` the consumer's
pointer and index. Producers, the consumer and the caller of `close()` each have
their own program counter (`pc`, `cpc`, `kpc`).

| code | actions |
|---|---|
| `get_write_ticket` | `TakeTicket`, `CheckClosed`, `CompareCutoff` |
| `push`: `producer_try_claim`, `producer_park` | `TryClaim`, `Park` |
| `push`: await_resume, `producer_publish` | `Emplace`, `Publish`, `ExtractConsumer`, `WakeConsumer` |
| `try_pull`, await_ready of `pull` | `StartPull`, `LookAgain`, `LoadClosed`, `LoadCutoff` |
| await_suspend of `pull` | `Arm`, `Confirm`, `Disarm`, `Rearm` |
| await_resume, `finish_read`, `consumer_drain_and_handoff` | `PullResume`, `DestroyValue`, `DrainAndHandoff`, `WakeProducer` |
| `close` | `SetClosed`, `DrawCutoff`, `SetReady`, `MarkCutoffSlot`, `PlaceSentinel`, `CloserExtracts`, `CloserWakes` |
| destructor | `Destruct` |

A load / compare-exchange loop is modelled by its successful exchange (or the
load that leaves the loop), except in `close()`, where the snapshot is kept:
there the decision is made on the snapshot and the exchange may come late.

*The relaxed flag.* `closed` is loaded with `memory_order_relaxed`. A producer
whose ticket is past the cutoff must see it, through the chain of fetch_adds
(`MustSeeClosed`); another may miss it. The consumer may miss it until it has
made an acquiring access to the cutoff slot's flags after `close()` did its
`fetch_or` there (`sees_closed`, `marked`). The model grants it no other edge,
although others exist, so it allows every outcome the code can have and some
more. All other shared accesses are treated as sequentially consistent.

Tickets start at `FirstTicket`, as if so many values had gone through, so that
a short run crosses the wraparound.

### `SpscUnbounded`: `qu_spsc_unbounded.hpp`

`blocks` are the blocks alive; `next[b]` and `offset[b]` are the fields of
`data_block`, `flags[b][i]` and `stored[b][i]` those of its elements. The producer's
cursors are `write_block`, `pblock` (its block in the call under way) and `walk`
(allocating ahead); the consumer's are `head_block`, `rblock`, and in
`reclaim_blocks` `oldHead`, `unlinked`, `tailBlock`.

| code | actions |
|---|---|
| `post` (as a bulk of one), `post_bulk` | `Post`, `SeekWrite` (`find_write_block`), `Reserve` (`get_write_ticket_bulk`), `Emplace`, `Publish` (`write_element`), `Cross` (into the next block), `ResumeConsumer` |
| `close`, `close_resume_inline` | `Close`, `SeekWrite`, `PlaceSentinel`, `ResumeConsumer` |
| `pull`, `try_pull`, `empty` | `Call`, `SeekRead` (`find_block`), `Poll`, and for `pull` `Suspend`, `Restore`, `PullResume` |
| end of the scope, `finish_read`, `try_reclaim_blocks` | `FinishRead` |
| `reclaim_blocks` | `Collect`, `ResetValues`, `FindTail`, `Unlink`, `Relink` |
| destructor | `Destruct` |

Walking is one step per block. Loading a null `next` and the exchange that appends
a block are one step (`Advance`): the exchange alone decides, and a block that
loses is deleted unseen. Stamping the group's offsets and the exchange that
relinks it are one step (`Relink`), since nobody else can see the group in
between, which `ReclaimedIsUnreached` and `NoBlockLost` check. `post` of one value and
`post_bulk` of one differ only in private stores. Offsets start at `FirstOffset`, a
block's start, as if that many values had gone through.

### `MpscUnbounded`: `qu_mpsc_unbounded.hpp`

The blocks are as in `SpscUnbounded`. Producers draw tickets (`idx`, `count`) from
`write_offset` and walk from `write_block_hint` or `write_block` (`observed`,
`walk`); the consumer moves both of these ahead, and recycles the blocks between
`pending_old_head` and `pending_new_head` once it has read past `pending_cutoff`.

| code | actions |
|---|---|
| `post`, `post_bulk`: `get_write_ticket`, `get_write_ticket_bulk` | `TakeTicket`, `CheckClosed`, `CompareCutoff`, `LoadHint`, `LoadWriteBlock` (`get_mpsc_write_start_block`), `Seek` (`find_block`), `Reserve` |
| `write_element`, `post_bulk` | `WriteElement`, `NotifyConsumer`, `Cross` |
| `close` | `Close`, `DrawCutoff`, `SetCutoff`, then `LoadHint` to `Seek`, `PlaceSentinel`, `NotifyConsumer` |
| `pull`, `try_pull`, `empty` | `Call`, `SeekRead`, `Poll`, and for `pull` `Suspend`, `Restore`, `PullResume` |
| end of the scope, `finish_read` | `FinishRead`, `TryFinish` (`try_finish_reclaim`), `TryStart`, `MoveHint`, `ReadCutoff` (`try_start_reclaim`) |
| `reclaim_blocks` | `Collect`, `ResetValues`, `FindTail`, `Unlink`, `Relink` |
| destructor | `Destruct` |

A producer may call `close()`, as any thread may. The flags of an element are
`"empty"`, `"data"`, `"closed"` or the consumer's pointer (`"cons"`).

### `Channel`: `channel.hpp`

Everybody works through a token (`chan_tok`), and a token is the hazard pointer it
uses: `haz[t]` is its `hazard_ptr`, `op[t]` the locals of its call, `pc[t]` where it
is. A hazard pointer that is released and taken again stands for two tokens that
had it in turn; moving or copying a token hands hazard pointers on and is not
modelled. `lock` is the holder of `blocks_lock`, `rec` the locals of
`try_reclaim_blocks`. `closed` folds the two closing bits. Addresses are numbers,
`NewBlock` is one that is free, and appends stop when there is none (`MaxBlocks`,
a bound that the runs do not reach). What a walk over the list comes to is told by the least
set of blocks that `next` does not leave (`ReachableFrom`, `FirstFrom`), `Group` by its
length and its links: forms that can be reasoned about without recursion.

| code | actions |
|---|---|
| a call of a token; its end | `Start`; `Release`, `Free`, `ReleaseOwnership` |
| `get_hazard_ptr` | `LoadReclaimCounter`, `TryTakeOwnership`, `LoadHeadOffset`, `LoadHead`, `InitHazPtr`, `CountHazPtr`, `RecheckReclaim` |
| `get_write_ticket`, `get_write_ticket_bulk`, `get_read_ticket` | `Protect`, `Draw`, `LoadBlock`, `CheckClosed`, `Seek`, then `SeekEndsInPost`, `SeekEndsInBulk` and `Reserve`, or `SeekEndsInPull` and `SetNotWaiting` |
| `write_element`, `post_bulk` | `WriteElement`, `ResumeConsumer`, `Cross` |
| `pull`, and the scope of a value | `Wait`, `DestroyValue` |
| `try_pull` | `LoadWriteOffset`, `Poll`, `Claim`, `RereadOffset`, `Status` |
| `try_reclaim_blocks` | `TryLock`, `LoadCount`, `Scan`, `EndScan`, `VisitWrite`, `VisitRead`, `SwapHazPtr`, `RevalidateHazard`, `StoreHead`, `Announce`, `CheckHazPtrCounter`, `Rollback`, `Unlock` |
| `reclaim_blocks` | `Commit`, `ResetValues`, `Relink` |
| `close` | `Lock`, `DrawCutoff`, `PublishCutoff`, `LoadReaders`, `SeekReader`, `WakeReader` |
| destructor | `Destruct` |

*The inline policy.* Where the caller holds a mutex it matters whether a resumed
coroutine runs inside `resume()`. With `setup.inline`, `under[c]` = t says that c
runs on t's stack, t is `Blocked`, and `Yield` is the point where c suspends or ends.

*The steady state.* With `FirstTicket` # 0 the channel starts as posting and pulling
in turn leave it: one used-up block at the head, the maker's hazard pointer in the
next, and a recycled one behind. A run of a few tickets then recycles blocks
across the wraparound, which from an empty channel takes several times as many.

*Orderings.* Steps are sequentially consistent, as the code's are where it matters:
the store of `active_offset` that protects is relaxed in some calls, but an exchange or
`fetch_add` of the ticket follows it, and the scan it must be seen by is that
of a reclaimer that read an offset past that ticket. A weaker machine than that is
not looked at.

`MCChannel` gives the channel its `Setups`: which token makes which calls, under
which policy. The setup is chosen in `Init` and never changes, so one run explores
several. In the same way `SuspendModes` makes `ConsumerCanSuspend` a choice of
`Init` in `MpscBounded`, `SpscUnbounded` and `MpscUnbounded` (`can_suspend`).
`SpscBounded`, which has proofs for either value, keeps it as a constant.

## What the runs check

| run | module, configuration | shows |
|---|---|---|
| `spsc_bounded` | `SpscBounded.cfg` | 2 slots, words of 8 values, bulks of up to 2, 10 values (the offsets wrap), suspending consumer. `TypeOK`; `PushOverwritesNothing`; `FifoDelivery`; `DestructorLeavesNothing`; `NoLostWakeup`; `StatusIsRight`; `DrainsAndCloses`; `ImplementsAsyncQueue` |
| `spsc_bounded_wrap` | `SpscBoundedWrap.cfg` | 3 slots with words of 8 values (the capacity does not divide 2^w), and bulks: `PushOverwritesNothing` **fails** (finding 2) |
| `mpsc_bounded` | `MpscBounded.cfg` | 2 producers, 2 slots, 3 tickets from 14 in words of 16 (they wrap), `close()` and destructor, a consumer that suspends or (without a sentinel to meet) polls. `TypeOK`, `DeliveredOnce`, `ClosedMeansDrained`, `NoConsumerForgotten`, `ClosesAndSettles` |
| `mpsc_bounded_one_slot` | `MpscBoundedOne.cfg` | 3 producers on 1 slot, 4 tickets, both kinds of consumer: `SlotIsExclusive`, `NoProducerForgotten`, `HandoffIsFifo`, `ImplementsAsyncQueue` |
| `mpsc_bounded_order` | `MpscBoundedOrder.cfg` | 2 producers, 2 slots: `PerProducerFifo` **fails** (finding 1) |
| `spsc_unbounded` | `SpscUnbounded.cfg` | blocks of 2, 7 values, at most 4 waiting, bulks of up to 4, offsets from 12 in words of 16 (they wrap), both kinds of consumer. `StorageIsSound` (`TypeOK`, `ListInOrder`, `NoBlockLost`, `DestructorLeavesNothing`), `ReclaimedIsUnreached`, `PostOverwritesNothing`, `DeliversRight` (`FifoDelivery`, `StatusIsRight`), `NoLostWakeup`, `DrainsAndCloses`, `ImplementsAsyncQueue` |
| `mpsc_unbounded` | `MpscUnbounded.cfg` | 2 producers, blocks of 2, 5 tickets from 29 in words of 32 (they wrap), bulks of 2, any of them closes, both kinds of consumer. `StorageIsSound` (the same four), `ReclaimedIsUnreached`, `WritesAreSafe` (`StartsAtOrBefore`, `PostOverwritesNothing`), `DeliversRight` (`FifoDelivery`, `ClosedMeansDrained`), `NoConsumerForgotten` |
| `mpsc_unbounded_live` | `MpscUnboundedLive.cfg` | the same with 3 single tickets and fairness: `ClosesAndSettles`, `ImplementsAsyncQueue` |
| `channel_reclaim` | `ChannelReclaim.cfg` | 2 tokens, blocks of 2, from the steady state at 126 in words of 128, 4 values, 3 pulls (4 polls), 2 hazard pointers taken. Three setups: b comes, posts, closes and leaves while a posts and pulls; b posts bulks of 0 to 3 while a pulls; both poll. `StorageIsSound` (`TypeOK`, `ListInOrder`, `NoBlockLost`), `ReclaimedIsUnprotected`, `AcquiredIsLive`, `WritesAreSafe` (as above) |
| `channel_close` | `ChannelClose.cfg` | a new channel, 3 tokens, 2 values, 3 pulls: a posts and closes, b and c pull, or b pulls and c polls, and all leave. `DeliveredOnce`, `ClosedMeansDrained`, `NoConsumerForgotten` (with `SweepFindsReaders`), `DestructorLeavesNothing` |
| `channel_live` | `ChannelLive.cfg` | 2 tokens from the steady state, under fairness, with either policy: `ClosesAndSettles` |
| `channel_self_close` | `ChannelSelfClose.cfg` | inline policy, a consumer that may close too: `NoSelfDeadlock` **fails** (finding 3) |

*Bounds.* `MaxPush` bounds the values (tickets) of a behaviour. In the SPSC ring
10 values are five rounds of the slots and cross the wraparound, after which
offsets repeat; the proofs lift the bound, and cover what the run leaves out: a
consumer that only polls, and capacities that do not divide 2^w. In the MPSC ring
what matters is how many producers meet on a slot and how many rounds the consumer
makes during `close()`. Three producers and four tickets on one slot give a chain
of two, its reversal, a hand-off from the list while a new chain forms, and a
turned-away ticket. With two slots, two producers and three tickets the cutoff slot
can be free, written, full, or one the consumer waits at for an earlier index.

In the SPSC block list, 4 waiting values of blocks of 2 span up to three blocks, so a
bulk allocates ahead, crosses, and races the consumer's relinking; in 7 values the
first blocks are recycled and written again past the wraparound. The consumer
finishes a block at a time there, so groups of more than one block do not occur (the
proof needs that, and shows it). In
the MPSC list 5 tickets fill two blocks and begin a third: the first block becomes
pending, the cutoff is passed, and it is relinked and stamped while a producer that
drew its ticket long ago is still to start. `MaxBlocks` is never reached in either.

In the channel, 3 pulls from the steady state come to index 1 of a block once, with a
used-up block before it, and 4 (where both tokens poll) twice, so that a second
reclamation follows the first; in the 4 values the recycled block is written again.
`MaxAcquire` lets each token take a hazard pointer once, or one of
them twice, which interleaves with all of a reclamation and makes it roll back. It
also bounds how often acquiring and reclaiming can disturb each other: that tokens
made for ever could make every reclamation roll back is in the code, and not looked
at. In `channel_close`, 3 pulls on 2 values leave a reader past the cutoff in
each order of its steps and those of `close()`, and the sweep crosses a block.

Producers are interchangeable and the properties treat them alike, so the runs of
the MPSC queues without liveness properties use their symmetry.

*Deadlock* is checked in every run but `channel_reclaim` and `channel_live`, where a
consumer may wait for a value that nobody posts any more; after the destructor the
`Gone` action stutters.

*Fairness.* Every coroutine that is running or was resumed gets processor time
(weak fairness of the producers', consumer's and closer's own steps): an
executor that never runs a ready coroutine is outside the library. The client
follows the teardown the headers recommend: it calls `close()` and goes on
pulling until it is told CLOSED (in the block lists, where `empty()` is a call of its
own, strong fairness says that it does not only ask). Starting a push, and the destructor, are not
fair: nobody has to push. The loops on `closed_ready` are why the closer's steps
need fairness of their own: the code is not wait-free there. In the channel only the
steps of calls that have begun are fair, and that a coroutine which runs on a
caller's stack lets it go on at last: no call is taken for granted, and the property
says that each one that began returns.

## Findings

1. **`qu_mpsc_bounded` is not FIFO for a capacity above one.** A stalled
   producer R holds ticket 0. P pushes a with ticket 1 (slot 1) and its push
   returns; then P pushes b with ticket 2, that is slot 0, free, and claims it. The
   consumer takes slot 0 first: b before a, both P's. `README.md:15` and the
   header's first lines call the queue linearizable, and the comment at line 383
   says that overtaking is "as-if the only racing operation was FAA"; it is not
   once the overtaking producer has filled an index in between. With one slot
   the queue does implement `AsyncQueue`. In every capacity nothing is lost or
   duplicated.
2. **`push_bulk` at the wraparound of `size_t`.** It tests one slot, that of
   the last offset, and relies on the ones before being free by then (comments at
   836 and 881). If the capacity does not divide 2^w, the slots of a bulk that
   crosses the wraparound are not neighbours in the ring and a live value can be
   overwritten. Out of reach with 64-bit offsets; 2^32 values away with 32-bit
   ones. Single pushes are not affected.

3. **A consumer that calls `close()` on the channel inside `close()`.** `close()` holds
   `blocks_lock`, a `std::mutex`, while it resumes the consumers that will get
   nothing. With `inline_continuation_policy`, which the `cppcoro`, `libcoro` and
   `concurrencpp` aliases use, such a consumer runs inside the call; if it calls
   `close()` itself it locks the mutex its own thread holds. The comment at line
   1602 calls `close()` idempotent and thread-safe. Policies that post to an
   executor, and the wrapping adapters, are not affected.

Three more things came up that the runs do not show:

- *EMPTY of the ticketed queues.* `try_pull()` of `qu_mpsc_unbounded` (1017) and of the
  channel (1303-1320) looks at one index. A producer that stalls with that ticket
  hides the values of posts that have returned, and a `try_pull()` that begins
  afterwards says EMPTY, although `README.md:15` calls all queues linearizable. What
  `mpsc_unbounded_live` shows is that the values *published without a gap* are the
  abstract queue.
- *Blocks of one value.* The static assertions allow `BlockSize` 1. In
  `qu_mpsc_unbounded` the assertion at 547 fails then at the first value read
  (`finish_read` has moved `read_offset` into the next block); with NDEBUG nothing
  depends on it. In the channel nobody is ever at index 1 of a block (1045), so that no
  block is recycled. The tests of both use blocks of two, and so do the runs.
- *The consumer's own hint.* In `qu_mpsc_unbounded` the consumer moves the hint to the
  block it has come to before it reads the cutoff (`MoveHint`). It is there already:
  whoever posted the first value of that block moved it. Left out, the model has the
  same states.

The comment on the SPSC `push` (462-463) promises a bool from the await; its
`await_resume` (782) returns void, as line 714 says. No model tells these apart.

## What is proved

### The SPSC ring

`SpscBoundedProofs` proves, for every capacity, word size, bulk size and number
of values, the six safety properties of the SPSC ring that `spsc_bounded` checks:
`TypeCorrect` (`TypeOK`, which also says that no more values are freed than were
published), `PushSafety` (`PushOverwritesNothing`), `Fifo`
(`FifoDelivery`), `Destructor` (`DestructorLeavesNothing`), `Status`
(`StatusIsRight`) and `Wakeup` (`NoLostWakeup`). `WordArithmetic` has the lemmas
on remainders they need.

*Assumptions.* Those the code asserts: `Capacity` > 0 and below half the range
of a word, bulks no longer than the capacity. And `WrapIsSeamless`, a hypothesis
of each theorem: bulks have one value, or the capacity divides 2^w. It cannot be
dropped (finding 2).

*The argument.* None of the six is inductive. The invariant `IInv` numbers the
values by position, which never wraps, and states for each position which slot
it is in (`At`) and what that slot holds. `Contents` and `NothingElse` say the
published values that were not freed, and those of the bulk under way, are in
their slots and nothing else is anywhere. `RoomAhead` says a producer past its
test has all the room it needs; `ConsumerWaits`, `ProducerWaits` where a suspended
side's pointer is; `Sentinel` where the close sentinel is, including the moment
when `finish_read` has cleared it. Three facts carry the proof. A slot that is
occupied is that of a live position (`OccupiedIsLive`). If any slot of the next
bulk were occupied, its last one would be (`RoomFor`, through `LastSlotTells`: the
code's own comment, with its condition). And the window of live positions never
exceeds the ring (`WindowFits`, by the pigeonhole principle), so the destructor's
loop, which compares wrapped offsets, visits each of them.

`Refinement`, at the end of the module: under the same assumptions every
behaviour of the ring is one of `AsyncQueue` (`ImplementsAsyncQueue`). By `IInv`
what the slots hold is a run of consecutive values (`StateAbstracts`, stated as
`Abstraction`), so each step becomes a step on runs: a publication lengthens the
run (`Publishes`), a pull that finds a value takes its head (`Takes`), the end of
the scope releases it, CLOSED is said on the empty run (`Says`), and every other
step leaves it alone (`Quiet`).

### The MPSC ring

`MpscBoundedProofs` proves all the safety properties that `mpsc_bounded` checks
and all that `mpsc_bounded_one_slot` checks, for every set of producers, every capacity
and word size and both kinds of consumer:

| theorem | property |
|---|---|
| `TypeCorrect` | `TypeOK` |
| `SlotExclusion` | `SlotIsExclusive` |
| `NobodyForgotten` | `NoProducerForgotten` |
| `HandoffInOrder` | `HandoffIsFifo`, an action property |
| `DeliveredAndDestroyed` | `DeliveredOnce` |
| `DrainedWhenClosed` | `ClosedMeansDrained` |
| `ConsumerNotForgotten` | `NoConsumerForgotten` |
| `OneSlotRefinement` | `ImplementsAsyncQueue`, when `Capacity` = 1 |

*Assumptions.* `Capacity` > 0 and at most half the range of a word, as the code
asserts; and fewer than 2^(w-1) tickets in a behaviour (`BoundAssumption`): within
one round of the words a ticket names a value once. Nothing is assumed of the
number of producers, which need not even be finite.

*The argument.* `IInv` is the conjunction of the types and of six facts that lean
on one another. `Locks`: who `Holds` a slot (writes in it, or was handed it while
still parked) is the one for whom its flags say PROD, and the consumer reads only
under DATA. `Values`: a value lies in the slot its ticket names, and only under DATA
or its writer. `Tickets`: the ticket of a push under way is older than
`write_offset` and not among the accepted ones, which is what makes a published value
new; ages (`Age`) rather than words are compared, since words wrap. `Accounts`: what
was accepted is delivered or in a slot. `Lines`: the line of a slot (its
`output_producers`, then its stack reversed) is the producers parked on it, each
once, and is empty unless the slot is held. `Rousing`: where the consumer's pointer
and CONS are, and that exactly one of the slot, a producer or `close()` is to resume
it. None of the properties is inductive alone: that the value published is new needs the
tickets, that `close()` may overwrite a free slot's flags needs its line to be empty,
and that a producer which saw CONS finds the pointer needs all of `Rousing`.

Most steps move one actor and leave values, locks and lines as they were (`Quiet`,
`QuietGoes`); what they must be shown to keep is `Rousing` and `Tickets`. The steps that
claim, park, publish, release, hand over or place the sentinel have lemmas of
their own (`ClaimKeeps`, `ParkedKeeps`, `PublishKeeps`, `DestroyValueKeeps`,
`DrainKeeps`, `HandoffKeeps`, `WakeProducerKeeps`, `PlaceSentinelKeeps`), and those on
sequences say what parking (`ReversedPush`, `ConcatAppend`) and a hand-off
(`LineIsServed`) do to a line.

`IInv` does not say where the cutoff is among the tickets that are out. That is the
subject of `CInv`, in the second half of the module. The difficulty is that the tickets of a slot
are not served in order: a later one may claim the slot first. But one is served in
each turn the consumer takes there, so tickets can be counted. `Counted` says that, at
a slot without the sentinel, the values had are as many as the offsets passed. If an
accepted ticket of the slot is not among the values had, then one offset of the slot
that the consumer has not reached lies before the end of the tickets (`Behind`). Read
backwards at the cutoff (`AtCutoff`): every slot without the sentinel is free, its
values were had, and nobody can push there any more. This gives `ClosedMeansDrained`,
shows that the consumer never passes a value (`DataAhead`), and that the destructor's
walk over the offsets meets every value left (`LeftoverFound`). It is also why
`close()`, finding the slot of the cutoff taken, may leave it: a consumer that has
come to the cutoff finds the slot free or waits in it (`FoundAtCutoff`). `Settles`
follows the mark that `close()` makes there: a consumer that comes later acquires
it and sees `closed`; one that came earlier, and missed `closed`, has `close()` still
to place the sentinel over it.

With one slot there is nobody to overtake, and the end of the module maps the
ring to `AsyncQueue`: the queue holds the value in the slot from its publication until the
consumer's scope begins (`Full`), `Publishes`, `Takes`, `SaysIt` and `Discards` are the steps
that show, and `Apart` covers those that do not. Besides both invariants this needs
`Knows`: after CLOSED the consumer has seen `closed`, or will when it looks at the
cutoff slot again, so no later pull suspends or answers EMPTY. The restriction is
real: with more slots values come out of ticket order (finding 1), and the theorem is
false.

### The SPSC list of blocks

`SpscUnboundedProofs` proves all the safety properties that `spsc_unbounded` checks, for
every block size, word size, bulk size, number of values and of blocks, and both kinds
of consumer:

| theorem | property |
|---|---|
| `Storage` | `StorageIsSound` (types, order of the blocks, none lost, nothing left behind) |
| `Reclamation` | `ReclaimedIsUnreached` |
| `PostSafety` | `PostOverwritesNothing` |
| `Delivery` | `DeliversRight` (FIFO delivery and what a poll says) |
| `Wakeup` | `NoLostWakeup` |

*Assumptions.* `BlockSize` divides 2^w, as the static assertions have it; the first offset is
a block's start; and the values waiting, with one block, are fewer than half the
range of a word (`RangeAssumption`): they are in memory.

*The argument.* Addresses of blocks say nothing about their order, and offsets wrap, so
`IInv` numbers blocks and elements without wrapping: the n-th value belongs to
element `Idx(n)` of block `Blk(n)`. There is a numbering `at` of blocks under which the list
is the run `lo..hi` (`Linked`): distinct blocks, each with the offset of its number and
linked to the next. It is existentially quantified in the invariant and each step says how it
changes: either side appends at `hi + 1` (`Extend`, one lemma for the `find_block` of
both), the consumer takes a block off at `lo` and puts it back at `hi + 1` (`Moving`).
`Writer` and `Reader` say between which numbers each cursor is. The producer is never behind
the block of the last published value, because it moves `write_block` before that
block's first value shows; the consumer reclaims only the blocks before the last it
consumed: this is what makes `ReclaimedIsUnreached` true. `Cells` says what every element
of the list holds, the recycled ones included, `Mark` what the flag of the next value
to be posted says of the close sentinel or the suspended consumer, `Rousing` who will resume
it. That a search by wrapped offset ends at the right block is `SameStart`, the only
place where the size of words counts; that the blocks reachable from one on the list are
those after it is `Chain`, by induction over `lo..hi`.

One fact had to be found: the consumer becomes responsible for at most one block
at a time, since it passes a block's first value only once per block, so `unlinked`
never has two elements. Without it the proof cannot tell where the second block of
a group would be linked while the first is being stamped.

`Refinement`, at the end of the module: every behaviour of the list is one of
`AsyncQueue` (`ImplementsAsyncQueue`), under the same assumptions. The refinement
mapping finds a value as `find_block` does: in the first block from the head that has
its offset (`BlockAt`). By `IInv` this is the block of its number, even if a later block
had the same wrapped offset (`BlockOfValue`), so the queue is a run of consecutive
values and the steps on it are those of the SPSC ring, save that the values of a bulk
come one by one. What `IInv` lacks is that CLOSED stays true once said: `ToldRight`.

### The MPSC list of blocks

`MpscUnboundedProofs` proves all the safety properties that `mpsc_unbounded` checks, for any
set of producers, any block size, word size and number of tickets and of blocks, bulks of
any size and both kinds of consumer:

| theorem | property |
|---|---|
| `Storage` | `StorageIsSound` (types, order of the blocks and heads, none lost, nothing left behind) |
| `Reclamation` | `ReclaimedIsUnreached` |
| `WriteSafety` | `WritesAreSafe` (no search begins past its ticket; a post finds its element clear) |
| `Delivery` | `DeliversRight` (FIFO delivery; CLOSED only when drained) |
| `Wakeup` | `NoConsumerForgotten` |

*Assumptions.* `BlockSize` divides 2^w, as the static assertions have it, and fewer than
2^(w-1) tickets, with a block, are drawn in a behaviour (`RangeAssumption`), as in the MPSC
ring. They may start anywhere in a block and in the range of a word, so that offsets wrap.
`MaxBlocks` and `MaxBulk` are arbitrary, and so is the set of producers.

*The argument.* A word stands for a position (`Pos`), how far it is from the start of the
first block; positions do not wrap, and the code's comparisons of words are comparisons
of positions (`PosLess`). The list is not numbered, as in the SPSC proof, but told by
positions alone: `Linked` says that each block starts where the one before it ends, and
that no two start at the same position, whence the blocks reachable from one are those
that start no earlier (`Chain`). `Moving` is where the consumer's group hangs meanwhile.

Why nobody gets to a recycled block is in three conjuncts. `Heads`: no head is before
`head_block`, and when a reclamation is pending, `write_block` and the hint have reached what
the head will be. `Search`: a call that searches started no earlier than that, *or* its
ticket is below `pending_cutoff`. `Cutoff`, `Posts` and `Closers`: every ticket from the
consumer's position on has one owner, who has not published it. So when the consumer has
passed `pending_cutoff` there is no call of the second kind left, and the head may move
(`TryFinishKeeps`); the blocks before it are then out of the reach of all cursors
(`CursorsAhead`), those of bulks included, whose last block was on the list before their
first value was out (`Reaches`).

The elements: the value of position m is published (`Done`) when m is below the cutoff and
no call that drew it is still before it. `Cells` says what is in an element by that alone:
the value of its ticket, or nothing and the flag `Mark` gives, which is the sentinel's, the
suspended consumer's or none. The position of the cutoff is quantified in the invariant
(`\E cut`): until `close()` has drawn it, it is where the tickets end, and each ticket drawn
moves it (`TakeTicketKeeps`); from then on it stays. This is how a post that overlaps
`close()` is known to be accepted or not before anybody has compared it. `Rousing` is, as in
the other queues, who resumes the consumer and what it will find then.

Each action has its lemma (`SeekKeeps`, `RelinkKeeps`, ...), composed in
`StepKeeps`. Those that append share `Extend`, those that only move one producer on share
`StandKeeps` and `WalkKeeps`, and those of the reclaiming consumer `TidyKeeps` and
`RecycleKeeps`.

`Refinement`, at the end of the module: every behaviour of the list is one of
`AsyncQueue` (`ImplementsAsyncQueue`), under the same assumptions. Posts finish in any order,
so what is in the queue is not what has been written but what has been written without a
gap before it: the values up to the `Edge`, the first ticket that is still out. The
mapping computes it from the elements alone (`Visible`, with `find_block`'s search by offset);
`WaitingIsDone` and `StoredIsNext` show that it finds what `IInv` says is published, and
`LengthIs` that it stops at the edge. Then only one step moves the edge
(`ProducerPublishes`): the write of a value, which puts into the queue that value and all
that were waiting behind it, or, when it is not at the edge, shows nothing yet
(`Publishes`). Tickets that are drawn, turned away by the cutoff or given to the closer are
beyond the edge and change nothing (`SameEdge`). A consumer that was told CLOSED is at the
cutoff, where the sentinel stays, so it is told so again (`ToldAgain`). The abstract
queue allows a push that is under way to outlast `close()`: a post with a ticket before
the cutoff may, up to CLOSED.

### The channel

`ChannelProofs`, over `ChannelTokens` and `ChannelSteps`, proves all the safety properties
that `channel_reclaim` and `channel_close` check, for every finite set of tokens, every
setup (who makes which calls, under either kind of policy), block size, word size, bulk
size and number of tickets, blocks and hazard pointers taken:

| theorem | property |
|---|---|
| `StorageSound` | `StorageIsSound` (types, order of the blocks, none lost) |
| `ReclaimedUnprotected` | `ReclaimedIsUnprotected` |
| `AcquiredLive` | `AcquiredIsLive` |
| `WritesSafe` | `WritesAreSafe` (no search begins past its ticket; a post finds its element clear) |
| `Delivered` | `DeliveredOnce` |
| `ClosedDrained` | `ClosedMeansDrained` |
| `NoneForgotten` | `NoConsumerForgotten` |
| `NothingLeaks` | `DestructorLeavesNothing` |

*Assumptions.* `BlockSize` divides 2^w and 4 does, as the static assertions have it
(`WordAssumption`); tokens are finitely many, as threads are, and no address is a word that
`flags` uses for itself (`TokenAssumption`); and the tickets of a behaviour, with four
blocks, are fewer than a quarter of the range of a word (`RangeAssumption`). The lists
above need half the range; here recycled blocks may reach twice as far as the tickets
do. The channel is new, or in the steady
state (`StartAssumption`); from there its offsets cross the wraparound.

*The argument.* As in the MPSC list a word stands for a position (`Pos`), and no block is
numbered. `IInv` is `Running`, or `Destroyed` after the destructor. `Running` has a part per
token, `Token(t)`, and parts that tokens share:

- `Linked`, `Heads`: every block starts where the one before it ends, and no head is past a
  ticket still to be drawn. Between storing a new head and deciding to keep it the reclaimer may
  roll back, so the head that counts is `ListHead`.
- `Numbers`, `Asking`: the cutoff is where tickets end until `close()` draws it; and how many
  tickets are out. The sum that bounds posts is the cardinality of a set of pairs
  (`TicketPairs`), since the facts on folds of the community modules take operators as
  parameters.
- `Post`, `SendersApart`: every ticket below the cutoff is `Done` or `Owned` by one post.
  `Pull`, `ReadersApart`, `Served`: every index passed is taken by one pull, or
  was served, or is past the cutoff.
- `Sought`, `Parks`, `Closer`: a pull past the cutoff that has not seen `closed` is in
  front of the sweep of `close()`, which reads `read_offset` after `closed` shows.
  Who is suspended is in its element; who wakes it is the owner of the ticket or the closer.
- `Cells`: what each element holds, by `Done`, who reads it, and whether the sweep has been
  there. Recycled blocks are `Clean` before their offsets are new.

What is hard is that no call gets to a recycled block. A call uses what is at or after
its `active_offset`, from a walk that began at a block its hazard pointer had *then* (`Uses`),
and the reclaimer moves that block ahead while the call is idle, or while it believes so. `Met`
says what the reclaimer knows of a token at each of its steps. While it scans (`Scanned`), a
token looked at uses nothing before the minimum so far, or has a ticket no earlier than the block
of the reclaimer's own. While it moves blocks ahead (`Visited`), the token's block is past
the limit, and so is where its walk began, unless the field is still `Pending` or its
`active_offset` still to be read again (`Unsure`): that second read is what catches a call that
protected in between. With the new head stored, all is `Clear`. Each of these is claimed only
if nobody took a hazard pointer since `haz_ptr_counter` was read (`NobodyCame`); a token that comes
is not met, but then the counter has changed and the reclaimer rolls back
(`CheckHazPtrCounterKeeps`), or has not, and the token will find `reclaim_counter` changed and
load the head again (`Acquires`, `Good`). This symmetric pair of counters is the split lock, and
its proof is that of `CountHazPtr` against `Announce`. It takes sequential consistency: each
side writes its counter before it reads the other's.

The scan also reads the `active_offset` of tokens that have taken a hazard pointer and not set it
yet. It is an old one and may be anything, so that the minimum can come to lie before all
blocks. The invariant calls this `Spoiled`: the scan then ends and nothing is reclaimed.

`ChannelTokens` states the invariant, proves what its parts say of the list and its searches
(`Chain`, `FirstFromIs`, `GroupIs`, `SearchIs`) and treats the steps of taking and giving back
hazard pointers, of drawing tickets, and most of those of a search. `ChannelSteps` has the others,
claims and the reclaimer up to relinking, `ChannelProofs` writing, waiting, reading, `close()` and the destructor, then
`StepKeeps`, `Invariance` and the theorems. Each action has its lemma (`SeekKeeps`,
`CommitKeeps`, ...); those in which only one token moves share `Calm` and `Seen`, lemmas on what the
others then keep.

### Left to TLC

Liveness (`DrainsAndCloses`, `ClosesAndSettles`), which is out of the prover's reach. Every
safety property of a passing run is a theorem. The three runs that fail are findings, not
theorems.

## Not modelled

- The wrapping adapters (`asio/`, `capy/`, `libfork/`): a detached driver coroutine
  awaits the queue, stores the result, posts the completion and ends, and touches
  nothing of the operation after that. What can interleave there is inside the
  executors of those libraries.
- The alias headers, which only choose a policy; the executors behind the policies.
- `empty()` of the MPSC ring, a hint without effect; padding, allocation and move-only
  types; allocation failure (the constructors are `noexcept` and terminate); moving
  and copying tokens of the channel; bulks in `channel_close`.
- Weak memory, but for the relaxed `closed` of the MPSC ring.
