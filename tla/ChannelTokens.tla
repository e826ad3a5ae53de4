---------------------------- MODULE ChannelTokens ----------------------------
(***************************************************************************)
(* The inductive invariant of Channel, IInv, part by part, lemmas on its   *)
(* parts, and steps that keep it: a token comes, takes a hazard pointer,   *)
(* gives it back or leaves, draws a ticket, or gets to the block of its    *)
(* ticket.  ChannelSteps and ChannelProofs go on from here.                *)
(***************************************************************************)
EXTENDS Channel, WordArithmetic, FiniteSetTheorems

(***************************************************************************)
(* Positions: how far a word is from where the first block starts.         *)
(***************************************************************************)
Origin   == IF Used THEN FirstTicket - 2 * BlockSize ELSE 0
Pos(off) == (off - Origin) % WordMod
Skip     == IF Used THEN 2 * BlockSize ELSE 0       \* the position of the first ticket

\* No ticket is after this, and no block is as far as twice this.
Top == Skip + MaxTicket + MaxPull + 1

\* Where blocks start, and where the one of a position does.
Starts  == { m \in Nat : m % BlockSize = 0 }
Base(m) == m - (m % BlockSize)

\* A position that can be compared with others.
Near(off) == 2 * Pos(off) < WordMod

First(b) == Pos(offset[b])
Sold     == Pos(write_offset)
Turn     == Pos(read_offset)

\* A call's ticket or tickets, and the first of them that is not written.
Begin(t)  == Pos(op[t].idx)
Finish(t) == Begin(t) + op[t].count
Ahead(t)  == Begin(t) + op[t].written + (IF pc[t] = "wake" THEN 1 ELSE 0)

\* Where its search began, and what it protects.
Search(t)  == Pos(op[t].boff)
Active(t) == Pos(haz[t].active_offset)
Limit     == Pos(rec.protect)

\* Where a call is
Acquiring  == {"acquire", "own", "load_offset", "load_head", "init", "count", "recheck"}
Uncounted  == {"own", "load_offset", "load_head", "init", "count", "disown"}
Scanning   == {"load_count", "scan"}
Visiting   == {"advance", "visit_read", "swap", "revalidate"}
Announcing == {"announce", "validate"}
Aiming     == Visiting \cup Announcing \cup {"rollback"}
Moves      == {"reset", "relink"}
Reclaiming == Scanning \cup Visiting \cup Announcing \cup {"rollback", "commit", "unlock"} \cup Moves
Sweeping   == {"seek_reader", "spin"}
Closing    == {"cutoff", "publish", "load_readers"} \cup Sweeping
Writing    == {"write", "wake", "cross"}
Walking    == {"check_closed", "seek", "reserve"}
Polling    == {"load_woff", "claim", "reread", "status"}
Seeking    == Walking \cup Polling \cup {"load_block"}
Reading    == {"try_lock", "wait", "parked", "holding"}
Calling    == {"post", "post_bulk", "pull", "try_pull"}

Places == {"idle", "disown", "protect", "draw", "load_block", "release", "lock"}
          \cup Acquiring \cup Walking \cup Writing \cup Polling \cup Reading \cup Reclaiming \cup Closing

\* Which call is where.
Named(t) ==
    /\ pc[t] \in {"idle", "disown"} => op[t].name = "none"
    /\ pc[t] \in Acquiring \cup {"protect", "draw", "load_block", "seek", "release"} => op[t].name \in Calling
    /\ pc[t] = "check_closed" => op[t].name \in {"post", "post_bulk", "pull"}
    /\ pc[t] \in {"reserve", "cross"} => op[t].name = "post_bulk"
    /\ pc[t] \in {"write", "wake"} => op[t].name \in {"post", "post_bulk"}
    /\ pc[t] \in Polling => op[t].name = "try_pull"
    /\ pc[t] \in {"wait", "parked"} => op[t].name = "pull"
    /\ pc[t] \in Closing \cup {"lock"} => op[t].name = "close"
    /\ pc[t] = "unlock" => op[t].name \in {"pull", "try_pull", "close"}
    /\ pc[t] \in {"try_lock", "holding"} \cup (Reclaiming \ {"unlock"}) => op[t].name \in {"pull", "try_pull"}
Control(t) ==
    /\ Named(t)
    /\ op[t].name = "post" => op[t].count = 1
    /\ ~Posting(t) => op[t].count = 0
    /\ pc[t] \notin Writing \cup {"release"} => op[t].written = 0
    /\ pc[t] \in {"write", "wake"} => op[t].written < op[t].count
    /\ pc[t] = "cross" => op[t].written > 0
    /\ pc[t] = "release" => Finish(t) <= Top
    /\ lock = t <=> pc[t] \in Reclaiming \cup Closing
    /\ pc[t] \in {"acquire", "own"} => ~haz[t].owned
    /\ ~haz[t].owned => pc[t] \in {"idle", "acquire", "own", "lock"} \cup Closing
                        \/ (pc[t] = "unlock" /\ op[t].name = "close")

\* The reclaimer is at one of these places.
At(places) == lock # Nobody /\ pc[lock] \in places

Reclaimer(t) == pc[t] \in Reclaiming /\ op[t].name # "close"
Drawn(t) == pc[t] \in {"load_block"} \cup Walking \cup Writing \cup Polling \cup Reading \/ Reclaimer(t)

\* The list
\* The first block there is: a reclaimer moves those before head_block away.
Lowest == IF At({"commit"}) THEN rec.old ELSE IF At(Moves) THEN rec.unlinked[1] ELSE ListHead
OnList == { b \in blocks : First(ListHead) <= First(b) }
Reaches(m) == \E b \in blocks : m < First(b) + BlockSize

\* Blocks follow each other without a gap, and no two start at one position.
Linked ==
    /\ {Lowest, ListHead, tail_block} \subseteq blocks
    /\ \A b \in blocks : First(b) \in Starts /\ First(Lowest) <= First(b)
    /\ \A b, c \in blocks : First(b) = First(c) => b = c
    /\ \A b \in blocks : next[b] # Null =>
          next[b] \in blocks /\ First(next[b]) = First(b) + BlockSize
    /\ \A b, c \in blocks : next[b] = Null => First(c) <= First(b)
    /\ \A b \in blocks : First(b) <= Top + First(Lowest)

\* No ticket that is not drawn yet is before the head of the list.
Heads ==
    /\ head_block \in OnList
    /\ First(head_block) <= Sold /\ First(head_block) <= Turn
    /\ Pos(head_offset) <= First(ListHead)

\* Tickets
CutDrawn == closed = "closed" \/ At({"publish"})
Cut == IF closed = "closed" THEN Pos(write_closed_at)
       ELSE IF At({"publish"}) THEN Begin(lock) ELSE Sold

TicketPairs == { e \in Asked({"post", "post_bulk"}) \X (1 .. MaxTicket) : e[2] <= op[e[1]].count }
Pullers == Asked({"pull", "try_pull"})

\* The cutoff of close() is a ticket of its own, and CLOSED is said past it only.
Numbers ==
    /\ Skip <= Turn /\ Turn <= Top /\ Skip <= Cut /\ Cut <= Sold
    /\ CutDrawn => Cut < Sold
    /\ closed = "closing" <=> At({"cutoff", "publish"})
    /\ \A t \in Tokens : told[t] => closed = "closed" /\ Cut <= Turn

\* What the bounds of the model come to.
Asking ==
    /\ Sold + Cardinality(TicketPairs) <= Skip + MaxTicket + (IF CutDrawn THEN 1 ELSE 0)
    /\ Turn + Cardinality(Pullers) <= Top /\ Cardinality(Pullers) <= MaxPull

\* Posts that have drawn, and what they have still to write.
Sender(t) == Posting(t) /\ pc[t] \in {"load_block"} \cup Walking \cup Writing
Owns(t, m) == Sender(t) /\ Ahead(t) <= m /\ m < Finish(t)
Done(m) == Skip <= m /\ m < Cut /\ \A t \in Tokens : ~Owns(t, m)
Post(t) ==
    Sender(t) =>
        /\ Skip <= Begin(t) /\ Finish(t) <= Sold
        /\ op[t].count > 0 => Finish(t) <= Cut \/ Cut < Begin(t)
        /\ pc[t] \in {"seek", "reserve"} \cup Writing /\ op[t].count > 0 => Finish(t) <= Cut
\* No two posts have a ticket in common.
SendersApart ==
    \A t, u \in Tokens : Sender(t) /\ Sender(u) /\ t # u /\ op[t].count > 0 /\ op[u].count > 0 =>
        Finish(t) <= Begin(u) \/ Finish(u) <= Begin(t)

\* Pulls that have an index of their own.
Reader(t) == \/ op[t].name = "pull" /\ Drawn(t)
             \/ op[t].name = "try_pull" /\ (pc[t] \in {"try_lock", "holding"} \/ Reclaimer(t))
Takes(t, m) == Reader(t) /\ Begin(t) = m
Taken(m) == \E t \in Tokens : Takes(t, m)
Suspended(t, m) == pc[t] = "parked" /\ Begin(t) = m
Swept(t, m) ==
    /\ op[t].name = "close"
    /\ \/ pc[t] = "load_readers"
       \/ pc[t] \in Sweeping /\ Begin(t) <= m /\ m < Pos(op[t].end)
\* A pull's index, which try_pull() has only once it has claimed it.
Pull(t) ==
    /\ op[t].name \in {"pull", "try_pull"} /\ Drawn(t) => Skip <= Begin(t) /\ Begin(t) <= Turn
    /\ Reader(t) => Begin(t) < Turn
    /\ op[t].name = "try_pull" /\ pc[t] \in {"load_block", "seek", "claim", "reread", "status", "try_lock"} =>
          Pos(op[t].end) <= Sold
    /\ pc[t] \in {"claim", "holding"} \/ (op[t].name = "try_pull" /\ Reader(t)) => Done(Begin(t))
    /\ op[t].name = "pull" /\ pc[t] = "seek" /\ op[t].past => closed = "closed" /\ Cut <= Begin(t)
\* A pull that has not seen closed and is past the cutoff: close() comes to it.
Unaware(t) ==
    /\ op[t].name = "pull"
    /\ (pc[t] = "seek" /\ ~op[t].past) \/ pc[t] \in {"try_lock", "wait", "parked"} \/ Reclaimer(t)
Sought(t) == Unaware(t) /\ closed = "closed" /\ Cut <= Begin(t) => \E u \in Tokens : Swept(u, Begin(t))
\* Who is suspended is in the flag of its element, and who wakes has a sleeper.
Parks(t) ==
    /\ pc[t] = "parked" =>
          /\ flags[op[t].block][IndexOf(op[t].idx)] = t
          /\ Done(Begin(t)) => \E u \in Tokens : pc[u] = "wake" /\ Begin(u) + op[u].written = Begin(t)
    /\ pc[t] = "wake" => \E u \in Tokens : Suspended(u, Begin(t) + op[t].written)
\* Nor have two pulls; and no ticket that was passed over is left without one.
ReadersApart == \A t, u \in Tokens : Reader(t) /\ Reader(u) /\ t # u => Begin(t) # Begin(u)
Served == \A m \in Nat : Skip <= m /\ m < Turn => Taken(m) \/ Done(m) \/ (closed = "closed" /\ Cut <= m)

\* close() and its sweep over the readers past the cutoff.
Closer(t) ==
    /\ pc[t] \in {"load_readers"} \cup Sweeping => closed = "closed"
    /\ pc[t] = "load_readers" => Begin(t) = Cut
    /\ pc[t] \in {"publish", "load_readers"} => First(head_block) <= Begin(t)
    /\ pc[t] \in Sweeping =>
          /\ Cut <= Begin(t) /\ Begin(t) < Pos(op[t].end) /\ Pos(op[t].end) <= Turn
          /\ op[t].walk \in OnList /\ First(op[t].walk) <= Base(Begin(t))
    /\ pc[t] = "spin" => First(op[t].walk) = Base(Begin(t))

\* Hazard pointers
Fields == {"write_block", "read_block"}
Field(t) == IF Posting(t) THEN "write_block" ELSE "read_block"
From(t) == First(haz[t][Field(t)])

\* A block that get_hazard_ptr() may keep.
Good(b) ==
    /\ b \in OnList /\ First(b) <= Sold /\ First(b) <= Turn
    /\ At({"validate"}) => First(rec.new) <= First(b)

\* get_hazard_ptr(): what a token has loaded, or stored, is good if no reclaimer
\* has changed reclaim_counter, or will, before it looks again (Settled).
Acquires(t) ==
    /\ pc[t] \in {"load_head", "init"} => Pos(op[t].boff) <= First(ListHead)
    /\ pc[t] = "init" => op[t].block \in blocks /\ (Settled(t) => Good(op[t].block))
    /\ pc[t] \in {"count", "recheck"} =>
          /\ {haz[t].write_block, haz[t].read_block} \subseteq blocks
          /\ Settled(t) =>
                /\ Good(haz[t].write_block) /\ Good(haz[t].read_block)
                /\ Pos(haz[t].next_protect_write) <= First(haz[t].write_block)
                /\ Pos(haz[t].next_protect_read) <= First(haz[t].read_block)

\* The blocks of a hazard pointer are on the list and not past the next ticket.
Has(t) ==
    /\ \A f \in Fields : haz[t][f] # Null => haz[t][f] \in blocks /\ Near(haz[t].active_offset)
    /\ Acquired(t) =>
          /\ {haz[t].write_block, haz[t].read_block} \subseteq OnList
          /\ First(haz[t].write_block) <= Sold /\ First(haz[t].read_block) <= Turn
          /\ Pos(haz[t].next_protect_write) <= First(haz[t].write_block)
          /\ Pos(haz[t].next_protect_read) <= First(haz[t].read_block)

LastPos(t) == IF op[t].count = 0 THEN Begin(t) ELSE Finish(t) - 1
\* What a call protects is at or before where it starts, that is at or before its
\* ticket's block; its walk, and the block it comes to, are on the list.
Uses(t) ==
    /\ pc[t] = "draw" \/ Drawn(t) => Active(t) <= From(t)
    /\ Drawn(t) => First(ListHead) <= Base(Begin(t)) /\ Active(t) <= Base(Begin(t))
    /\ pc[t] \in Seeking => From(t) <= Base(Begin(t))
    /\ pc[t] \in Walking =>
          /\ op[t].walk \in OnList /\ First(ListHead) <= Search(t)
          /\ Search(t) \in Starts /\ Active(t) <= Search(t) /\ Search(t) <= First(op[t].walk)
    /\ pc[t] \in {"check_closed", "seek"} => First(op[t].walk) <= Base(Begin(t))
    /\ pc[t] = "reserve" =>
          /\ op[t].block \in OnList /\ First(op[t].block) = Base(Begin(t))
          /\ First(op[t].block) <= First(op[t].walk) /\ First(op[t].walk) <= Base(LastPos(t))
    /\ pc[t] \in {"write", "wake", "claim"} \cup Reading \/ Reclaimer(t) =>
          op[t].block \in OnList /\ First(op[t].block) = Base(Begin(t) + op[t].written)
    /\ pc[t] = "claim" => Search(t) <= First(op[t].block)
    /\ pc[t] = "cross" => op[t].block \in OnList /\ First(op[t].block) + BlockSize = Begin(t) + op[t].written
    /\ pc[t] \in Writing => Reaches(Finish(t) - 1)

\* The reclaimer
Member(t) == haz[t].owned /\ pc[t] \notin Uncounted

\* An offset before all blocks came in: it will give up.
Spoiled == 2 * (Limit - First(rec.old) - 1) > WordMod

\* scan: u protects no less than rec.protect, or what it uses began no earlier.
Scanned(u) ==
    /\ u = lock => Limit <= Active(u)
    /\ Drawn(u) => Limit <= Base(Begin(u)) \/ Base(Begin(lock)) <= Base(Begin(u))
    /\ pc[u] \in Walking => Limit <= Search(u) \/ Search(u) = From(u)

\* What of u the reclaimer has not looked at, or not looked at again.
Pending(u, f) ==
    \/ u \in rec.todo
    \/ u = rec.at /\ \/ pc[lock] = "visit_read" /\ f = "read_block"
                     \/ pc[lock] \in {"swap", "revalidate"} /\ rec.field = "write_block" /\ f = "read_block"
                     \/ pc[lock] = "swap" /\ rec.field = f
Unsure(u, f) == Pending(u, f) \/ (u = rec.at /\ pc[lock] = "revalidate" /\ rec.field = f)

\* try_advance_hazptr_block(): where u's next call starts, and where its walk began.
Visited(u, f) ==
    /\ ~Pending(u, f) => Limit <= First(haz[u][f])
    /\ pc[u] \in Walking /\ Field(u) = f =>
          /\ Pending(u, f) => Limit <= Search(u) \/ Search(u) = First(haz[u][f])
          /\ ~Unsure(u, f) => Limit <= Search(u)

\* Nothing that is before the new head is within u's reach.
Clear(u) ==
    /\ \A f \in Fields : First(rec.new) <= First(haz[u][f])
    /\ pc[u] \in Walking => First(rec.new) <= Search(u)

\* What the reclaimer knows of u, unless somebody came since it read
\* haz_ptr_counter: then it will roll back.
Met(u) ==
    /\ At({"scan"}) /\ ~Spoiled /\ u \notin rec.todo => Scanned(u)
    /\ At(Visiting) /\ NobodyCame /\ Member(u) => \A f \in Fields : Visited(u, f)
    /\ At(Announcing) /\ NobodyCame /\ Member(u) => Clear(u)
    /\ At(Aiming) /\ Drawn(u) => First(rec.new) <= Base(Begin(u))
    /\ At({"swap", "revalidate"}) /\ u = rec.at => Near(haz[u].active_offset)

\* try_reclaim_blocks() and reclaim_blocks(): the reclaimer's own variables.
Reclaim ==
    /\ At({"load_count"}) => Near(rec.protect) /\ Limit <= Base(Sold)
    /\ At({"scan"}) => rec.old = head_block /\ (Spoiled \/ (Near(rec.protect) /\ Limit <= Base(Sold)))
    /\ At(Aiming) => rec.new \in OnList /\ First(rec.old) < First(rec.new) /\ First(rec.new) <= Base(Sold)
    /\ At(Visiting) => rec.old = head_block /\ Near(rec.protect) /\ Limit <= First(rec.new)
    /\ At({"visit_read", "swap", "revalidate"}) => rec.at \in Tokens \ rec.todo
    /\ At({"swap"}) => rec.expected \in blocks /\ First(rec.expected) < First(rec.new)
    /\ At(Announcing \cup {"rollback", "commit"} \cup Moves) => rec.new = head_block
    /\ At(Announcing \cup {"rollback"}) => rec.old \in blocks
    /\ At({"commit"}) => rec.old \in blocks /\ First(rec.old) < First(rec.new)
    /\ At(Moves) =>
          /\ rec.unlinked # <<>> /\ Unlinked \subseteq blocks
          /\ \A k \in 1 .. Len(rec.unlinked) :
                /\ First(rec.unlinked[k]) = First(rec.unlinked[1]) + (k - 1) * BlockSize
                /\ First(rec.unlinked[k]) < First(rec.new)
    /\ ~At(Moves) => rec.unlinked = <<>>
    /\ At({"relink"}) => rec.tail \in OnList

\* Elements
\* The element of position m: its value is there from when it is written until its
\* reader has done with it, and its flag says that, or who waits for it, or that
\* close() came by.
CellOK(m, flag, value) ==
    /\ value = IF Done(m) /\ (Turn <= m \/ Taken(m)) THEN m - Skip + 1 ELSE NoValue
    /\ Done(m) => \/ flag = "data"
                  \/ flag \in Tokens /\ (Turn <= m \/ Taken(m) => Takes(flag, m))
    /\ Skip <= m /\ ~Done(m) =>
          \/ flag = "empty"
          \/ flag \in Tokens /\ Suspended(flag, m)
          \/ /\ closed = "closed" /\ Cut <= m /\ m < Turn /\ ~Taken(m)
             /\ \/ flag = "both"
                \/ flag \in Tokens /\ \A t \in Tokens : ~Swept(t, m)
Cells ==
    /\ \A b \in blocks, i \in Index :
          (At({"relink"}) /\ b \in Unlinked) \/ CellOK(First(b) + i, flags[b][i], stored[b][i])
    /\ \A m \in Nat : Done(m) => Reaches(m)
\* Blocks that are gone, or empty to be used again, hold nothing.
Clean ==
    /\ \A b \in Block \ blocks, i \in Index : stored[b][i] = NoValue
    /\ At({"relink"}) => \A b \in Unlinked : flags[b] = Fresh /\ \A i \in Index : stored[b][i] = NoValue

\* All that holds of one token; of a channel in use; and when it is destroyed.
Token(t) == /\ Control(t) /\ Closer(t) /\ Post(t) /\ Pull(t) /\ Sought(t) /\ Parks(t)
            /\ Acquires(t) /\ Has(t) /\ Uses(t) /\ Met(t)
Running ==
    /\ TypeOK /\ pc \in [Tokens -> Places] /\ \A t \in Tokens : Token(t)
    /\ Linked /\ Heads /\ Numbers /\ Asking /\ SendersApart /\ ReadersApart /\ Served
    /\ Reclaim /\ Cells /\ Clean
Destroyed ==
    /\ TypeOK /\ pc = [t \in Tokens |-> "gone"] /\ \A t \in Tokens : ~haz[t].owned
    /\ lock = Nobody /\ blocks = {} /\ rec.unlinked = <<>>
    /\ \A b \in Block, i \in Index : stored[b][i] = NoValue
    /\ ClosedMeansDrained
IInv == Running \/ Destroyed

\* Words and positions
\* The constants are numbers.
LEMMA Sizes ==
  /\ BlockSize \in Nat /\ BlockSize > 0 /\ WordMod \in Nat /\ WordMod > 0 /\ WordMod % 4 = 0
  /\ FirstTicket \in Nat /\ FirstTicket < WordMod
  /\ MaxTicket \in Nat /\ MaxPull \in Nat /\ 4 * (MaxTicket + MaxPull + 4 * BlockSize) < WordMod
  /\ MaxBlocks \in Nat /\ MaxBlocks >= 3 /\ MaxBulk \in Nat
  /\ WordMod % BlockSize = 0
  BY BlockAssumption, WordAssumption, StartAssumption, RangeAssumption

\* Blocks start a whole block apart.
LEMMA StartsApart ==
  /\ 0 \in Starts
  /\ \A a \in Starts : a \in Nat /\ a + BlockSize \in Starts
  /\ \A a, b \in Starts : a < b => a + BlockSize <= b
<1>1. BlockSize \in Nat /\ BlockSize > 0 BY Sizes
<1>2. 0 \in Starts BY <1>1 DEF Starts
<1>3. ASSUME NEW a \in Starts
      PROVE  a \in Nat /\ a + BlockSize \in Starts
  <2>1. a \in Nat /\ a % BlockSize = 0 BY DEF Starts
  <2>2. a \div BlockSize \in Nat /\ a = BlockSize * (a \div BlockSize) + (a % BlockSize)
    BY <1>1, <2>1, DivMod
  <2> DEFINE q == a \div BlockSize
  <2>3. q \in Nat /\ a = BlockSize * q BY <1>1, <2>1, <2>2
  <2> HIDE DEF q
  <2>4. a + BlockSize = BlockSize * (q + 1) + 0 /\ q + 1 \in Nat /\ 0 \in 0 .. BlockSize - 1
    BY <1>1, <2>3
  <2>5. (BlockSize * (q + 1) + 0) % BlockSize = 0 BY <1>1, <2>4, ModUnique
  <2> QED BY <1>1, <2>1, <2>4, <2>5 DEF Starts
<1>4. ASSUME NEW a \in Starts, NEW b \in Starts, a < b
      PROVE  a + BlockSize <= b
  <2>1. a \in Nat /\ b \in Nat /\ a % BlockSize = b % BlockSize BY DEF Starts
  <2> QED BY <1>1, <1>4, <2>1, ModApart
<1> QED BY <1>2, <1>3, <1>4

\* The start of a position's block.
LEMMA BaseOf ==
  ASSUME NEW m \in Nat
  PROVE  /\ Base(m) \in Starts /\ Base(m) \in Nat /\ Base(m) <= m /\ m < Base(m) + BlockSize
         /\ m % BlockSize = m - Base(m) /\ m - Base(m) \in Index
         /\ \A f \in Starts : f <= m /\ m < f + BlockSize => f = Base(m)
         /\ \A f \in Starts : f <= m => f <= Base(m)
         /\ \A f \in Starts : m < f => Base(m) + BlockSize <= f
<1>1. BlockSize \in Nat /\ BlockSize > 0 BY Sizes
<1> DEFINE q == m \div BlockSize
           r == m % BlockSize
<1>2. q \in Nat /\ r \in 0 .. BlockSize - 1 /\ m = BlockSize * q + r BY <1>1, DivMod
<1> HIDE DEF q, r
<1>3. Base(m) = m - r BY DEF Base, r
<1>4. Base(m) = BlockSize * q + 0 /\ Base(m) \in Nat /\ 0 \in 0 .. BlockSize - 1
  BY <1>1, <1>2, <1>3
<1>5. Base(m) \in Starts
  <2>1. (BlockSize * q + 0) % BlockSize = 0 BY <1>1, <1>2, <1>4, ModUnique
  <2> QED BY <1>4, <2>1 DEF Starts
<1>6. Base(m) <= m /\ m < Base(m) + BlockSize /\ r = m - Base(m) /\ r \in Index
  <2>1. r \in Nat /\ r < BlockSize BY <1>1, <1>2
  <2> QED BY <1>1, <1>2, <1>3, <1>4, <2>1 DEF Index
<1>7. ASSUME NEW f \in Starts
      PROVE  /\ f <= m /\ m < f + BlockSize => f = Base(m)
             /\ f <= m => f <= Base(m)
             /\ m < f => Base(m) + BlockSize <= f
  <2>1. f \in Nat /\ (f < Base(m) => f + BlockSize <= Base(m))
        /\ (Base(m) < f => Base(m) + BlockSize <= f)
    BY <1>5, StartsApart
  <2> QED BY <1>1, <1>4, <1>6, <2>1
<1> QED BY <1>4, <1>5, <1>6, <1>7 DEF r

\* Where the first block starts.
LEMMA OriginIs ==
  /\ Origin \in Starts /\ Origin \in Word /\ Origin \in Nat
  /\ Skip \in Starts /\ Skip \in Nat /\ Skip <= 2 * BlockSize
  /\ Origin + Skip = FirstTicket
<1>1. FirstTicket \in Nat /\ FirstTicket < WordMod /\ BlockSize \in Nat /\ BlockSize > 0
  BY Sizes
<1>2. CASE FirstTicket = 0
  <2>1. Origin = 0 /\ Skip = 0 BY <1>2 DEF Origin, Skip, Used
  <2>2. 0 \in Starts BY StartsApart
  <2>3. Origin \in Word /\ Origin + Skip = FirstTicket BY <1>2, <2>1, Sizes DEF Word
  <2> QED BY <1>1, <2>1, <2>2, <2>3
<1>3. CASE FirstTicket # 0
  <2>1. BlockSize = 2 /\ FirstTicket % 2 = 0 /\ FirstTicket >= 6 BY <1>1, <1>3, StartAssumption
  <2>2. Origin = FirstTicket - 4 /\ Skip = 4 BY <1>3, <2>1 DEF Origin, Skip, Used
  <2>3. Origin \in Nat /\ Origin % 2 = 0 /\ 4 % 2 = 0 BY <1>1, <2>1, <2>2
  <2>4. Origin \in Word /\ Origin + Skip = FirstTicket BY <1>1, <2>1, <2>2, <2>3, Sizes DEF Word
  <2> QED BY <1>1, <2>1, <2>2, <2>3, <2>4 DEF Starts
<1> QED BY <1>2, <1>3

\* A word's position, one way and the other.
LEMMA PosIs ==
  ASSUME NEW x \in Word
  PROVE  /\ Pos(x) \in Nat /\ Pos(x) < WordMod
         /\ x >= Origin => Pos(x) = x - Origin
         /\ x < Origin => Pos(x) = x - Origin + WordMod
<1> DEFINE o == Origin
<1>1. o \in 0 .. WordMod - 1 /\ x \in 0 .. WordMod - 1 /\ WordMod \in Nat
  BY OriginIs, Sizes DEF Word
<1>2. Pos(x) = (x - o) % WordMod BY DEF Pos
<1> HIDE DEF o
<1>3. /\ o <= x => (x - o) % WordMod = x - o
      /\ x < o => (x - o) % WordMod = x - o + WordMod
  BY <1>1, ModMinus
<1> QED BY <1>1, <1>2, <1>3 DEF o

\* Different words have different positions.
LEMMA PosTells ==
  ASSUME NEW x \in Word, NEW y \in Word, Pos(x) = Pos(y)
  PROVE  x = y
<1> DEFINE o == Origin
<1>1. o \in Nat /\ o < WordMod /\ x \in Nat /\ x < WordMod /\ y \in Nat /\ y < WordMod /\ WordMod \in Nat
  BY OriginIs, Sizes DEF Word
<1>2. /\ x >= o => Pos(x) = x - o
      /\ x < o => Pos(x) = x - o + WordMod
      /\ y >= o => Pos(y) = y - o
      /\ y < o => Pos(y) = y - o + WordMod
  BY PosIs
<1> HIDE DEF o
<1> QED BY <1>1, <1>2

\* Below the range of a word, positions add up.
LEMMA PosPlus ==
  ASSUME NEW x \in Word, NEW n \in Nat
  PROVE  /\ Plus(x, n) \in Word
         /\ Pos(x) + n < WordMod => Pos(Plus(x, n)) = Pos(x) + n
<1> DEFINE o == Origin
           y == (x + n) % WordMod
<1>1. o \in Nat /\ o < WordMod /\ x \in Nat /\ x < WordMod /\ WordMod \in Nat /\ WordMod > 0
  BY OriginIs, Sizes DEF Word
<1>2. y \in Word /\ Plus(x, n) = y
  <2>1. x + n \in Nat BY <1>1
  <2>2. y \in 0 .. WordMod - 1 BY <1>1, <2>1, DivMod
  <2> QED BY <2>2 DEF Word, Plus
<1>3. /\ x >= o => Pos(x) = x - o
      /\ x < o => Pos(x) = x - o + WordMod
      /\ y >= o => Pos(y) = y - o
      /\ y < o => Pos(y) = y - o + WordMod
  BY <1>2, PosIs
<1> SUFFICES ASSUME Pos(x) + n < WordMod
             PROVE  Pos(y) = Pos(x) + n
  BY <1>2
<1>4. x + n < WordMod => y = x + n
  <2>1. CASE x + n < WordMod
    <3>1. x + n \in 0 .. WordMod - 1 /\ 0 \in 0 .. WordMod - 1 BY <1>1, <2>1
    <3>2. ((x + n) - 0) % WordMod = (x + n) - 0 BY <1>1, <3>1, ModMinus
    <3>3. (x + n) - 0 = x + n BY <1>1
    <3> QED BY <3>2, <3>3
  <2> QED BY <2>1
<1>5. x + n >= WordMod /\ x + n < 2 * WordMod => y = x + n - WordMod
  <2>1. CASE x + n >= WordMod /\ x + n < 2 * WordMod
    <3> DEFINE r == x + n - WordMod
    <3>1. r \in 0 .. WordMod - 1 /\ WordMod * 1 + r = x + n /\ 1 \in Nat BY <1>1, <2>1
    <3>2. (WordMod * 1 + r) % WordMod = r BY <1>1, <3>1, ModUnique
    <3> QED BY <3>1, <3>2
  <2> QED BY <2>1
<1>6. y \in Nat /\ y < WordMod BY <1>1, <1>2 DEF Word
<1> HIDE DEF o, y
<1> QED BY <1>1, <1>3, <1>4, <1>5, <1>6

\* Words of positions in one half of the range compare as the positions do.
LEMMA PosLess ==
  ASSUME NEW x \in Word, NEW y \in Word, 2 * Pos(x) < WordMod, 2 * Pos(y) < WordMod
  PROVE  CircularLess(x, y) <=> Pos(x) < Pos(y)
<1> DEFINE o == Origin
           d == (x - y) % WordMod
<1>1. o \in Nat /\ o < WordMod /\ x \in Nat /\ x < WordMod /\ y \in Nat /\ y < WordMod /\ WordMod \in Nat
  BY OriginIs, Sizes DEF Word
<1>2. /\ x >= o => Pos(x) = x - o
      /\ x < o => Pos(x) = x - o + WordMod
      /\ y >= o => Pos(y) = y - o
      /\ y < o => Pos(y) = y - o + WordMod
      /\ Pos(x) \in Nat /\ Pos(y) \in Nat
  BY PosIs
<1>3. /\ y <= x => d = x - y
      /\ x < y => d = x - y + WordMod
  <2>1. x \in 0 .. WordMod - 1 /\ y \in 0 .. WordMod - 1 BY <1>1
  <2> QED BY <1>1, <2>1, ModMinus
<1>4. CircularLess(x, y) <=> 2 * d > WordMod BY DEF CircularLess
<1> HIDE DEF o, d
<1> QED BY <1>1, <1>2, <1>3, <1>4

\* The element and the block of a word.
LEMMA PlaceOf ==
  ASSUME NEW x \in Word
  PROVE  /\ IndexOf(x) = Pos(x) - Base(Pos(x)) /\ IndexOf(x) \in Index
         /\ StartOf(x) \in Word /\ Pos(StartOf(x)) = Base(Pos(x))
<1> DEFINE o == Origin
           q == Base(x)
<1>1. /\ o \in Nat /\ o < WordMod /\ o \in Starts
      /\ x \in Nat /\ x < WordMod /\ WordMod \in Nat /\ WordMod > 0
      /\ BlockSize \in Nat /\ BlockSize > 0
  BY OriginIs, Sizes DEF Word
<1>2. /\ q \in Starts /\ q \in Nat /\ q <= x /\ x < q + BlockSize
      /\ IndexOf(x) = x - q /\ x - q \in Index
  BY <1>1, BaseOf DEF IndexOf
<1>3. StartOf(x) = q /\ q \in Word BY <1>1, <1>2 DEF StartOf, Word
<1>4. /\ x >= o => Pos(x) = x - o
      /\ x < o => Pos(x) = x - o + WordMod
      /\ q >= o => Pos(q) = q - o
      /\ q < o => Pos(q) = q - o + WordMod
      /\ Pos(x) \in Nat /\ Pos(q) \in Nat
  BY <1>3, PosIs
<1>5. q >= o <=> x >= o
  <2>1. q < o => q + BlockSize <= o BY <1>1, <1>2, StartsApart
  <2> QED BY <1>1, <1>2, <2>1
<1>6. Pos(q) = Pos(x) - (x - q) /\ Pos(q) <= Pos(x) /\ Pos(x) < Pos(q) + BlockSize
  BY <1>1, <1>2, <1>4, <1>5
<1>7. Pos(q) \in Starts
  <2>1. /\ q % BlockSize = 0 /\ o % BlockSize = 0 /\ WordMod % BlockSize = 0
    BY <1>1, <1>2, Sizes DEF Starts
  <2>2. \A a \in Nat : a % BlockSize = 0 => \E k \in Nat : a = BlockSize * k
    <3> SUFFICES ASSUME NEW a \in Nat, a % BlockSize = 0
                 PROVE  \E k \in Nat : a = BlockSize * k
      OBVIOUS
    <3>1. a \div BlockSize \in Nat /\ a = BlockSize * (a \div BlockSize) + (a % BlockSize)
      BY <1>1, DivMod
    <3> DEFINE k == a \div BlockSize
    <3>2. k \in Nat /\ a = BlockSize * k BY <1>1, <3>1
    <3> QED BY <3>2
  <2>3. PICK k \in Nat : q = BlockSize * k BY <1>2, <2>1, <2>2
  <2>4. PICK l \in Nat : o = BlockSize * l BY <1>1, <2>1, <2>2
  <2>5. PICK w \in Nat : WordMod = BlockSize * w BY <1>1, <2>1, <2>2
  <2> DEFINE n == IF q >= o THEN k - l ELSE k - l + w
  <2>6. n \in Int /\ Pos(q) = BlockSize * n BY <1>1, <1>2, <1>4, <2>3, <2>4, <2>5
  <2> HIDE DEF n
  <2>7. n \in Nat
    <3>1. CASE n < 0
      <4>1. -n \in Nat /\ 0 < -n /\ BlockSize * 0 + BlockSize <= BlockSize * (-n)
        BY <1>1, <2>6, <3>1, MulMono
      <4>2. BlockSize * (-n) = -(BlockSize * n) /\ BlockSize * 0 = 0 BY <1>1, <2>6
      <4> QED BY <1>1, <1>4, <2>6, <4>1, <4>2
    <3> QED BY <2>6, <3>1
  <2>8. (BlockSize * n + 0) % BlockSize = 0
    <3>1. 0 \in 0 .. BlockSize - 1 BY <1>1
    <3> QED BY <1>1, <2>7, <3>1, ModUnique
  <2>9. BlockSize * n + 0 = Pos(q) BY <1>4, <2>6
  <2> QED BY <1>4, <2>8, <2>9 DEF Starts
<1>8. Pos(q) = Base(Pos(x)) BY <1>4, <1>6, <1>7, BaseOf
<1>9. IndexOf(x) = Pos(x) - Base(Pos(x)) BY <1>1, <1>2, <1>4, <1>6, <1>8
<1> HIDE DEF q
<1> QED BY <1>2, <1>3, <1>4, <1>8, <1>9

\* How far positions go.
LEMMA TopIs ==
  /\ Top \in Nat /\ 4 * Top < WordMod /\ Top = Skip + MaxTicket + MaxPull + 1
  /\ Pos(FirstTicket) = Skip /\ FirstTicket \in Word
<1>1. Top \in Nat /\ 4 * Top < WordMod /\ Top = Skip + MaxTicket + MaxPull + 1
  BY OriginIs, Sizes DEF Top
<1>2. FirstTicket \in Word BY Sizes DEF Word
<1>3. Pos(FirstTicket) = Skip BY <1>1, <1>2, OriginIs, PosIs, Sizes
<1> QED BY <1>1, <1>2, <1>3

\* How many tickets there are up to a word.
LEMMA Count ==
  ASSUME NEW x \in Word, Skip <= Pos(x)
  PROVE  (x - FirstTicket) % WordMod = Pos(x) - Skip
<1>1. /\ Origin \in Nat /\ Origin < WordMod /\ x \in Nat /\ x < WordMod /\ WordMod \in Nat
      /\ Origin + Skip = FirstTicket /\ FirstTicket \in Nat /\ FirstTicket < WordMod /\ Skip \in Nat
  BY OriginIs, Sizes DEF Word
<1>2. /\ x >= Origin => Pos(x) = x - Origin
      /\ x < Origin => Pos(x) = x - Origin + WordMod
      /\ Pos(x) \in Nat
  BY PosIs
<1>3. /\ FirstTicket <= x => (x - FirstTicket) % WordMod = x - FirstTicket
      /\ x < FirstTicket => (x - FirstTicket) % WordMod = x - FirstTicket + WordMod
  <2>1. x \in 0 .. WordMod - 1 /\ FirstTicket \in 0 .. WordMod - 1 BY <1>1
  <2> QED BY <1>1, <2>1, ModMinus
<1> QED BY <1>1, <1>2, <1>3

\* What the variables are
LEMMA Types ==
  ASSUME TypeOK
  PROVE  /\ blocks \subseteq Block /\ OnList \subseteq blocks /\ Null \notin Block
         /\ \A b \in Block : /\ offset[b] \in Word /\ First(b) \in Nat /\ First(b) < WordMod
                             /\ next[b] \in Block \cup {Null} /\ b # Null
         /\ {write_offset, write_closed_at, read_offset, head_offset, rec.protect} \subseteq Word
         /\ {Sold, Turn, Pos(write_closed_at), Pos(head_offset), Limit} \subseteq Nat
         /\ \A t \in Tokens :
               /\ op[t] \in CallType /\ haz[t] \in HazType
               /\ {op[t].idx, op[t].boff, op[t].end, haz[t].active_offset, haz[t].next_protect_write,
                   haz[t].next_protect_read} \subseteq Word
               /\ {op[t].count, op[t].written, Begin(t), Finish(t), Ahead(t), Search(t), Active(t),
                   Pos(op[t].end)} \subseteq Nat
               /\ Begin(t) < WordMod /\ Finish(t) = Begin(t) + op[t].count
               /\ pc[t] = "wake" => Ahead(t) = Begin(t) + op[t].written + 1
               /\ pc[t] # "wake" => Ahead(t) = Begin(t) + op[t].written
<1>1. \A x \in Word : Pos(x) \in Nat /\ Pos(x) < WordMod BY PosIs
<1>2. ASSUME NEW b \in Block
      PROVE  /\ offset[b] \in Word /\ First(b) \in Nat /\ First(b) < WordMod
             /\ next[b] \in Block \cup {Null} /\ b # Null
  <2>1. offset[b] \in Word /\ next[b] \in Block \cup {Null} BY DEF TypeOK
  <2> QED BY <1>1, <2>1 DEF First, Block, Null
<1>3. {write_offset, write_closed_at, read_offset, head_offset, rec.protect} \subseteq Word
  <2>1. rec.protect \in Word BY DEF TypeOK, RecType
  <2> QED BY <2>1 DEF TypeOK
<1>4. {Sold, Turn, Pos(write_closed_at), Pos(head_offset), Limit} \subseteq Nat
  BY <1>1, <1>3 DEF Sold, Turn, Limit
<1>5. ASSUME NEW t \in Tokens
      PROVE  /\ op[t] \in CallType /\ haz[t] \in HazType
             /\ {op[t].idx, op[t].boff, op[t].end, haz[t].active_offset, haz[t].next_protect_write,
                   haz[t].next_protect_read} \subseteq Word
             /\ {op[t].count, op[t].written, Begin(t), Finish(t), Ahead(t), Search(t), Active(t),
                   Pos(op[t].end)} \subseteq Nat
             /\ Begin(t) < WordMod /\ Finish(t) = Begin(t) + op[t].count
             /\ pc[t] = "wake" => Ahead(t) = Begin(t) + op[t].written + 1
             /\ pc[t] # "wake" => Ahead(t) = Begin(t) + op[t].written
  <2>1. op[t] \in CallType /\ haz[t] \in HazType BY DEF TypeOK
  <2>2. /\ {op[t].idx, op[t].boff, op[t].end} \subseteq Word
        /\ op[t].count \in 0 .. MaxTicket /\ op[t].written \in 0 .. MaxTicket
    BY <2>1 DEF CallType
  <2>3. {haz[t].active_offset, haz[t].next_protect_write, haz[t].next_protect_read} \subseteq Word
    BY <2>1 DEF HazType
  <2>4. op[t].count \in Nat /\ op[t].written \in Nat BY <2>2
  <2>5. /\ Begin(t) \in Nat /\ Begin(t) < WordMod /\ Search(t) \in Nat /\ Active(t) \in Nat
        /\ Pos(op[t].end) \in Nat
    BY <1>1, <2>2, <2>3 DEF Begin, Search, Active
  <2>6. /\ pc[t] = "wake" => Ahead(t) = Begin(t) + op[t].written + 1
        /\ pc[t] # "wake" => Ahead(t) = Begin(t) + op[t].written
    BY <2>4, <2>5 DEF Ahead
  <2>7. Ahead(t) \in Nat BY <2>4, <2>5, <2>6
  <2> QED BY <2>1, <2>2, <2>3, <2>4, <2>5, <2>6, <2>7 DEF Finish
<1>6. blocks \subseteq Block /\ OnList \subseteq blocks /\ Null \notin Block
  BY DEF TypeOK, OnList, Block, Null
<1> QED BY <1>2, <1>3, <1>4, <1>5, <1>6

\* The pairs that count tickets are finitely many.
LEMMA PairsAreFew ==
  /\ IsFiniteSet(TicketPairs) /\ Cardinality(TicketPairs) \in Nat
  /\ IsFiniteSet(Pullers) /\ Cardinality(Pullers) \in Nat
<1>1. \A names : Asked(names) \subseteq Tokens BY DEF Asked
<1>2. IsFiniteSet(Tokens) BY TokenAssumption
<1>3. \A names : IsFiniteSet(Asked(names)) BY <1>1, <1>2, FS_Subset
<1>4. IsFiniteSet(1 .. MaxTicket) BY Sizes, FS_Interval
<1>5. IsFiniteSet(Asked({"post", "post_bulk"}) \X (1 .. MaxTicket)) BY <1>3, <1>4, FS_Product
<1>6. TicketPairs \subseteq Asked({"post", "post_bulk"}) \X (1 .. MaxTicket) BY DEF TicketPairs
<1>7. IsFiniteSet(TicketPairs) /\ IsFiniteSet(Pullers)
  BY <1>3, <1>5, <1>6, FS_Subset DEF Pullers
<1> QED BY <1>7, FS_CardinalityType

\* How far the positions of a running channel go.
LEMMA Bounds ==
  ASSUME Running
  PROVE  /\ Top \in Nat /\ 4 * Top < WordMod /\ WordMod \in Nat
         /\ Cut \in Nat /\ Skip <= Turn /\ Turn <= Top /\ Skip <= Cut /\ Cut <= Sold /\ Sold <= Top
         /\ Sold <= Skip + MaxTicket + 1
         /\ First(ListHead) <= Sold /\ First(ListHead) <= Turn
         /\ {Lowest, ListHead, tail_block, head_block} \subseteq blocks
         /\ First(Lowest) <= First(ListHead)
         /\ \A b \in blocks : First(b) \in Starts /\ First(b) <= 2 * Top /\ 2 * First(b) < WordMod
<1>1. /\ Top \in Nat /\ 4 * Top < WordMod /\ Top = Skip + MaxTicket + MaxPull + 1
      /\ WordMod \in Nat /\ Skip \in Nat /\ MaxPull \in Nat /\ MaxTicket \in Nat
  BY TopIs, Sizes, OriginIs
<1>2. Sold \in Nat /\ Turn \in Nat /\ \A b \in blocks : b \in Block /\ First(b) \in Nat
  BY Types DEF Running
<1>3. Cut \in Nat
  <2>1. lock \in Tokens => Begin(lock) \in Nat BY Types DEF Running
  <2>2. At({"publish"}) => lock \in Tokens BY DEF At, Running, TypeOK
  <2> QED BY <1>2, <2>1, <2>2, Types DEF Cut, Running
<1>4. Skip <= Turn /\ Turn <= Top /\ Skip <= Cut /\ Cut <= Sold BY DEF Running, Numbers
<1>5. Sold <= Skip + MaxTicket + 1
  <2>1. Cardinality(TicketPairs) \in Nat BY PairsAreFew
  <2>2. Sold + Cardinality(TicketPairs) <= Skip + MaxTicket + (IF CutDrawn THEN 1 ELSE 0)
    BY DEF Running, Asking
  <2> QED BY <1>1, <1>2, <2>1, <2>2
<1>6. {Lowest, ListHead, tail_block} \subseteq blocks /\ head_block \in OnList
  BY DEF Running, Linked, Heads
<1>7. head_block \in blocks /\ First(ListHead) <= First(head_block) BY <1>6 DEF OnList
<1>8. First(ListHead) <= Sold /\ First(ListHead) <= Turn
  <2>1. First(head_block) <= Sold /\ First(head_block) <= Turn BY DEF Running, Heads
  <2> QED BY <1>2, <1>6, <1>7, <2>1
<1>9. First(Lowest) <= First(ListHead) BY <1>6 DEF Running, Linked
<1>10. ASSUME NEW b \in blocks
       PROVE  First(b) \in Starts /\ First(b) <= 2 * Top /\ 2 * First(b) < WordMod
  <2>1. First(b) \in Starts /\ First(b) <= Top + First(Lowest) BY DEF Running, Linked
  <2>2. First(b) \in Nat /\ First(Lowest) \in Nat /\ First(ListHead) \in Nat BY <1>2, <1>6
  <2> QED BY <1>1, <1>2, <1>4, <1>8, <1>9, <2>1, <2>2
<1> QED BY <1>1, <1>2, <1>3, <1>4, <1>5, <1>6, <1>7, <1>8, <1>9, <1>10

\* The list
\* A block that is not the last has one after it.
LEMMA NextOf ==
  ASSUME TypeOK, Linked, NEW b \in blocks, NEW c \in blocks, First(b) < First(c)
  PROVE  /\ next[b] # Null /\ next[b] \in blocks /\ First(next[b]) = First(b) + BlockSize
         /\ First(next[b]) <= First(c)
<1>1. First(b) \in Nat /\ First(c) \in Nat /\ First(b) \in Starts /\ First(c) \in Starts
  BY Types DEF Linked
<1>2. next[b] # Null BY <1>1 DEF Linked
<1>3. next[b] \in blocks /\ First(next[b]) = First(b) + BlockSize BY <1>2 DEF Linked
<1> QED BY <1>1, <1>2, <1>3, StartsApart

\* A block leads to itself and those after it.
LEMMA Chain ==
  ASSUME TypeOK, Linked, NEW b \in blocks
  PROVE  ReachableFrom(b) = { c \in blocks : First(b) <= First(c) }
<1> DEFINE C == { c \in blocks : First(b) <= First(c) }
<1>1. \A c \in blocks : First(c) \in Nat /\ First(c) \in Starts BY Types DEF Linked
<1>2. C \in SUBSET blocks /\ b \in C BY <1>1
<1>3. ASSUME NEW d \in C, next[d] # Null
      PROVE  next[d] \in C
  <2>1. d \in blocks /\ next[d] \in blocks /\ First(next[d]) = First(d) + BlockSize
    BY <1>3 DEF Linked
  <2>2. First(d) \in Nat /\ First(next[d]) \in Nat /\ First(b) \in Nat /\ BlockSize \in Nat
    BY <1>1, <2>1, Sizes
  <2> QED BY <1>3, <2>1, <2>2
<1>4. ReachableFrom(b) \subseteq C BY <1>2, <1>3 DEF ReachableFrom
<1>5. ASSUME NEW S \in SUBSET blocks, b \in S, \A d \in S : next[d] # Null => next[d] \in S,
             NEW c \in C
      PROVE  c \in S
  <2> DEFINE T == { n \in Nat : \E x \in S : First(x) <= First(c) /\ n = First(c) - First(x) }
  <2>1. First(c) - First(b) \in T BY <1>1, <1>5
  <2>2. PICK n \in T : \A m \in T : n <= m
    <3>1. T \subseteq Nat /\ T # {} BY <2>1
    <3> HIDE DEF T
    <3> QED BY <3>1, LeastOf
  <2>3. PICK x \in S : First(x) <= First(c) /\ n = First(c) - First(x) OBVIOUS
  <2>4. First(x) \in Nat /\ First(c) \in Nat /\ First(x) \in Starts /\ First(c) \in Starts
    BY <1>1, <2>3
  <2>5. CASE First(x) = First(c)
    <3>1. x = c BY <1>5, <2>3, <2>5 DEF Linked
    <3> QED BY <3>1
  <2>6. CASE First(x) < First(c)
    <3>1. next[x] # Null /\ First(next[x]) = First(x) + BlockSize /\ First(next[x]) <= First(c)
      BY <1>5, <2>3, <2>6, NextOf
    <3>2. next[x] \in S /\ next[x] \in blocks /\ First(next[x]) \in Nat /\ BlockSize \in Nat /\ BlockSize > 0
      BY <1>1, <1>5, <2>3, <3>1, Sizes
    <3>3. First(c) - First(next[x]) \in T /\ First(c) - First(next[x]) < n
      BY <2>3, <2>4, <3>1, <3>2
    <3> HIDE DEF T
    <3> QED BY <2>2, <2>3, <2>4, <3>1, <3>2, <3>3
  <2> QED BY <2>3, <2>4, <2>5, <2>6
<1>6. C \subseteq ReachableFrom(b)
  <2> SUFFICES ASSUME NEW c \in C
               PROVE  c \in ReachableFrom(b)
    OBVIOUS
  <2>1. c \in blocks BY <1>1
  <2> QED BY <1>5, <2>1 DEF ReachableFrom
<1> QED BY <1>4, <1>6

\* What operator new returns is not a block that is there.
LEMMA NewBlockIsNew ==
  ASSUME blocks \subseteq Block, blocks # Block
  PROVE  NewBlock \in Block \ blocks
<1> DEFINE T == Block \ blocks
<1>1. T \subseteq Nat /\ T # {}
  <2>1. \E b \in Block : b \notin blocks OBVIOUS
  <2> QED BY <2>1, Sizes DEF Block
<1>2. \E x \in T : \A y \in T : x <= y
  <2> HIDE DEF T
  <2> QED BY <1>1, LeastOf
<1> QED BY <1>2, Zenon DEF NewBlock

\* Different positions are in different elements.
LEMMA OneCell ==
  ASSUME TypeOK, Linked, NEW b \in blocks, NEW i \in Index, NEW c \in blocks, NEW j \in Index,
         First(b) + i = First(c) + j
  PROVE  b = c /\ i = j
<1>1. /\ First(b) \in Starts /\ First(c) \in Starts /\ First(b) \in Nat /\ First(c) \in Nat
      /\ i \in Nat /\ i < BlockSize /\ j \in Nat /\ j < BlockSize /\ BlockSize \in Nat
  <2>1. First(b) \in Starts /\ First(c) \in Starts /\ First(b) \in Nat /\ First(c) \in Nat
    BY Types DEF Linked
  <2> QED BY <2>1, Sizes DEF Index
<1>2. /\ First(b) < First(c) => First(b) + BlockSize <= First(c)
      /\ First(c) < First(b) => First(c) + BlockSize <= First(b)
  BY <1>1, StartsApart
<1>3. First(b) = First(c) /\ i = j BY <1>1, <1>2
<1> QED BY <1>3 DEF Linked

\* The block of a position, when the list gets that far.
LEMMA HasBlock ==
  ASSUME TypeOK, Linked, NEW m \in Nat, Reaches(m), NEW a \in blocks, First(a) <= m
  PROVE  \E b \in blocks : First(b) = Base(m) /\ First(a) <= First(b)
<1> DEFINE T == { n \in Nat : \E x \in blocks : First(a) <= First(x) /\ First(x) <= m /\ n = m - First(x) }
<1>1. \A c \in blocks : First(c) \in Nat /\ First(c) \in Starts BY Types DEF Linked
<1>2. m - First(a) \in T BY <1>1
<1>3. PICK n \in T : \A k \in T : n <= k
  <2>1. T \subseteq Nat /\ T # {} BY <1>2
  <2> HIDE DEF T
  <2> QED BY <2>1, LeastOf
<1>4. PICK x \in blocks : First(a) <= First(x) /\ First(x) <= m /\ n = m - First(x) OBVIOUS
<1>5. m < First(x) + BlockSize
  <2> SUFFICES ASSUME First(x) + BlockSize <= m
               PROVE  FALSE
    BY <1>1, <1>4, Sizes
  <2>1. PICK b \in blocks : m < First(b) + BlockSize BY DEF Reaches
  <2>2. First(x) < First(b) BY <1>1, <1>4, <2>1, Sizes
  <2>3. next[x] \in blocks /\ First(next[x]) = First(x) + BlockSize BY <2>2, NextOf
  <2>4. m - First(next[x]) \in T /\ m - First(next[x]) < n BY <1>1, <1>4, <2>3, Sizes
  <2> HIDE DEF T
  <2> QED BY <1>1, <1>3, <1>4, <2>3, <2>4
<1>6. First(x) = Base(m) BY <1>1, <1>4, <1>5, BaseOf
<1> QED BY <1>4, <1>6

\* The first block from b on that is not before an offset.
LEMMA FirstFromIs ==
  ASSUME Running, NEW b \in blocks, NEW off \in Word, Near(off),
         NEW e \in blocks, First(b) <= First(e), Pos(off) <= First(e)
  PROVE  /\ FirstFrom(b, off) \in blocks
         /\ First(b) <= First(FirstFrom(b, off)) /\ Pos(off) <= First(FirstFrom(b, off))
         /\ First(FirstFrom(b, off)) <= First(e)
         /\ First(b) < First(FirstFrom(b, off)) => First(FirstFrom(b, off)) < Pos(off) + BlockSize
<1>1. TypeOK /\ Linked BY DEF Running
<1>2. \A c \in blocks : /\ First(c) \in Nat /\ First(c) \in Starts /\ 2 * First(c) < WordMod
                        /\ offset[c] \in Word /\ ReachableFrom(c) = { d \in blocks : First(c) <= First(d) }
  BY <1>1, Bounds, Types, Chain
<1>3. Pos(off) \in Nat /\ 2 * Pos(off) < WordMod /\ BlockSize \in Nat /\ BlockSize > 0
  BY PosIs, Sizes DEF Near
<1>4. \A c \in blocks : ~CircularLess(offset[c], off) <=> Pos(off) <= First(c)
  BY <1>2, <1>3, PosLess DEF First
<1> DEFINE from == { c \in ReachableFrom(b) : ~CircularLess(offset[c], off) }
<1>5. from = { c \in blocks : First(b) <= First(c) /\ Pos(off) <= First(c) } BY <1>2, <1>4
<1> DEFINE T == { n \in Nat : \E c \in from : n = First(c) }
<1>6. PICK n \in T : \A k \in T : n <= k
  <2>1. First(e) \in T BY <1>2, <1>5
  <2>2. T \subseteq Nat /\ T # {} BY <2>1
  <2> HIDE DEF T
  <2> QED BY <2>2, LeastOf
<1>7. PICK c \in from : n = First(c) OBVIOUS
<1>8. \A d \in from : First(c) <= First(d) BY <1>2, <1>5, <1>6, <1>7
<1>9. from \subseteq ReachableFrom(c) BY <1>2, <1>5, <1>8
<1> HIDE DEF from, T
<1>10. FirstFrom(b, off) \in from /\ from \subseteq ReachableFrom(FirstFrom(b, off))
  BY <1>9, Zenon DEF FirstFrom, from
<1> DEFINE f == FirstFrom(b, off)
<1> HIDE DEF f
<1>11. f \in blocks /\ First(b) <= First(f) /\ Pos(off) <= First(f) /\ \A d \in from : First(f) <= First(d)
  BY <1>2, <1>5, <1>10 DEF f
<1>12. e \in from BY <1>5
<1>13. ASSUME First(b) < First(f), Pos(off) + BlockSize <= First(f)
       PROVE  FALSE
  <2>1. First(b) + BlockSize <= First(f) /\ First(b) \in Nat /\ First(f) \in Nat
    BY <1>2, <1>11, <1>13, StartsApart
  <2>2. PICK m \in Nat : m = First(f) - BlockSize BY <1>3, <2>1
  <2>3. Reaches(m) BY <1>3, <1>11, <2>1, <2>2 DEF Reaches
  <2>4. PICK d \in blocks : First(d) = Base(m) /\ First(b) <= First(d)
    <3>1. First(b) <= m BY <1>3, <2>1, <2>2
    <3> QED BY <1>1, <2>3, <3>1, HasBlock
  <2>5. First(d) \in Nat /\ Base(m) \in Nat /\ m < Base(m) + BlockSize /\ Base(m) <= m
    BY <1>2, BaseOf
  <2>6. First(f) \in Starts /\ First(d) \in Starts /\ First(d) < First(f)
    BY <1>2, <1>3, <1>11, <2>1, <2>2, <2>4, <2>5
  <2>9. First(d) = m
    <3> SUFFICES ASSUME First(d) < m
                 PROVE  FALSE
      BY <2>4, <2>5
    <3>1. First(d) + BlockSize < First(f) BY <1>3, <2>1, <2>2, <2>5
    <3>2. First(d) + BlockSize \in Starts BY <2>6, StartsApart
    <3>3. First(d) + BlockSize + BlockSize <= First(f) BY <2>6, <3>1, <3>2, StartsApart
    <3> QED BY <1>3, <2>1, <2>2, <2>4, <2>5, <3>3
  <2>10. d \in from BY <1>3, <1>5, <1>13, <2>1, <2>2, <2>4, <2>9
  <2> QED BY <1>3, <1>11, <2>1, <2>2, <2>9, <2>10
<1> QED BY <1>2, <1>3, <1>11, <1>12, <1>13 DEF f

\* The last block there is.
LEMMA LastBlockIs ==
  ASSUME Running, NEW b \in blocks
  PROVE  LastBlock(b) \in blocks /\ next[LastBlock(b)] = Null /\ First(b) <= First(LastBlock(b))
<1>1. TypeOK /\ Linked BY DEF Running
<1>2. ReachableFrom(b) = { c \in blocks : First(b) <= First(c) } BY <1>1, Chain
<1> DEFINE T == { n \in Nat : \E c \in blocks : First(b) <= First(c) /\ n = 2 * Top - First(c) }
<1>3. \A c \in blocks : First(c) \in Nat /\ First(c) <= 2 * Top /\ Top \in Nat
  BY <1>1, Bounds, Types
<1>4. 2 * Top - First(b) \in T BY <1>3
<1>5. PICK n \in T : \A k \in T : n <= k
  <2>1. T \subseteq Nat /\ T # {} BY <1>4
  <2> HIDE DEF T
  <2> QED BY <2>1, LeastOf
<1>6. PICK c \in blocks : First(b) <= First(c) /\ n = 2 * Top - First(c) OBVIOUS
<1>7. next[c] = Null
  <2> SUFFICES ASSUME next[c] # Null
               PROVE  FALSE
    OBVIOUS
  <2>1. next[c] \in blocks /\ First(next[c]) = First(c) + BlockSize BY <1>1, <1>6 DEF Linked
  <2>2. 2 * Top - First(next[c]) \in T BY <1>3, <1>6, <2>1, Sizes
  <2> HIDE DEF T
  <2> QED BY <1>3, <1>5, <1>6, <2>1, <2>2, Sizes
<1>8. c \in ReachableFrom(b) /\ next[c] = Null BY <1>2, <1>6, <1>7
<1>9. LastBlock(b) \in ReachableFrom(b) /\ next[LastBlock(b)] = Null
  BY <1>8, Zenon DEF LastBlock
<1> QED BY <1>2, <1>9

\* reclaim_blocks() takes up to four blocks that follow each other.
LEMMA GroupIs ==
  ASSUME Running, rec.new \in blocks, NEW b \in blocks, First(b) < First(rec.new)
  PROVE  /\ Group(b) \in Seq(Block) /\ Len(Group(b)) \in 1 .. GroupSize /\ Group(b)[1] = b
         /\ \A k \in 1 .. Len(Group(b)) :
               /\ Group(b)[k] \in blocks
               /\ First(Group(b)[k]) = First(b) + (k - 1) * BlockSize
               /\ First(Group(b)[k]) < First(rec.new)
<1> DEFINE Sound(s) == /\ s[1] = b
                       /\ \A k \in DOMAIN s \ {1} : s[k] = next[s[k - 1]] /\ s[k] # rec.new
                       /\ Len(s) = GroupSize \/ next[s[Len(s)]] = rec.new
           Groups == UNION { [1 .. n -> Block] : n \in 1 .. GroupSize }
<1>1. TypeOK /\ Linked /\ blocks \subseteq Block BY Types DEF Running
<1>2. ASSUME NEW x \in blocks, First(x) < First(rec.new), next[x] # rec.new
      PROVE  /\ next[x] \in blocks /\ First(next[x]) = First(x) + BlockSize
             /\ First(next[x]) < First(rec.new)
  <2>1. next[x] \in blocks /\ First(next[x]) = First(x) + BlockSize /\ First(next[x]) <= First(rec.new)
    BY <1>1, <1>2, NextOf
  <2>2. First(next[x]) # First(rec.new) BY <1>1, <1>2, <2>1 DEF Linked
  <2>3. First(next[x]) \in Nat /\ First(rec.new) \in Nat BY <1>1, <2>1, Types
  <2> QED BY <2>1, <2>2, <2>3
<1>3. \E s \in Groups : Sound(s)
  <2>1. CASE next[b] = rec.new
    <3> DEFINE s == <<b>>
    <3>1. s \in [1 .. 1 -> Block] /\ 1 \in 1 .. GroupSize /\ Len(s) = 1 /\ s[1] = b /\ DOMAIN s = 1 .. 1
      BY <1>1 DEF GroupSize
    <3>2. Sound(s) BY <2>1, <3>1
    <3> QED BY <3>1, <3>2
  <2>2. CASE next[b] # rec.new
    <3> DEFINE c == next[b]
    <3>1. c \in blocks /\ First(c) < First(rec.new) /\ c # rec.new
      <4>1. First(c) \in Nat BY <1>1, <1>2, <2>2, Types
      <4> QED BY <1>1, <1>2, <2>2, <4>1, Types
    <3>2. CASE next[c] = rec.new
      <4> DEFINE s == <<b, c>>
      <4>1. s \in [1 .. 2 -> Block] /\ 2 \in 1 .. GroupSize /\ Len(s) = 2 /\ s[1] = b /\ s[2] = c
            /\ DOMAIN s = 1 .. 2
        BY <1>1, <3>1 DEF GroupSize
      <4>2. Sound(s) BY <3>1, <3>2, <4>1
      <4> QED BY <4>1, <4>2
    <3>3. CASE next[c] # rec.new
      <4> DEFINE d == next[c]
      <4>1. d \in blocks /\ First(d) < First(rec.new) /\ d # rec.new BY <1>2, <3>1, <3>3
      <4>2. CASE next[d] = rec.new
        <5> DEFINE s == <<b, c, d>>
        <5>1. s \in [1 .. 3 -> Block] /\ 3 \in 1 .. GroupSize /\ Len(s) = 3 /\ s[1] = b /\ s[2] = c
              /\ s[3] = d /\ DOMAIN s = 1 .. 3
          BY <1>1, <3>1, <4>1 DEF GroupSize
        <5>2. Sound(s) BY <3>1, <4>1, <4>2, <5>1
        <5> QED BY <5>1, <5>2
      <4>3. CASE next[d] # rec.new
        <5> DEFINE e == next[d]
                   s == <<b, c, d, e>>
        <5>1. e \in blocks /\ e # rec.new BY <1>2, <4>1, <4>3
        <5>2. s \in [1 .. 4 -> Block] /\ 4 \in 1 .. GroupSize /\ Len(s) = GroupSize /\ s[1] = b
              /\ s[2] = c /\ s[3] = d /\ s[4] = e /\ DOMAIN s = 1 .. 4
          BY <1>1, <3>1, <4>1, <5>1 DEF GroupSize
        <5>3. Sound(s) BY <3>1, <4>1, <5>1, <5>2
        <5> QED BY <5>2, <5>3
      <4> QED BY <4>2, <4>3
    <3> QED BY <3>2, <3>3
  <2> QED BY <2>1, <2>2
<1> DEFINE g == Group(b)
<1>4. g \in Groups /\ Sound(g)
  <2> HIDE DEF Groups, Sound
  <2>1. Group(b) = CHOOSE s \in Groups : Sound(s) BY DEF Group, Groups, Sound
  <2> QED BY <1>3, <2>1, Zenon
<1> HIDE DEF g
<1>5. PICK n \in 1 .. GroupSize : g \in [1 .. n -> Block] BY <1>4
<1>6. g \in Seq(Block) /\ Len(g) = n /\ DOMAIN g = 1 .. n /\ n \in Nat /\ n <= 4 /\ n >= 1
  BY <1>5 DEF GroupSize
<1> DEFINE Fits(k) == /\ g[k] \in blocks /\ First(g[k]) < First(rec.new)
                      /\ First(g[k]) = First(b) + (k - 1) * BlockSize
<1>7. Fits(1)
  <2>1. g[1] = b BY <1>4
  <2>2. First(b) \in Nat /\ BlockSize \in Nat BY <1>1, Types, Sizes
  <2> QED BY <2>1, <2>2
<1>8. ASSUME NEW k \in 1 .. 3, Fits(k), k + 1 <= n
      PROVE  Fits(k + 1)
  <2>1. k + 1 \in DOMAIN g \ {1} /\ (k + 1) - 1 = k BY <1>6, <1>8
  <2>2. g[k + 1] = next[g[k]] /\ g[k + 1] # rec.new BY <1>4, <2>1
  <2>3. /\ g[k + 1] \in blocks /\ First(g[k + 1]) = First(g[k]) + BlockSize
        /\ First(g[k + 1]) < First(rec.new)
    BY <1>2, <1>8, <2>2
  <2>4. First(b) \in Nat /\ BlockSize \in Nat BY <1>1, Types, Sizes
  <2>5. First(b) + (k - 1) * BlockSize + BlockSize = First(b) + ((k + 1) - 1) * BlockSize
    BY <1>8, <2>4
  <2> QED BY <1>8, <2>3, <2>5
<1>9. \A k \in 1 .. n : Fits(k)
  <2> HIDE DEF Fits
  <2>1. n >= 2 => Fits(2)
    <3>1. 1 \in 1 .. 3 /\ 1 + 1 = 2 OBVIOUS
    <3> QED BY <1>7, <1>8, <3>1
  <2>2. n >= 3 => Fits(3)
    <3>1. 2 \in 1 .. 3 /\ 2 + 1 = 3 OBVIOUS
    <3> QED BY <1>6, <1>8, <2>1, <3>1
  <2>3. n >= 4 => Fits(4)
    <3>1. 3 \in 1 .. 3 /\ 3 + 1 = 4 OBVIOUS
    <3> QED BY <1>6, <1>8, <2>2, <3>1
  <2> QED BY <1>6, <1>7, <2>1, <2>2, <2>3
<1>10. g[1] = b BY <1>4
<1> HIDE DEF Groups, Sound
<1> QED BY <1>5, <1>6, <1>9, <1>10 DEF g

\* What others see of a step
\* The tokens of S make the step.
Only(S) == \A u \in Tokens \ S : pc'[u] = pc[u] /\ op'[u] = op[u] /\ haz'[u] = haz[u]

\* The list from its head on and the offsets at most grow.
Calm(S) ==
    /\ S \subseteq Tokens /\ Only(S) /\ \A u \in Tokens \ S : lock' = u <=> lock = u
    /\ UNCHANGED <<setup, reclaim_counter>>
    /\ ListHead' = ListHead /\ (head_block' = head_block \/ lock \in S)
    /\ closed = "closed" => closed' = "closed"
    /\ Cut' \in Nat /\ (Cut' = Cut \/ (closed # "closed" /\ Cut = Sold /\ Cut' = Sold'))
    /\ At({"validate"})' => At({"validate"}) /\ rec' = rec
    /\ blocks \subseteq blocks' /\ \A b \in OnList : offset'[b] = offset[b]
    /\ Sold' \in Nat /\ Turn' \in Nat /\ Sold <= Sold' /\ Turn <= Turn'

\* The reclaimer does nothing that matters to others.
Watched == Aiming \cup {"scan", "commit"} \cup Moves
Resting ==
    /\ haz_ptr_counter' \in Nat /\ haz_ptr_counter <= haz_ptr_counter'
    /\ \A b \in blocks : offset'[b] = offset[b]
    /\ \/ /\ At(Watched) /\ lock' = lock /\ rec' = rec
          /\ pc'[lock] = pc[lock] /\ op'[lock].idx = op[lock].idx
       \/ ~At(Watched) /\ ~At(Watched)'

\* Who is to resume whom.
Wakes(t, m) == pc[t] = "wake" /\ Begin(t) + op[t].written = m

\* A token that does nothing is where it was.
LEMMA Same ==
  ASSUME NEW u \in Tokens, pc'[u] = pc[u], op'[u] = op[u], haz'[u] = haz[u]
  PROVE  /\ Begin(u)' = Begin(u) /\ Finish(u)' = Finish(u) /\ Ahead(u)' = Ahead(u)
         /\ Search(u)' = Search(u) /\ Active(u)' = Active(u) /\ LastPos(u)' = LastPos(u)
         /\ Field(u)' = Field(u) /\ Posting(u)' = Posting(u)
         /\ Sender(u)' = Sender(u) /\ Drawn(u)' = Drawn(u) /\ Reclaimer(u)' = Reclaimer(u)
         /\ Reader(u)' = Reader(u) /\ Unaware(u)' = Unaware(u) /\ Member(u)' = Member(u)
         /\ Named(u)' = Named(u)
         /\ \A m : /\ Owns(u, m)' = Owns(u, m) /\ Takes(u, m)' = Takes(u, m)
                   /\ Suspended(u, m)' = Suspended(u, m) /\ Swept(u, m)' = Swept(u, m)
                   /\ Wakes(u, m)' = Wakes(u, m)
<1>1. /\ Begin(u)' = Begin(u) /\ Search(u)' = Search(u) /\ Active(u)' = Active(u)
      /\ Posting(u)' = Posting(u) /\ Reclaimer(u)' = Reclaimer(u)
  BY DEF Begin, Search, Active, Posting, Reclaimer
<1>2. /\ Finish(u)' = Finish(u) /\ Ahead(u)' = Ahead(u) /\ Field(u)' = Field(u)
  BY <1>1 DEF Finish, Ahead, Field
<1>3. LastPos(u)' = LastPos(u) BY <1>1, <1>2 DEF LastPos
<1>4. Drawn(u)' = Drawn(u) /\ Sender(u)' = Sender(u) /\ Member(u)' = Member(u)
  BY <1>1 DEF Drawn, Sender, Member
<1>5. Reader(u)' = Reader(u) /\ Unaware(u)' = Unaware(u) /\ Named(u)' = Named(u)
  BY <1>1, <1>4 DEF Reader, Unaware, Named
<1>6. ASSUME NEW m
      PROVE  /\ Owns(u, m)' = Owns(u, m) /\ Takes(u, m)' = Takes(u, m)
             /\ Suspended(u, m)' = Suspended(u, m) /\ Swept(u, m)' = Swept(u, m)
             /\ Wakes(u, m)' = Wakes(u, m)
  BY <1>1, <1>2, <1>4, <1>5 DEF Owns, Takes, Suspended, Swept, Wakes
<1> QED BY <1>1, <1>2, <1>3, <1>4, <1>5, <1>6

\* What is shared, for the others.
LEMMA Shared ==
  ASSUME Running, NEW S, Calm(S)
  PROVE  /\ ListHead \in OnList /\ head_block \in OnList /\ OnList \subseteq blocks
         /\ First(ListHead)' = First(ListHead)
         /\ \A b \in OnList : b \in blocks' /\ b \in OnList' /\ First(b)' = First(b)
         /\ \A m \in Nat : Reaches(m) => Reaches(m)'
         /\ closed = "closed" => Cut' = Cut
         /\ Cut <= Cut' /\ Cut \in Nat /\ Cut' \in Nat
<1>1. TypeOK /\ Linked /\ Heads BY DEF Running
<1>2. /\ ListHead \in blocks /\ First(ListHead) \in Nat /\ head_block \in OnList
      /\ OnList \subseteq blocks /\ \A b \in blocks : First(b) \in Nat
  BY <1>1, Types DEF Linked, Heads
<1>3. ListHead \in OnList BY <1>2 DEF OnList
<1>4. \A b \in OnList : First(b)' = First(b) BY DEF Calm, First
<1>5. First(ListHead)' = First(ListHead) BY <1>3 DEF Calm, First
<1>6. \A b \in OnList : b \in blocks' /\ b \in OnList' BY <1>4, <1>5 DEF OnList, Calm
<1>7. ASSUME NEW m \in Nat, Reaches(m) PROVE Reaches(m)'
  <2>1. PICK b \in blocks : m < First(b) + BlockSize BY <1>7 DEF Reaches
  <2>2. CASE b \in OnList
    <3>1. b \in blocks' /\ m < First(b)' + BlockSize BY <1>4, <1>6, <2>1, <2>2
    <3> QED BY <3>1 DEF Reaches
  <2>3. CASE b \notin OnList
    <3>1. First(b) < First(ListHead) BY <1>2, <2>3 DEF OnList
    <3>2. m < First(ListHead) + BlockSize BY <1>2, <2>1, <3>1, Sizes
    <3>4. PICK h : h = ListHead OBVIOUS
    <3>5. h \in blocks' /\ m < First(h)' + BlockSize BY <1>3, <1>4, <1>6, <3>2, <3>4
    <3> QED BY <3>5 DEF Reaches
  <2> QED BY <2>2, <2>3
<1>8. closed = "closed" => Cut' = Cut BY DEF Calm
<1>9. Cut <= Cut' /\ Cut \in Nat /\ Cut' \in Nat
  <2>1. Cut \in Nat BY Bounds
  <2> QED BY <2>1 DEF Calm
<1> QED BY <1>2, <1>3, <1>4, <1>5, <1>6, <1>7, <1>8, <1>9

\* A member has its blocks, and who has drawn is a member.
LEMMA Members ==
  ASSUME Running, NEW u \in Tokens
  PROVE  /\ Acquired(u) => Member(u)
         /\ Drawn(u) => Acquired(u)
         /\ pc[u] \in Walking => Drawn(u)
         /\ Member(u) => \A f \in Fields : haz[u][f] \in blocks
         /\ Member(u) => haz[u].write_block \in blocks /\ haz[u].read_block \in blocks
<1>1. Control(u) /\ Acquires(u) /\ Has(u) /\ OnList \subseteq blocks BY Types DEF Running, Token
<1>2. Acquired(u) => Member(u) BY DEF Acquired, Member, Uncounted
<1>3. Drawn(u) => Acquired(u)
  <2>1. Reclaimer(u) => pc[u] \in Reclaiming /\ op[u].name # "close" BY DEF Reclaimer
  <2> QED
    BY <1>1, <2>1 DEF Drawn, Acquired, Control, Walking, Writing, Polling, Reading, Closing, Sweeping,
       Reclaiming, Scanning, Visiting, Announcing, Moves
<1>4. pc[u] \in Walking => Drawn(u) BY DEF Drawn
<1>5. Member(u) => haz[u].write_block \in blocks /\ haz[u].read_block \in blocks
  <2>1. CASE pc[u] = "recheck" BY <1>1, <2>1 DEF Acquires
  <2>2. CASE pc[u] # "recheck"
    <3>1. Member(u) => Acquired(u) BY <2>2 DEF Member, Acquired, Uncounted
    <3> QED BY <1>1, <3>1 DEF Has
  <2> QED BY <2>1, <2>2
<1> QED BY <1>2, <1>3, <1>4, <1>5 DEF Fields

\* The others' part of the invariant stays, save what a pull waits for and what
\* the reclaimer knows.
LEMMA OthersKeep ==
  ASSUME Running, NEW S, Calm(S), NEW u \in Tokens \ S
  PROVE  Control(u)' /\ Closer(u)' /\ Post(u)' /\ Acquires(u)' /\ Has(u)' /\ Uses(u)'
<1> HIDE DEF Running, Calm
<1>1. /\ TypeOK /\ Control(u) /\ Closer(u) /\ Post(u) /\ Acquires(u) /\ Has(u) /\ Uses(u)
      /\ Linked /\ Heads /\ Numbers /\ Reclaim
  BY DEF Running, Token
<1>2. /\ lock' = u <=> lock = u
      /\ closed = "closed" => closed' = "closed"
      /\ ListHead' = ListHead
      /\ \A b \in OnList : b \in blocks' /\ First(b)' = First(b)
      /\ blocks \subseteq blocks'
      /\ OnList \subseteq OnList'
      /\ \A m \in Nat : Reaches(m) => Reaches(m)'
      /\ Cut' = Cut \/ (closed # "closed" /\ Cut = Sold /\ Cut' = Sold')
      /\ closed = "closed" => Cut' = Cut
      /\ Cut <= Cut' /\ Cut' \in Nat
  BY Shared DEF Calm
<1>3. /\ pc'[u] = pc[u] /\ op'[u] = op[u] /\ haz'[u] = haz[u] /\ reclaim_counter' = reclaim_counter
      /\ Sold \in Nat /\ Turn \in Nat /\ Sold' \in Nat /\ Turn' \in Nat /\ Sold <= Sold' /\ Turn <= Turn'
      /\ Cut \in Nat /\ Cut <= Sold /\ ListHead \in OnList /\ OnList \subseteq blocks /\ head_block \in OnList
  BY <1>1, Bounds, Types, Shared DEF Calm, Only
<1>4. /\ Begin(u)' = Begin(u) /\ Finish(u)' = Finish(u) /\ Ahead(u)' = Ahead(u)
      /\ Search(u)' = Search(u) /\ Active(u)' = Active(u) /\ LastPos(u)' = LastPos(u)
      /\ Field(u)' = Field(u) /\ Posting(u)' = Posting(u)
      /\ Sender(u)' = Sender(u) /\ Drawn(u)' = Drawn(u) /\ Reclaimer(u)' = Reclaimer(u)
      /\ Reader(u)' = Reader(u) /\ Unaware(u)' = Unaware(u) /\ Member(u)' = Member(u)
      /\ Named(u)' = Named(u)
  BY <1>3, Same
<1>5. /\ Begin(u) \in Nat /\ Finish(u) \in Nat /\ Search(u) \in Nat /\ Active(u) \in Nat
      /\ op[u].count \in Nat /\ op[u].written \in Nat /\ Pos(op[u].end) \in Nat
  BY <1>1, <1>3, Types
<1>6. Control(u)' BY <1>1, <1>2, <1>3, <1>4 DEF Control
<1>7. Closer(u)'
  <2>1. pc[u] \in Sweeping => First(op[u].walk)' = First(op[u].walk)
    BY <1>1, <1>2, <1>3 DEF Closer, First
  <2>2. pc[u] \in {"load_readers"} \cup Sweeping => closed = "closed" BY <1>1 DEF Closer
  <2>3. pc[u] \in {"publish", "load_readers"} => First(head_block)' = First(head_block)
    <3>1. pc[u] \in {"publish", "load_readers"} => lock = u BY <1>1 DEF Control, Closing
    <3>2. lock = u => head_block' = head_block BY DEF Calm
    <3>3. PICK h : h = head_block OBVIOUS
    <3>4. First(h)' = First(h) BY <1>2, <1>3, <3>3
    <3> QED BY <3>1, <3>2, <3>3, <3>4
  <2>4. /\ pc'[u] \in {"load_readers"} \cup Sweeping => closed' = "closed"
        /\ pc'[u] = "load_readers" => Begin(u)' = Cut'
        /\ pc'[u] \in {"publish", "load_readers"} => First(head_block)' <= Begin(u)'
    BY <1>1, <1>2, <1>3, <1>4, <2>2, <2>3 DEF Closer
  <2>5. ASSUME pc'[u] \in Sweeping
        PROVE  /\ Cut' <= Begin(u)' /\ Begin(u)' < Pos(op'[u].end) /\ Pos(op'[u].end) <= Turn'
               /\ op'[u].walk \in OnList' /\ First(op[u].walk) <= Base(Begin(u)')
    BY <1>1, <1>2, <1>3, <1>4, <1>5, <2>2, <2>5 DEF Closer
  <2>6. pc'[u] = "spin" => First(op[u].walk) = Base(Begin(u)') BY <1>1, <1>3, <1>4 DEF Closer
  <2>7. pc'[u] \in Sweeping => First(op[u].walk)' = First(op[u].walk) /\ op'[u].walk = op[u].walk
    BY <1>3, <2>1
  <2>8. pc'[u] = "spin" => pc'[u] \in Sweeping BY DEF Sweeping
  <2> QED BY <1>3, <2>1, <2>4, <2>5, <2>6, <2>7, <2>8 DEF Closer
<1>8. Post(u)' BY <1>1, <1>2, <1>3, <1>4, <1>5 DEF Post
<1>9. ASSUME NEW b \in blocks, Good(b)
      PROVE  Good(b)'
  <2>1. First(b) \in Nat /\ b \in OnList /\ First(b)' = First(b)
    BY <1>1, <1>2, <1>9, Types DEF Good
  <2>2. At({"validate"})' => At({"validate"}) /\ First(rec.new)' = First(rec.new)
    <3>1. At({"validate"})' => At({"validate"}) /\ rec' = rec BY DEF Calm
    <3>2. At({"validate"}) => rec.new \in OnList
      <4>1. At({"validate"}) => rec.new = head_block BY <1>1 DEF Reclaim, At, Announcing
      <4> QED BY <1>3, <4>1
    <3>3. PICK h : h = rec.new OBVIOUS
    <3>4. At({"validate"}) => First(h)' = First(h) BY <1>2, <3>2, <3>3
    <3> QED BY <3>1, <3>3, <3>4
  <2> QED BY <1>2, <1>3, <1>9, <2>1, <2>2 DEF Good
<1>10. Acquires(u)'
  <2>1. Settled(u)' = Settled(u) BY <1>3 DEF Settled
  <2>2. First(ListHead)' = First(ListHead) BY <1>2, <1>3 DEF First
  <2>3. pc'[u] \in {"load_head", "init"} => Pos(op'[u].boff) <= First(ListHead)'
    BY <1>1, <1>3, <2>2 DEF Acquires
  <2>4. pc[u] = "init" => op[u].block \in blocks /\ (Settled(u) => Good(op[u].block))
    BY <1>1 DEF Acquires
  <2>5. pc[u] = "init" => op'[u].block \in blocks' /\ (Settled(u) => Good(op[u].block)')
    BY <1>2, <1>3, <1>9, <2>4
  <2>8. pc[u] \in {"count", "recheck"} =>
          /\ {haz[u].write_block, haz[u].read_block} \subseteq blocks
          /\ Settled(u) =>
                /\ Good(haz[u].write_block) /\ Good(haz[u].read_block)
                /\ Pos(haz[u].next_protect_write) <= First(haz[u].write_block)
                /\ Pos(haz[u].next_protect_read) <= First(haz[u].read_block)
    BY <1>1 DEF Acquires
  <2>9. PICK w, r : w = haz[u].write_block /\ r = haz[u].read_block OBVIOUS
  <2>10. pc[u] \in {"count", "recheck"} =>
          /\ {w, r} \subseteq blocks'
          /\ Settled(u) =>
                /\ Good(w)' /\ Good(r)'
                /\ Pos(haz[u].next_protect_write) <= First(w)'
                /\ Pos(haz[u].next_protect_read) <= First(r)'
    BY <1>2, <1>9, <2>8, <2>9 DEF Good
  <2>11. haz'[u].write_block = w /\ haz'[u].read_block = r BY <1>3, <2>9
  <2> QED BY <1>3, <2>1, <2>3, <2>5, <2>10, <2>11 DEF Acquires
<1>11. First(ListHead)' = First(ListHead) BY <1>2, <1>3 DEF First
<1>12. Has(u)'
  <2>1. PICK w, r : w = haz[u].write_block /\ r = haz[u].read_block OBVIOUS
  <2>2. haz'[u].write_block = w /\ haz'[u].read_block = r BY <1>3, <2>1
  <2>3. Acquired(u)' = Acquired(u) BY <1>3 DEF Acquired, Settled
  <2>4. Acquired(u) =>
          /\ {w, r} \subseteq OnList
          /\ First(w) <= Sold /\ First(r) <= Turn
          /\ Pos(haz[u].next_protect_write) <= First(w)
          /\ Pos(haz[u].next_protect_read) <= First(r)
    BY <1>1, <2>1 DEF Has
  <2>5. Acquired(u) => First(w) \in Nat /\ First(r) \in Nat /\ w \in blocks /\ r \in blocks
    BY <1>1, <1>3, <2>4, Types
  <2>6. Acquired(u) =>
          /\ {w, r} \subseteq OnList'
          /\ First(w)' <= Sold' /\ First(r)' <= Turn'
          /\ Pos(haz'[u].next_protect_write) <= First(w)'
          /\ Pos(haz'[u].next_protect_read) <= First(r)'
    BY <1>2, <1>3, <2>4, <2>5
  <2>7. \A f \in Fields : haz[u][f] # Null => haz[u][f] \in blocks /\ Near(haz[u].active_offset)
    BY <1>1 DEF Has
  <2>8. \A f \in Fields : haz'[u][f] # Null => haz'[u][f] \in blocks' /\ Near(haz[u].active_offset)'
    BY <1>2, <1>3, <2>7 DEF Near
  <2> QED BY <2>2, <2>3, <2>6, <2>8 DEF Has
<1>13. Uses(u)'
  <2>1. pc[u] = "draw" \/ Drawn(u) => \A f \in Fields : haz[u][f] \in OnList
    <3>1. pc[u] = "draw" \/ Drawn(u) => Acquired(u)
      BY <1>1, Members DEF Acquired, Control, Closing, Sweeping
    <3> QED BY <1>1, <3>1 DEF Has, Fields
  <2>2. Field(u) \in Fields BY DEF Field, Fields
  <2>3. pc[u] = "draw" \/ Drawn(u) => From(u)' = From(u)
    <3>1. PICK f : f = Field(u) OBVIOUS
    <3>2. PICK b : b = haz[u][f] OBVIOUS
    <3>3. Field(u)' = f /\ haz'[u][f] = b BY <1>3, <1>4, <3>1, <3>2
    <3>4. pc[u] = "draw" \/ Drawn(u) => First(b)' = First(b) BY <1>2, <2>1, <2>2, <3>1, <3>2
    <3> QED BY <3>1, <3>2, <3>3, <3>4 DEF From
  <2>4. PICK walk, block : walk = op[u].walk /\ block = op[u].block OBVIOUS
  <2>5. op'[u].walk = walk /\ op'[u].block = block /\ op'[u].written = op[u].written
    BY <1>3, <2>4
  <2>6. pc'[u] = pc[u] BY <1>3
  <2>7. /\ pc[u] = "draw" \/ Drawn(u) => Active(u) <= From(u)
        /\ Drawn(u) => First(ListHead) <= Base(Begin(u)) /\ Active(u) <= Base(Begin(u))
        /\ pc[u] \in Seeking => From(u) <= Base(Begin(u))
        /\ pc[u] \in Seeking => Drawn(u)
    BY <1>1 DEF Uses, Seeking, Drawn
  <2>8. /\ pc[u] = "draw" \/ Drawn(u) => Active(u)' <= From(u)'
        /\ Drawn(u) => First(ListHead)' <= Base(Begin(u)') /\ Active(u)' <= Base(Begin(u)')
        /\ pc[u] \in Seeking => From(u)' <= Base(Begin(u)')
    BY <1>4, <1>11, <2>3, <2>7
  <2>9. /\ pc[u] \in Walking =>
              /\ walk \in OnList /\ First(ListHead) <= Search(u)
              /\ Search(u) \in Starts /\ Active(u) <= Search(u) /\ Search(u) <= First(walk)
        /\ pc[u] \in {"check_closed", "seek"} => First(walk) <= Base(Begin(u))
        /\ pc[u] = "reserve" =>
              /\ block \in OnList /\ First(block) = Base(Begin(u))
              /\ First(block) <= First(walk) /\ First(walk) <= Base(LastPos(u))
    BY <1>1, <2>4 DEF Uses
  <2>10. /\ pc[u] \in Walking => First(walk)' = First(walk)
         /\ pc[u] = "reserve" => First(block)' = First(block) /\ pc[u] \in Walking
         /\ pc[u] \in {"check_closed", "seek"} => pc[u] \in Walking
    BY <1>2, <1>3, <2>9 DEF Walking
  <2>11. /\ pc[u] \in Walking =>
               /\ walk \in OnList' /\ First(ListHead)' <= Search(u)'
               /\ Search(u)' \in Starts /\ Active(u)' <= Search(u)' /\ Search(u)' <= First(walk)'
         /\ pc[u] \in {"check_closed", "seek"} => First(walk)' <= Base(Begin(u)')
         /\ pc[u] = "reserve" =>
               /\ block \in OnList' /\ First(block)' = Base(Begin(u)')
               /\ First(block)' <= First(walk)' /\ First(walk)' <= Base(LastPos(u)')
    BY <1>2, <1>4, <1>11, <2>9, <2>10
  <2>12. /\ pc[u] \in {"write", "wake", "claim"} \cup Reading \/ Reclaimer(u) =>
              block \in OnList /\ First(block) = Base(Begin(u) + op[u].written)
         /\ pc[u] = "claim" => Search(u) <= First(block) /\ block \in OnList
         /\ pc[u] = "cross" => block \in OnList /\ First(block) + BlockSize = Begin(u) + op[u].written
    BY <1>1, <2>4 DEF Uses
  <2>13. block \in OnList => First(block)' = First(block) /\ block \in OnList' BY <1>2, <1>3
  <2>14. /\ pc[u] \in {"write", "wake", "claim"} \cup Reading \/ Reclaimer(u) =>
              block \in OnList' /\ First(block)' = Base(Begin(u)' + op[u].written)
         /\ pc[u] = "claim" => Search(u)' <= First(block)'
         /\ pc[u] = "cross" => block \in OnList' /\ First(block)' + BlockSize = Begin(u)' + op[u].written
    BY <1>4, <2>12, <2>13
  <2>15. pc[u] \in Writing => Reaches(Finish(u) - 1)'
    <3>1. pc[u] \in Writing => op[u].count > 0 /\ Reaches(Finish(u) - 1)
      <4>1. pc[u] \in Writing => op[u].count > 0
        <5>1. op[u].written <= op[u].count BY <1>1 DEF TypeOK
        <5> QED BY <1>1, <1>5, <5>1 DEF Control, Writing
      <4> QED BY <1>1, <4>1 DEF Uses
    <3>2. PICK n : n = Finish(u) - 1 OBVIOUS
    <3>3. pc[u] \in Writing => n \in Nat BY <1>1, <1>5, <3>1, <3>2, Types
    <3>4. pc[u] \in Writing => Reaches(n)' BY <1>2, <3>1, <3>2, <3>3
    <3>5. Finish(u)' - 1 = n BY <1>4, <3>2
    <3> QED BY <3>4, <3>5
  <2> QED BY <1>4, <2>5, <2>6, <2>8, <2>11, <2>14, <2>15, Zenon DEF Uses
<1> QED BY <1>6, <1>7, <1>8, <1>10, <1>12, <1>13

\* What the reclaimer knows of the others.
LEMMA MetKeeps ==
  ASSUME Running, NEW S, Calm(S), Resting, NEW u \in Tokens \ S
  PROVE  Met(u)'
<1> HIDE DEF Running, Calm, Resting
<1>1. TypeOK /\ Met(u) /\ Linked /\ Reclaim BY DEF Running, Token
<1>2. SUFFICES ASSUME At(Watched)'
               PROVE  Met(u)'
  <2>1. CASE ~At(Watched)'
    <3>1. \A P \in SUBSET Watched : ~At(P)' BY <2>1 DEF At
    <3>2. /\ ~At({"scan"})' /\ ~At(Visiting)' /\ ~At(Announcing)' /\ ~At(Aiming)'
          /\ ~At({"swap", "revalidate"})'
      BY <3>1 DEF Watched, Aiming, Visiting
    <3> QED BY <3>2 DEF Met
  <2> QED BY <2>1
<1>3. /\ lock' = lock /\ rec' = rec /\ pc'[lock] = pc[lock] /\ op'[lock].idx = op[lock].idx
      /\ At(Watched)
  BY <1>2 DEF Resting
<1>4. /\ \A places : At(places)' = At(places)
      /\ Limit' = Limit /\ Begin(lock)' = Begin(lock)
  BY <1>3 DEF At, Limit, Begin
<1>5. \A b \in blocks : First(b)' = First(b) BY DEF Resting, First
<1>6. NobodyCame' => NobodyCame
  <2>1. rec.count \in Nat /\ haz_ptr_counter \in Nat /\ rec.count <= haz_ptr_counter
    BY <1>1 DEF TypeOK, RecType
  <2> QED BY <1>3, <2>1 DEF NobodyCame, Resting
<1>7. At({"scan"}) => Spoiled' = Spoiled
  <2> SUFFICES ASSUME At({"scan"})
               PROVE  Spoiled' = Spoiled
    OBVIOUS
  <2>1. rec.old \in blocks BY <1>1, Bounds DEF Reclaim
  <2>2. First(rec.old)' = First(rec.old) BY <1>3, <1>5, <2>1 DEF First
  <2> QED BY <1>3, <1>4, <2>2 DEF Spoiled
<1>8. /\ lock' = lock /\ rec' = rec /\ pc'[lock] = pc[lock] /\ Begin(lock)' = Begin(lock)
      /\ \A places : At(places)' = At(places)
      /\ Limit' = Limit
      /\ \A b \in blocks : First(b)' = First(b)
      /\ NobodyCame' => NobodyCame
      /\ At({"scan"}) => Spoiled' = Spoiled
  BY <1>3, <1>4, <1>5, <1>6, <1>7
<1>9. /\ pc'[u] = pc[u] /\ op'[u] = op[u] /\ haz'[u] = haz[u] /\ OnList \subseteq blocks
  BY <1>1, Types DEF Calm, Only
<1>10. /\ Begin(u)' = Begin(u) /\ Search(u)' = Search(u) /\ Active(u)' = Active(u)
      /\ Field(u)' = Field(u) /\ Drawn(u)' = Drawn(u) /\ Member(u)' = Member(u)
  BY <1>9, Same
<1>11. /\ Drawn(u) => Member(u)
       /\ pc[u] \in Walking => Drawn(u)
       /\ Member(u) => \A f \in Fields : haz[u][f] \in blocks
  BY Members
<1>12. \A f \in Fields : haz[u][f] \in blocks => First(haz[u][f])' = First(haz[u][f])
  <2> SUFFICES ASSUME NEW f \in Fields, haz[u][f] \in blocks
               PROVE  First(haz[u][f])' = First(haz[u][f])
    OBVIOUS
  <2>1. PICK b : b = haz[u][f] OBVIOUS
  <2>2. haz'[u][f] = b /\ First(b)' = First(b) BY <1>8, <1>9, <2>1
  <2> QED BY <2>1, <2>2
<1>13. Field(u) \in Fields BY DEF Field, Fields
<1>14. pc[u] \in Walking => From(u)' = From(u)
  <2>1. PICK f : f = Field(u) OBVIOUS
  <2>2. PICK b : b = haz[u][f] OBVIOUS
  <2>3. Field(u)' = f /\ haz'[u][f] = b BY <1>9, <1>10, <2>1, <2>2
  <2>4. pc[u] \in Walking => First(b)' = First(b) BY <1>8, <1>11, <1>13, <2>1, <2>2
  <2> QED BY <2>1, <2>2, <2>3, <2>4 DEF From
<1>15. \A places : At(places) => pc'[lock] = pc[lock] /\ Begin(lock)' = Begin(lock) BY <1>8
<1>16. At({"scan"})' /\ ~Spoiled' /\ u \notin rec'.todo => Scanned(u)'
  <2> SUFFICES ASSUME At({"scan"}), ~Spoiled, u \notin rec.todo
               PROVE  Scanned(u)'
    BY <1>8
  <2>1. Scanned(u) BY <1>1 DEF Met
  <2>2. Begin(lock)' = Begin(lock) BY <1>15
  <2> QED BY <1>8, <1>9, <1>10, <1>14, <2>1, <2>2 DEF Scanned
<1>17. At(Visiting)' /\ NobodyCame' /\ Member(u)' => \A f \in Fields : Visited(u, f)'
  <2> SUFFICES ASSUME At(Visiting), NobodyCame, Member(u), NEW f \in Fields
               PROVE  Visited(u, f)'
    BY <1>8, <1>10
  <2>1. Visited(u, f) BY <1>1 DEF Met
  <2>2. pc'[lock] = pc[lock] BY <1>15
  <2>3. Pending(u, f)' = Pending(u, f) BY <1>8, <2>2 DEF Pending
  <2>4. Unsure(u, f)' = Unsure(u, f) BY <1>8, <2>2, <2>3 DEF Unsure
  <2>5. First(haz[u][f])' = First(haz[u][f]) BY <1>11, <1>12
  <2> QED BY <1>8, <1>9, <1>10, <2>1, <2>3, <2>4, <2>5 DEF Visited
<1>18. \A places : At(places) /\ (places = Aiming \/ places = Announcing) => First(rec.new)' = First(rec.new)
  <2>1. At(Announcing) => At(Aiming) BY DEF At, Aiming
  <2>2. At(Aiming) => rec.new \in OnList BY <1>1 DEF Reclaim
  <2>3. At(Aiming) => First(rec.new)' = First(rec.new) BY <1>8, <1>9, <2>2 DEF First
  <2> QED BY <2>1, <2>3
<1>19. At(Announcing)' /\ NobodyCame' /\ Member(u)' => Clear(u)'
  <2> SUFFICES ASSUME At(Announcing), NobodyCame, Member(u)
               PROVE  Clear(u)'
    BY <1>8, <1>10
  <2>1. Clear(u) BY <1>1 DEF Met
  <2>2. First(rec.new)' = First(rec.new) BY <1>18
  <2>3. \A f \in Fields : First(haz[u][f])' = First(haz[u][f]) BY <1>11, <1>12
  <2> QED BY <1>9, <1>10, <2>1, <2>2, <2>3 DEF Clear
<1>20. At(Aiming)' /\ Drawn(u)' => First(rec.new)' <= Base(Begin(u))'
  <2> SUFFICES ASSUME At(Aiming), Drawn(u)
               PROVE  First(rec.new)' <= Base(Begin(u)')
    BY <1>8, <1>10
  <2>1. First(rec.new) <= Base(Begin(u)) BY <1>1 DEF Met
  <2>2. First(rec.new)' = First(rec.new) BY <1>18
  <2> QED BY <1>10, <2>1, <2>2
<1>21. At({"swap", "revalidate"})' /\ u = rec'.at => Near(haz[u].active_offset)'
  BY <1>1, <1>8, <1>9 DEF Met, Near
<1> QED BY <1>16, <1>17, <1>19, <1>20, <1>21, Zenon DEF Met

\* What a step leaves alone
\* Nobody can tell from the calls of S that there was a step: what posts past the
\* cutoff have drawn does not count.
Seen(S) ==
    \A u \in S :
        /\ \A m \in Nat : /\ m < Cut => (Owns(u, m)' <=> Owns(u, m))
                          /\ Takes(u, m)' = Takes(u, m)
                          /\ Suspended(u, m)' = Suspended(u, m) /\ Swept(u, m)' = Swept(u, m)
                          /\ Wakes(u, m)' = Wakes(u, m)
        /\ Sender(u)' /\ op'[u].count > 0 =>
              Sender(u) /\ Begin(u)' = Begin(u) /\ op'[u].count = op[u].count
        /\ Reader(u)' => Reader(u) /\ Begin(u)' = Begin(u)

\* Then all calls are as they were.
LEMMA ViewsKeep ==
  ASSUME NEW S \in SUBSET Tokens, Only(S), Seen(S)
  PROVE  /\ Seen(Tokens)
         /\ \A m \in Nat : Taken(m)' = Taken(m)
         /\ Cut' = Cut => \A m \in Nat : Done(m)' = Done(m)
         /\ SendersApart => SendersApart'
         /\ ReadersApart => ReadersApart'
<1>1. Seen(Tokens)
  <2>1. ASSUME NEW u \in Tokens \ S
        PROVE  Seen({u})
    <3>1. /\ Begin(u)' = Begin(u) /\ Sender(u)' = Sender(u) /\ Reader(u)' = Reader(u)
          /\ \A m : /\ Owns(u, m)' = Owns(u, m) /\ Takes(u, m)' = Takes(u, m)
                    /\ Suspended(u, m)' = Suspended(u, m) /\ Swept(u, m)' = Swept(u, m)
                    /\ Wakes(u, m)' = Wakes(u, m)
      BY Same DEF Only
    <3>2. op'[u].count = op[u].count BY DEF Only
    <3> QED BY <3>1, <3>2 DEF Seen
  <2> QED BY <2>1 DEF Seen
<1>2. ASSUME NEW m \in Nat
      PROVE  Taken(m)' = Taken(m) /\ (Cut' = Cut => Done(m)' = Done(m))
  <2>1. \A u \in Tokens : (m < Cut => (Owns(u, m)' <=> Owns(u, m))) /\ Takes(u, m)' = Takes(u, m)
    BY <1>1 DEF Seen
  <2>2. Taken(m)' = Taken(m) BY <2>1 DEF Taken
  <2>3. Cut' = Cut => Done(m)' = Done(m) BY <2>1 DEF Done
  <2> QED BY <2>2, <2>3
<1>3. SendersApart => SendersApart'
  <2>1. \A u \in Tokens : Sender(u)' /\ op'[u].count > 0 =>
           Sender(u) /\ Begin(u)' = Begin(u) /\ op'[u].count = op[u].count /\ Finish(u)' = Finish(u)
    BY <1>1 DEF Seen, Finish
  <2> QED BY <2>1 DEF SendersApart
<1>4. ReadersApart => ReadersApart'
  <2>1. \A u \in Tokens : Reader(u)' => Reader(u) /\ Begin(u)' = Begin(u) BY <1>1 DEF Seen
  <2> QED BY <2>1 DEF ReadersApart
<1> QED BY <1>1, <1>2, <1>3, <1>4

\* What a pull waits for.
LEMMA PullsKeep ==
  ASSUME Running, NEW S, Calm(S), NEW u \in Tokens \ S,
         closed' = "closed" => closed = "closed",
         \A m \in Nat : Done(m) => Done(m)',
         \A w \in S : Unaware(u) /\ Swept(w, Begin(u)) => Swept(w, Begin(u))'
  PROVE  Pull(u)' /\ Sought(u)'
<1> HIDE DEF Running, Calm
<1>1. TypeOK /\ Pull(u) /\ Sought(u) BY DEF Running, Token
<1>2. /\ pc'[u] = pc[u] /\ op'[u] = op[u] /\ haz'[u] = haz[u]
      /\ \A w \in Tokens \ S : pc'[w] = pc[w] /\ op'[w] = op[w] /\ haz'[w] = haz[w]
  BY DEF Calm, Only
<1>3. /\ Begin(u)' = Begin(u) /\ Drawn(u)' = Drawn(u) /\ Reader(u)' = Reader(u) /\ Unaware(u)' = Unaware(u)
  BY <1>2, Same
<1>4. /\ closed = "closed" => closed' = "closed" /\ Cut' = Cut
      /\ Turn <= Turn' /\ Sold <= Sold'
      /\ {Turn, Sold, Turn', Sold', Begin(u), Pos(op[u].end)} \subseteq Nat
  BY <1>1, Types, Shared DEF Calm
<1>5. Pull(u)'
  <2>1. op'[u].name \in {"pull", "try_pull"} /\ Drawn(u)' => Skip <= Begin(u)' /\ Begin(u)' <= Turn'
    BY <1>1, <1>2, <1>3, <1>4 DEF Pull
  <2>2. Reader(u)' => Begin(u)' < Turn' BY <1>1, <1>2, <1>3, <1>4 DEF Pull
  <2>3. op'[u].name = "try_pull" /\ pc'[u] \in {"load_block", "seek", "claim", "reread", "status", "try_lock"} =>
          Pos(op'[u].end) <= Sold'
    BY <1>1, <1>2, <1>3, <1>4 DEF Pull
  <2>4. pc'[u] \in {"claim", "holding"} \/ (op'[u].name = "try_pull" /\ Reader(u)') => Done(Begin(u))'
    <3>1. PICK m : m = Begin(u) OBVIOUS
    <3>2. pc'[u] \in {"claim", "holding"} \/ (op'[u].name = "try_pull" /\ Reader(u)') => Done(m)'
      BY <1>1, <1>2, <1>3, <1>4, <3>1 DEF Pull
    <3> QED BY <1>3, <3>1, <3>2 DEF Done
  <2>5. op'[u].name = "pull" /\ pc'[u] = "seek" /\ op'[u].past => closed' = "closed" /\ Cut' <= Begin(u)'
    BY <1>1, <1>2, <1>3, <1>4 DEF Pull
  <2> QED BY <2>1, <2>2, <2>3, <2>4, <2>5 DEF Pull
<1>6. Sought(u)'
  <2> SUFFICES ASSUME Unaware(u), closed' = "closed", Cut' <= Begin(u)
               PROVE  \E w \in Tokens : Swept(w, Begin(u))'
    BY <1>3 DEF Sought
  <2>1. PICK w \in Tokens : Swept(w, Begin(u)) BY <1>1, <1>4 DEF Sought
  <2>2. PICK m : m = Begin(u) OBVIOUS
  <2>3. Swept(w, m)'
    <3>1. CASE w \in S
      <4>1. Swept(w, Begin(u))' BY <2>1, <3>1
      <4> QED BY <1>3, <2>2, <4>1 DEF Swept
    <3>2. CASE w \notin S
      <4>1. Swept(w, m)' = Swept(w, m) BY <1>2, <3>2, Same
      <4> QED BY <2>1, <2>2, <4>1
    <3> QED BY <3>1, <3>2
  <2> QED BY <1>3, <2>2, <2>3 DEF Swept
<1> QED BY <1>5, <1>6

\* Who waits in a flag stays there.
LEMMA ParksKeep ==
  ASSUME Running, NEW S \in SUBSET Tokens, Only(S), Seen(S), NEW u \in Tokens \ S, Cut' = Cut,
         pc[u] = "parked" => flags'[op[u].block][IndexOf(op[u].idx)] = u
  PROVE  Parks(u)'
<1> HIDE DEF Running
<1>1. TypeOK /\ Parks(u) BY DEF Running, Token
<1>2. pc'[u] = pc[u] /\ op'[u] = op[u] /\ haz'[u] = haz[u] BY DEF Only
<1>3. Begin(u)' = Begin(u) /\ Begin(u) \in Nat /\ op[u].written \in Nat
  BY <1>1, <1>2, Same, Types
<1>4. /\ \A m \in Nat : Done(m)' = Done(m)
      /\ \A w \in Tokens, m \in Nat : Suspended(w, m)' = Suspended(w, m) /\ Wakes(w, m)' = Wakes(w, m)
  BY ViewsKeep DEF Seen
<1>5. PICK m, k : m = Begin(u) /\ k = Begin(u) + op[u].written OBVIOUS
<1>6. m \in Nat /\ k \in Nat BY <1>3, <1>5
<1>7. ASSUME pc'[u] = "parked", Done(m)'
      PROVE  \E w \in Tokens : pc'[w] = "wake" /\ Begin(w)' + op'[w].written = m
  <2>1. PICK w \in Tokens : Wakes(w, m) BY <1>1, <1>2, <1>4, <1>5, <1>6, <1>7 DEF Parks, Wakes
  <2>2. Wakes(w, m)' BY <1>4, <1>6, <2>1
  <2> QED BY <2>2 DEF Wakes
<1>8. ASSUME pc'[u] = "wake"
      PROVE  \E w \in Tokens : Suspended(w, k)'
  <2>1. PICK w \in Tokens : Suspended(w, k) BY <1>1, <1>2, <1>5, <1>8 DEF Parks
  <2>2. Suspended(w, k)' BY <1>4, <1>6, <2>1
  <2> QED BY <2>2
<1>9. Begin(u)' = m /\ Begin(u)' + op'[u].written = k BY <1>2, <1>3, <1>5
<1>10. /\ pc'[u] = "parked" =>
             /\ flags'[op'[u].block][IndexOf(op'[u].idx)] = u
             /\ Done(Begin(u))' => \E w \in Tokens : pc'[w] = "wake" /\ Begin(w)' + op'[w].written = Begin(u)'
       /\ pc'[u] = "wake" => \E w \in Tokens : Suspended(w, Begin(u) + op[u].written)'
  <2>1. Done(Begin(u))' = Done(m)' BY <1>9 DEF Done
  <2>2. \A w \in Tokens : Suspended(w, Begin(u) + op[u].written)' = Suspended(w, k)'
    BY <1>9 DEF Suspended
  <2> QED BY <1>2, <1>7, <1>8, <1>9, <2>1, <2>2
<1> QED BY <1>10 DEF Parks, Done, Suspended

\* An element stays as it must be when nothing that it depends on changes.
LEMMA CellSame ==
  ASSUME NEW m \in Nat, NEW flag, NEW value, CellOK(m, flag, value),
         Done(m)' = Done(m), (Turn <= m)' = (Turn <= m), (m < Turn)' = (m < Turn),
         (closed = "closed" /\ Cut <= m)' = (closed = "closed" /\ Cut <= m),
         \A u \in Tokens : /\ Takes(u, m)' = Takes(u, m) /\ Suspended(u, m)' = Suspended(u, m)
                           /\ Swept(u, m)' = Swept(u, m)
  PROVE  CellOK(m, flag, value)'
<1>1. Taken(m)' = Taken(m) BY DEF Taken
<1>2. value = IF Done(m)' /\ (Turn' <= m \/ Taken(m)') THEN m - Skip + 1 ELSE NoValue
  BY <1>1 DEF CellOK
<1>3. Done(m)' => \/ flag = "data"
                  \/ flag \in Tokens /\ (Turn' <= m \/ Taken(m)' => Takes(flag, m)')
  BY <1>1 DEF CellOK
<1>4. Skip <= m /\ ~Done(m)' =>
          \/ flag = "empty"
          \/ flag \in Tokens /\ Suspended(flag, m)'
          \/ /\ closed' = "closed" /\ Cut' <= m /\ m < Turn' /\ ~Taken(m)'
             /\ \/ flag = "both"
                \/ flag \in Tokens /\ \A t \in Tokens : ~Swept(t, m)'
  BY <1>1 DEF CellOK
<1> QED BY <1>2, <1>3, <1>4 DEF CellOK

\* All elements.
LEMMA CellsKeep ==
  ASSUME Running, Seen(Tokens), UNCHANGED <<list, elements, read_offset>>, Cut' = Cut,
         closed' = "closed" <=> closed = "closed",
         At({"relink"})' = At({"relink"}), rec'.unlinked = rec.unlinked
  PROVE  Cells' /\ Clean' /\ (Served => Served')
<1> HIDE DEF Running
<1>1. TypeOK /\ Cells /\ Clean BY DEF Running
<1>2. /\ blocks' = blocks /\ flags' = flags /\ stored' = stored /\ \A b \in blocks : First(b)' = First(b)
      /\ Turn' = Turn /\ Unlinked' = Unlinked
  BY DEF list, elements, First, Turn, Unlinked
<1>3. /\ \A m \in Nat : Done(m)' = Done(m) /\ Taken(m)' = Taken(m)
      /\ \A u \in Tokens, m \in Nat : /\ Takes(u, m)' = Takes(u, m) /\ Suspended(u, m)' = Suspended(u, m)
                                     /\ Swept(u, m)' = Swept(u, m)
  <2>1. Only(Tokens) BY DEF Only
  <2> QED BY <2>1, ViewsKeep DEF Seen
<1>4. ASSUME NEW b \in blocks, NEW i \in Index, ~(At({"relink"}) /\ b \in Unlinked)
      PROVE  CellOK(First(b) + i, flags[b][i], stored[b][i])'
  <2>1. PICK m, flag, value : m = First(b) + i /\ flag = flags[b][i] /\ value = stored[b][i]
    OBVIOUS
  <2>2. m \in Nat BY <1>1, <2>1, Types, Sizes DEF Index
  <2>3. CellOK(m, flag, value) BY <1>1, <1>4, <2>1 DEF Cells
  <2>4. CellOK(m, flag, value)' BY <1>2, <1>3, <2>2, <2>3, CellSame
  <2>5. First(b)' + i = m /\ flags'[b][i] = flag /\ stored'[b][i] = value BY <1>2, <2>1
  <2> QED BY <2>4, <2>5
<1>5. \A m \in Nat : Done(m)' => Reaches(m)'
  <2>1. \A m \in Nat : Reaches(m)' = Reaches(m) BY <1>2 DEF Reaches
  <2> QED BY <1>1, <1>3, <2>1 DEF Cells
<1>6. Cells'
  <2>1. \A b \in blocks', i \in Index :
            (At({"relink"})' /\ b \in Unlinked') \/ CellOK(First(b) + i, flags[b][i], stored[b][i])'
    BY <1>2, <1>4
  <2> QED BY <1>5, <2>1 DEF Cells
<1>7. Clean' BY <1>1, <1>2 DEF Clean
<1>8. Served => Served' BY <1>2, <1>3 DEF Served
<1> QED BY <1>6, <1>7, <1>8

\* The list.
LEMMA ListKeeps ==
  ASSUME Running, UNCHANGED <<list, tail_block>>, Lowest' = Lowest, ListHead' = ListHead
  PROVE  /\ Linked' /\ OnList' = OnList /\ blocks' = blocks /\ \A b : First(b)' = First(b)
         /\ \A m : Reaches(m)' = Reaches(m)
<1>1. blocks' = blocks /\ next' = next /\ \A b : First(b)' = First(b) BY DEF list, First
<1>2. First(Lowest)' = First(Lowest) /\ First(ListHead)' = First(ListHead) BY DEF list, First
<1>3. Linked' BY <1>1, <1>2 DEF Linked, Running
<1>4. OnList' = OnList BY <1>1, <1>2 DEF OnList
<1>5. \A m : Reaches(m)' = Reaches(m) BY <1>1 DEF Reaches
<1> QED BY <1>1, <1>3, <1>4, <1>5

\* The bounds hold on when no call asks for more.
LEMMA AskingKeeps ==
  ASSUME Running, Asking, Sold' = Sold, Turn' = Turn, CutDrawn' = CutDrawn,
         \A u \in Tokens : pc'[u] \in BeforeDraw =>
             pc[u] \in BeforeDraw /\ op'[u].name = op[u].name /\ op'[u].count = op[u].count
  PROVE  Asking'
<1>1. \A names : Asked(names)' \subseteq Asked(names) BY DEF Asked
<1>2. Pullers' \subseteq Pullers BY <1>1 DEF Pullers
<1>3. TicketPairs' \subseteq TicketPairs BY <1>1 DEF TicketPairs, Asked
<1>4. /\ IsFiniteSet(TicketPairs) /\ Cardinality(TicketPairs) \in Nat
      /\ IsFiniteSet(Pullers) /\ Cardinality(Pullers) \in Nat
  BY PairsAreFew
<1>5. /\ Cardinality(TicketPairs') <= Cardinality(TicketPairs) /\ Cardinality(Pullers') <= Cardinality(Pullers)
      /\ IsFiniteSet(TicketPairs') /\ IsFiniteSet(Pullers')
  BY <1>2, <1>3, <1>4, FS_Subset
<1>6. Cardinality(TicketPairs') \in Nat /\ Cardinality(Pullers') \in Nat
  BY <1>5, FS_CardinalityType
<1>7. Sold \in Nat /\ Turn \in Nat /\ Top \in Nat /\ Skip \in Nat /\ MaxTicket \in Nat /\ MaxPull \in Nat
  BY Types, TopIs, OriginIs, Sizes DEF Running
<1> QED BY <1>4, <1>5, <1>6, <1>7 DEF Asking

\* Steps that change no more than the calls of S
LEMMA CalmStep ==
  ASSUME Running, NEW S, Calm(S), Seen(S), \A u \in Tokens \ S : Met(u)',
         UNCHANGED <<list, elements, offsets, tail_block>>, Cut' = Cut,
         closed' = "closed" <=> closed = "closed", Lowest' = Lowest,
         At({"relink"})' = At({"relink"}), rec'.unlinked = rec.unlinked,
         TypeOK', pc' \in [Tokens -> Places], Heads', Reclaim', Numbers', Asking',
         \A u \in S : Token(u)'
  PROVE  Running'
<1> HIDE DEF Running, Calm, Heads, Reclaim, Numbers, Asking, TypeOK
<1>1. TypeOK /\ SendersApart /\ ReadersApart /\ Served BY DEF Running
<1>2. S \in SUBSET Tokens /\ Only(S) /\ ListHead' = ListHead BY DEF Calm
<1>3. Seen(Tokens) /\ SendersApart' /\ ReadersApart' /\ \A m \in Nat : Done(m)' = Done(m)
  BY <1>1, <1>2, ViewsKeep
<1>4. Linked' /\ Cells' /\ Clean' /\ Served'
  <2>1. UNCHANGED <<list, tail_block>> /\ UNCHANGED <<list, elements, read_offset>>
    BY DEF offsets
  <2> QED BY <1>1, <1>2, <1>3, <2>1, ListKeeps, CellsKeep
<1>5. ASSUME NEW u \in Tokens \ S
      PROVE  Token(u)'
  <2>1. Control(u)' /\ Closer(u)' /\ Post(u)' /\ Acquires(u)' /\ Has(u)' /\ Uses(u)'
    BY OthersKeep
  <2>2. Pull(u)' /\ Sought(u)'
    <3>1. \A w \in S : Unaware(u) /\ Swept(w, Begin(u)) => Swept(w, Begin(u))'
      <4>1. PICK m : m = Begin(u) OBVIOUS
      <4>2. m \in Nat /\ Begin(u)' = m BY <1>1, <1>2, <4>1, Types, Same DEF Only
      <4>3. \A w \in S : Swept(w, m)' = Swept(w, m) BY <4>2 DEF Seen
      <4>4. \A w \in S : Swept(w, Begin(u))' = Swept(w, m)' BY <4>2 DEF Swept
      <4> QED BY <4>1, <4>3, <4>4
    <3> QED BY <1>3, <3>1, PullsKeep
  <2>3. Parks(u)'
    <3>1. pc[u] = "parked" => flags'[op[u].block][IndexOf(op[u].idx)] = u
      <4>1. Parks(u) /\ flags' = flags BY DEF Running, Token, elements
      <4> QED BY <4>1 DEF Parks
    <3> QED BY <1>2, <3>1, ParksKeep
  <2> QED BY <2>1, <2>2, <2>3 DEF Token
<1> QED BY <1>3, <1>4, <1>5 DEF Running

\* A step of a token that does not hold blocks_lock and changes no offset.
LEMMA Beside ==
  ASSUME Running, NEW S \in SUBSET Tokens, Only(S), lock \notin S,
         UNCHANGED <<cutoff, reclaim_counter, reclaim, setup, blocks, offset>>,
         haz_ptr_counter' \in Nat, haz_ptr_counter <= haz_ptr_counter',
         Sold' \in Nat, Turn' \in Nat, Sold <= Sold', Turn <= Turn'
  PROVE  /\ Calm(S) /\ Resting /\ \A places : At(places)' = At(places)
         /\ Lowest' = Lowest /\ ListHead' = ListHead /\ rec' = rec /\ lock' = lock
         /\ CutDrawn' = CutDrawn /\ (Sold' = Sold => Cut' = Cut) /\ (CutDrawn => Cut' = Cut)
         /\ Reclaim /\ Heads => Reclaim'
         /\ Heads => Heads'
<1>1. /\ lock' = lock /\ rec' = rec /\ closed' = closed /\ write_closed_at' = write_closed_at
      /\ head_block' = head_block /\ head_offset' = head_offset /\ tail_block' = tail_block
  BY DEF reclaim, heads, cutoff
<1>2. lock \in Tokens => pc'[lock] = pc[lock] /\ op'[lock] = op[lock] BY DEF Only
<1>3. lock \in Tokens \/ lock = Nobody BY DEF Running, TypeOK
<1>4. ASSUME NEW places PROVE At(places)' = At(places) BY <1>1, <1>2, <1>3 DEF At
<1>5. ListHead' = ListHead BY <1>1, <1>2, <1>3 DEF ListHead
<1>6. Lowest' = Lowest BY <1>1, <1>4, <1>5 DEF Lowest
<1>7. CutDrawn' = CutDrawn BY <1>1, <1>4 DEF CutDrawn
<1>8. At({"publish"}) => lock \in Tokens /\ Begin(lock)' = Begin(lock)
  BY <1>1, <1>2, <1>3 DEF At, Begin
<1>9. Cut' = Cut \/ (~CutDrawn /\ Cut = Sold /\ Cut' = Sold')
  BY <1>1, <1>4, <1>8 DEF Cut, CutDrawn
<1>10. Cut' \in Nat
  <2>1. Cut \in Nat BY Bounds
  <2> QED BY <1>9, <2>1
<1>11. (Sold' = Sold => Cut' = Cut) /\ (CutDrawn => Cut' = Cut) BY <1>9
<1>12. At({"validate"})' => At({"validate"}) /\ rec' = rec BY <1>1, <1>4
<1>13. Calm(S)
  <2>1. closed # "closed" \/ CutDrawn BY DEF CutDrawn
  <2> QED BY <1>1, <1>5, <1>9, <1>10, <1>12, <2>1 DEF Calm, CutDrawn, OnList
<1>14. Resting
  <2>1. CASE At(Watched)
    <3>1. lock \in Tokens BY <1>3, <2>1 DEF At
    <3>2. pc'[lock] = pc[lock] /\ op'[lock].idx = op[lock].idx BY <1>2, <3>1
    <3> QED BY <1>1, <2>1, <3>2 DEF Resting
  <2>2. CASE ~At(Watched) BY <1>4, <2>2 DEF Resting
  <2> QED BY <2>1, <2>2
<1>15. \A b : First(b)' = First(b) BY DEF First
<1>16. ListHead \in OnList /\ OnList' = OnList /\ First(ListHead)' = First(ListHead)
  <2>1. First(ListHead)' = First(ListHead) BY <1>5 DEF First
  <2> QED BY <1>13, <1>15, <2>1, Shared DEF OnList
<1>17. Heads => Heads'
  <2>1. First(head_block)' = First(head_block) /\ Pos(head_offset)' = Pos(head_offset)
    BY <1>1 DEF First
  <2>2. Sold \in Nat /\ Turn \in Nat /\ \A b \in blocks : First(b) \in Nat BY Types DEF Running
  <2> QED BY <1>1, <1>16, <2>1, <2>2, Types DEF Heads, Running
<1>18. Reclaim /\ Heads => Reclaim'
  <2>1. /\ Limit' = Limit /\ Near(rec.protect)' = Near(rec.protect)
        /\ First(rec.old)' = First(rec.old) /\ First(rec.new)' = First(rec.new)
        /\ First(rec.expected)' = First(rec.expected)
        /\ Spoiled' = Spoiled /\ Unlinked' = Unlinked
        /\ \A k : First(rec.unlinked[k])' = First(rec.unlinked[k])
    BY <1>1 DEF Limit, Near, First, Spoiled, Unlinked
  <2>2. Sold \in Nat /\ Base(Sold) \in Nat /\ Base(Sold') \in Nat /\ Base(Sold) <= Base(Sold')
    <3>1. Sold \in Nat BY Types DEF Running
    <3>2. /\ Base(Sold) \in Starts /\ Base(Sold) <= Sold /\ Base(Sold) \in Nat /\ Base(Sold') \in Nat
          /\ \A f \in Starts : f <= Sold' => f <= Base(Sold')
      BY <3>1, BaseOf
    <3> QED BY <3>1, <3>2
  <2>3. Limit \in Nat /\ \A b \in blocks : First(b) \in Nat BY Types DEF Running
  <2> SUFFICES ASSUME Reclaim, Heads
               PROVE  Reclaim'
    OBVIOUS
  <2>4. At({"load_count"}) \/ At({"scan"}) => (Limit <= Base(Sold) => Limit <= Base(Sold)')
    BY <2>2, <2>3
  <2>5. At(Aiming) => First(rec.new) <= Base(Sold)'
    <3>1. At(Aiming) => rec.new \in blocks BY Types DEF Reclaim, Running
    <3> QED BY <2>2, <2>3, <3>1 DEF Reclaim
  <2> QED BY <1>1, <1>4, <1>16, <2>1, <2>2, <2>4, <2>5 DEF Reclaim
<1> QED BY <1>1, <1>4, <1>5, <1>6, <1>7, <1>11, <1>13, <1>14, <1>17, <1>18

\* The same, when no more than what the token knows changes.
LEMMA PrivateKeeps ==
  ASSUME Running, NEW t \in Tokens, Only({t}), Seen({t}), lock # t,
         UNCHANGED <<list, elements, offsets, cutoff, reclaim_counter, reclaim, setup>>,
         haz_ptr_counter' \in Nat, haz_ptr_counter <= haz_ptr_counter',
         pc' \in [Tokens -> Places], op' \in [Tokens -> CallType], haz' \in [Tokens -> HazType],
         told' \in [Tokens -> BOOLEAN], under' \in [Tokens -> Tokens \cup {Nobody}],
         op'[t].written <= op'[t].count, op'[t].seen <= reclaim_counter,
         \A u \in Tokens : told'[u] => told[u] \/ (closed = "closed" /\ Cut <= Turn),
         Asking', Token(t)'
  PROVE  Running'
<1> HIDE DEF Running
<1>1. TypeOK /\ Heads /\ Reclaim /\ Numbers BY DEF Running
<1>2. blocks' = blocks /\ offset' = offset /\ Sold' = Sold /\ Turn' = Turn /\ Sold \in Nat /\ Turn \in Nat
  BY <1>1, Types DEF list, offsets, Sold, Turn
<1>3. /\ Calm({t}) /\ Resting /\ \A places : At(places)' = At(places)
      /\ Lowest' = Lowest /\ rec' = rec /\ CutDrawn' = CutDrawn /\ Cut' = Cut /\ Reclaim' /\ Heads'
  <2>1. {t} \in SUBSET Tokens /\ lock \notin {t} /\ UNCHANGED <<blocks, offset>> BY <1>2
  <2>2. Sold' \in Nat /\ Turn' \in Nat /\ Sold <= Sold' /\ Turn <= Turn' BY <1>2
  <2> QED BY <1>1, <1>2, <2>1, <2>2, Beside
<1>4. closed' = closed BY DEF cutoff
<1>5. Numbers' BY <1>1, <1>2, <1>3, <1>4 DEF Numbers
<1>6. TypeOK'
  <2>1. \A u \in Tokens : op'[u].written <= op'[u].count /\ op'[u].seen <= reclaim_counter
    BY <1>1 DEF Only, TypeOK
  <2>2. /\ rec.count <= haz_ptr_counter' /\ reclaim_counter' = reclaim_counter
    <3>1. rec.count \in Nat /\ haz_ptr_counter \in Nat /\ rec.count <= haz_ptr_counter
      BY <1>1 DEF TypeOK, RecType
    <3> QED BY <3>1
  <2> QED BY <1>1, <1>3, <2>1, <2>2 DEF TypeOK, list, elements, offsets, cutoff, reclaim, heads
<1>7. \A u \in Tokens \ {t} : Met(u)' BY <1>3, MetKeeps
<1>8. UNCHANGED <<list, elements, offsets, tail_block>> /\ rec'.unlinked = rec.unlinked
  BY <1>3 DEF reclaim, heads
<1> QED BY <1>3, <1>4, <1>5, <1>6, <1>7, <1>8, CalmStep

\* Steps outside the calls' tickets
\* A token's new place, locals and hazard pointer.
LEMMA Moved ==
  ASSUME Running, NEW t \in Tokens, NEW p \in Places, NEW c \in CallType, NEW h \in HazType,
         pc' = [pc EXCEPT ![t] = p], op' = [op EXCEPT ![t] = c], haz' = [haz EXCEPT ![t] = h]
  PROVE  /\ pc' \in [Tokens -> Places] /\ op' \in [Tokens -> CallType] /\ haz' \in [Tokens -> HazType]
         /\ pc'[t] = p /\ op'[t] = c /\ haz'[t] = h /\ Only({t})
<1>1. pc \in [Tokens -> Places] /\ op \in [Tokens -> CallType] /\ haz \in [Tokens -> HazType]
  BY DEF Running, TypeOK
<1> HIDE DEF Running
<1>2. pc' \in [Tokens -> Places] /\ pc'[t] = p /\ \A u \in Tokens \ {t} : pc'[u] = pc[u] BY <1>1
<1>3. op' \in [Tokens -> CallType] /\ op'[t] = c /\ \A u \in Tokens \ {t} : op'[u] = op[u]
  BY <1>1
<1>4. haz' \in [Tokens -> HazType] /\ haz'[t] = h /\ \A u \in Tokens \ {t} : haz'[u] = haz[u]
  BY <1>1
<1> QED BY <1>2, <1>3, <1>4 DEF Only

\* What does not change is written in the same way.
LEMMA Unmoved ==
  ASSUME Running, NEW t \in Tokens
  PROVE  /\ pc = [pc EXCEPT ![t] = pc[t]] /\ op = [op EXCEPT ![t] = op[t]]
         /\ haz = [haz EXCEPT ![t] = haz[t]]
         /\ pc[t] \in Places /\ op[t] \in CallType /\ haz[t] \in HazType
         /\ \A v : /\ [op EXCEPT ![t].idx = v] = [op EXCEPT ![t] = [op[t] EXCEPT !.idx = v]]
                   /\ [op EXCEPT ![t].boff = v] = [op EXCEPT ![t] = [op[t] EXCEPT !.boff = v]]
                   /\ [op EXCEPT ![t].end = v] = [op EXCEPT ![t] = [op[t] EXCEPT !.end = v]]
                   /\ [op EXCEPT ![t].walk = v] = [op EXCEPT ![t] = [op[t] EXCEPT !.walk = v]]
                   /\ [op EXCEPT ![t].block = v] = [op EXCEPT ![t] = [op[t] EXCEPT !.block = v]]
                   /\ [op EXCEPT ![t].past = v] = [op EXCEPT ![t] = [op[t] EXCEPT !.past = v]]
                   /\ [op EXCEPT ![t].seen = v] = [op EXCEPT ![t] = [op[t] EXCEPT !.seen = v]]
                   /\ [op EXCEPT ![t].written = v] = [op EXCEPT ![t] = [op[t] EXCEPT !.written = v]]
                   /\ [haz EXCEPT ![t].owned = v] = [haz EXCEPT ![t] = [haz[t] EXCEPT !.owned = v]]
                   /\ [haz EXCEPT ![t].active_offset = v] =
                         [haz EXCEPT ![t] = [haz[t] EXCEPT !.active_offset = v]]
<1>1. pc \in [Tokens -> Places] /\ op \in [Tokens -> CallType] /\ haz \in [Tokens -> HazType]
  BY DEF Running, TypeOK
<1> HIDE DEF Running
<1>2. pc = [pc EXCEPT ![t] = pc[t]] /\ pc[t] \in Places BY <1>1
<1>3. op = [op EXCEPT ![t] = op[t]] /\ op[t] \in CallType BY <1>1
<1>4. haz = [haz EXCEPT ![t] = haz[t]] /\ haz[t] \in HazType BY <1>1
<1>5. DOMAIN op = Tokens /\ DOMAIN haz = Tokens BY <1>1
<1> QED BY <1>2, <1>3, <1>4, <1>5

\* Calls and hazard pointers with a field changed.
LEMMA Edited ==
  /\ \A c \in CallType, v \in Word :
        /\ [c EXCEPT !.idx = v] \in CallType /\ [c EXCEPT !.boff = v] \in CallType
        /\ [c EXCEPT !.end = v] \in CallType
  /\ \A c \in CallType, b \in Block \cup {Null} :
        [c EXCEPT !.walk = b] \in CallType /\ [c EXCEPT !.block = b] \in CallType
  /\ \A c \in CallType, v \in BOOLEAN : [c EXCEPT !.past = v] \in CallType
  /\ \A c \in CallType, n \in Nat : [c EXCEPT !.seen = n] \in CallType
  /\ \A c \in CallType, n \in 0 .. MaxTicket : [c EXCEPT !.written = n] \in CallType
  /\ \A h \in HazType, v \in BOOLEAN : [h EXCEPT !.owned = v] \in HazType
  /\ \A h \in HazType, v \in Word : [h EXCEPT !.active_offset = v] \in HazType
  /\ NoCall \in CallType
<1>1. 0 \in Word /\ 0 \in 0 .. MaxTicket BY Sizes DEF Word
<1>2. /\ \A c \in CallType, v \in Word :
            /\ [c EXCEPT !.idx = v] \in CallType /\ [c EXCEPT !.boff = v] \in CallType
            /\ [c EXCEPT !.end = v] \in CallType
      /\ \A c \in CallType, b \in Block \cup {Null} :
            [c EXCEPT !.walk = b] \in CallType /\ [c EXCEPT !.block = b] \in CallType
      /\ \A c \in CallType, v \in BOOLEAN : [c EXCEPT !.past = v] \in CallType
      /\ \A c \in CallType, n \in Nat : [c EXCEPT !.seen = n] \in CallType
      /\ \A c \in CallType, n \in 0 .. MaxTicket : [c EXCEPT !.written = n] \in CallType
  BY DEF CallType
<1>3. /\ \A h \in HazType, v \in BOOLEAN : [h EXCEPT !.owned = v] \in HazType
      /\ \A h \in HazType, v \in Word : [h EXCEPT !.active_offset = v] \in HazType
  BY DEF HazType
<1>4. NoCall \in CallType BY <1>1 DEF NoCall, CallType, Null
<1> QED BY <1>2, <1>3, <1>4

\* Where a call has no ticket that counts.
Outer == {"idle", "disown", "protect", "draw", "release", "lock", "cutoff", "publish"} \cup Acquiring
\* A token outside the calls has no ticket, waits for nobody and wakes nobody.
LEMMA Outside ==
  ASSUME NEW u
  PROVE  /\ pc[u] \in Outer =>
               /\ ~Sender(u) /\ ~Drawn(u) /\ ~Reclaimer(u) /\ ~Reader(u) /\ ~Unaware(u)
               /\ \A m : ~Owns(u, m) /\ ~Takes(u, m) /\ ~Suspended(u, m) /\ ~Swept(u, m) /\ ~Wakes(u, m)
         /\ pc'[u] \in Outer =>
               /\ ~Sender(u)' /\ ~Drawn(u)' /\ ~Reclaimer(u)' /\ ~Reader(u)' /\ ~Unaware(u)'
               /\ \A m : /\ ~Owns(u, m)' /\ ~Takes(u, m)' /\ ~Suspended(u, m)' /\ ~Swept(u, m)'
                         /\ ~Wakes(u, m)'
<1>1. pc[u] \in Outer =>
         ~Sender(u) /\ ~Drawn(u) /\ ~Reclaimer(u) /\ pc[u] \notin {"parked", "load_readers", "wake"} \cup Sweeping
         /\ pc[u] \notin {"seek", "try_lock", "wait", "parked", "holding"}
  BY DEF Outer, Acquiring, Sender, Drawn, Reclaimer, Walking, Writing, Polling, Reading, Reclaiming,
     Scanning, Visiting, Announcing, Moves, Sweeping
<1>2. pc'[u] \in Outer =>
         ~Sender(u)' /\ ~Drawn(u)' /\ ~Reclaimer(u)' /\ pc'[u] \notin {"parked", "load_readers", "wake"} \cup Sweeping
         /\ pc'[u] \notin {"seek", "try_lock", "wait", "parked", "holding"}
  BY DEF Outer, Acquiring, Sender, Drawn, Reclaimer, Walking, Writing, Polling, Reading, Reclaiming,
     Scanning, Visiting, Announcing, Moves, Sweeping
<1>3. pc[u] \in Outer => ~Reader(u) /\ ~Unaware(u) BY <1>1 DEF Reader, Unaware
<1>4. pc'[u] \in Outer => ~Reader(u)' /\ ~Unaware(u)' BY <1>2 DEF Reader, Unaware
<1> QED BY <1>1, <1>2, <1>3, <1>4 DEF Owns, Takes, Suspended, Swept, Wakes

\* Others see nothing of what a token does outside the calls.
LEMMA OuterSeen ==
  ASSUME NEW t, pc[t] \in Outer, pc'[t] \in Outer
  PROVE  Seen({t})
BY Outside DEF Seen, Owns, Takes, Suspended, Swept, Wakes

\* A token outside the calls keeps no promise but the one on its block.
LEMMA OuterToken ==
  ASSUME NEW t, pc'[t] \in Outer
  PROVE  /\ Post(t)' /\ Pull(t)' /\ Sought(t)' /\ Parks(t)'
         /\ pc'[t] # "publish" => Closer(t)'
         /\ (pc'[t] = "draw" => Active(t)' <= From(t)') => Uses(t)'
         /\ pc'[t] \notin {"load_head", "init", "count", "recheck"} => Acquires(t)'
<1>1. ~Sender(t)' /\ ~Drawn(t)' /\ ~Reader(t)' /\ ~Unaware(t)' /\ ~Reclaimer(t)' BY Outside
<1>2. pc'[t] \notin {"load_readers", "claim", "parked", "wake", "seek"} \cup Sweeping \cup Walking \cup Writing
                    \cup Seeking \cup Reading \cup {"check_closed", "seek", "reserve", "cross"}
  BY DEF Outer, Acquiring, Sweeping, Walking, Writing, Seeking, Polling, Reading
<1>3. Post(t)' /\ Sought(t)' BY <1>1 DEF Post, Sought
<1>4. Pull(t)'
  <2>1. pc'[t] \notin {"load_block", "seek", "claim", "reread", "status", "try_lock", "holding"}
    BY DEF Outer, Acquiring
  <2> QED BY <1>1, <2>1 DEF Pull
<1>5. Parks(t)' BY <1>2 DEF Parks
<1>6. pc'[t] # "publish" => Closer(t)' BY <1>2 DEF Closer, Sweeping
<1>7. (pc'[t] = "draw" => Active(t)' <= From(t)') => Uses(t)'
  <2>1. pc'[t] \notin {"write", "wake", "claim"} \cup Reading BY DEF Outer, Acquiring, Reading
  <2> QED BY <1>1, <1>2, <2>1 DEF Uses
<1>8. pc'[t] \notin {"load_head", "init", "count", "recheck"} => Acquires(t)' BY DEF Acquires
<1> QED BY <1>3, <1>4, <1>5, <1>6, <1>7, <1>8

\* What the reclaimer knows of a token that stays where it was, moves its blocks on
\* to where it has drawn, or begins to walk from one of them.
LEMMA MetStays ==
  ASSUME Running, Resting, NEW u \in Tokens, u # lock,
         Member(u)' /\ NobodyCame' => Member(u) /\ \A f \in Fields :
             \/ haz'[u][f] = haz[u][f]
             \/ Drawn(u) /\ haz'[u][f] \in blocks /\ Base(Begin(u)) <= First(haz'[u][f]),
         Drawn(u)' => Drawn(u) /\ Begin(u)' \in Nat /\ Begin(u) <= Begin(u)',
         pc'[u] \in Walking =>
             /\ haz'[u] = haz[u] /\ Field(u)' = Field(u)
             /\ (pc[u] \in Walking /\ Search(u)' = Search(u)) \/ Search(u)' = From(u)',
         At({"swap", "revalidate"}) /\ u = rec.at => Near(haz[u].active_offset)'
  PROVE  Met(u)'
<1> HIDE DEF Running, Resting
<1>1. TypeOK /\ Met(u) /\ Linked /\ Reclaim BY DEF Running, Token
<1>2. SUFFICES ASSUME At(Watched)'
               PROVE  Met(u)'
  <2>1. CASE ~At(Watched)'
    <3>1. \A P \in SUBSET Watched : ~At(P)' BY <2>1 DEF At
    <3>2. /\ ~At({"scan"})' /\ ~At(Visiting)' /\ ~At(Announcing)' /\ ~At(Aiming)'
          /\ ~At({"swap", "revalidate"})'
      BY <3>1 DEF Watched, Aiming, Visiting
    <3> QED BY <3>2 DEF Met
  <2> QED BY <2>1
<1>3. /\ lock' = lock /\ rec' = rec /\ pc'[lock] = pc[lock] /\ op'[lock].idx = op[lock].idx
      /\ At(Watched)
  BY <1>2 DEF Resting
<1>4. /\ \A places : At(places)' = At(places)
      /\ Limit' = Limit /\ Begin(lock)' = Begin(lock)
  BY <1>3 DEF At, Limit, Begin
<1>5. \A b \in blocks : First(b)' = First(b) BY DEF Resting, First
<1>6. NobodyCame' => NobodyCame
  <2>1. rec.count \in Nat /\ haz_ptr_counter \in Nat /\ rec.count <= haz_ptr_counter
    BY <1>1 DEF TypeOK, RecType
  <2> QED BY <1>3, <2>1 DEF NobodyCame, Resting
<1>7. At({"scan"}) => Spoiled' = Spoiled
  <2> SUFFICES ASSUME At({"scan"})
               PROVE  Spoiled' = Spoiled
    OBVIOUS
  <2>1. rec.old \in blocks BY <1>1, Bounds DEF Reclaim
  <2>2. First(rec.old)' = First(rec.old) BY <1>3, <1>5, <2>1 DEF First
  <2> QED BY <1>3, <1>4, <2>2 DEF Spoiled
<1>8. /\ Drawn(u) => Member(u)
      /\ pc[u] \in Walking => Drawn(u)
      /\ pc'[u] \in Walking => Drawn(u)'
      /\ Member(u) => \A f \in Fields : haz[u][f] \in blocks
  <2>1. pc'[u] \in Walking => Drawn(u)' BY DEF Drawn
  <2> QED BY <2>1, Members
<1>9. \A f \in Fields : haz[u][f] \in blocks /\ haz'[u][f] = haz[u][f] => First(haz[u][f])' = First(haz[u][f])
  <2> SUFFICES ASSUME NEW f \in Fields, haz[u][f] \in blocks, haz'[u][f] = haz[u][f]
               PROVE  First(haz[u][f])' = First(haz[u][f])
    OBVIOUS
  <2>1. PICK b : b = haz[u][f] OBVIOUS
  <2>2. haz'[u][f] = b /\ First(b)' = First(b) BY <1>5, <2>1
  <2> QED BY <2>1, <2>2
<1>10. Field(u) \in Fields BY DEF Field, Fields
<1>11. pc'[u] \in Walking => From(u)' = From(u)
  <2> SUFFICES ASSUME pc'[u] \in Walking
               PROVE  From(u)' = From(u)
    OBVIOUS
  <2>1. PICK f : f = Field(u) OBVIOUS
  <2>2. PICK b : b = haz[u][f] OBVIOUS
  <2>3. Field(u)' = f /\ haz'[u][f] = b BY <2>1, <2>2
  <2>4. First(b)' = First(b) BY <1>5, <1>8, <1>10, <2>1, <2>2
  <2> QED BY <2>1, <2>2, <2>3, <2>4 DEF From
<1>18. Drawn(u)' => /\ Drawn(u) /\ Base(Begin(u)) <= Base(Begin(u)')
                    /\ Base(Begin(u)) \in Nat /\ Base(Begin(u)') \in Nat
  <2> SUFFICES ASSUME Drawn(u)'
               PROVE  /\ Base(Begin(u)) <= Base(Begin(u)')
                      /\ Base(Begin(u)) \in Nat /\ Base(Begin(u)') \in Nat
    OBVIOUS
  <2>1. PICK m, n : m = Begin(u) /\ n = Begin(u)' OBVIOUS
  <2>2. m \in Nat /\ n \in Nat /\ m <= n BY <1>1, <2>1, Types
  <2>3. Base(m) \in Starts /\ Base(m) \in Nat /\ Base(n) \in Nat /\ Base(m) <= m BY <2>2, BaseOf
  <2>4. Base(m) <= n => Base(m) <= Base(n) BY <2>2, <2>3, BaseOf
  <2> QED BY <2>1, <2>2, <2>3, <2>4
<1>12. At({"scan"})' /\ ~Spoiled' /\ u \notin rec'.todo => Scanned(u)'
  <2> SUFFICES ASSUME At({"scan"}), ~Spoiled, u \notin rec.todo
               PROVE  Scanned(u)'
    BY <1>3, <1>4, <1>7
  <2>1. Scanned(u) BY <1>1 DEF Met
  <2>2. u # lock' BY <1>3
  <2>3. Drawn(u)' => Limit' <= Base(Begin(u)') \/ Base(Begin(lock))' <= Base(Begin(u)')
    <3>1. Limit \in Nat /\ Base(Begin(lock)) \in Nat
      <4>1. lock \in Tokens BY <1>1 DEF At, TypeOK
      <4>2. Limit \in Nat /\ Begin(lock) \in Nat BY <1>1, <4>1, Types
      <4> QED BY <4>2, BaseOf
    <3>2. Base(Begin(lock))' = Base(Begin(lock)) BY <1>4 DEF Base
    <3> QED BY <1>4, <1>18, <2>1, <3>1, <3>2 DEF Scanned
  <2>4. pc'[u] \in Walking => Limit' <= Search(u)' \/ Search(u)' = From(u)'
    BY <1>4, <1>11, <2>1 DEF Scanned
  <2> QED BY <2>2, <2>3, <2>4 DEF Scanned
<1>19. ASSUME At(Aiming), NobodyCame, NobodyCame', Member(u)', NEW f \in Fields
       PROVE  /\ First(haz[u][f])' \in Nat /\ First(haz[u][f]) \in Nat /\ First(rec.new) \in Nat
              /\ First(haz[u][f])' = First(haz[u][f]) \/ First(rec.new) <= First(haz[u][f])'
              /\ haz'[u] = haz[u] => First(haz[u][f])' = First(haz[u][f])
  <2>1. Member(u) /\ haz[u][f] \in blocks BY <1>8, <1>19
  <2>2. First(haz[u][f]) \in Nat /\ First(rec.new) \in Nat
    <3>1. rec.new \in blocks BY <1>1, <1>19, Types DEF Reclaim
    <3> QED BY <1>1, <2>1, <3>1, Types
  <2>3. CASE haz'[u][f] = haz[u][f]
    <3>1. First(haz[u][f])' = First(haz[u][f]) BY <1>9, <2>1, <2>3
    <3> QED BY <2>2, <3>1
  <2>4. CASE haz'[u][f] # haz[u][f]
    <3>1. PICK b : b = haz'[u][f] OBVIOUS
    <3>2. Drawn(u) /\ b \in blocks /\ Base(Begin(u)) <= First(b) BY <1>19, <2>4, <3>1
    <3>3. First(b)' = First(b) /\ First(b) \in Nat BY <1>1, <1>5, <3>2, Types
    <3>4. First(rec.new) <= Base(Begin(u)) BY <1>1, <1>19, <3>2 DEF Met
    <3>5. Base(Begin(u)) \in Nat BY <1>1, BaseOf, Types
    <3>6. First(haz[u][f])' = First(b)' BY <3>1
    <3> QED BY <2>2, <2>4, <3>2, <3>3, <3>4, <3>5, <3>6
  <2> QED BY <2>3, <2>4
<1>13. At(Visiting)' /\ NobodyCame' /\ Member(u)' => \A f \in Fields : Visited(u, f)'
  <2> SUFFICES ASSUME At(Visiting), NobodyCame, NobodyCame', Member(u)', NEW f \in Fields
               PROVE  Visited(u, f)'
    BY <1>4, <1>6
  <2>1. Visited(u, f) BY <1>1 DEF Met
  <2>2. Pending(u, f)' = Pending(u, f) BY <1>3 DEF Pending
  <2>3. Unsure(u, f)' = Unsure(u, f) /\ (Pending(u, f) => Unsure(u, f)) BY <1>3, <2>2 DEF Unsure
  <2>4. At(Aiming) /\ Limit <= First(rec.new) /\ Limit \in Nat
    <3>1. At(Aiming) BY DEF At, Aiming
    <3> QED BY <1>1, <3>1, Types DEF Reclaim
  <2>5. ~Pending(u, f)' => Limit' <= First(haz[u][f])'
    BY <1>4, <1>19, <2>1, <2>2, <2>4 DEF Visited
  <2>6. ASSUME pc'[u] \in Walking, Field(u)' = f
        PROVE  /\ Pending(u, f)' => Limit' <= Search(u)' \/ Search(u)' = First(haz[u][f])'
               /\ ~Unsure(u, f)' => Limit' <= Search(u)'
    <3>1. CASE pc[u] \in Walking /\ Search(u)' = Search(u)
      <4>1. First(haz[u][f])' = First(haz[u][f]) /\ Field(u) = f BY <1>19, <2>4, <2>6
      <4> QED BY <1>4, <2>1, <2>2, <2>3, <3>1, <4>1 DEF Visited
    <3>2. CASE Search(u)' = From(u)'
      <4>1. Search(u)' = First(haz[u][f])' BY <2>6, <3>2 DEF From
      <4> QED BY <2>2, <2>3, <2>5, <4>1
    <3> QED BY <2>6, <3>1, <3>2
  <2> QED BY <2>5, <2>6 DEF Visited
<1>14. \A places : At(places) /\ (places = Aiming \/ places = Announcing) => First(rec.new)' = First(rec.new)
  <2>1. At(Announcing) => At(Aiming) BY DEF At, Aiming
  <2>2. At(Aiming) => rec.new \in OnList BY <1>1 DEF Reclaim
  <2>3. OnList \subseteq blocks BY <1>1, Types
  <2>4. At(Aiming) => First(rec.new)' = First(rec.new) BY <1>3, <1>5, <2>2, <2>3 DEF First
  <2> QED BY <2>1, <2>4
<1>15. At(Announcing)' /\ NobodyCame' /\ Member(u)' => Clear(u)'
  <2> SUFFICES ASSUME At(Announcing), NobodyCame, NobodyCame', Member(u)'
               PROVE  Clear(u)'
    BY <1>4, <1>6
  <2>1. Clear(u) /\ At(Aiming) BY <1>1 DEF Met, At, Aiming
  <2>2. First(rec.new)' = First(rec.new) BY <1>14
  <2>3. \A f \in Fields : First(rec.new)' <= First(haz[u][f])' BY <1>19, <2>1, <2>2 DEF Clear
  <2>4. pc'[u] \in Walking => First(rec.new)' <= Search(u)'
    <3>1. Field(u)' \in Fields BY DEF Field, Fields
    <3>2. From(u)' = First(haz[u][Field(u)])' BY DEF From
    <3>3. PICK f \in Fields : f = Field(u)' BY <3>1
    <3>4. First(rec.new)' <= First(haz[u][f])' /\ From(u)' = First(haz[u][f])'
      BY <2>3, <3>2, <3>3
    <3> QED BY <2>1, <2>2, <3>4 DEF Clear
  <2> QED BY <2>3, <2>4 DEF Clear
<1>16. At(Aiming)' /\ Drawn(u)' => First(rec.new)' <= Base(Begin(u))'
  <2> SUFFICES ASSUME At(Aiming), Drawn(u)'
               PROVE  First(rec.new)' <= Base(Begin(u)')
    BY <1>4
  <2>1. First(rec.new) <= Base(Begin(u)) BY <1>1 DEF Met
  <2>2. First(rec.new)' = First(rec.new) BY <1>14
  <2>3. First(rec.new) \in Nat
    <3>1. rec.new \in blocks BY <1>1, Types DEF Reclaim
    <3> QED BY <1>1, <3>1, Types
  <2> QED BY <1>18, <2>1, <2>2, <2>3
<1>17. At({"swap", "revalidate"})' /\ u = rec'.at => Near(haz[u].active_offset)' BY <1>3, <1>4
<1> QED BY <1>12, <1>13, <1>15, <1>16, <1>17, Zenon DEF Met

\* A hazard pointer that keeps its place.
Keeps(g, h) ==
    /\ g.write_block = h.write_block /\ g.next_protect_write = h.next_protect_write
    /\ g.read_block = h.read_block /\ g.next_protect_read = h.next_protect_read
\* A token keeps its blocks while no block goes and its own fields stay.
LEMMA HasStays ==
  ASSUME Running, NEW S, Calm(S), NEW u \in Tokens, Keeps(haz'[u], haz[u]),
         Acquired(u)' => Acquired(u),
         Near(haz'[u].active_offset) \/ haz'[u].active_offset = haz[u].active_offset
  PROVE  Has(u)'
<1> HIDE DEF Running, Calm
<1>1. TypeOK /\ Has(u) BY DEF Running, Token
<1>2. /\ blocks \subseteq blocks' /\ OnList \subseteq blocks
      /\ \A b \in OnList : b \in OnList' /\ First(b)' = First(b) /\ First(b) \in Nat
      /\ {Sold, Turn, Sold', Turn'} \subseteq Nat /\ Sold <= Sold' /\ Turn <= Turn'
  BY <1>1, Shared, Types DEF Calm
<1>3. PICK w, r : w = haz[u].write_block /\ r = haz[u].read_block OBVIOUS
<1>4. /\ haz'[u].write_block = w /\ haz'[u].read_block = r
      /\ haz'[u].next_protect_write = haz[u].next_protect_write
      /\ haz'[u].next_protect_read = haz[u].next_protect_read
  BY <1>3 DEF Keeps
<1>5. Acquired(u) =>
        /\ {w, r} \subseteq OnList
        /\ First(w) <= Sold /\ First(r) <= Turn
        /\ Pos(haz[u].next_protect_write) <= First(w)
        /\ Pos(haz[u].next_protect_read) <= First(r)
  BY <1>1, <1>3 DEF Has
<1>6. Acquired(u) =>
        /\ {w, r} \subseteq OnList'
        /\ First(w)' <= Sold' /\ First(r)' <= Turn'
        /\ Pos(haz'[u].next_protect_write) <= First(w)'
        /\ Pos(haz'[u].next_protect_read) <= First(r)'
  BY <1>2, <1>4, <1>5
<1>7. \A f \in Fields : haz[u][f] # Null => haz[u][f] \in blocks /\ Near(haz[u].active_offset)
  BY <1>1 DEF Has
<1>8. \A f \in Fields : haz'[u][f] # Null => haz'[u][f] \in blocks' /\ Near(haz[u].active_offset)'
  <2>1. \A f \in Fields : haz'[u][f] = haz[u][f] BY <1>3, <1>4 DEF Fields
  <2> QED BY <1>2, <1>7, <2>1 DEF Near
<1> QED BY <1>4, <1>6, <1>8 DEF Has

\* Nothing changes but what is a token's own.
LEMMA Frame ==
  ASSUME Running, NEW S \in SUBSET Tokens, Only(S), lock \notin S,
         UNCHANGED <<queue, reclaim_counter, reclaim, setup>>,
         haz_ptr_counter' \in Nat, haz_ptr_counter <= haz_ptr_counter'
  PROVE  /\ Calm(S) /\ Resting
         /\ lock' = lock /\ rec' = rec /\ closed' = closed /\ head_block' = head_block
         /\ \A places : At(places)' = At(places)
         /\ ListHead' = ListHead /\ Lowest' = Lowest /\ blocks' = blocks /\ OnList' = OnList
         /\ \A b : First(b)' = First(b) /\ Good(b)' = Good(b)
         /\ \A m : Reaches(m)' = Reaches(m)
         /\ Sold' = Sold /\ Turn' = Turn /\ Cut' = Cut /\ CutDrawn' = CutDrawn
         /\ Sold \in Nat /\ Turn \in Nat /\ Cut \in Nat
         /\ next' = next /\ offset' = offset /\ flags' = flags /\ stored' = stored
         /\ (\A u \in S : Control(u)' /\ Closer(u)' /\ Post(u)' /\ Pull(u)' /\ Sought(u)' /\ Parks(u)'
                          /\ Acquires(u)' /\ Has(u)' /\ Uses(u)' /\ Met(u)') => \A u \in S : Token(u)'
<1>1. UNCHANGED <<cutoff, reclaim_counter, reclaim, setup, blocks, offset>> BY DEF queue, list
<1>2. /\ blocks' = blocks /\ next' = next /\ offset' = offset /\ flags' = flags /\ stored' = stored
      /\ closed' = closed /\ head_block' = head_block
      /\ UNCHANGED <<list, tail_block>>
  BY DEF queue, list, elements, cutoff, reclaim, heads
<1>3. Sold' = Sold /\ Turn' = Turn /\ Sold \in Nat /\ Turn \in Nat /\ Cut \in Nat
  BY Types, Bounds DEF queue, offsets, Sold, Turn, Running
<1>4. /\ Calm(S) /\ Resting /\ (\A places : At(places)' = At(places))
      /\ Lowest' = Lowest /\ ListHead' = ListHead /\ rec' = rec /\ lock' = lock
      /\ CutDrawn' = CutDrawn /\ Cut' = Cut
  <2>1. Sold' \in Nat /\ Turn' \in Nat /\ Sold <= Sold' /\ Turn <= Turn' BY <1>3
  <2> QED BY <1>1, <1>3, <2>1, Beside
<1>5. OnList' = OnList /\ (\A b : First(b)' = First(b)) /\ \A m : Reaches(m)' = Reaches(m)
  BY <1>2, <1>4, ListKeeps
<1>6. \A b : Good(b)' = Good(b) BY <1>3, <1>4, <1>5 DEF Good
<1> QED BY <1>2, <1>3, <1>4, <1>5, <1>6 DEF Token

\* A step before the ticket or after it.
LEMMA OuterStep ==
  ASSUME Running, NEW t \in Tokens, NEW p \in Outer \ {"cutoff", "publish"}, NEW c \in CallType,
         NEW h \in HazType, pc[t] \in Outer \ {"cutoff", "publish"},
         pc' = [pc EXCEPT ![t] = p], op' = [op EXCEPT ![t] = c], haz' = [haz EXCEPT ![t] = h],
         UNCHANGED <<queue, reclaim_counter, reclaim, clients>>,
         haz_ptr_counter' \in Nat, haz_ptr_counter <= haz_ptr_counter',
         c.written <= c.count, c.seen <= reclaim_counter,
         Control(t)', p \in {"load_head", "init", "count", "recheck"} => Acquires(t)',
         Has(t)' \/ (Keeps(h, haz[t]) /\ (Acquired(t)' => Acquired(t))),
         p = "draw" => Active(t)' <= From(t)',
         Member(t)' /\ NobodyCame' => Member(t) /\ \A f \in Fields : h[f] = haz[t][f],
         Near(h.active_offset) \/ h.active_offset = haz[t].active_offset,
         Asking' \/ (p \in BeforeDraw =>
                        pc[t] \in BeforeDraw /\ c.name = op[t].name /\ c.count = op[t].count)
  PROVE  Running'
<1> HIDE DEF Running
<1>1. TypeOK /\ Control(t) /\ Met(t) /\ Asking /\ Heads /\ Reclaim BY DEF Running, Token
<1>2. p \in Places BY DEF Outer, Places
<1>3. /\ pc' \in [Tokens -> Places] /\ op' \in [Tokens -> CallType] /\ haz' \in [Tokens -> HazType]
      /\ pc'[t] = p /\ op'[t] = c /\ haz'[t] = h /\ Only({t})
  BY <1>2, Moved
<1>4. lock # t
  BY <1>1 DEF Control, Outer, Acquiring, Reclaiming, Closing, Scanning, Visiting, Announcing, Moves, Sweeping
<1>5. /\ UNCHANGED <<list, elements, offsets, cutoff, reclaim_counter, reclaim, setup>>
      /\ UNCHANGED <<cutoff, reclaim_counter, reclaim, setup, blocks, offset>>
      /\ told' = told /\ under' = under
  BY DEF queue, clients, list
<1>6. /\ {Sold, Turn} \subseteq Nat /\ Sold' = Sold /\ Turn' = Turn
      /\ told \in [Tokens -> BOOLEAN] /\ under \in [Tokens -> Tokens \cup {Nobody}]
  BY <1>1, <1>5, Types DEF offsets, Sold, Turn, TypeOK
<1>7. Calm({t}) /\ Resting /\ CutDrawn' = CutDrawn /\ (\A places : At(places)' = At(places)) /\ rec' = rec
  <2>1. {t} \in SUBSET Tokens /\ lock \notin {t} BY <1>4
  <2>2. Sold' \in Nat /\ Turn' \in Nat /\ Sold <= Sold' /\ Turn <= Turn' BY <1>6
  <2> QED BY <1>3, <1>5, <2>1, <2>2, Beside
<1>8. Seen({t}) BY <1>3, OuterSeen
<1>9. Has(t)'
  <2>1. CASE Keeps(h, haz[t]) /\ (Acquired(t)' => Acquired(t))
    <3>1. Near(haz'[t].active_offset) \/ haz'[t].active_offset = haz[t].active_offset BY <1>3
    <3> QED BY <1>3, <1>7, <2>1, <3>1, HasStays
  <2> QED BY <2>1
<1>10. Met(t)'
  <2>1. ~Drawn(t)' /\ pc'[t] \notin Walking BY <1>3, Outside DEF Drawn
  <2>2. At({"swap", "revalidate"}) /\ t = rec.at => Near(haz[t].active_offset)'
    <3>1. At({"swap", "revalidate"}) /\ t = rec.at => Near(haz[t].active_offset) BY <1>1 DEF Met
    <3>2. haz'[t].active_offset = h.active_offset BY <1>3
    <3> QED BY <3>1, <3>2 DEF Near
  <2>3. Member(t)' /\ NobodyCame' => Member(t) /\ \A f \in Fields : haz'[t][f] = haz[t][f]
    BY <1>3
  <2> QED BY <1>4, <1>7, <2>1, <2>2, <2>3, MetStays
<1>11. Token(t)'
  <2>1. /\ Post(t)' /\ Pull(t)' /\ Sought(t)' /\ Parks(t)' /\ Closer(t)' /\ Uses(t)'
        /\ p \notin {"load_head", "init", "count", "recheck"} => Acquires(t)'
    BY <1>3, OuterToken
  <2> QED BY <1>9, <1>10, <2>1 DEF Token
<1>12. Asking'
  <2>1. CASE p \in BeforeDraw => pc[t] \in BeforeDraw /\ c.name = op[t].name /\ c.count = op[t].count
    <3>1. \A u \in Tokens : pc'[u] \in BeforeDraw =>
             pc[u] \in BeforeDraw /\ op'[u].name = op[u].name /\ op'[u].count = op[u].count
      BY <1>3, <2>1 DEF Only
    <3> QED BY <1>1, <1>6, <1>7, <3>1, AskingKeeps
  <2> QED BY <2>1
<1>13. op'[t].written <= op'[t].count /\ op'[t].seen <= reclaim_counter BY <1>3
<1> QED BY <1>3, <1>4, <1>5, <1>6, <1>8, <1>11, <1>12, <1>13, PrivateKeeps

\* Places and names by definition.
LEMMA Fixed ==
  ASSUME Running, NEW t \in Tokens
  PROVE  /\ Control(t) /\ Acquires(t) /\ Has(t) /\ Uses(t) /\ Met(t)
         /\ op[t].count \in Nat /\ op[t].written \in Nat /\ op[t].written <= op[t].count
         /\ op[t].seen \in Nat /\ op[t].seen <= reclaim_counter /\ reclaim_counter \in Nat
         /\ haz_ptr_counter \in Nat /\ head_offset \in Word /\ head_block \in blocks /\ blocks \subseteq Block
         /\ haz[t].owned \in BOOLEAN
         /\ op[t].idx \in Word /\ op[t].boff \in Word /\ op[t].end \in Word
         /\ op[t].walk \in Block \cup {Null} /\ op[t].block \in Block \cup {Null}
         /\ op[t].name \in {"none", "post", "post_bulk", "pull", "try_pull", "close"}
<1>1. Control(t) /\ Acquires(t) /\ Has(t) /\ Uses(t) /\ Met(t) /\ TypeOK BY DEF Running, Token
<1>2. op[t] \in CallType /\ haz[t] \in HazType BY <1>1, Types
<1>3. /\ op[t].count \in 0 .. MaxTicket /\ op[t].written \in 0 .. MaxTicket
      /\ op[t].seen \in Nat /\ op[t].idx \in Word /\ op[t].boff \in Word /\ op[t].end \in Word
      /\ op[t].walk \in Block \cup {Null} /\ op[t].block \in Block \cup {Null}
      /\ op[t].name \in {"none", "post", "post_bulk", "pull", "try_pull", "close"}
  BY <1>2 DEF CallType
<1>4. haz[t].owned \in BOOLEAN BY <1>2 DEF HazType
<1>5. /\ op[t].written <= op[t].count /\ op[t].seen <= reclaim_counter /\ reclaim_counter \in Nat
      /\ haz_ptr_counter \in Nat /\ head_offset \in Word
  BY <1>1 DEF TypeOK
<1>6. head_block \in blocks /\ blocks \subseteq Block BY <1>1, Bounds DEF TypeOK
<1> QED BY <1>1, <1>3, <1>4, <1>5, <1>6

\* A quarter of the range further is no position that is in use.
LEMMA InactiveIs ==
  ASSUME NEW x \in Word, Pos(x) <= Top
  PROVE  /\ Inactive(x) \in Word /\ Pos(Inactive(x)) = Pos(x) + InactiveHazptrOffset
         /\ Near(Inactive(x)) /\ 4 * InactiveHazptrOffset = WordMod /\ InactiveHazptrOffset \in Nat
<1>1. WordMod \in Nat /\ WordMod % 4 = 0 /\ Top \in Nat /\ 4 * Top < WordMod BY Sizes, TopIs
<1>2. 4 * InactiveHazptrOffset = WordMod /\ InactiveHazptrOffset \in Nat
  BY <1>1 DEF InactiveHazptrOffset
<1>3. Pos(x) \in Nat /\ 2 * (Pos(x) + InactiveHazptrOffset) < WordMod BY <1>1, <1>2, PosIs
<1>4. Inactive(x) \in Word /\ Pos(Inactive(x)) = Pos(x) + InactiveHazptrOffset
  <2>1. Pos(x) + InactiveHazptrOffset < WordMod BY <1>1, <1>2, <1>3
  <2> QED BY <1>2, <2>1, PosPlus DEF Inactive
<1> QED BY <1>2, <1>3, <1>4 DEF Near

\* get_hazard_ptr() and its release
\* The count of reclamations before the hazard pointer is taken.
LEMMA LoadReclaimCounterKeeps ==
  ASSUME Running, NEW t \in Tokens, LoadReclaimCounter(t)
  PROVE  Running'
<1>1. /\ pc[t] = "acquire" /\ UNCHANGED <<queue, reclaim_counter, reclaim, clients>>
      /\ setup' = setup /\ lock' = lock
  BY DEF LoadReclaimCounter, counters, clients, reclaim
<1>2. /\ Control(t) /\ Acquires(t) /\ Has(t) /\ op[t].count \in Nat /\ op[t].written \in Nat
      /\ op[t].written <= op[t].count /\ op[t].seen <= reclaim_counter /\ reclaim_counter \in Nat
      /\ haz_ptr_counter \in Nat /\ op[t] \in CallType /\ haz[t] \in HazType
  BY Fixed, Unmoved
<1>3. PICK c \in CallType : c = [op[t] EXCEPT !.seen = reclaim_counter] BY <1>2, Unmoved, Edited
<1>4. PICK h \in HazType : h = haz[t] BY <1>2, Unmoved, Edited
<1>5. pc' = [pc EXCEPT ![t] = "own"] /\ op' = [op EXCEPT ![t] = c] /\ haz' = [haz EXCEPT ![t] = h]
  BY <1>3, <1>4, Unmoved DEF LoadReclaimCounter, GoTo, Return
<1>6. /\ c.name = op[t].name /\ c.idx = op[t].idx /\ c.count = op[t].count /\ c.written = op[t].written /\ c.seen <= reclaim_counter
      /\ h.active_offset = haz[t].active_offset /\ h.owned = haz[t].owned /\ Keeps(h, haz[t])
  BY <1>2, <1>3, <1>4 DEF CallType, HazType, Keeps, NoCall
<1>7. /\ "own" \in Outer \ {"cutoff", "publish"} /\ pc[t] \in Outer \ {"cutoff", "publish"}
      /\ "own" \in Places /\ lock # t
  BY <1>1, <1>2 DEF Outer, Places, Control, Named, Acquiring, Polling, Closing, Reclaiming, Writing, Posting,
     Scanning, Visiting, Announcing, Moves, Sweeping
<1>8. pc'[t] = "own" /\ op'[t] = c /\ haz'[t] = h /\ Only({t}) BY <1>5, <1>7, Moved
<1>9. Control(t)'
  BY <1>1, <1>2, <1>6, <1>7, <1>8 DEF Control, Named, Acquiring, Polling, Closing, Reclaiming, Writing, Posting,
     Scanning, Visiting, Announcing, Moves, Sweeping
<1>10. haz_ptr_counter' = haz_ptr_counter BY DEF LoadReclaimCounter, counters
<1>11. haz_ptr_counter' \in Nat /\ haz_ptr_counter <= haz_ptr_counter' BY <1>2, <1>10
<1>12. ~Member(t)' /\ ~Acquired(t)' BY <1>8 DEF Member, Acquired, Uncounted
<1> QED BY <1>1, <1>2, <1>5, <1>6, <1>7, <1>9, <1>11, <1>12, OuterStep DEF BeforeDraw

\* The hazard pointer is taken.
LEMMA TryTakeOwnershipKeeps ==
  ASSUME Running, NEW t \in Tokens, TryTakeOwnership(t)
  PROVE  Running'
<1>1. /\ pc[t] = "own" /\ UNCHANGED <<queue, reclaim_counter, reclaim, clients>>
      /\ setup' = setup /\ lock' = lock
  BY DEF TryTakeOwnership, counters, clients, reclaim
<1>2. /\ Control(t) /\ Acquires(t) /\ Has(t) /\ op[t].count \in Nat /\ op[t].written \in Nat
      /\ op[t].written <= op[t].count /\ op[t].seen <= reclaim_counter /\ reclaim_counter \in Nat
      /\ haz_ptr_counter \in Nat /\ op[t] \in CallType /\ haz[t] \in HazType
  BY Fixed, Unmoved
<1>3. PICK c \in CallType : c = op[t] BY <1>2, Unmoved, Edited
<1>4. PICK h \in HazType : h = [haz[t] EXCEPT !.owned = TRUE] BY <1>2, Unmoved, Edited
<1>5. pc' = [pc EXCEPT ![t] = "load_offset"] /\ op' = [op EXCEPT ![t] = c] /\ haz' = [haz EXCEPT ![t] = h]
  BY <1>3, <1>4, Unmoved DEF TryTakeOwnership, GoTo, Return
<1>6. /\ c.name = op[t].name /\ c.idx = op[t].idx /\ c.count = op[t].count /\ c.written = op[t].written /\ c.seen <= reclaim_counter
      /\ h.active_offset = haz[t].active_offset /\ h.owned /\ Keeps(h, haz[t])
  BY <1>2, <1>3, <1>4 DEF CallType, HazType, Keeps, NoCall
<1>7. /\ "load_offset" \in Outer \ {"cutoff", "publish"} /\ pc[t] \in Outer \ {"cutoff", "publish"}
      /\ "load_offset" \in Places /\ lock # t
  BY <1>1, <1>2 DEF Outer, Places, Control, Named, Acquiring, Polling, Closing, Reclaiming, Writing, Posting,
     Scanning, Visiting, Announcing, Moves, Sweeping
<1>8. pc'[t] = "load_offset" /\ op'[t] = c /\ haz'[t] = h /\ Only({t}) BY <1>5, <1>7, Moved
<1>9. Control(t)'
  BY <1>1, <1>2, <1>6, <1>7, <1>8 DEF Control, Named, Acquiring, Polling, Closing, Reclaiming, Writing, Posting,
     Scanning, Visiting, Announcing, Moves, Sweeping
<1>10. haz_ptr_counter' = haz_ptr_counter BY DEF TryTakeOwnership, counters
<1>11. haz_ptr_counter' \in Nat /\ haz_ptr_counter <= haz_ptr_counter' BY <1>2, <1>10
<1>12. ~Member(t)' /\ ~Acquired(t)' BY <1>8 DEF Member, Acquired, Uncounted
<1> QED BY <1>1, <1>2, <1>5, <1>6, <1>7, <1>9, <1>11, <1>12, OuterStep DEF BeforeDraw

\* Where the list begins, and an offset that is not after it.
LEMMA LoadHeadOffsetKeeps ==
  ASSUME Running, NEW t \in Tokens, LoadHeadOffset(t)
  PROVE  Running'
<1>1. /\ pc[t] = "load_offset" /\ UNCHANGED <<queue, reclaim_counter, reclaim, clients>>
      /\ setup' = setup /\ lock' = lock
  BY DEF LoadHeadOffset, counters, clients, reclaim
<1>2. /\ Control(t) /\ Acquires(t) /\ Has(t) /\ op[t].count \in Nat /\ op[t].written \in Nat
      /\ op[t].written <= op[t].count /\ op[t].seen <= reclaim_counter /\ reclaim_counter \in Nat
      /\ haz_ptr_counter \in Nat /\ op[t] \in CallType /\ haz[t] \in HazType
  BY Fixed, Unmoved
<1>3. PICK c \in CallType : c = [op[t] EXCEPT !.boff = head_offset]
  BY <1>2, Fixed, Unmoved, Edited
<1>4. PICK h \in HazType : h = haz[t] BY <1>2, Unmoved, Edited
<1>5. pc' = [pc EXCEPT ![t] = "load_head"] /\ op' = [op EXCEPT ![t] = c] /\ haz' = [haz EXCEPT ![t] = h]
  BY <1>3, <1>4, Unmoved DEF LoadHeadOffset, GoTo, Return
<1>6. /\ c.name = op[t].name /\ c.idx = op[t].idx /\ c.count = op[t].count /\ c.written = op[t].written /\ c.seen = op[t].seen /\ c.boff = head_offset
      /\ h.active_offset = haz[t].active_offset /\ h.owned = haz[t].owned /\ Keeps(h, haz[t])
  BY <1>2, <1>3, <1>4 DEF CallType, HazType, Keeps, NoCall
<1>7. /\ "load_head" \in Outer \ {"cutoff", "publish"} /\ pc[t] \in Outer \ {"cutoff", "publish"}
      /\ "load_head" \in Places /\ lock # t
  BY <1>1, <1>2 DEF Outer, Places, Control, Named, Acquiring, Polling, Closing, Reclaiming, Writing, Posting,
     Scanning, Visiting, Announcing, Moves, Sweeping
<1>8. pc'[t] = "load_head" /\ op'[t] = c /\ haz'[t] = h /\ Only({t}) BY <1>5, <1>7, Moved
<1>9. Control(t)'
  BY <1>1, <1>2, <1>6, <1>7, <1>8 DEF Control, Named, Acquiring, Polling, Closing, Reclaiming, Writing, Posting,
     Scanning, Visiting, Announcing, Moves, Sweeping
<1>10. haz_ptr_counter' = haz_ptr_counter BY DEF LoadHeadOffset, counters
<1>11. haz_ptr_counter' \in Nat /\ haz_ptr_counter <= haz_ptr_counter' BY <1>2, <1>10
<1>12. ~Member(t)' /\ ~Acquired(t)' BY <1>8 DEF Member, Acquired, Uncounted
<1>13. /\ First(ListHead)' = First(ListHead) /\ ListHead \in blocks /\ blocks' = blocks
       /\ reclaim_counter' = reclaim_counter
       /\ \A b : First(b)' = First(b) /\ Good(b)' = Good(b)
  <2>1. {t} \in SUBSET Tokens /\ lock \notin {t} /\ UNCHANGED <<queue, reclaim_counter, reclaim, setup>>
    BY <1>1, <1>7
  <2>2. /\ ListHead' = ListHead /\ blocks' = blocks /\ \A b : First(b)' = First(b) /\ Good(b)' = Good(b)
    BY <1>8, <1>11, <2>1, Frame
  <2>3. First(ListHead)' = First(ListHead) BY <2>1, <2>2 DEF First, queue, list
  <2> QED BY <1>1, <2>2, <2>3, Bounds
<1>14. Acquires(t)'
  <2>1. Pos(head_offset) <= First(ListHead) BY DEF Running, Heads
  <2> QED BY <1>6, <1>8, <1>13, <2>1 DEF Acquires
<1> QED BY <1>1, <1>2, <1>5, <1>6, <1>7, <1>9, <1>11, <1>12, <1>14, OuterStep DEF BeforeDraw

\* The first block, which may be taken back.
LEMMA LoadHeadKeeps ==
  ASSUME Running, NEW t \in Tokens, LoadHead(t)
  PROVE  Running'
<1>1. /\ pc[t] = "load_head" /\ UNCHANGED <<queue, reclaim_counter, reclaim, clients>>
      /\ setup' = setup /\ lock' = lock
  BY DEF LoadHead, counters, clients, reclaim
<1>2. /\ Control(t) /\ Acquires(t) /\ Has(t) /\ op[t].count \in Nat /\ op[t].written \in Nat
      /\ op[t].written <= op[t].count /\ op[t].seen <= reclaim_counter /\ reclaim_counter \in Nat
      /\ haz_ptr_counter \in Nat /\ op[t] \in CallType /\ haz[t] \in HazType
  BY Fixed, Unmoved
<1>3. PICK c \in CallType : c = [op[t] EXCEPT !.block = head_block]
  BY <1>2, Fixed, Unmoved, Edited
<1>4. PICK h \in HazType : h = haz[t] BY <1>2, Unmoved, Edited
<1>5. pc' = [pc EXCEPT ![t] = "init"] /\ op' = [op EXCEPT ![t] = c] /\ haz' = [haz EXCEPT ![t] = h]
  BY <1>3, <1>4, Unmoved DEF LoadHead, GoTo, Return
<1>6. /\ c.name = op[t].name /\ c.idx = op[t].idx /\ c.count = op[t].count /\ c.written = op[t].written /\ c.seen = op[t].seen /\ c.boff = op[t].boff /\ c.block = head_block
      /\ h.active_offset = haz[t].active_offset /\ h.owned = haz[t].owned /\ Keeps(h, haz[t])
  BY <1>2, <1>3, <1>4 DEF CallType, HazType, Keeps, NoCall
<1>7. /\ "init" \in Outer \ {"cutoff", "publish"} /\ pc[t] \in Outer \ {"cutoff", "publish"}
      /\ "init" \in Places /\ lock # t
  BY <1>1, <1>2 DEF Outer, Places, Control, Named, Acquiring, Polling, Closing, Reclaiming, Writing, Posting,
     Scanning, Visiting, Announcing, Moves, Sweeping
<1>8. pc'[t] = "init" /\ op'[t] = c /\ haz'[t] = h /\ Only({t}) BY <1>5, <1>7, Moved
<1>9. Control(t)'
  BY <1>1, <1>2, <1>6, <1>7, <1>8 DEF Control, Named, Acquiring, Polling, Closing, Reclaiming, Writing, Posting,
     Scanning, Visiting, Announcing, Moves, Sweeping
<1>10. haz_ptr_counter' = haz_ptr_counter BY DEF LoadHead, counters
<1>11. haz_ptr_counter' \in Nat /\ haz_ptr_counter <= haz_ptr_counter' BY <1>2, <1>10
<1>12. ~Member(t)' /\ ~Acquired(t)' BY <1>8 DEF Member, Acquired, Uncounted
<1>13. /\ First(ListHead)' = First(ListHead) /\ ListHead \in blocks /\ blocks' = blocks
       /\ reclaim_counter' = reclaim_counter
       /\ \A b : First(b)' = First(b) /\ Good(b)' = Good(b)
  <2>1. {t} \in SUBSET Tokens /\ lock \notin {t} /\ UNCHANGED <<queue, reclaim_counter, reclaim, setup>>
    BY <1>1, <1>7
  <2>2. /\ ListHead' = ListHead /\ blocks' = blocks /\ \A b : First(b)' = First(b) /\ Good(b)' = Good(b)
    BY <1>8, <1>11, <2>1, Frame
  <2>3. First(ListHead)' = First(ListHead) BY <2>1, <2>2 DEF First, queue, list
  <2> QED BY <1>1, <2>2, <2>3, Bounds
<1>14. Good(head_block) /\ head_block \in blocks
  <2>1. Heads /\ Reclaim BY DEF Running
  <2>2. At({"validate"}) => At(Announcing \cup {"rollback", "commit"} \cup Moves)
    BY DEF At, Announcing
  <2>3. At({"validate"}) => rec.new = head_block BY <2>1, <2>2 DEF Reclaim
  <2>4. First(head_block) \in Nat /\ head_block \in blocks BY Fixed, Types DEF Running
  <2> QED BY <2>1, <2>3, <2>4 DEF Good, Heads
<1>15. Acquires(t)'
  <2>1. Pos(c.boff) <= First(ListHead) BY <1>1, <1>2, <1>6 DEF Acquires
  <2>2. PICK g : g = head_block OBVIOUS
  <2>3. op'[t].block = g /\ g \in blocks' /\ Good(g)' BY <1>6, <1>8, <1>13, <1>14, <2>2
  <2> QED BY <1>6, <1>8, <1>13, <2>1, <2>3 DEF Acquires
<1> QED BY <1>1, <1>2, <1>5, <1>6, <1>7, <1>9, <1>11, <1>12, <1>15, OuterStep DEF BeforeDraw

\* The offset that get_hazard_ptr() begins with is in use.
LEMMA InitOffset ==
  ASSUME Running, NEW t \in Tokens, Pos(op[t].boff) <= First(ListHead)
  PROVE  Near(Inactive(op[t].boff)) /\ Inactive(op[t].boff) \in Word
<1>1. op[t].boff \in Word BY Fixed
<1>2. /\ First(ListHead) <= Sold /\ Sold <= Top /\ ListHead \in blocks /\ Top \in Nat
      /\ Pos(op[t].boff) \in Nat /\ Sold \in Nat /\ First(ListHead) \in Nat
  BY <1>1, Bounds, PosIs, Types DEF Running
<1>3. Pos(op[t].boff) <= Top BY <1>2
<1> QED BY <1>1, <1>3, InactiveIs

\* A new hazard pointer begins at the block the token was given.
LEMMA NewHazPtr ==
  ASSUME Running, NEW t \in Tokens, pc[t] = "init"
  PROVE  [owned |-> TRUE, active_offset |-> Inactive(op[t].boff),
          write_block |-> op[t].block, read_block |-> op[t].block,
          next_protect_write |-> op[t].boff, next_protect_read |-> op[t].boff] \in HazType
<1>1. op[t].boff \in Word /\ op[t].block \in Block \cup {Null} /\ Acquires(t) BY Fixed
<1>2. Inactive(op[t].boff) \in Word BY <1>1, InitOffset DEF Acquires
<1> QED BY <1>1, <1>2 DEF HazType

\* The hazard pointer's blocks, which nobody counts on yet.
LEMMA InitHazPtrKeeps ==
  ASSUME Running, NEW t \in Tokens, InitHazPtr(t)
  PROVE  Running'
<1>1. /\ pc[t] = "init" /\ UNCHANGED <<queue, reclaim_counter, reclaim, clients>>
      /\ setup' = setup /\ lock' = lock
  BY DEF InitHazPtr, counters, clients, reclaim
<1>2. /\ Control(t) /\ Acquires(t) /\ Has(t) /\ op[t].count \in Nat /\ op[t].written \in Nat
      /\ op[t].written <= op[t].count /\ op[t].seen <= reclaim_counter /\ reclaim_counter \in Nat
      /\ haz_ptr_counter \in Nat /\ op[t] \in CallType /\ haz[t] \in HazType
  BY Fixed, Unmoved
<1>3. PICK c \in CallType : c = op[t] BY <1>2, Unmoved, Edited
<1>4. PICK h \in HazType : h = 
          [owned |-> TRUE, active_offset |-> Inactive(op[t].boff),
           write_block |-> op[t].block, read_block |-> op[t].block,
           next_protect_write |-> op[t].boff, next_protect_read |-> op[t].boff]
  BY <1>1, NewHazPtr
<1>5. pc' = [pc EXCEPT ![t] = "count"] /\ op' = [op EXCEPT ![t] = c] /\ haz' = [haz EXCEPT ![t] = h]
  BY <1>3, <1>4, Unmoved DEF InitHazPtr, GoTo, Return
<1>6. /\ c.name = op[t].name /\ c.idx = op[t].idx /\ c.count = op[t].count /\ c.written = op[t].written /\ c.seen = op[t].seen /\ c.boff = op[t].boff
      /\ h.active_offset = Inactive(op[t].boff) /\ h.owned
      /\ h.write_block = op[t].block /\ h.read_block = op[t].block
      /\ h.next_protect_write = op[t].boff /\ h.next_protect_read = op[t].boff
  BY <1>2, <1>3, <1>4 DEF CallType, HazType, Keeps, NoCall
<1>7. /\ "count" \in Outer \ {"cutoff", "publish"} /\ pc[t] \in Outer \ {"cutoff", "publish"}
      /\ "count" \in Places /\ lock # t
  BY <1>1, <1>2 DEF Outer, Places, Control, Named, Acquiring, Polling, Closing, Reclaiming, Writing, Posting,
     Scanning, Visiting, Announcing, Moves, Sweeping
<1>8. pc'[t] = "count" /\ op'[t] = c /\ haz'[t] = h /\ Only({t}) BY <1>5, <1>7, Moved
<1>9. Control(t)'
  BY <1>1, <1>2, <1>6, <1>7, <1>8 DEF Control, Named, Acquiring, Polling, Closing, Reclaiming, Writing, Posting,
     Scanning, Visiting, Announcing, Moves, Sweeping
<1>10. haz_ptr_counter' = haz_ptr_counter BY DEF InitHazPtr, counters
<1>11. haz_ptr_counter' \in Nat /\ haz_ptr_counter <= haz_ptr_counter' BY <1>2, <1>10
<1>12. ~Member(t)' /\ ~Acquired(t)' BY <1>8 DEF Member, Acquired, Uncounted
<1>13. /\ First(ListHead)' = First(ListHead) /\ ListHead \in blocks /\ blocks' = blocks
       /\ reclaim_counter' = reclaim_counter
       /\ \A b : First(b)' = First(b) /\ Good(b)' = Good(b)
  <2>1. {t} \in SUBSET Tokens /\ lock \notin {t} /\ UNCHANGED <<queue, reclaim_counter, reclaim, setup>>
    BY <1>1, <1>7
  <2>2. /\ ListHead' = ListHead /\ blocks' = blocks /\ \A b : First(b)' = First(b) /\ Good(b)' = Good(b)
    BY <1>8, <1>11, <2>1, Frame
  <2>3. First(ListHead)' = First(ListHead) BY <2>1, <2>2 DEF First, queue, list
  <2> QED BY <1>1, <2>2, <2>3, Bounds
<1>14. /\ op[t].block \in blocks /\ (Settled(t) => Good(op[t].block))
       /\ Pos(op[t].boff) <= First(ListHead) /\ Near(h.active_offset)
  <2>1. /\ op[t].block \in blocks /\ (Settled(t) => Good(op[t].block))
        /\ Pos(op[t].boff) <= First(ListHead)
    BY <1>1, <1>2 DEF Acquires
  <2>2. Near(Inactive(op[t].boff)) BY <2>1, InitOffset
  <2> QED BY <1>6, <2>1, <2>2
<1>15. Acquires(t)'
  <2>1. PICK b : b = op[t].block OBVIOUS
  <2>2. haz'[t].write_block = b /\ haz'[t].read_block = b /\ b \in blocks'
    BY <1>6, <1>8, <1>13, <1>14, <2>1
  <2>3. Settled(t)' => Settled(t) BY <1>1, <1>6, <1>8 DEF Settled
  <2>4. Settled(t) => Good(b)' /\ Pos(op[t].boff) <= First(b)'
    <3>1. Settled(t) => First(ListHead) <= First(b) /\ Good(b) BY <1>14, <2>1 DEF Good, OnList
    <3>2. First(ListHead) \in Nat /\ First(b) \in Nat /\ Pos(op[t].boff) \in Nat
      BY <1>13, <1>14, <2>1, Types, Fixed, PosIs DEF Running
    <3> QED BY <1>13, <1>14, <3>1, <3>2
  <2> QED BY <1>6, <1>8, <2>2, <2>3, <2>4 DEF Acquires
<1>16. Has(t)'
  <2>1. \A f \in Fields : haz'[t][f] \in blocks' BY <1>6, <1>8, <1>13, <1>14 DEF Fields
  <2> QED BY <1>8, <1>12, <1>14, <2>1 DEF Has, Near
<1> QED BY <1>1, <1>2, <1>5, <1>6, <1>7, <1>9, <1>11, <1>12, <1>14, <1>15, <1>16, OuterStep DEF BeforeDraw

\* The count that the reclaimer looks at.
LEMMA CountHazPtrKeeps ==
  ASSUME Running, NEW t \in Tokens, CountHazPtr(t)
  PROVE  Running'
<1>1. /\ pc[t] = "count" /\ UNCHANGED <<queue, reclaim_counter, reclaim, clients>>
      /\ setup' = setup /\ lock' = lock
  BY DEF CountHazPtr, counters, clients, reclaim
<1>2. /\ Control(t) /\ Acquires(t) /\ Has(t) /\ op[t].count \in Nat /\ op[t].written \in Nat
      /\ op[t].written <= op[t].count /\ op[t].seen <= reclaim_counter /\ reclaim_counter \in Nat
      /\ haz_ptr_counter \in Nat /\ op[t] \in CallType /\ haz[t] \in HazType
  BY Fixed, Unmoved
<1>3. PICK c \in CallType : c = op[t] BY <1>2, Unmoved, Edited
<1>4. PICK h \in HazType : h = haz[t] BY <1>2, Unmoved, Edited
<1>5. pc' = [pc EXCEPT ![t] = "recheck"] /\ op' = [op EXCEPT ![t] = c] /\ haz' = [haz EXCEPT ![t] = h]
  BY <1>3, <1>4, Unmoved DEF CountHazPtr, GoTo, Return
<1>6. /\ c.name = op[t].name /\ c.idx = op[t].idx /\ c.count = op[t].count /\ c.written = op[t].written /\ c.seen = op[t].seen
      /\ h.active_offset = haz[t].active_offset /\ h.owned = haz[t].owned /\ Keeps(h, haz[t]) /\ h = haz[t]
  BY <1>2, <1>3, <1>4 DEF CallType, HazType, Keeps, NoCall
<1>7. /\ "recheck" \in Outer \ {"cutoff", "publish"} /\ pc[t] \in Outer \ {"cutoff", "publish"}
      /\ "recheck" \in Places /\ lock # t
  BY <1>1, <1>2 DEF Outer, Places, Control, Named, Acquiring, Polling, Closing, Reclaiming, Writing, Posting,
     Scanning, Visiting, Announcing, Moves, Sweeping
<1>8. pc'[t] = "recheck" /\ op'[t] = c /\ haz'[t] = h /\ Only({t}) BY <1>5, <1>7, Moved
<1>9. Control(t)'
  BY <1>1, <1>2, <1>6, <1>7, <1>8 DEF Control, Named, Acquiring, Polling, Closing, Reclaiming, Writing, Posting,
     Scanning, Visiting, Announcing, Moves, Sweeping
<1>10. haz_ptr_counter' = haz_ptr_counter + 1 BY DEF CountHazPtr
<1>11. haz_ptr_counter' \in Nat /\ haz_ptr_counter <= haz_ptr_counter' BY <1>2, <1>10
<1>12. ~NobodyCame'
  <2>1. rec.count \in Nat /\ rec.count <= haz_ptr_counter /\ rec' = rec
    BY <1>1 DEF Running, TypeOK, RecType, reclaim
  <2> QED BY <1>2, <1>10, <2>1 DEF NobodyCame
<1>13. /\ First(ListHead)' = First(ListHead) /\ ListHead \in blocks /\ blocks' = blocks
       /\ reclaim_counter' = reclaim_counter
       /\ \A b : First(b)' = First(b) /\ Good(b)' = Good(b)
  <2>1. {t} \in SUBSET Tokens /\ lock \notin {t} /\ UNCHANGED <<queue, reclaim_counter, reclaim, setup>>
    BY <1>1, <1>7
  <2>2. /\ ListHead' = ListHead /\ blocks' = blocks /\ \A b : First(b)' = First(b) /\ Good(b)' = Good(b)
    BY <1>8, <1>11, <2>1, Frame
  <2>3. First(ListHead)' = First(ListHead) BY <2>1, <2>2 DEF First, queue, list
  <2> QED BY <1>1, <2>2, <2>3, Bounds
<1>14. /\ {haz[t].write_block, haz[t].read_block} \subseteq blocks
       /\ Settled(t) =>
             /\ Good(haz[t].write_block) /\ Good(haz[t].read_block)
             /\ Pos(haz[t].next_protect_write) <= First(haz[t].write_block)
             /\ Pos(haz[t].next_protect_read) <= First(haz[t].read_block)
  BY <1>1, <1>2 DEF Acquires
<1>15. PICK w, r : w = haz[t].write_block /\ r = haz[t].read_block OBVIOUS
<1>16. /\ haz'[t].write_block = w /\ haz'[t].read_block = r /\ Settled(t)' = Settled(t)
       /\ haz'[t].next_protect_write = haz[t].next_protect_write
       /\ haz'[t].next_protect_read = haz[t].next_protect_read
  BY <1>1, <1>6, <1>8, <1>15 DEF Settled
<1>17. Acquires(t)' BY <1>8, <1>13, <1>14, <1>15, <1>16 DEF Acquires
<1>18. Has(t)'
  <2>1. \A f \in Fields : haz'[t][f] # Null => haz'[t][f] \in blocks' /\ Near(haz[t].active_offset)'
    BY <1>2, <1>6, <1>8, <1>13 DEF Has, Near
  <2>2. Acquired(t)' => Settled(t) BY <1>8, <1>16 DEF Acquired
  <2>3. Settled(t) => /\ {w, r} \subseteq OnList' /\ First(w)' <= Sold' /\ First(r)' <= Turn'
    <3>1. Settled(t) => Good(w)' /\ Good(r)' BY <1>13, <1>14, <1>15
    <3> QED BY <3>1 DEF Good
  <2> QED BY <1>13, <1>14, <1>15, <1>16, <2>1, <2>2, <2>3 DEF Has
<1> QED BY <1>1, <1>2, <1>5, <1>6, <1>7, <1>9, <1>11, <1>12, <1>17, <1>18, OuterStep DEF BeforeDraw

\* A hazard pointer that was taken while blocks were moved is taken again.
LEMMA RecheckReclaimKeeps ==
  ASSUME Running, NEW t \in Tokens, RecheckReclaim(t)
  PROVE  Running'
<1>1. /\ pc[t] = "recheck" /\ UNCHANGED <<queue, reclaim_counter, reclaim, clients>>
      /\ setup' = setup /\ lock' = lock /\ haz_ptr_counter' = haz_ptr_counter
  BY DEF RecheckReclaim, counters, clients, reclaim
<1>2. /\ Control(t) /\ Acquires(t) /\ Has(t) /\ op[t].count \in Nat /\ op[t].written \in Nat
      /\ op[t].written <= op[t].count /\ reclaim_counter \in Nat
      /\ haz_ptr_counter \in Nat /\ op[t] \in CallType /\ haz[t] \in HazType
  BY Fixed, Unmoved
<1>3. PICK n \in Nat : n = IF Settled(t) THEN 0 ELSE reclaim_counter BY <1>2
<1>4. PICK p : p = IF Settled(t) THEN "protect" ELSE "load_offset" OBVIOUS
<1>5. PICK c \in CallType : c = [op[t] EXCEPT !.seen = n, !.boff = 0, !.block = Null]
  <2>1. 0 \in Word /\ Null \in Block \cup {Null} BY Sizes DEF Word
  <2> QED BY <1>2, <2>1 DEF CallType
<1>6. pc' = [pc EXCEPT ![t] = p] /\ op' = [op EXCEPT ![t] = c] /\ haz' = [haz EXCEPT ![t] = haz[t]]
  <2>1. op \in [Tokens -> CallType] BY DEF Running, TypeOK
  <2>2. op' = [op EXCEPT ![t].seen = n, ![t].boff = 0, ![t].block = Null]
    BY <1>3 DEF RecheckReclaim
  <2>3. op' = [op EXCEPT ![t] = c] BY <1>5, <2>1, <2>2
  <2> QED BY <1>4, <2>3, Unmoved DEF RecheckReclaim, GoTo
<1>7. /\ c.name = op[t].name /\ c.idx = op[t].idx /\ c.count = op[t].count /\ c.written = op[t].written
      /\ c.seen <= reclaim_counter
  BY <1>2, <1>3, <1>5 DEF CallType
<1>8. /\ p \in Outer \ {"cutoff", "publish"} /\ pc[t] \in Outer \ {"cutoff", "publish"}
      /\ p \in Places /\ lock # t /\ p \in {"protect", "load_offset"} /\ haz[t].owned
  BY <1>1, <1>2, <1>4 DEF Outer, Places, Control, Named, Acquiring, Polling, Closing, Reclaiming, Writing,
     Posting, Scanning, Visiting, Announcing, Moves, Sweeping
<1>9. pc'[t] = p /\ op'[t] = c /\ haz'[t] = haz[t] /\ Only({t}) BY <1>2, <1>6, <1>8, Moved
<1>10. Control(t)'
  BY <1>1, <1>2, <1>7, <1>8, <1>9 DEF Control, Named, Acquiring, Polling, Closing, Reclaiming, Writing,
     Posting, Scanning, Visiting, Announcing, Moves, Sweeping
<1>11. PICK h \in HazType : h = haz[t] BY <1>2
<1>12. /\ Member(t) /\ (Acquired(t)' => Acquired(t)) /\ Keeps(h, haz[t])
       /\ haz' = [haz EXCEPT ![t] = h] /\ h.active_offset = haz[t].active_offset
       /\ \A f \in Fields : h[f] = haz[t][f]
  BY <1>1, <1>4, <1>6, <1>8, <1>9, <1>11 DEF Member, Acquired, Uncounted, Keeps
<1>13. haz_ptr_counter' \in Nat /\ haz_ptr_counter <= haz_ptr_counter' BY <1>1, <1>2
<1>14. /\ p \notin {"load_head", "init", "count", "recheck"} /\ p # "draw" /\ pc[t] \in BeforeDraw
       /\ c.written <= c.count
  BY <1>1, <1>2, <1>7, <1>8 DEF BeforeDraw
<1> QED BY <1>1, <1>6, <1>7, <1>8, <1>10, <1>12, <1>13, <1>14, OuterStep

\* A hazard pointer that is given back leads to no block.
LEMMA FreeHazPtr ==
  \A h \in HazType : [h EXCEPT !.write_block = Null, !.read_block = Null] \in HazType
BY DEF HazType

\* free_hazard_ptr(): nothing is protected any more ...
LEMMA FreeKeeps ==
  ASSUME Running, NEW t \in Tokens, Free(t)
  PROVE  Running'
<1>1. /\ pc[t] = "idle" /\ UNCHANGED <<queue, reclaim_counter, reclaim, clients>>
      /\ setup' = setup /\ lock' = lock /\ haz[t].owned
  BY DEF Free, counters, clients, reclaim
<1>2. /\ Control(t) /\ Acquires(t) /\ Has(t) /\ op[t].count \in Nat /\ op[t].written \in Nat
      /\ op[t].written <= op[t].count /\ op[t].seen <= reclaim_counter /\ reclaim_counter \in Nat
      /\ haz_ptr_counter \in Nat /\ op[t] \in CallType /\ haz[t] \in HazType
  BY Fixed, Unmoved
<1>3. PICK c \in CallType : c = op[t] BY <1>2, Unmoved, Edited
<1>4. PICK h \in HazType : h = [haz[t] EXCEPT !.write_block = Null, !.read_block = Null]
  BY <1>2, FreeHazPtr
<1>5. pc' = [pc EXCEPT ![t] = "disown"] /\ op' = [op EXCEPT ![t] = c] /\ haz' = [haz EXCEPT ![t] = h]
  <2>1. haz \in [Tokens -> HazType] BY DEF Running, TypeOK
  <2>2. haz' = [haz EXCEPT ![t] = h] BY <1>4, <2>1 DEF Free
  <2> QED BY <1>3, <2>2, Unmoved DEF Free, GoTo
<1>6. /\ c.name = op[t].name /\ c.idx = op[t].idx /\ c.count = op[t].count /\ c.written = op[t].written /\ c.seen = op[t].seen
      /\ h.active_offset = haz[t].active_offset /\ h.owned = haz[t].owned
      /\ h.write_block = Null /\ h.read_block = Null
  BY <1>2, <1>3, <1>4 DEF CallType, HazType, Keeps, NoCall
<1>7. /\ "disown" \in Outer \ {"cutoff", "publish"} /\ pc[t] \in Outer \ {"cutoff", "publish"}
      /\ "disown" \in Places /\ lock # t
  BY <1>1, <1>2 DEF Outer, Places, Control, Named, Acquiring, Polling, Closing, Reclaiming, Writing, Posting,
     Scanning, Visiting, Announcing, Moves, Sweeping
<1>8. pc'[t] = "disown" /\ op'[t] = c /\ haz'[t] = h /\ Only({t}) BY <1>5, <1>7, Moved
<1>9. Control(t)'
  BY <1>1, <1>2, <1>6, <1>7, <1>8 DEF Control, Named, Acquiring, Polling, Closing, Reclaiming, Writing, Posting,
     Scanning, Visiting, Announcing, Moves, Sweeping
<1>10. haz_ptr_counter' = haz_ptr_counter BY DEF Free, counters
<1>11. haz_ptr_counter' \in Nat /\ haz_ptr_counter <= haz_ptr_counter' BY <1>2, <1>10
<1>12. ~Member(t)' /\ ~Acquired(t)' BY <1>8 DEF Member, Acquired, Uncounted
<1>13. Has(t)'
  <2>1. \A f \in Fields : haz'[t][f] = Null BY <1>6, <1>8 DEF Fields
  <2> QED BY <1>12, <2>1 DEF Has
<1> QED BY <1>1, <1>2, <1>5, <1>6, <1>7, <1>9, <1>11, <1>12, <1>13, OuterStep DEF BeforeDraw

\* ... and the hazard pointer is another's to take.
LEMMA ReleaseOwnershipKeeps ==
  ASSUME Running, NEW t \in Tokens, ReleaseOwnership(t)
  PROVE  Running'
<1>1. /\ pc[t] = "disown" /\ UNCHANGED <<queue, reclaim_counter, reclaim, clients>>
      /\ setup' = setup /\ lock' = lock
  BY DEF ReleaseOwnership, counters, clients, reclaim
<1>2. /\ Control(t) /\ Acquires(t) /\ Has(t) /\ op[t].count \in Nat /\ op[t].written \in Nat
      /\ op[t].written <= op[t].count /\ op[t].seen <= reclaim_counter /\ reclaim_counter \in Nat
      /\ haz_ptr_counter \in Nat /\ op[t] \in CallType /\ haz[t] \in HazType
  BY Fixed, Unmoved
<1>3. PICK c \in CallType : c = NoCall BY <1>2, Edited
<1>4. PICK h \in HazType : h = [haz[t] EXCEPT !.owned = FALSE] BY <1>2, Unmoved, Edited
<1>5. pc' = [pc EXCEPT ![t] = "idle"] /\ op' = [op EXCEPT ![t] = c] /\ haz' = [haz EXCEPT ![t] = h]
  BY <1>3, <1>4, Unmoved DEF ReleaseOwnership, GoTo, Return
<1>6. /\ c.name = "none" /\ c.idx = 0 /\ c.count = 0 /\ c.written = 0 /\ c.seen = 0
      /\ h.active_offset = haz[t].active_offset /\ ~h.owned /\ Keeps(h, haz[t])
  BY <1>2, <1>3, <1>4 DEF CallType, HazType, Keeps, NoCall
<1>7. /\ "idle" \in Outer \ {"cutoff", "publish"} /\ pc[t] \in Outer \ {"cutoff", "publish"}
      /\ "idle" \in Places /\ lock # t
  BY <1>1, <1>2 DEF Outer, Places, Control, Named, Acquiring, Polling, Closing, Reclaiming, Writing, Posting,
     Scanning, Visiting, Announcing, Moves, Sweeping
<1>8. pc'[t] = "idle" /\ op'[t] = c /\ haz'[t] = h /\ Only({t}) BY <1>5, <1>7, Moved
<1>9. Control(t)'
  BY <1>1, <1>2, <1>6, <1>7, <1>8 DEF Control, Named, Acquiring, Polling, Closing, Reclaiming, Writing, Posting,
     Scanning, Visiting, Announcing, Moves, Sweeping
<1>10. haz_ptr_counter' = haz_ptr_counter BY DEF ReleaseOwnership, counters
<1>11. haz_ptr_counter' \in Nat /\ haz_ptr_counter <= haz_ptr_counter' BY <1>2, <1>10
<1>12. ~Member(t)' /\ ~Acquired(t)' BY <1>6, <1>8 DEF Member, Acquired, Uncounted
<1>13. c.written <= c.count /\ c.seen <= reclaim_counter BY <1>2, <1>6
<1> QED BY <1>1, <1>2, <1>5, <1>6, <1>7, <1>9, <1>11, <1>12, <1>13, OuterStep DEF BeforeDraw

\* Protecting, and giving it up
\* What a hazard pointer keeps to protect.
LEMMA Protected ==
  ASSUME Running, NEW t \in Tokens, Acquired(t)
  PROVE  /\ haz[t].next_protect_write \in Word /\ haz[t].next_protect_read \in Word
         /\ Near(haz[t].next_protect_write) /\ Near(haz[t].next_protect_read)
         /\ haz[t].write_block \in blocks /\ haz[t].read_block \in blocks
         /\ Pos(haz[t].next_protect_write) <= First(haz[t].write_block)
         /\ Pos(haz[t].next_protect_read) <= First(haz[t].read_block)
<1>1. haz[t].next_protect_write \in Word /\ haz[t].next_protect_read \in Word /\ OnList \subseteq blocks
  BY Types DEF Running
<1>2. /\ haz[t].write_block \in OnList /\ haz[t].read_block \in OnList
      /\ Pos(haz[t].next_protect_write) <= First(haz[t].write_block)
      /\ Pos(haz[t].next_protect_read) <= First(haz[t].read_block)
  BY Fixed DEF Has
<1>3. \A b \in blocks : First(b) \in Nat /\ 2 * First(b) < WordMod BY Types, Bounds DEF Running
<1>4. \A x \in Word : Pos(x) \in Nat BY PosIs
<1> QED BY <1>1, <1>2, <1>3, <1>4, Sizes DEF Near

\* What the call may come to is protected before it draws a ticket.
LEMMA ProtectKeeps ==
  ASSUME Running, NEW t \in Tokens, Protect(t)
  PROVE  Running'
<1>1. /\ pc[t] = "protect" /\ UNCHANGED <<queue, reclaim_counter, reclaim, clients>>
      /\ setup' = setup /\ lock' = lock
  BY DEF Protect, counters, clients, reclaim
<1>2. /\ Control(t) /\ Acquires(t) /\ Has(t) /\ op[t].count \in Nat /\ op[t].written \in Nat
      /\ op[t].written <= op[t].count /\ op[t].seen <= reclaim_counter /\ reclaim_counter \in Nat
      /\ haz_ptr_counter \in Nat /\ op[t] \in CallType /\ haz[t] \in HazType
  BY Fixed, Unmoved
<1>3. PICK c \in CallType : c = op[t] BY <1>2, Unmoved, Edited
<1>4. PICK h \in HazType : h = [haz[t] EXCEPT !.active_offset = IF Posting(t) THEN haz[t].next_protect_write ELSE haz[t].next_protect_read]
  <2>1. haz[t].next_protect_write \in Word /\ haz[t].next_protect_read \in Word
    BY Types DEF Running
  <2> QED BY <1>2, <2>1, Edited
<1>5. pc' = [pc EXCEPT ![t] = "draw"] /\ op' = [op EXCEPT ![t] = c] /\ haz' = [haz EXCEPT ![t] = h]
  BY <1>3, <1>4, Unmoved DEF Protect, GoTo, Return
<1>6. /\ c.name = op[t].name /\ c.idx = op[t].idx /\ c.count = op[t].count /\ c.written = op[t].written /\ c.seen = op[t].seen
      /\ h.active_offset = (IF Posting(t) THEN haz[t].next_protect_write ELSE haz[t].next_protect_read)
      /\ h.owned = haz[t].owned /\ Keeps(h, haz[t])
  BY <1>2, <1>3, <1>4 DEF CallType, HazType, Keeps, NoCall
<1>7. /\ "draw" \in Outer \ {"cutoff", "publish"} /\ pc[t] \in Outer \ {"cutoff", "publish"}
      /\ "draw" \in Places /\ lock # t
  BY <1>1, <1>2 DEF Outer, Places, Control, Named, Acquiring, Polling, Closing, Reclaiming, Writing, Posting,
     Scanning, Visiting, Announcing, Moves, Sweeping
<1>8. pc'[t] = "draw" /\ op'[t] = c /\ haz'[t] = h /\ Only({t}) BY <1>5, <1>7, Moved
<1>9. Control(t)'
  BY <1>1, <1>2, <1>6, <1>7, <1>8 DEF Control, Named, Acquiring, Polling, Closing, Reclaiming, Writing, Posting,
     Scanning, Visiting, Announcing, Moves, Sweeping
<1>10. haz_ptr_counter' = haz_ptr_counter BY DEF Protect, counters
<1>11. haz_ptr_counter' \in Nat /\ haz_ptr_counter <= haz_ptr_counter' BY <1>2, <1>10
<1>12. Member(t) /\ Acquired(t) /\ \A f \in Fields : h[f] = haz[t][f]
  <2>1. haz[t].owned BY <1>1, <1>2 DEF Control, Closing, Sweeping
  <2>2. \A f \in Fields : h[f] = haz[t][f] BY <1>6 DEF Fields, Keeps
  <2> QED BY <1>1, <2>1, <2>2 DEF Member, Acquired, Uncounted
<1>13. Near(h.active_offset) /\ Active(t)' <= From(t)'
  <2>1. {t} \in SUBSET Tokens /\ lock \notin {t} /\ UNCHANGED <<queue, reclaim_counter, reclaim, setup>>
    BY <1>1, <1>7
  <2>2. \A b : First(b)' = First(b) BY <1>8, <1>11, <2>1, Frame
  <2>3. Posting(t)' = Posting(t) BY <1>6, <1>8 DEF Posting
  <2>4. PICK w, r : w = haz[t].write_block /\ r = haz[t].read_block OBVIOUS
  <2>5. /\ Near(h.active_offset)
        /\ Posting(t) => Pos(h.active_offset) <= First(w)'
        /\ ~Posting(t) => Pos(h.active_offset) <= First(r)'
    BY <1>6, <1>12, <2>2, <2>4, Protected
  <2>6. haz'[t].write_block = w /\ haz'[t].read_block = r /\ Active(t)' = Pos(h.active_offset)
    BY <1>6, <1>8, <2>4 DEF Keeps, Active
  <2> QED BY <2>3, <2>5, <2>6 DEF From, Field
<1> QED BY <1>1, <1>2, <1>5, <1>6, <1>7, <1>9, <1>11, <1>12, <1>13, OuterStep DEF BeforeDraw

\* The end of a call is no offset before what is in use.
LEMMA Released ==
  ASSUME Running, NEW t \in Tokens, pc[t] = "release"
  PROVE  ReleaseIdx(t) \in Word /\ Near(ReleaseIdx(t))
<1>1. /\ Finish(t) <= Top /\ op[t].idx \in Word /\ op[t].count \in Nat /\ Top \in Nat /\ 4 * Top < WordMod
      /\ WordMod \in Nat /\ Begin(t) \in Nat /\ Finish(t) = Begin(t) + op[t].count
  BY Fixed, TopIs, Sizes, Types DEF Control, Running
<1>2. Pos(op[t].idx) <= Top BY <1>1 DEF Begin
<1>3. EndOf(t) \in Word /\ Pos(EndOf(t)) <= Top
  <2>1. Pos(op[t].idx) + op[t].count <= Top /\ Pos(op[t].idx) + op[t].count < WordMod
    BY <1>1 DEF Begin
  <2> QED BY <1>1, <2>1, PosPlus DEF EndOf
<1> QED BY <1>1, <1>2, <1>3, InactiveIs DEF ReleaseIdx

\* What the call protected is given up.
LEMMA ReleaseKeeps ==
  ASSUME Running, NEW t \in Tokens, Release(t)
  PROVE  Running'
<1>1. /\ pc[t] = "release" /\ UNCHANGED <<queue, reclaim_counter, reclaim, clients>>
      /\ setup' = setup /\ lock' = lock
  BY DEF Release, counters, clients, reclaim
<1>2. /\ Control(t) /\ Acquires(t) /\ Has(t) /\ op[t].count \in Nat /\ op[t].written \in Nat
      /\ op[t].written <= op[t].count /\ op[t].seen <= reclaim_counter /\ reclaim_counter \in Nat
      /\ haz_ptr_counter \in Nat /\ op[t] \in CallType /\ haz[t] \in HazType
  BY Fixed, Unmoved
<1>3. PICK c \in CallType : c = NoCall BY <1>2, Edited
<1>4. PICK h \in HazType : h = [haz[t] EXCEPT !.active_offset = ReleaseIdx(t)]
  BY <1>1, <1>2, Edited, Released
<1>5. pc' = [pc EXCEPT ![t] = "idle"] /\ op' = [op EXCEPT ![t] = c] /\ haz' = [haz EXCEPT ![t] = h]
  BY <1>3, <1>4, Unmoved DEF Release, GoTo, Return
<1>6. /\ c.name = "none" /\ c.idx = 0 /\ c.count = 0 /\ c.written = 0 /\ c.seen = 0
      /\ h.active_offset = ReleaseIdx(t) /\ h.owned = haz[t].owned /\ Keeps(h, haz[t])
  BY <1>2, <1>3, <1>4 DEF CallType, HazType, Keeps, NoCall
<1>7. /\ "idle" \in Outer \ {"cutoff", "publish"} /\ pc[t] \in Outer \ {"cutoff", "publish"}
      /\ "idle" \in Places /\ lock # t
  BY <1>1, <1>2 DEF Outer, Places, Control, Named, Acquiring, Polling, Closing, Reclaiming, Writing, Posting,
     Scanning, Visiting, Announcing, Moves, Sweeping
<1>8. pc'[t] = "idle" /\ op'[t] = c /\ haz'[t] = h /\ Only({t}) BY <1>5, <1>7, Moved
<1>9. Control(t)'
  BY <1>1, <1>2, <1>6, <1>7, <1>8 DEF Control, Named, Acquiring, Polling, Closing, Reclaiming, Writing, Posting,
     Scanning, Visiting, Announcing, Moves, Sweeping
<1>10. haz_ptr_counter' = haz_ptr_counter BY DEF Release, counters
<1>11. haz_ptr_counter' \in Nat /\ haz_ptr_counter <= haz_ptr_counter' BY <1>2, <1>10
<1>12. Member(t) /\ Acquired(t) /\ \A f \in Fields : h[f] = haz[t][f]
  <2>1. haz[t].owned BY <1>1, <1>2 DEF Control, Closing, Sweeping
  <2>2. \A f \in Fields : h[f] = haz[t][f] BY <1>6 DEF Fields, Keeps
  <2> QED BY <1>1, <2>1, <2>2 DEF Member, Acquired, Uncounted
<1>13. Near(h.active_offset) BY <1>1, <1>6, Released
<1>14. c.written <= c.count /\ c.seen <= reclaim_counter BY <1>2, <1>6
<1> QED BY <1>1, <1>2, <1>5, <1>6, <1>7, <1>9, <1>11, <1>12, <1>13, <1>14, OuterStep DEF BeforeDraw


\* Steps of a call that nobody else sees
LEMMA CallStep ==
  ASSUME Running, NEW t \in Tokens, NEW p \in Places \ (BeforeDraw \cup Closing), NEW c \in CallType,
         NEW h \in HazType, lock # t,
         pc' = [pc EXCEPT ![t] = p], op' = [op EXCEPT ![t] = c], haz' = [haz EXCEPT ![t] = h],
         UNCHANGED <<queue, counters, reclaim, setup>>,
         told' \in [Tokens -> BOOLEAN], under' \in [Tokens -> Tokens \cup {Nobody}],
         \A u \in Tokens : told'[u] => told[u] \/ (closed = "closed" /\ Cut <= Turn),
         c.written <= c.count, c.seen <= reclaim_counter,
         Seen({t}), Control(t)', Post(t)', Pull(t)', Sought(t)', Parks(t)', Has(t)', Uses(t)', Met(t)'
  PROVE  Running'
<1> HIDE DEF Running
<1>1. TypeOK /\ Asking BY DEF Running
<1>2. /\ pc' \in [Tokens -> Places] /\ op' \in [Tokens -> CallType] /\ haz' \in [Tokens -> HazType]
      /\ pc'[t] = p /\ op'[t] = c /\ haz'[t] = h /\ Only({t})
  BY Moved
<1>3. /\ UNCHANGED <<queue, reclaim_counter, reclaim, setup>>
      /\ UNCHANGED <<list, elements, offsets, cutoff, reclaim_counter, reclaim, setup>>
      /\ haz_ptr_counter' \in Nat /\ haz_ptr_counter <= haz_ptr_counter'
  <2>1. haz_ptr_counter \in Nat BY <1>1 DEF TypeOK
  <2> QED BY <2>1 DEF queue, counters
<1>4. Sold' = Sold /\ Turn' = Turn /\ CutDrawn' = CutDrawn
  <2>1. {t} \in SUBSET Tokens /\ lock \notin {t} OBVIOUS
  <2> QED BY <1>2, <1>3, <2>1, Frame
<1>5. Asking'
  <2>1. \A u \in Tokens : pc'[u] \in BeforeDraw =>
             pc[u] \in BeforeDraw /\ op'[u].name = op[u].name /\ op'[u].count = op[u].count
    BY <1>2 DEF Only
  <2> QED BY <1>1, <1>4, <2>1, AskingKeeps
<1>6. Closer(t)' /\ Acquires(t)'
  <2>1. p \notin {"load_head", "init", "count", "recheck"} /\ p \notin {"load_readers", "publish", "spin"} \cup Sweeping
    BY DEF BeforeDraw, Closing, Sweeping
  <2> QED BY <1>2, <2>1 DEF Closer, Acquires
<1>7. Token(t)' BY <1>6 DEF Token
<1>8. op'[t].written <= op'[t].count /\ op'[t].seen <= reclaim_counter BY <1>2
<1> QED BY <1>2, <1>3, <1>5, <1>7, <1>8, PrivateKeeps

\* What a call knows of itself.
LEMMA Parts ==
  ASSUME Running, NEW t \in Tokens
  PROVE  /\ Control(t) /\ Post(t) /\ Pull(t) /\ Sought(t) /\ Parks(t) /\ Has(t) /\ Uses(t) /\ Met(t)
         /\ op[t].count \in Nat /\ op[t].written \in Nat /\ op[t].written <= op[t].count
         /\ op[t].seen \in Nat /\ op[t].seen <= reclaim_counter
         /\ op[t] \in CallType /\ haz[t] \in HazType
         /\ {Begin(t), Finish(t), Search(t), Active(t), Pos(op[t].end), Sold, Turn, Cut} \subseteq Nat
         /\ Finish(t) = Begin(t) + op[t].count
         /\ Turn <= Top /\ Cut <= Sold /\ Sold <= Top /\ Top \in Nat
<1>1. TypeOK /\ Token(t) BY DEF Running
<1>2. op[t].count \in Nat /\ op[t].written \in Nat /\ op[t].written <= op[t].count
      /\ op[t].seen \in Nat /\ op[t].seen <= reclaim_counter
  BY Fixed
<1> QED BY <1>1, <1>2, Types, Bounds DEF Token

\* A pull waits for what it waited for.
LEMMA SoughtStays ==
  ASSUME Running, NEW t \in Tokens, Only({t}), closed' = closed, Cut' = Cut, Begin(t)' = Begin(t),
         Unaware(t)' => Unaware(t) \/ ~(closed = "closed" /\ Cut <= Begin(t))
  PROVE  Sought(t)'
<1> SUFFICES ASSUME Unaware(t)', closed = "closed", Cut <= Begin(t)
             PROVE  \E u \in Tokens : Swept(u, Begin(t))'
  BY DEF Sought
<1>1. PICK m : m = Begin(t) OBVIOUS
<1>2. Unaware(t) /\ Sought(t) BY DEF Running, Token
<1>3. PICK u \in Tokens : Swept(u, m) BY <1>1, <1>2 DEF Sought
<1>4. u # t BY <1>2, <1>3 DEF Swept, Unaware
<1>5. Swept(u, m)'
  <2>1. pc'[u] = pc[u] /\ op'[u] = op[u] /\ haz'[u] = haz[u] BY <1>4 DEF Only
  <2> QED BY <1>3, <2>1, Same
<1> QED BY <1>1, <1>5 DEF Swept

\* A call that is where it was, as others see it.
LEMMA SeenSame ==
  ASSUME NEW t, Begin(t)' = Begin(t), op'[t].count = op[t].count,
         Sender(t)' <=> Sender(t), Reader(t)' <=> Reader(t), Sender(t) => Ahead(t)' = Ahead(t),
         pc[t] \notin {"parked", "wake"}, pc'[t] \notin {"parked", "wake"},
         op[t].name # "close", op'[t].name # "close"
  PROVE  Seen({t})
<1>1. Finish(t)' = Finish(t) BY DEF Finish
<1>2. \A m : /\ Owns(t, m)' <=> Owns(t, m)
             /\ Takes(t, m)' = Takes(t, m)
             /\ Suspended(t, m)' = Suspended(t, m) /\ Swept(t, m)' = Swept(t, m)
             /\ Wakes(t, m)' = Wakes(t, m)
  BY <1>1 DEF Owns, Takes, Suspended, Swept, Wakes
<1> QED BY <1>2 DEF Seen


\* Words that are in use compare as their positions do.
LEMMA AtOrBeforeIs ==
  ASSUME NEW x \in Word, NEW y \in Word, Pos(x) <= Top, Pos(y) <= Top
  PROVE  /\ AtOrBefore(x, y) <=> Pos(x) <= Pos(y)
         /\ CircularLess(x, y) <=> Pos(x) < Pos(y)
<1>1. Top \in Nat /\ Top >= 1 /\ 4 * Top < WordMod /\ WordMod \in Nat /\ Pos(x) \in Nat /\ Pos(y) \in Nat
  BY TopIs, PosIs, Sizes, OriginIs
<1>2. Plus(y, 1) \in Word /\ Pos(Plus(y, 1)) = Pos(y) + 1 BY <1>1, PosPlus
<1>3. 2 * Pos(x) < WordMod /\ 2 * Pos(y) < WordMod /\ 2 * Pos(Plus(y, 1)) < WordMod
  BY <1>1, <1>2
<1> QED BY <1>1, <1>2, <1>3, PosLess DEF AtOrBefore

\* A call's index is in use.
LEMMA InUse ==
  ASSUME Running, NEW t \in Tokens, Drawn(t)
  PROVE  /\ Begin(t) \in Nat /\ Finish(t) \in Nat /\ Skip <= Begin(t) /\ Begin(t) <= Top /\ Finish(t) <= Top
         /\ ~Posting(t) => Begin(t) <= Turn /\ op[t].name \in {"pull", "try_pull"} /\ Finish(t) = Begin(t)
         /\ Posting(t) => Finish(t) <= Sold /\ Sender(t)
         /\ Base(Begin(t)) \in Nat /\ Base(Begin(t)) \in Starts
         /\ Base(Begin(t)) <= Begin(t) /\ Begin(t) < Base(Begin(t)) + BlockSize
<1> HIDE DEF Running
<1>1. /\ Control(t) /\ Post(t) /\ Pull(t) /\ {Begin(t), Finish(t), Sold, Turn, Top} \subseteq Nat
      /\ Sold <= Top /\ Turn <= Top /\ Finish(t) = Begin(t) + op[t].count /\ op[t].count \in Nat
  BY Parts
<1>2. CASE Posting(t)
  <2>1. Sender(t)
    BY <1>1, <1>2 DEF Drawn, Reclaimer, Sender, Posting, Control, Named, Reading, Reclaiming, Polling
  <2>2. Skip <= Begin(t) /\ Finish(t) <= Sold BY <1>1, <2>1 DEF Post
  <2>3. Begin(t) <= Top /\ Finish(t) <= Top BY <1>1, <2>2
  <2>4. /\ Base(Begin(t)) \in Nat /\ Base(Begin(t)) \in Starts
        /\ Base(Begin(t)) <= Begin(t) /\ Begin(t) < Base(Begin(t)) + BlockSize
    BY <1>1, BaseOf
  <2> QED BY <1>1, <1>2, <2>1, <2>2, <2>3, <2>4
<1>3. CASE ~Posting(t)
  <2>1. op[t].name \in {"pull", "try_pull"}
    BY <1>1, <1>3 DEF Drawn, Reclaimer, Posting, Control, Named, Reading, Reclaiming, Polling, Walking,
       Writing, Calling
  <2>2. op[t].count = 0 BY <1>1, <1>3 DEF Control
  <2> QED BY <1>1, <1>3, <2>1, <2>2, BaseOf DEF Pull
<1> QED BY <1>2, <1>3

\* A search ends in the block of its ticket.
LEMMA FoundIs ==
  ASSUME Running, NEW t \in Tokens, op[t].walk \in blocks
  PROVE  Found(t) <=> First(op[t].walk) = Base(Begin(t))
<1>1. op[t].idx \in Word /\ offset[op[t].walk] \in Word BY Fixed, Types DEF Running
<1>2. StartOf(op[t].idx) \in Word /\ Pos(StartOf(op[t].idx)) = Base(Begin(t))
  BY <1>1, PlaceOf DEF Begin
<1>3. Found(t) => First(op[t].walk) = Base(Begin(t)) BY <1>2 DEF Found, First
<1>4. First(op[t].walk) = Base(Begin(t)) => Found(t) BY <1>1, <1>2, PosTells DEF Found, First
<1> QED BY <1>3, <1>4

\* Blocks that are moved are before the list.
LEMMA ListApart ==
  ASSUME Running, At(Moves), NEW b \in OnList
  PROVE  b \notin Unlinked
<1>1. TypeOK /\ Reclaim /\ Heads BY DEF Running
<1>2. rec.new = head_block /\ ListHead = head_block /\ head_block \in blocks
  <2>1. At(Announcing \cup {"rollback", "commit"} \cup Moves) /\ ~At({"announce", "validate", "rollback"})
    BY DEF At, Moves
  <2>2. ListHead = head_block BY <2>1 DEF ListHead, At
  <2> QED BY <1>1, <2>1, <2>2, Bounds DEF Reclaim
<1>3. \A k \in 1 .. Len(rec.unlinked) : rec.unlinked[k] \in blocks /\ First(rec.unlinked[k]) < First(rec.new)
  BY <1>1 DEF Reclaim, Unlinked
<1>4. First(rec.new) <= First(b) /\ First(b) \in Nat /\ First(rec.new) \in Nat
  BY <1>1, <1>2, Types DEF OnList
<1>5. \A k \in 1 .. Len(rec.unlinked) : First(rec.unlinked[k]) \in Nat BY <1>1, <1>3, Types
<1> QED BY <1>3, <1>4, <1>5 DEF Unlinked

\* The element of a word on the list.
LEMMA CellAt ==
  ASSUME Running, NEW b \in OnList, NEW x \in Word, First(b) = Base(Pos(x))
  PROVE  /\ CellOK(Pos(x), flags[b][IndexOf(x)], stored[b][IndexOf(x)])
         /\ flags[b][IndexOf(x)] \in Flag /\ IndexOf(x) \in Index /\ First(b) + IndexOf(x) = Pos(x)
         /\ b \in blocks /\ b \in Block /\ Pos(x) \in Nat
<1>1. b \in blocks /\ b \in Block /\ Cells /\ First(b) \in Nat BY Types DEF Running
<1>2. IndexOf(x) \in Index /\ IndexOf(x) = Pos(x) - Base(Pos(x)) /\ Pos(x) \in Nat
  BY PlaceOf, PosIs
<1>3. First(b) + IndexOf(x) = Pos(x) BY <1>1, <1>2, BaseOf
<1>4. ~(At({"relink"}) /\ b \in Unlinked)
  <2>1. At({"relink"}) => At(Moves) BY DEF At, Moves
  <2> QED BY <2>1, ListApart
<1>5. flags[b][IndexOf(x)] \in Flag BY <1>1, <1>2 DEF Running, TypeOK
<1> QED BY <1>1, <1>2, <1>3, <1>4, <1>5 DEF Cells

\* What a reader finds in the element of its index.
LEMMA ReaderFinds ==
  ASSUME Running, NEW t \in Tokens, Reader(t), NEW flag \in Flag, NEW value, CellOK(Begin(t), flag, value)
  PROVE  /\ Done(Begin(t)) => flag \in {"data", t} /\ value = Begin(t) - Skip + 1
         /\ ~Done(Begin(t)) => value = NoValue /\ (flag = "empty" \/ (flag = t /\ pc[t] = "parked"))
<1>1. /\ Taken(Begin(t)) /\ Drawn(t) /\ Skip <= Begin(t) /\ Begin(t) \in Nat
      /\ "data" \notin Tokens /\ "empty" \notin Tokens /\ "both" \notin Tokens
  BY InUse, TokenAssumption DEF Taken, Takes, Reader, Drawn, Reading
<1>2. \A u \in Tokens : Reader(u) /\ Begin(u) = Begin(t) => u = t BY DEF Running, ReadersApart
<1>3. \A u \in Tokens : Suspended(u, Begin(t)) => u = t /\ pc[t] = "parked"
  <2>1. \A u \in Tokens : pc[u] = "parked" => Reader(u)
    BY Parts DEF Reader, Drawn, Reading, Control, Named
  <2> QED BY <1>2, <2>1 DEF Suspended
<1>4. \A u \in Tokens : Takes(u, Begin(t)) => u = t BY <1>2 DEF Takes
<1> QED BY <1>1, <1>3, <1>4 DEF CellOK


\* What a search keeps to.
LEMMA UsesWalking ==
  ASSUME NEW t, pc'[t] \in {"check_closed", "seek"},
         Active(t)' <= From(t)', First(ListHead)' <= Base(Begin(t)'), Active(t)' <= Base(Begin(t)'),
         From(t)' <= Base(Begin(t)'), op'[t].walk \in OnList', First(ListHead)' <= Search(t)',
         Search(t)' \in Starts, Active(t)' <= Search(t)', Search(t)' <= First(op[t].walk)',
         First(op[t].walk)' <= Base(Begin(t)')
  PROVE  Uses(t)'
<1>1. pc'[t] \in Walking /\ pc'[t] # "reserve" /\ pc'[t] # "cross"
      /\ pc'[t] \notin {"write", "wake", "claim"} \cup Reading
      /\ pc'[t] \notin Writing /\ ~Reclaimer(t)'
  BY DEF Walking, Writing, Reading, Reclaimer, Reclaiming, Scanning, Visiting, Announcing, Moves
<1> QED BY <1>1 DEF Uses

\* What a call keeps to that has its block.
LEMMA UsesPlaced ==
  ASSUME NEW t, pc'[t] \in {"write", "wake", "claim"} \cup Reading \cup Reclaiming,
         Active(t)' <= From(t)', First(ListHead)' <= Base(Begin(t)'), Active(t)' <= Base(Begin(t)'),
         op'[t].block \in OnList', First(op[t].block)' = Base(Begin(t)' + op'[t].written),
         pc'[t] = "claim" => From(t)' <= Base(Begin(t)') /\ Search(t)' <= First(op[t].block)',
         pc'[t] \in {"write", "wake"} => Reaches(Finish(t) - 1)'
  PROVE  Uses(t)'
<1>1. pc'[t] \notin Walking /\ pc'[t] # "reserve" /\ pc'[t] # "cross" /\ pc'[t] \notin {"check_closed", "seek"}
      /\ (pc'[t] \in Seeking => pc'[t] = "claim") /\ (pc'[t] \in Writing => pc'[t] \in {"write", "wake"})
  BY DEF Walking, Writing, Reading, Seeking, Polling, Reclaiming, Scanning, Visiting, Announcing, Moves
<1> QED BY <1>1 DEF Uses

\* A search that ends.
LEMMA Placed ==
  ASSUME Running, NEW t \in Tokens, pc[t] = "seek", Found(t)
  PROVE  /\ op[t].walk \in OnList /\ op[t].walk \in blocks /\ op[t].walk \in Block
         /\ First(op[t].walk) = Base(Begin(t)) /\ Base(Begin(t)) \in Nat
         /\ First(ListHead) <= Base(Begin(t)) /\ Active(t) <= Base(Begin(t))
         /\ Search(t) <= First(op[t].walk) /\ Base(Begin(t)) <= Begin(t)
         /\ Begin(t) < Base(Begin(t)) + BlockSize
         /\ Drawn(t) /\ Acquired(t) /\ Member(t) /\ op[t].written = 0
<1>1. Uses(t) /\ pc[t] \in Walking /\ Drawn(t) /\ op[t].written = 0 /\ OnList \subseteq blocks
      /\ blocks \subseteq Block
  BY Parts, Types DEF Walking, Drawn, Running, Control, Writing
<1>2. op[t].walk \in OnList BY <1>1 DEF Uses
<1>3. First(op[t].walk) = Base(Begin(t)) BY <1>1, <1>2, FoundIs
<1>4. Acquired(t) /\ Member(t) BY <1>1, Members
<1> QED BY <1>1, <1>2, <1>3, <1>4, InUse DEF Uses

\* Where the search began may stand for where the hazard pointer is.
LEMMA SearchIs ==
  ASSUME Running, NEW t \in Tokens
  PROVE  Search(t) = Pos(op[t].boff) /\ Search(t) \in Nat
BY Parts DEF Search

\* A hazard pointer one of whose blocks moves on.
LEMMA HasMoved ==
  ASSUME Running, NEW t \in Tokens, Acquired(t), blocks' = blocks, OnList' = OnList,
         \A b : First(b)' = First(b), Sold' = Sold, Turn' = Turn, NEW b \in OnList,
         haz'[t].active_offset = haz[t].active_offset,
         \/ /\ haz'[t].write_block = b /\ First(b) <= Sold /\ Pos(haz'[t].next_protect_write) <= First(b)
            /\ haz'[t].read_block = haz[t].read_block
            /\ haz'[t].next_protect_read = haz[t].next_protect_read
         \/ /\ haz'[t].read_block = b /\ First(b) <= Turn /\ Pos(haz'[t].next_protect_read) <= First(b)
            /\ haz'[t].write_block = haz[t].write_block
            /\ haz'[t].next_protect_write = haz[t].next_protect_write
  PROVE  Has(t)'
<1>1. Has(t) /\ OnList \subseteq blocks /\ Null \notin blocks BY Parts, Types DEF Running
<1>2. PICK w, r : w = haz[t].write_block /\ r = haz[t].read_block OBVIOUS
<1>3. /\ {w, r} \subseteq OnList /\ First(w) <= Sold /\ First(r) <= Turn
      /\ Pos(haz[t].next_protect_write) <= First(w) /\ Pos(haz[t].next_protect_read) <= First(r)
  BY <1>1, <1>2 DEF Has
<1>4. PICK v, s : v = haz'[t].write_block /\ s = haz'[t].read_block OBVIOUS
<1>5. /\ {v, s} \subseteq OnList' /\ First(v)' <= Sold' /\ First(s)' <= Turn'
      /\ Pos(haz'[t].next_protect_write) <= First(v)' /\ Pos(haz'[t].next_protect_read) <= First(s)'
  BY <1>2, <1>3, <1>4
<1>6. /\ {haz[t].write_block, haz[t].read_block}' \subseteq OnList'
      /\ First(haz[t].write_block)' <= Sold' /\ First(haz[t].read_block)' <= Turn'
      /\ Pos(haz'[t].next_protect_write) <= First(haz[t].write_block)'
      /\ Pos(haz'[t].next_protect_read) <= First(haz[t].read_block)'
  BY <1>4, <1>5
<1>7. Near(haz[t].active_offset)' /\ \A f \in Fields : haz'[t][f] \in blocks'
  <2>1. Near(haz[t].active_offset) BY <1>1, <1>2, <1>3 DEF Has, Fields
  <2>2. \A f \in Fields : haz'[t][f] \in blocks' BY <1>1, <1>4, <1>5 DEF Fields
  <2> QED BY <2>1, <2>2 DEF Near
<1> QED BY <1>6, <1>7 DEF Has

\* A search goes on from any block that is there.
LEMMA Walked ==
  ASSUME Running, NEW c \in CallType, NEW b \in Block
  PROVE  [c EXCEPT !.walk = b, !.boff = offset[b]] \in CallType
<1>1. offset[b] \in Word BY Types DEF Running
<1> QED BY <1>1 DEF CallType

\* A search begins at a block of the hazard pointer.
LEMMA LoadBlockKeeps ==
  ASSUME Running, NEW t \in Tokens, LoadBlock(t)
  PROVE  Running'
<1> HIDE DEF Running
<1>1. /\ pc[t] = "load_block" /\ op[t].name \in Calling
      /\ UNCHANGED <<queue, counters, reclaim, setup>> /\ UNCHANGED under
  <2>1. pc[t] = "load_block" /\ UNCHANGED <<queue, counters, reclaim, setup>> /\ UNCHANGED under
    BY DEF LoadBlock, clients, counters, queue, list, elements, offsets
  <2> QED
    BY <2>1, Parts DEF Control, Named, Calling, Acquiring, Polling, Closing, Reclaiming, Writing, Posting,
     Scanning, Visiting, Announcing, Moves, Sweeping
<1>2. /\ lock # t /\ op[t] \in CallType /\ haz[t] \in HazType /\ op[t].written <= op[t].count
      /\ op[t].seen <= reclaim_counter /\ op[t].written \in Nat /\ op[t].count \in Nat
      /\ op[t].walk \in Block \cup {Null} /\ op[t].boff \in Word /\ op[t].idx \in Word /\ write_offset \in Word /\ read_offset \in Word
  <2>1. lock # t
    BY <1>1, Parts DEF Control, Named, Calling, Acquiring, Polling, Closing, Reclaiming, Writing, Posting,
     Scanning, Visiting, Announcing, Moves, Sweeping
  <2>2. write_offset \in Word /\ read_offset \in Word BY Types DEF Running
  <2> QED BY <2>1, <2>2, Parts, Fixed
<1>29. PICK x \in Block : x = (IF Posting(t) THEN haz[t].write_block ELSE haz[t].read_block)
  <2>1. Drawn(t) BY <1>1 DEF Drawn
  <2>2. haz[t].write_block \in blocks /\ haz[t].read_block \in blocks /\ blocks \subseteq Block
    BY <2>1, Members, Fixed
  <2> QED BY <2>2
<1>3. PICK c \in CallType : c = [op[t] EXCEPT !.walk = x, !.boff = offset[x]]
  BY <1>29, <1>2, Walked
<1>4. PICK h \in HazType : h = haz[t] BY <1>2, Unmoved
<1>5. \E p \in {"seek", "check_closed"} : pc' = [pc EXCEPT ![t] = p] /\ op' = [op EXCEPT ![t] = c] /\ haz' = [haz EXCEPT ![t] = h]
  <2>1. op \in [Tokens -> CallType] BY DEF Running, TypeOK
  <2>2. op' = [op EXCEPT ![t].walk = x, ![t].boff = offset[x]] BY <1>29 DEF LoadBlock
  <2>3. op' = [op EXCEPT ![t] = c] BY <1>3, <2>1, <2>2
  <2> QED BY <1>4, <2>3, Unmoved DEF LoadBlock, GoTo
<1>50. PICK p \in {"seek", "check_closed"} : pc' = [pc EXCEPT ![t] = p] BY <1>5
<1>51. op' = [op EXCEPT ![t] = c] /\ haz' = [haz EXCEPT ![t] = h] BY <1>5
<1>6. /\ c.name = op[t].name /\ c.idx = op[t].idx /\ c.count = op[t].count /\ c.written = op[t].written
      /\ c.seen = op[t].seen /\ c.end = op[t].end /\ c.past = op[t].past /\ c.walk = x /\ c.boff = offset[x]
      /\ h = haz[t]
  BY <1>2, <1>3, <1>4 DEF CallType, HazType, Keeps
<1>30. p = (IF op[t].name = "try_pull" THEN "seek" ELSE "check_closed")
  <2>1. pc \in [Tokens -> Places] /\ pc' = [pc EXCEPT ![t] = IF op[t].name = "try_pull" THEN "seek" ELSE "check_closed"]
    BY DEF LoadBlock, GoTo, Running
  <2> QED BY <1>50, <2>1
<1>7. pc'[t] = p /\ op'[t] = c /\ haz'[t] = h /\ Only({t})
  <2>1. p \in Places
    BY DEF Places, Control, Named, Calling, Acquiring, Polling, Closing, Reclaiming, Writing, Posting,
     Scanning, Visiting, Announcing, Moves, Sweeping, Walking, Reading
  <2> QED BY <1>50, <1>51, <2>1, Moved
<1>8. /\ Calm({t}) /\ Resting /\ (\A places : At(places)' = At(places)) /\ rec' = rec /\ lock' = lock
      /\ OnList' = OnList /\ blocks' = blocks /\ (\A b : First(b)' = First(b))
      /\ (\A m : Reaches(m)' = Reaches(m)) /\ ListHead' = ListHead /\ First(ListHead)' = First(ListHead)
      /\ Sold' = Sold /\ Turn' = Turn /\ Cut' = Cut /\ closed' = closed /\ offset' = offset
      /\ flags' = flags /\ stored' = stored /\ next' = next
  <2>1. UNCHANGED <<queue, reclaim_counter, reclaim, setup>> /\ {t} \in SUBSET Tokens /\ lock \notin {t}
    BY <1>1, <1>2 DEF counters
  <2>2. haz_ptr_counter' \in Nat /\ haz_ptr_counter <= haz_ptr_counter'
    BY <1>1, Fixed DEF counters
  <2>3. /\ Calm({t}) /\ Resting /\ (\A places : At(places)' = At(places)) /\ rec' = rec /\ lock' = lock
        /\ OnList' = OnList /\ blocks' = blocks /\ (\A b : First(b)' = First(b))
        /\ (\A m : Reaches(m)' = Reaches(m)) /\ ListHead' = ListHead /\ offset' = offset
        /\ Sold' = Sold /\ Turn' = Turn /\ Cut' = Cut /\ closed' = closed
        /\ flags' = flags /\ stored' = stored /\ next' = next
    BY <1>7, <2>1, <2>2, Frame
  <2> QED BY <2>3 DEF First
<1>9. /\ Begin(t)' = Begin(t) /\ Finish(t)' = Finish(t) /\ Active(t)' = Active(t) /\ LastPos(t)' = LastPos(t)
      /\ Posting(t)' = Posting(t) /\ Field(t)' = Field(t) /\ op'[t].count = op[t].count /\ op'[t].name = op[t].name
  BY <1>6, <1>7 DEF Begin, Finish, Active, LastPos, Posting, Field, Keeps
<1>10. Control(t)'
  BY <1>1, <1>30, <1>6, <1>7, <1>8, <1>9, Parts DEF Control, Named, Calling, Acquiring, Polling, Closing, Reclaiming, Writing, Posting,
     Scanning, Visiting, Announcing, Moves, Sweeping, Walking, Reading
<1>11. /\ Sender(t)' <=> Sender(t)
       /\ Reader(t)' <=> Reader(t)
       /\ Drawn(t) /\ Drawn(t)' /\ ~Unaware(t)' /\ Ahead(t)' = Ahead(t)
       /\ ~(op'[t].name = "try_pull" /\ Reader(t)')
       /\ p = "seek" <=> op[t].name = "try_pull"
  BY <1>1, <1>30, <1>6, <1>7, <1>9 DEF Sender, Reader, Drawn, Unaware, Reclaimer, Ahead, Walking, Polling, Writing, Reading, Reclaiming, Scanning, Visiting, Announcing, Moves, Posting
<1>12. Seen({t}) BY <1>1, <1>6, <1>7, <1>9, <1>11, SeenSame DEF Calling
<1>13. Post(t)'
  BY <1>1, <1>30, <1>7, <1>8, <1>9, <1>11, Parts DEF Post, Writing, Sender, Posting
<1>14. Pull(t)' BY <1>1, <1>30, <1>6, <1>7, <1>8, <1>9, <1>11, Parts DEF Pull
<1>15. Sought(t)' BY <1>7, <1>8, <1>9, <1>11, SoughtStays
<1>16. Parks(t)' BY <1>7 DEF Parks
<1>17. Has(t)'
  <2>1. Acquired(t)' => Acquired(t)
    BY <1>1, <1>7, <1>6, Parts DEF Acquired, Control, Named, Calling, Acquiring, Polling, Closing, Reclaiming, Writing, Posting,
     Scanning, Visiting, Announcing, Moves, Sweeping
  <2> QED BY <1>6, <1>7, <1>8, <2>1, HasStays DEF Keeps
<1>31. From(t) = First(x) /\ Search(t)' = First(x) /\ From(t)' = First(x)
  BY <1>6, <1>7, <1>8, <1>9, <1>29 DEF From, Field, Search, First
<1>32. /\ x \in OnList /\ First(x) \in Starts /\ First(ListHead) <= First(x) /\ First(x) \in Nat
  <2>1. Acquired(t) BY <1>11, Members
  <2>2. x \in OnList BY <1>29, <2>1, Parts DEF Has
  <2> QED BY <2>2, Bounds, Types DEF OnList, Running
<1>18. Uses(t)'
  <2>1. Uses(t) /\ pc[t] \in Seeking BY <1>1, Parts DEF Seeking
  <2>2. pc'[t] \in Walking /\ pc'[t] # "reserve" /\ pc'[t] # "cross"
        /\ pc'[t] \notin {"write", "wake", "claim"} \cup Reading
        /\ pc'[t] \notin Writing /\ ~Reclaimer(t)'
    BY <1>7 DEF Walking, Writing, Reading, Reclaimer, Reclaiming, Scanning, Visiting, Announcing, Moves
  <2>3. First(op[t].walk)' = First(x) /\ op'[t].walk = x BY <1>6, <1>7, <1>8
  <2>4. /\ Active(t) <= From(t) /\ First(ListHead) <= Base(Begin(t)) /\ Active(t) <= Base(Begin(t))
        /\ From(t) <= Base(Begin(t))
    BY <1>11, <2>1 DEF Uses
  <2>5. /\ Active(t)' <= From(t)' /\ First(ListHead)' <= Base(Begin(t)') /\ Active(t)' <= Base(Begin(t)')
        /\ From(t)' <= Base(Begin(t)') /\ First(op[t].walk)' <= Base(Begin(t)')
        /\ op'[t].walk \in OnList' /\ First(ListHead)' <= Search(t)' /\ Search(t)' \in Starts
        /\ Active(t)' <= Search(t)' /\ Search(t)' <= First(op[t].walk)'
    BY <1>8, <1>9, <1>31, <1>32, <2>3, <2>4
  <2> QED BY <2>2, <2>5 DEF Uses
<1>19. Met(t)'
  <2>1. Member(t)' /\ NobodyCame' => Member(t) /\ \A f \in Fields :
             \/ haz'[t][f] = haz[t][f]
             \/ Drawn(t) /\ haz'[t][f] \in blocks /\ Base(Begin(t)) <= First(haz'[t][f])
    BY <1>6, <1>7, <1>11, Members
  <2>2. Drawn(t)' => Drawn(t) /\ Begin(t)' \in Nat /\ Begin(t) <= Begin(t)'
    BY <1>9, <1>11, Parts
  <2>3. pc'[t] \in Walking =>
             /\ haz'[t] = haz[t] /\ Field(t)' = Field(t)
             /\ (pc[t] \in Walking /\ Search(t)' = Search(t)) \/ Search(t)' = From(t)'
    BY <1>6, <1>7, <1>9, <1>31
  <2>4. At({"swap", "revalidate"}) /\ t = rec.at => Near(haz[t].active_offset)'
    BY <1>6, <1>7, Parts DEF Met, Near
  <2> QED BY <1>2, <1>8, <2>1, <2>2, <2>3, <2>4, MetStays
<1>20. told' \in [Tokens -> BOOLEAN] /\ \A u \in Tokens : told'[u] => told[u] \/ (closed = "closed" /\ Cut <= Turn)
  <2>1. told' = told /\ told \in [Tokens -> BOOLEAN] BY DEF LoadBlock, clients, Running, TypeOK
  <2> QED BY <2>1
<1>21. /\ under' \in [Tokens -> Tokens \cup {Nobody}] /\ c.written <= c.count /\ c.seen <= reclaim_counter
       /\ p \in Places \ (BeforeDraw \cup Closing)
  <2>1. under \in [Tokens -> Tokens \cup {Nobody}] BY DEF Running, TypeOK
  <2>2. p \in Places \ (BeforeDraw \cup Closing)
    BY DEF BeforeDraw, Places, Control, Named, Calling, Acquiring, Polling, Closing, Reclaiming, Writing, Posting,
     Scanning, Visiting, Announcing, Moves, Sweeping, Walking, Reading
  <2>3. c.written <= c.count /\ c.seen <= reclaim_counter BY <1>2, <1>6
  <2> QED BY <1>1, <2>1, <2>2, <2>3
<1> QED
  BY <1>1, <1>2, <1>50, <1>51, <1>10, <1>12, <1>13, <1>14, <1>15, <1>16, <1>17, <1>18, <1>19, <1>20, <1>21, CallStep

\* A post that is past the cutoff gives up, and a pull that is knows it.
LEMMA CheckClosedKeeps ==
  ASSUME Running, NEW t \in Tokens, CheckClosed(t)
  PROVE  Running'
<1> HIDE DEF Running
<1>1. /\ pc[t] = "check_closed" /\ op[t].name \in {"post", "post_bulk", "pull"}
      /\ UNCHANGED <<queue, counters, reclaim, setup>> /\ UNCHANGED under
  <2>1. pc[t] = "check_closed" /\ UNCHANGED <<queue, counters, reclaim, setup>> /\ UNCHANGED under
    BY DEF CheckClosed, clients, counters, queue, list, elements, offsets, reclaim
  <2> QED
    BY <2>1, Parts DEF Control, Named, Calling, Acquiring, Polling, Closing, Reclaiming, Writing, Posting,
     Scanning, Visiting, Announcing, Moves, Sweeping
<1>2. /\ lock # t /\ op[t] \in CallType /\ haz[t] \in HazType /\ op[t].written <= op[t].count
      /\ op[t].seen <= reclaim_counter /\ op[t].written \in Nat /\ op[t].count \in Nat
      /\ op[t].walk \in Block \cup {Null} /\ op[t].block \in Block \cup {Null}
      /\ op[t].boff \in Word /\ op[t].idx \in Word /\ op[t].end \in Word
      /\ write_offset \in Word /\ read_offset \in Word
  <2>1. lock # t
    BY <1>1, Parts DEF Control, Named, Calling, Acquiring, Polling, Closing, Reclaiming, Writing, Posting,
     Scanning, Visiting, Announcing, Moves, Sweeping
  <2>2. write_offset \in Word /\ read_offset \in Word BY Types DEF Running
  <2> QED BY <2>1, <2>2, Parts, Fixed
<1>29. PICK past \in BOOLEAN : past = PastCutoff(t) BY DEF PastCutoff, AtOrBefore, CircularLess
<1>3. PICK c \in CallType : c = [op[t] EXCEPT !.past = past] BY <1>29, <1>2, Unmoved, Edited
<1>4. PICK h \in HazType : h = haz[t] BY <1>2, Unmoved, Edited
<1>50. PICK p \in {"seek", "release"} : p = (IF past /\ Posting(t) THEN "release" ELSE "seek")
  OBVIOUS
<1>51. pc' = [pc EXCEPT ![t] = p] /\ op' = [op EXCEPT ![t] = c] /\ haz' = [haz EXCEPT ![t] = h]
  BY <1>3, <1>4, <1>29, <1>50, Unmoved DEF CheckClosed, GoTo
<1>6. /\ c.name = op[t].name /\ c.idx = op[t].idx /\ c.count = op[t].count /\ c.written = op[t].written
      /\ c.seen = op[t].seen /\ c.end = op[t].end /\ c.walk = op[t].walk /\ c.boff = op[t].boff
      /\ c.block = op[t].block /\ c.past = past
      /\ h = haz[t]
  BY <1>2, <1>3, <1>4 DEF CallType, HazType, Keeps
<1>7. pc'[t] = p /\ op'[t] = c /\ haz'[t] = h /\ Only({t}) /\ p \in Places \ (BeforeDraw \cup Closing)
  <2>1. p \in Places \ (BeforeDraw \cup Closing)
    BY DEF Places, BeforeDraw, Control, Named, Calling, Acquiring, Polling, Closing, Reclaiming, Writing, Posting,
     Scanning, Visiting, Announcing, Moves, Sweeping, Walking, Reading
  <2> QED BY <1>51, <2>1, Moved
<1>8. /\ Calm({t}) /\ Resting /\ (\A places : At(places)' = At(places)) /\ rec' = rec /\ lock' = lock
      /\ OnList' = OnList /\ blocks' = blocks /\ (\A b : First(b)' = First(b))
      /\ (\A m : Reaches(m)' = Reaches(m)) /\ ListHead' = ListHead /\ First(ListHead)' = First(ListHead)
      /\ Sold' = Sold /\ Turn' = Turn /\ Cut' = Cut /\ closed' = closed /\ offset' = offset
      /\ flags' = flags /\ stored' = stored /\ next' = next /\ CutDrawn' = CutDrawn
  <2>1. UNCHANGED <<queue, reclaim_counter, reclaim, setup>> /\ {t} \in SUBSET Tokens /\ lock \notin {t}
    BY <1>1, <1>2 DEF counters
  <2>2. haz_ptr_counter' \in Nat /\ haz_ptr_counter <= haz_ptr_counter'
    BY <1>1, Fixed DEF counters
  <2>3. /\ Calm({t}) /\ Resting /\ (\A places : At(places)' = At(places)) /\ rec' = rec /\ lock' = lock
        /\ OnList' = OnList /\ blocks' = blocks /\ (\A b : First(b)' = First(b))
        /\ (\A m : Reaches(m)' = Reaches(m)) /\ ListHead' = ListHead /\ offset' = offset
        /\ Sold' = Sold /\ Turn' = Turn /\ Cut' = Cut /\ closed' = closed
        /\ flags' = flags /\ stored' = stored /\ next' = next /\ CutDrawn' = CutDrawn
    BY <1>7, <2>1, <2>2, Frame
  <2> QED BY <2>3 DEF First
<1>9. /\ Begin(t)' = Begin(t) /\ Finish(t)' = Finish(t) /\ Active(t)' = Active(t) /\ LastPos(t)' = LastPos(t)
      /\ Posting(t)' = Posting(t) /\ Field(t)' = Field(t) /\ op'[t].count = op[t].count /\ op'[t].name = op[t].name
  BY <1>6, <1>7 DEF Begin, Finish, Active, LastPos, Posting, Field, Keeps
<1>11. /\ Drawn(t) /\ Ahead(t)' = Ahead(t) /\ Search(t)' = Search(t)
       /\ p = "seek" => Drawn(t)' /\ (Sender(t)' <=> Sender(t))
       /\ p = "release" => ~Sender(t)' /\ ~Drawn(t)' /\ past
       /\ Reader(t)' <=> Reader(t)
       /\ op[t].name = "pull" => Reader(t) /\ Reader(t)'
       /\ ~(op'[t].name = "try_pull" /\ Reader(t)')
       /\ Unaware(t)' => ~past
       /\ Begin(t) <= Top
  <2>1. /\ Drawn(t) /\ Ahead(t)' = Ahead(t) /\ Search(t)' = Search(t)
        /\ p = "seek" => Drawn(t)' /\ (Sender(t)' <=> Sender(t))
        /\ p = "release" => ~Sender(t)' /\ ~Drawn(t)' /\ past
        /\ Reader(t)' <=> Reader(t)
        /\ op[t].name = "pull" => Reader(t) /\ Reader(t)'
        /\ ~(op'[t].name = "try_pull" /\ Reader(t)')
        /\ Unaware(t)' => ~past
    BY <1>1, <1>50, <1>6, <1>7, <1>9 DEF Search, Sender, Reader, Drawn, Unaware, Reclaimer, Ahead,
       Walking, Polling, Writing, Reading, Reclaiming,
     Scanning, Visiting, Announcing, Moves, Posting
  <2> QED BY <2>1, InUse
<1>33. /\ past <=> closed = "closed" /\ Cut <= Begin(t)
       /\ ~past /\ op[t].count > 0 /\ Posting(t) => Finish(t) <= Cut
  <2>1. closed = "closed" => Cut = Pos(write_closed_at) BY DEF Cut
  <2>2. closed = "closed" => (AtOrBefore(write_closed_at, op[t].idx) <=> Cut <= Begin(t))
    <3>1. write_closed_at \in Word /\ (closed = "closed" => Pos(write_closed_at) <= Top)
      BY <2>1, Parts, Types DEF Running
    <3> QED BY <1>2, <1>11, <2>1, <3>1, AtOrBeforeIs DEF Begin
  <2>3. past <=> closed = "closed" /\ Cut <= Begin(t) BY <1>29, <2>2 DEF PastCutoff
  <2>4. closed # "closed" => Cut = Sold
    <3>1. closed # "closing" /\ (closed = "closing" <=> At({"cutoff", "publish"})) 
      BY DEF CheckClosed, Running, Numbers
    <3>2. ~At({"publish"}) BY <3>1 DEF At
    <3> QED BY <3>2 DEF Cut
  <2>5. Posting(t) => Sender(t) /\ Finish(t) <= Sold /\ Post(t) BY <1>11, InUse, Parts
  <2>6. Begin(t) \in Nat /\ Cut \in Nat BY Parts
  <2> QED BY <2>3, <2>4, <2>5, <2>6 DEF Post
<1>34. p = "release" => Finish(t) <= Top BY <1>11, InUse
<1>10. Control(t)'
  BY <1>1, <1>2, <1>50, <1>6, <1>7, <1>8, <1>9, <1>34, Parts DEF Control, Named, Calling, Acquiring, Polling, Closing, Reclaiming, Writing, Posting,
     Scanning, Visiting, Announcing, Moves, Sweeping, Walking, Reading
<1>12. Seen({t})
  <2>1. \A m \in Nat : m < Cut => (Owns(t, m)' <=> Owns(t, m))
    <3>1. CASE p = "seek" BY <1>9, <1>11, <3>1 DEF Owns
    <3>2. CASE p = "release"
      <4>1. Cut <= Begin(t) /\ Ahead(t) >= Begin(t) /\ {Cut, Begin(t), Ahead(t)} \subseteq Nat
        <5>1. Ahead(t) = Begin(t) + op[t].written BY <1>1, Types DEF Running
        <5>2. Begin(t) \in Nat /\ Cut \in Nat BY Parts
        <5> QED BY <1>2, <1>11, <1>33, <3>2, <5>1, <5>2
      <4> QED BY <1>11, <3>2, <4>1 DEF Owns
    <3> QED BY <3>1, <3>2
  <2>2. \A m \in Nat : Takes(t, m)' = Takes(t, m) /\ Suspended(t, m)' = Suspended(t, m)
                      /\ Swept(t, m)' = Swept(t, m) /\ Wakes(t, m)' = Wakes(t, m)
    BY <1>1, <1>7, <1>9, <1>11 DEF Takes, Suspended, Swept, Wakes
  <2> QED BY <1>9, <1>11, <2>1, <2>2 DEF Seen
<1>13. Post(t)'
  <2>1. CASE Sender(t)'
    <3>1. p = "seek" /\ Sender(t) /\ Post(t) BY <1>11, <2>1, Parts
    <3>2. Posting(t) /\ ~past BY <1>50, <2>1, <1>9, <3>1 DEF Sender
    <3> QED BY <1>7, <1>8, <1>9, <1>33, <3>1, <3>2 DEF Post
  <2>2. CASE ~Sender(t)' BY <2>2 DEF Post
  <2> QED BY <2>1, <2>2
<1>14. Pull(t)'
  <2>1. op[t].name = "pull" \/ (op[t].name \notin {"pull", "try_pull"} /\ ~Reader(t)')
    BY <1>1, <1>9 DEF Reader
  <2> QED BY <1>7, <1>8, <1>9, <1>6, <1>11, <1>33, <2>1, Parts DEF Pull
<1>15. Sought(t)' BY <1>7, <1>8, <1>9, <1>11, <1>33, SoughtStays
<1>16. Parks(t)' BY <1>7 DEF Parks
<1>17. Has(t)'
  <2>1. Acquired(t)' => Acquired(t)
    BY <1>1, <1>7, <1>6, Parts DEF Acquired, Control, Named, Calling, Acquiring, Polling, Closing, Reclaiming, Writing, Posting,
     Scanning, Visiting, Announcing, Moves, Sweeping
  <2> QED BY <1>6, <1>7, <1>8, <2>1, HasStays DEF Keeps
<1>18. Uses(t)'
  <2>1. CASE p = "release"
    <3>1. pc'[t] \in Outer /\ pc'[t] # "draw" BY <1>7, <2>1 DEF Outer
    <3> QED BY <3>1, OuterToken
  <2>2. CASE p = "seek"
    <3>1. /\ Uses(t) /\ pc[t] \in Walking /\ pc'[t] \in Walking /\ pc[t] \in Seeking
          /\ pc'[t] \notin {"draw", "reserve", "claim", "cross", "write", "wake"} \cup Reading \cup Writing
          /\ ~Reclaimer(t)'
      BY <1>1, <1>7, <2>2, Parts DEF Walking, Reading, Writing, Reclaimer, Seeking, Reclaiming, Scanning,
         Visiting, Announcing, Moves
    <3>2. /\ Search(t)' = Search(t) /\ From(t)' = From(t) /\ op'[t].walk = op[t].walk
          /\ First(op[t].walk)' = First(op[t].walk)
      <4>1. PICK x : x = haz[t][Field(t)] OBVIOUS
      <4>2. haz'[t][Field(t)'] = x BY <1>6, <1>7, <1>9, <4>1
      <4>3. From(t)' = From(t) BY <1>8, <4>1, <4>2 DEF From
      <4>4. First(op[t].walk)' = First(op[t].walk) BY <1>6, <1>7, <1>8 DEF First
      <4> QED BY <1>6, <1>7, <1>11, <4>3, <4>4
    <3>3. /\ Active(t) <= From(t) /\ First(ListHead) <= Base(Begin(t)) /\ Active(t) <= Base(Begin(t))
          /\ From(t) <= Base(Begin(t)) /\ op[t].walk \in OnList /\ First(ListHead) <= Search(t)
          /\ Search(t) \in Starts /\ Active(t) <= Search(t) /\ Search(t) <= First(op[t].walk)
          /\ First(op[t].walk) <= Base(Begin(t))
      BY <1>1, <1>11, <3>1 DEF Uses
    <3>4. /\ Active(t)' <= From(t)' /\ First(ListHead)' <= Base(Begin(t)') /\ Active(t)' <= Base(Begin(t)')
          /\ From(t)' <= Base(Begin(t)') /\ op'[t].walk \in OnList' /\ First(ListHead)' <= Search(t)'
          /\ Search(t)' \in Starts /\ Active(t)' <= Search(t)' /\ Search(t)' <= First(op[t].walk)'
          /\ First(op[t].walk)' <= Base(Begin(t)')
      BY <1>8, <1>9, <3>2, <3>3
    <3>5. pc'[t] \in Walking /\ pc'[t] # "reserve" /\ pc'[t] # "cross"
          /\ pc'[t] \notin {"write", "wake", "claim"} \cup Reading
          /\ pc'[t] \notin Writing /\ ~Reclaimer(t)'
      BY <3>1
    <3> QED BY <3>4, <3>5 DEF Uses
  <2> QED BY <2>1, <2>2
<1>19. Met(t)'
  <2>1. Member(t)' /\ NobodyCame' => Member(t) /\ \A f \in Fields :
             \/ haz'[t][f] = haz[t][f]
             \/ Drawn(t) /\ haz'[t][f] \in blocks /\ Base(Begin(t)) <= First(haz'[t][f])
    BY <1>6, <1>7, <1>11, Members
  <2>2. Drawn(t)' => Drawn(t) /\ Begin(t)' \in Nat /\ Begin(t) <= Begin(t)'
    BY <1>9, <1>11, Parts
  <2>3. pc'[t] \in Walking =>
             /\ haz'[t] = haz[t] /\ Field(t)' = Field(t)
             /\ (pc[t] \in Walking /\ Search(t)' = Search(t)) \/ Search(t)' = From(t)'
    BY <1>1, <1>6, <1>7, <1>9, <1>11 DEF Walking
  <2>4. At({"swap", "revalidate"}) /\ t = rec.at => Near(haz[t].active_offset)'
    BY <1>6, <1>7, Parts DEF Met, Near
  <2> QED BY <1>2, <1>8, <2>1, <2>2, <2>3, <2>4, MetStays
<1>20. told' \in [Tokens -> BOOLEAN] /\ \A u \in Tokens : told'[u] => told[u] \/ (closed = "closed" /\ Cut <= Turn)
  <2>1. told' = [told EXCEPT ![t] = past /\ ~Posting(t)] /\ told \in [Tokens -> BOOLEAN]
    BY <1>29 DEF CheckClosed, Running, TypeOK
  <2>2. past /\ ~Posting(t) => closed = "closed" /\ Cut <= Turn
    <3>1. ~Posting(t) => Begin(t) <= Turn /\ Begin(t) \in Nat BY <1>11, InUse
    <3>2. Cut \in Nat /\ Turn \in Nat BY Parts
    <3> QED BY <1>33, <3>1, <3>2
  <2> QED BY <2>1, <2>2
<1>21. /\ under' \in [Tokens -> Tokens \cup {Nobody}] /\ c.written <= c.count /\ c.seen <= reclaim_counter
  <2>1. under \in [Tokens -> Tokens \cup {Nobody}] BY DEF Running, TypeOK
  <2> QED BY <1>1, <1>2, <1>6, <2>1
<1> QED
  BY <1>1, <1>2, <1>7, <1>51, <1>10, <1>12, <1>13, <1>14, <1>15, <1>16, <1>17, <1>18, <1>19, <1>20, <1>21, CallStep

\* Hazard pointers with both fields of a search changed.
LEMMA HazAt ==
  ASSUME NEW h \in HazType, NEW b \in Block, NEW x \in Word
  PROVE  /\ [h EXCEPT !.write_block = b, !.next_protect_write = x] \in HazType
         /\ [h EXCEPT !.read_block = b, !.next_protect_read = x] \in HazType
BY DEF HazType

\* A post gets to its block.
LEMMA SeekEndsInPostKeeps ==
  ASSUME Running, NEW t \in Tokens, SeekEndsInPost(t)
  PROVE  Running'
<1> HIDE DEF Running
<1>1. /\ pc[t] = "seek" /\ op[t].name \in {"post"}
      /\ UNCHANGED <<queue, counters, reclaim, setup>> /\ UNCHANGED under
  <2>1. pc[t] = "seek" /\ UNCHANGED <<queue, counters, reclaim, setup>> /\ UNCHANGED under /\ op[t].name = "post"
    BY DEF SeekEndsInPost, clients, counters, queue, list, elements, offsets, reclaim
  <2> QED
    BY <2>1, Parts DEF Control, Named, Calling, Acquiring, Polling, Closing, Reclaiming, Writing, Posting,
     Scanning, Visiting, Announcing, Moves, Sweeping
<1>2. /\ lock # t /\ op[t] \in CallType /\ haz[t] \in HazType /\ op[t].written <= op[t].count
      /\ op[t].seen <= reclaim_counter /\ op[t].written \in Nat /\ op[t].count \in Nat
      /\ op[t].walk \in Block \cup {Null} /\ op[t].block \in Block \cup {Null}
      /\ op[t].boff \in Word /\ op[t].idx \in Word /\ op[t].end \in Word
      /\ write_offset \in Word /\ read_offset \in Word
  <2>1. lock # t
    BY <1>1, Parts DEF Control, Named, Calling, Acquiring, Polling, Closing, Reclaiming, Writing, Posting,
     Scanning, Visiting, Announcing, Moves, Sweeping
  <2>2. write_offset \in Word /\ read_offset \in Word BY Types DEF Running
  <2> QED BY <2>1, <2>2, Parts, Fixed
<1>29. /\ op[t].walk \in OnList /\ op[t].walk \in blocks /\ op[t].walk \in Block
       /\ First(op[t].walk) = Base(Begin(t)) /\ Base(Begin(t)) \in Nat
       /\ First(ListHead) <= Base(Begin(t)) /\ Active(t) <= Base(Begin(t))
       /\ Search(t) <= First(op[t].walk) /\ Base(Begin(t)) <= Begin(t)
       /\ Begin(t) < Base(Begin(t)) + BlockSize
       /\ Drawn(t) /\ Acquired(t) /\ Member(t) /\ op[t].written = 0
  <2>1. Found(t) BY DEF SeekEndsInPost
  <2> QED BY <1>1, <2>1, Placed
<1>30. PICK x \in OnList : x = op[t].walk /\ x \in Block BY <1>29
<1>3. PICK c \in CallType : c = [op[t] EXCEPT !.block = op[t].walk]
  BY <1>2, <1>29, Unmoved, Edited
<1>4. PICK h \in HazType : h = [haz[t] EXCEPT !.write_block = x, !.next_protect_write = op[t].boff]
  BY <1>2, <1>30, HazAt
<1>50. PICK p \in {"write"} : p = "write" OBVIOUS
<1>51. pc' = [pc EXCEPT ![t] = p] /\ op' = [op EXCEPT ![t] = c] /\ haz' = [haz EXCEPT ![t] = h]
  <2>1. haz \in [Tokens -> HazType] /\ op \in [Tokens -> CallType] BY DEF Running, TypeOK
  <2>2. haz' = [haz EXCEPT ![t].write_block = x, ![t].next_protect_write = op[t].boff]
    BY <1>30 DEF SeekEndsInPost
  <2>3. haz' = [haz EXCEPT ![t] = h] BY <1>4, <2>1, <2>2
  <2>4. op' = [op EXCEPT ![t] = c] /\ pc' = [pc EXCEPT ![t] = p]
    BY <1>3, <1>30, <1>50, Unmoved DEF SeekEndsInPost, GoTo
  <2> QED BY <2>3, <2>4
<1>6. /\ c.name = op[t].name /\ c.idx = op[t].idx /\ c.count = op[t].count /\ c.written = op[t].written
      /\ c.seen = op[t].seen /\ c.end = op[t].end /\ c.walk = op[t].walk /\ c.boff = op[t].boff
      /\ c.past = op[t].past /\ c.block = op[t].walk
      /\ h.active_offset = haz[t].active_offset /\ h.owned = haz[t].owned /\ h.write_block = x /\ h.next_protect_write = op[t].boff
      /\ h.read_block = haz[t].read_block /\ h.next_protect_read = haz[t].next_protect_read
  BY <1>2, <1>3, <1>4 DEF CallType, HazType, Keeps
<1>7. pc'[t] = p /\ op'[t] = c /\ haz'[t] = h /\ Only({t}) /\ p \in Places \ (BeforeDraw \cup Closing)
  <2>1. p \in Places \ (BeforeDraw \cup Closing)
    BY DEF Places, BeforeDraw, Control, Named, Calling, Acquiring, Polling, Closing, Reclaiming, Writing, Posting,
     Scanning, Visiting, Announcing, Moves, Sweeping, Walking, Reading
  <2> QED BY <1>51, <2>1, Moved
<1>8. /\ Calm({t}) /\ Resting /\ (\A places : At(places)' = At(places)) /\ rec' = rec /\ lock' = lock
      /\ OnList' = OnList /\ blocks' = blocks /\ (\A b : First(b)' = First(b))
      /\ (\A m : Reaches(m)' = Reaches(m)) /\ ListHead' = ListHead /\ First(ListHead)' = First(ListHead)
      /\ Sold' = Sold /\ Turn' = Turn /\ Cut' = Cut /\ closed' = closed /\ offset' = offset
      /\ flags' = flags /\ stored' = stored /\ next' = next /\ CutDrawn' = CutDrawn
  <2>1. UNCHANGED <<queue, reclaim_counter, reclaim, setup>> /\ {t} \in SUBSET Tokens /\ lock \notin {t}
    BY <1>1, <1>2 DEF counters
  <2>2. haz_ptr_counter' \in Nat /\ haz_ptr_counter <= haz_ptr_counter'
    BY <1>1, Fixed DEF counters
  <2>3. /\ Calm({t}) /\ Resting /\ (\A places : At(places)' = At(places)) /\ rec' = rec /\ lock' = lock
        /\ OnList' = OnList /\ blocks' = blocks /\ (\A b : First(b)' = First(b))
        /\ (\A m : Reaches(m)' = Reaches(m)) /\ ListHead' = ListHead /\ offset' = offset
        /\ Sold' = Sold /\ Turn' = Turn /\ Cut' = Cut /\ closed' = closed
        /\ flags' = flags /\ stored' = stored /\ next' = next /\ CutDrawn' = CutDrawn
    BY <1>7, <2>1, <2>2, Frame
  <2> QED BY <2>3 DEF First
<1>9. /\ Begin(t)' = Begin(t) /\ Finish(t)' = Finish(t) /\ Active(t)' = Active(t) /\ LastPos(t)' = LastPos(t)
      /\ Posting(t)' = Posting(t) /\ Field(t)' = Field(t) /\ op'[t].count = op[t].count /\ op'[t].name = op[t].name
      /\ Search(t)' = Search(t)
  BY <1>6, <1>7 DEF Begin, Finish, Active, LastPos, Posting, Field, Search
<1>11. /\ Sender(t) /\ Sender(t)' /\ ~Reader(t) /\ ~Reader(t)' /\ Drawn(t)' /\ ~Unaware(t)' /\ Ahead(t)' = Ahead(t)
       /\ Posting(t) /\ op[t].count = 1
  <2>1. op[t].count = 1 /\ Posting(t) BY <1>1, Parts DEF Control, Posting
  <2> QED
    BY <1>1, <1>50, <1>6, <1>7, <1>9, <2>1 DEF Sender, Reader, Drawn, Unaware, Reclaimer, Ahead, Walking, Polling, Writing, Reading, Reclaiming,
     Scanning, Visiting, Announcing, Moves, Posting
<1>10. Control(t)'
  BY <1>1, <1>2, <1>50, <1>6, <1>7, <1>8, <1>9, Parts, <1>11, <1>29 DEF Control, Named, Calling, Acquiring, Polling, Closing, Reclaiming, Writing, Posting,
     Scanning, Visiting, Announcing, Moves, Sweeping, Walking, Reading
<1>12. Seen({t}) BY <1>1, <1>6, <1>7, <1>9, <1>11, SeenSame DEF Calling
<1>13. Post(t)'
  BY <1>1, <1>50, <1>7, <1>8, <1>9, <1>11, Parts DEF Post, Writing, Sender, Posting
<1>14. Pull(t)' BY <1>1, <1>50, <1>6, <1>7, <1>8, <1>9, <1>11, Parts DEF Pull
<1>15. Sought(t)' BY <1>7, <1>8, <1>9, <1>11, SoughtStays
<1>16. Parks(t)' BY <1>7 DEF Parks
<1>17. Has(t)'
  <2>1. First(x) <= Sold /\ Pos(op[t].boff) <= First(x)
    BY <1>29, <1>30, <1>11, InUse, Parts DEF Search
  <2>2. haz'[t].active_offset = haz[t].active_offset BY <1>6, <1>7
  <2> QED BY <1>6, <1>7, <1>8, <1>29, <2>1, <2>2, HasMoved
<1>18. Uses(t)'
  <2>1. Active(t)' <= From(t)' /\ First(ListHead)' <= Base(Begin(t)') /\ Active(t)' <= Base(Begin(t)')
    <3>1. From(t)' = First(x) BY <1>6, <1>7, <1>8, <1>9, <1>11 DEF From, Field, Posting
    <3> QED BY <1>8, <1>9, <1>29, <1>30, <3>1
  <2>2. op'[t].block \in OnList' /\ First(op[t].block)' = Base(Begin(t)' + op'[t].written)
    <3>1. op'[t].block = x /\ op'[t].written = 0 /\ Begin(t) \in Nat
      BY <1>6, <1>7, <1>29, <1>30, Parts
    <3>2. First(op[t].block)' = First(x)' BY <3>1
    <3> QED BY <1>8, <1>9, <1>29, <1>30, <3>1, <3>2
  <2>3. Reaches(Finish(t) - 1)'
    <3>1. Finish(t) - 1 = Begin(t) /\ Begin(t) < First(x) + BlockSize /\ x \in blocks
      BY <1>11, <1>29, <1>30, Parts
    <3> QED BY <1>8, <1>9, <3>1 DEF Reaches
  <2> QED BY <1>7, <2>1, <2>2, <2>3, UsesPlaced DEF Reading
<1>19. Met(t)'
  <2>1. Member(t)' /\ NobodyCame' => Member(t) /\ \A f \in Fields :
             \/ haz'[t][f] = haz[t][f]
             \/ Drawn(t) /\ haz'[t][f] \in blocks /\ Base(Begin(t)) <= First(haz'[t][f])
    <3>1. \A f \in Fields : haz'[t][f] = haz[t][f] \/ haz'[t][f] = x BY <1>6, <1>7 DEF Fields
    <3>2. Base(Begin(t)) <= First(x) /\ x \in blocks BY <1>29, <1>30
    <3> QED BY <1>29, <3>1, <3>2
  <2>2. Drawn(t)' => Drawn(t) /\ Begin(t)' \in Nat /\ Begin(t) <= Begin(t)'
    BY <1>9, <1>29, Parts
  <2>3. pc'[t] \notin Walking BY <1>7 DEF Walking
  <2>4. At({"swap", "revalidate"}) /\ t = rec.at => Near(haz[t].active_offset)'
    <3>1. haz'[t].active_offset = haz[t].active_offset BY <1>6, <1>7
    <3> QED BY <3>1, Parts DEF Met, Near
  <2> QED BY <1>2, <1>8, <2>1, <2>2, <2>3, <2>4, MetStays
<1>20. told' \in [Tokens -> BOOLEAN] /\ \A u \in Tokens : told'[u] => told[u] \/ (closed = "closed" /\ Cut <= Turn)
  <2>1. told' = told /\ told \in [Tokens -> BOOLEAN]
    BY DEF SeekEndsInPost, clients, Running, TypeOK
  <2> QED BY <2>1
<1>21. /\ under' \in [Tokens -> Tokens \cup {Nobody}] /\ c.written <= c.count /\ c.seen <= reclaim_counter
  <2>1. under \in [Tokens -> Tokens \cup {Nobody}] BY DEF Running, TypeOK
  <2> QED BY <1>1, <1>2, <1>6, <2>1
<1> QED
  BY <1>1, <1>2, <1>7, <1>51, <1>10, <1>12, <1>13, <1>14, <1>15, <1>16, <1>17, <1>18, <1>19, <1>20, <1>21, CallStep

\* A pull gets to its block.
LEMMA SeekEndsInPullKeeps ==
  ASSUME Running, NEW t \in Tokens, SeekEndsInPull(t)
  PROVE  Running'
<1> HIDE DEF Running
<1>1. /\ pc[t] = "seek" /\ op[t].name \in {"pull"}
      /\ UNCHANGED <<queue, counters, reclaim, setup>> /\ UNCHANGED under
  <2>1. pc[t] = "seek" /\ UNCHANGED <<queue, counters, reclaim, setup>> /\ UNCHANGED under /\ op[t].name = "pull"
    BY DEF SeekEndsInPull, clients, counters, queue, list, elements, offsets, reclaim
  <2> QED
    BY <2>1, Parts DEF Control, Named, Calling, Acquiring, Polling, Closing, Reclaiming, Writing, Posting,
     Scanning, Visiting, Announcing, Moves, Sweeping
<1>2. /\ lock # t /\ op[t] \in CallType /\ haz[t] \in HazType /\ op[t].written <= op[t].count
      /\ op[t].seen <= reclaim_counter /\ op[t].written \in Nat /\ op[t].count \in Nat
      /\ op[t].walk \in Block \cup {Null} /\ op[t].block \in Block \cup {Null}
      /\ op[t].boff \in Word /\ op[t].idx \in Word /\ op[t].end \in Word
      /\ write_offset \in Word /\ read_offset \in Word
  <2>1. lock # t
    BY <1>1, Parts DEF Control, Named, Calling, Acquiring, Polling, Closing, Reclaiming, Writing, Posting,
     Scanning, Visiting, Announcing, Moves, Sweeping
  <2>2. write_offset \in Word /\ read_offset \in Word BY Types DEF Running
  <2> QED BY <2>1, <2>2, Parts, Fixed
<1>29. /\ op[t].walk \in OnList /\ op[t].walk \in blocks /\ op[t].walk \in Block
       /\ First(op[t].walk) = Base(Begin(t)) /\ Base(Begin(t)) \in Nat
       /\ First(ListHead) <= Base(Begin(t)) /\ Active(t) <= Base(Begin(t))
       /\ Search(t) <= First(op[t].walk) /\ Base(Begin(t)) <= Begin(t)
       /\ Begin(t) < Base(Begin(t)) + BlockSize
       /\ Drawn(t) /\ Acquired(t) /\ Member(t) /\ op[t].written = 0
  <2>1. Found(t) BY DEF SeekEndsInPull
  <2> QED BY <1>1, <2>1, Placed
<1>30. PICK x \in OnList : x = op[t].walk /\ x \in Block BY <1>29
<1>3. PICK c \in CallType : c = [op[t] EXCEPT !.block = op[t].walk]
  BY <1>2, <1>29, Unmoved, Edited
<1>4. PICK h \in HazType : h = [haz[t] EXCEPT !.read_block = x, !.next_protect_read = op[t].boff]
  BY <1>2, <1>30, HazAt
<1>50. PICK p \in {"try_lock", "wait"} : p = (IF AtIndexOne(t) THEN "try_lock" ELSE "wait")
  OBVIOUS
<1>51. pc' = [pc EXCEPT ![t] = p] /\ op' = [op EXCEPT ![t] = c] /\ haz' = [haz EXCEPT ![t] = h]
  <2>1. haz \in [Tokens -> HazType] /\ op \in [Tokens -> CallType] BY DEF Running, TypeOK
  <2>2. haz' = [haz EXCEPT ![t].read_block = x, ![t].next_protect_read = op[t].boff]
    BY <1>30 DEF SeekEndsInPull
  <2>3. haz' = [haz EXCEPT ![t] = h] BY <1>4, <2>1, <2>2
  <2>4. op' = [op EXCEPT ![t] = c] /\ pc' = [pc EXCEPT ![t] = p]
    BY <1>3, <1>30, <1>50, Unmoved DEF SeekEndsInPull, GoTo
  <2> QED BY <2>3, <2>4
<1>6. /\ c.name = op[t].name /\ c.idx = op[t].idx /\ c.count = op[t].count /\ c.written = op[t].written
      /\ c.seen = op[t].seen /\ c.end = op[t].end /\ c.walk = op[t].walk /\ c.boff = op[t].boff
      /\ c.past = op[t].past /\ c.block = op[t].walk
      /\ h.active_offset = haz[t].active_offset /\ h.owned = haz[t].owned /\ h.read_block = x /\ h.next_protect_read = op[t].boff
      /\ h.write_block = haz[t].write_block /\ h.next_protect_write = haz[t].next_protect_write
  BY <1>2, <1>3, <1>4 DEF CallType, HazType, Keeps
<1>7. pc'[t] = p /\ op'[t] = c /\ haz'[t] = h /\ Only({t}) /\ p \in Places \ (BeforeDraw \cup Closing)
  <2>1. p \in Places \ (BeforeDraw \cup Closing)
    BY DEF Places, BeforeDraw, Control, Named, Calling, Acquiring, Polling, Closing, Reclaiming, Writing, Posting,
     Scanning, Visiting, Announcing, Moves, Sweeping, Walking, Reading
  <2> QED BY <1>51, <2>1, Moved
<1>8. /\ Calm({t}) /\ Resting /\ (\A places : At(places)' = At(places)) /\ rec' = rec /\ lock' = lock
      /\ OnList' = OnList /\ blocks' = blocks /\ (\A b : First(b)' = First(b))
      /\ (\A m : Reaches(m)' = Reaches(m)) /\ ListHead' = ListHead /\ First(ListHead)' = First(ListHead)
      /\ Sold' = Sold /\ Turn' = Turn /\ Cut' = Cut /\ closed' = closed /\ offset' = offset
      /\ flags' = flags /\ stored' = stored /\ next' = next /\ CutDrawn' = CutDrawn
  <2>1. UNCHANGED <<queue, reclaim_counter, reclaim, setup>> /\ {t} \in SUBSET Tokens /\ lock \notin {t}
    BY <1>1, <1>2 DEF counters
  <2>2. haz_ptr_counter' \in Nat /\ haz_ptr_counter <= haz_ptr_counter'
    BY <1>1, Fixed DEF counters
  <2>3. /\ Calm({t}) /\ Resting /\ (\A places : At(places)' = At(places)) /\ rec' = rec /\ lock' = lock
        /\ OnList' = OnList /\ blocks' = blocks /\ (\A b : First(b)' = First(b))
        /\ (\A m : Reaches(m)' = Reaches(m)) /\ ListHead' = ListHead /\ offset' = offset
        /\ Sold' = Sold /\ Turn' = Turn /\ Cut' = Cut /\ closed' = closed
        /\ flags' = flags /\ stored' = stored /\ next' = next /\ CutDrawn' = CutDrawn
    BY <1>7, <2>1, <2>2, Frame
  <2> QED BY <2>3 DEF First
<1>9. /\ Begin(t)' = Begin(t) /\ Finish(t)' = Finish(t) /\ Active(t)' = Active(t) /\ LastPos(t)' = LastPos(t)
      /\ Posting(t)' = Posting(t) /\ Field(t)' = Field(t) /\ op'[t].count = op[t].count /\ op'[t].name = op[t].name
      /\ Search(t)' = Search(t)
  BY <1>6, <1>7 DEF Begin, Finish, Active, LastPos, Posting, Field, Search
<1>11. /\ ~Sender(t) /\ ~Sender(t)' /\ Reader(t) /\ Reader(t)' /\ Drawn(t)' /\ Unaware(t) /\ Unaware(t)'
       /\ ~Posting(t)
  <2>1. ~Posting(t) /\ ~op[t].past BY <1>1 DEF SeekEndsInPull, Posting
  <2> QED
    BY <1>1, <1>50, <1>6, <1>7, <1>9, <2>1 DEF Sender, Reader, Drawn, Unaware, Reclaimer, Ahead, Walking, Polling, Writing, Reading, Reclaiming,
     Scanning, Visiting, Announcing, Moves, Posting
<1>10. Control(t)'
  BY <1>1, <1>2, <1>50, <1>6, <1>7, <1>8, <1>9, Parts, <1>11, <1>29 DEF Control, Named, Calling, Acquiring, Polling, Closing, Reclaiming, Writing, Posting,
     Scanning, Visiting, Announcing, Moves, Sweeping, Walking, Reading
<1>12. Seen({t}) BY <1>1, <1>6, <1>7, <1>9, <1>11, SeenSame DEF Calling
<1>13. Post(t)'
  BY <1>1, <1>50, <1>7, <1>8, <1>9, <1>11, Parts DEF Post, Writing, Sender, Posting
<1>14. Pull(t)'
  <2>1. Skip <= Begin(t) /\ Begin(t) <= Turn /\ Begin(t) < Turn /\ Pull(t) /\ op[t].name = "pull"
    BY <1>1, <1>11, <1>29, InUse, Parts DEF Pull
  <2>2. pc'[t] \notin {"load_block", "seek", "claim", "reread", "status", "holding"} /\ op'[t].name = "pull"
    BY <1>1, <1>7, <1>9
  <2> QED BY <1>8, <1>9, <2>1, <2>2 DEF Pull
<1>15. Sought(t)' BY <1>7, <1>8, <1>9, <1>11, SoughtStays
<1>16. Parks(t)' BY <1>7 DEF Parks
<1>17. Has(t)'
  <2>1. First(x) <= Turn /\ Pos(op[t].boff) <= First(x)
    BY <1>29, <1>30, <1>11, InUse, Parts DEF Search
  <2>2. haz'[t].active_offset = haz[t].active_offset BY <1>6, <1>7
  <2> QED BY <1>6, <1>7, <1>8, <1>29, <2>1, <2>2, HasMoved
<1>18. Uses(t)'
  <2>1. Active(t)' <= From(t)' /\ First(ListHead)' <= Base(Begin(t)') /\ Active(t)' <= Base(Begin(t)')
    <3>1. From(t)' = First(x) BY <1>6, <1>7, <1>8, <1>9, <1>11 DEF From, Field, Posting
    <3> QED BY <1>8, <1>9, <1>29, <1>30, <3>1
  <2>2. op'[t].block \in OnList' /\ First(op[t].block)' = Base(Begin(t)' + op'[t].written)
    <3>1. op'[t].block = x /\ op'[t].written = 0 /\ Begin(t) \in Nat
      BY <1>6, <1>7, <1>29, <1>30, Parts
    <3>2. First(op[t].block)' = First(x)' BY <3>1
    <3> QED BY <1>8, <1>9, <1>29, <1>30, <3>1, <3>2
  <2> QED BY <1>7, <2>1, <2>2, UsesPlaced DEF Reading
<1>19. Met(t)'
  <2>1. Member(t)' /\ NobodyCame' => Member(t) /\ \A f \in Fields :
             \/ haz'[t][f] = haz[t][f]
             \/ Drawn(t) /\ haz'[t][f] \in blocks /\ Base(Begin(t)) <= First(haz'[t][f])
    <3>1. \A f \in Fields : haz'[t][f] = haz[t][f] \/ haz'[t][f] = x BY <1>6, <1>7 DEF Fields
    <3>2. Base(Begin(t)) <= First(x) /\ x \in blocks BY <1>29, <1>30
    <3> QED BY <1>29, <3>1, <3>2
  <2>2. Drawn(t)' => Drawn(t) /\ Begin(t)' \in Nat /\ Begin(t) <= Begin(t)'
    BY <1>9, <1>29, Parts
  <2>3. pc'[t] \notin Walking BY <1>7 DEF Walking
  <2>4. At({"swap", "revalidate"}) /\ t = rec.at => Near(haz[t].active_offset)'
    <3>1. haz'[t].active_offset = haz[t].active_offset BY <1>6, <1>7
    <3> QED BY <3>1, Parts DEF Met, Near
  <2> QED BY <1>2, <1>8, <2>1, <2>2, <2>3, <2>4, MetStays
<1>20. told' \in [Tokens -> BOOLEAN] /\ \A u \in Tokens : told'[u] => told[u] \/ (closed = "closed" /\ Cut <= Turn)
  <2>1. told' = told /\ told \in [Tokens -> BOOLEAN]
    BY DEF SeekEndsInPull, clients, Running, TypeOK
  <2> QED BY <2>1
<1>21. /\ under' \in [Tokens -> Tokens \cup {Nobody}] /\ c.written <= c.count /\ c.seen <= reclaim_counter
  <2>1. under \in [Tokens -> Tokens \cup {Nobody}] BY DEF Running, TypeOK
  <2> QED BY <1>1, <1>2, <1>6, <2>1
<1> QED
  BY <1>1, <1>2, <1>7, <1>51, <1>10, <1>12, <1>13, <1>14, <1>15, <1>16, <1>17, <1>18, <1>19, <1>20, <1>21, CallStep

\* A later position is in the same block or in a later one.
LEMMA BaseGrows ==
  ASSUME NEW m \in Nat, NEW n \in Nat, m <= n
  PROVE  Base(m) <= Base(n)
<1>1. Base(m) \in Starts /\ Base(m) <= m /\ Base(m) \in Nat BY BaseOf
<1>2. Base(m) <= n BY <1>1
<1> QED BY <1>1, <1>2, BaseOf

\* The position of the last ticket of a call.
LEMMA LastOfIs ==
  ASSUME Running, NEW t \in Tokens, Sender(t)
  PROVE  /\ LastOf(t) \in Word /\ Pos(LastOf(t)) = LastPos(t) /\ LastPos(t) \in Nat
         /\ Begin(t) <= LastPos(t) /\ LastPos(t) <= Sold
<1>1. /\ op[t].idx \in Word /\ op[t].count \in Nat /\ Begin(t) \in Nat /\ Finish(t) = Begin(t) + op[t].count
      /\ Finish(t) <= Sold /\ Sold <= Top /\ Top \in Nat /\ 4 * Top < WordMod /\ Sold \in Nat
      /\ WordMod \in Nat
  BY Parts, Fixed, TopIs, Sizes DEF Post
<1>2. CASE op[t].count = 0 BY <1>1, <1>2 DEF LastOf, LastPos, Begin
<1>3. CASE op[t].count # 0
  <2>1. op[t].count - 1 \in Nat /\ Begin(t) + (op[t].count - 1) < WordMod BY <1>1, <1>3
  <2>2. Pos(LastOf(t)) = Begin(t) + (op[t].count - 1) /\ LastOf(t) \in Word
    BY <1>1, <1>3, <2>1, PosPlus DEF LastOf, Begin
  <2> QED BY <1>1, <1>3, <2>1, <2>2 DEF LastPos
<1> QED BY <1>2, <1>3

\* What a call keeps to that is between its searches.
LEMMA UsesBetween ==
  ASSUME NEW t, pc'[t] \in {"load_block", "load_woff", "reread", "status"},
         Active(t)' <= From(t)', First(ListHead)' <= Base(Begin(t)'), Active(t)' <= Base(Begin(t)'),
         From(t)' <= Base(Begin(t)')
  PROVE  Uses(t)'
<1>1. pc'[t] \notin Walking \cup Writing \cup Reading \cup Reclaiming \cup {"claim", "draw"}
  BY DEF Walking, Writing, Reading, Reclaiming, Scanning, Visiting, Announcing, Moves
<1>2. pc'[t] \notin {"check_closed", "seek", "reserve", "write", "wake", "claim", "cross"} \cup Reading
  BY <1>1 DEF Walking, Writing
<1> QED BY <1>1, <1>2 DEF Uses, Reclaimer

\* What a bulk keeps to that goes on to its last block.
LEMMA UsesReserve ==
  ASSUME NEW t, pc'[t] = "reserve",
         Active(t)' <= From(t)', First(ListHead)' <= Base(Begin(t)'), Active(t)' <= Base(Begin(t)'),
         From(t)' <= Base(Begin(t)'), op'[t].walk \in OnList', First(ListHead)' <= Search(t)',
         Search(t)' \in Starts, Active(t)' <= Search(t)', Search(t)' <= First(op[t].walk)',
         op'[t].block \in OnList', First(op[t].block)' = Base(Begin(t)'),
         First(op[t].block)' <= First(op[t].walk)', First(op[t].walk)' <= Base(LastPos(t)')
  PROVE  Uses(t)'
<1>1. pc'[t] \notin {"write", "wake", "claim"} \cup Reading \cup Writing /\ ~Reclaimer(t)'
  BY DEF Writing, Reading, Reclaimer, Reclaiming, Scanning, Visiting, Announcing, Moves
<1> QED BY <1>1 DEF Uses

\* A poll is not seen before it has its claim.
LEMMA SeenPolls ==
  ASSUME NEW t, op[t].name = "try_pull", op'[t].name = "try_pull",
         pc[t] \in Polling \cup {"load_block", "seek"}, pc'[t] \in Polling \cup {"load_block", "seek", "release"}
  PROVE  Seen({t}) /\ ~Reader(t) /\ ~Reader(t)' /\ ~Sender(t) /\ ~Sender(t)' /\ ~Unaware(t)'
<1>1. ~Posting(t) /\ ~Posting(t)' /\ ~Reclaimer(t) /\ ~Reclaimer(t)'
      /\ pc[t] \notin {"parked", "wake", "try_lock", "holding"} /\ pc'[t] \notin {"parked", "wake", "try_lock", "holding"}
  BY DEF Posting, Reclaimer, Polling, Reclaiming, Scanning, Visiting, Announcing, Moves
<1>2. ~Reader(t) /\ ~Reader(t)' /\ ~Sender(t) /\ ~Sender(t)' /\ ~Unaware(t)'
  BY <1>1 DEF Reader, Sender, Unaware
<1>3. \A m \in Nat : /\ (Owns(t, m)' <=> Owns(t, m)) /\ Takes(t, m)' = Takes(t, m)
                     /\ Suspended(t, m)' = Suspended(t, m) /\ Swept(t, m)' = Swept(t, m)
                     /\ Wakes(t, m)' = Wakes(t, m)
  BY <1>1, <1>2 DEF Owns, Takes, Suspended, Swept, Wakes
<1> QED BY <1>2, <1>3 DEF Seen

\* A post that has nothing left to write is not seen when it goes.
LEMMA SeenGoes ==
  ASSUME NEW t, Posting(t), op'[t].name = op[t].name, Begin(t)' = Begin(t), op'[t].count = op[t].count,
         op'[t].written = op[t].written, {Begin(t), op[t].written, op[t].count} \subseteq Nat,
         Sender(t), pc[t] \notin {"parked", "wake"}, pc'[t] \notin {"parked", "wake"},
         Sender(t)' \/ op[t].written >= op[t].count
  PROVE  Seen({t})
<1>1. /\ Ahead(t) = Begin(t) + op[t].written /\ Ahead(t)' = Ahead(t) /\ Finish(t) = Begin(t) + op[t].count
      /\ Finish(t)' = Finish(t)
  BY DEF Ahead, Finish
<1>2. \A m \in Nat : Owns(t, m)' <=> Owns(t, m) BY <1>1 DEF Owns
<1>3. ~Reader(t) /\ ~Reader(t)' /\ op[t].name # "close" /\ op'[t].name # "close"
  BY DEF Posting, Reader
<1>4. \A m \in Nat : /\ Takes(t, m)' = Takes(t, m)
                     /\ Suspended(t, m)' = Suspended(t, m) /\ Swept(t, m)' = Swept(t, m)
                     /\ Wakes(t, m)' = Wakes(t, m)
  BY <1>3 DEF Takes, Suspended, Swept, Wakes
<1> QED BY <1>2, <1>3, <1>4 DEF Seen

\* A bulk gets to its first block, and goes on to its last.
LEMMA SeekEndsInBulkKeeps ==
  ASSUME Running, NEW t \in Tokens, SeekEndsInBulk(t)
  PROVE  Running'
<1> HIDE DEF Running
<1>1. /\ pc[t] = "seek" /\ op[t].name \in {"post_bulk"}
      /\ UNCHANGED <<queue, counters, reclaim, setup>> /\ UNCHANGED under
  <2>1. pc[t] = "seek" /\ UNCHANGED <<queue, counters, reclaim, setup>> /\ UNCHANGED under /\ op[t].name = "post_bulk"
    BY DEF SeekEndsInBulk, clients, counters, queue, list, elements, offsets, reclaim
  <2> QED
    BY <2>1, Parts DEF Control, Named, Calling, Acquiring, Polling, Closing, Reclaiming, Writing, Posting,
     Scanning, Visiting, Announcing, Moves, Sweeping
<1>2. /\ lock # t /\ op[t] \in CallType /\ haz[t] \in HazType /\ op[t].written <= op[t].count
      /\ op[t].seen <= reclaim_counter /\ op[t].written \in Nat /\ op[t].count \in Nat
      /\ op[t].walk \in Block \cup {Null} /\ op[t].block \in Block \cup {Null}
      /\ op[t].boff \in Word /\ op[t].idx \in Word /\ op[t].end \in Word
      /\ write_offset \in Word /\ read_offset \in Word
  <2>1. lock # t
    BY <1>1, Parts DEF Control, Named, Calling, Acquiring, Polling, Closing, Reclaiming, Writing, Posting,
     Scanning, Visiting, Announcing, Moves, Sweeping
  <2>2. write_offset \in Word /\ read_offset \in Word BY Types DEF Running
  <2> QED BY <2>1, <2>2, Parts, Fixed
<1>29. /\ op[t].walk \in OnList /\ op[t].walk \in blocks /\ op[t].walk \in Block
       /\ First(op[t].walk) = Base(Begin(t)) /\ Base(Begin(t)) \in Nat
       /\ First(ListHead) <= Base(Begin(t)) /\ Active(t) <= Base(Begin(t))
       /\ Search(t) <= First(op[t].walk) /\ Base(Begin(t)) <= Begin(t)
       /\ Begin(t) < Base(Begin(t)) + BlockSize
       /\ Drawn(t) /\ Acquired(t) /\ Member(t) /\ op[t].written = 0
  <2>1. Found(t) BY DEF SeekEndsInBulk
  <2> QED BY <1>1, <2>1, Placed
<1>30. PICK x \in OnList : x = op[t].walk /\ x \in Block /\ x \in blocks BY <1>29
<1>3. PICK c \in CallType : c = [op[t] EXCEPT !.block = op[t].walk]
  BY <1>2, <1>29, Unmoved, Edited
<1>4. PICK h \in HazType : h = haz[t] BY <1>2, Unmoved, Edited
<1>50. PICK p \in {"reserve"} : p = "reserve" OBVIOUS
<1>51. pc' = [pc EXCEPT ![t] = p] /\ op' = [op EXCEPT ![t] = c] /\ haz' = [haz EXCEPT ![t] = h]
  BY <1>3, <1>4, <1>50, Unmoved DEF SeekEndsInBulk, GoTo
<1>6. /\ c.name = op[t].name /\ c.idx = op[t].idx /\ c.count = op[t].count /\ c.written = op[t].written
      /\ c.seen = op[t].seen /\ c.end = op[t].end /\ c.boff = op[t].boff /\ c.past = op[t].past /\ c.walk = op[t].walk /\ c.block = op[t].walk
      /\ h = haz[t]
  BY <1>2, <1>3, <1>4 DEF CallType, HazType, Keeps
<1>7. pc'[t] = p /\ op'[t] = c /\ haz'[t] = h /\ Only({t}) /\ p \in Places \ (BeforeDraw \cup Closing)
  <2>1. p \in Places \ (BeforeDraw \cup Closing)
    BY DEF Places, BeforeDraw, Control, Named, Calling, Acquiring, Polling, Closing, Reclaiming, Writing, Posting,
     Scanning, Visiting, Announcing, Moves, Sweeping, Walking, Reading
  <2> QED BY <1>51, <2>1, Moved
<1>8. /\ Calm({t}) /\ Resting /\ (\A places : At(places)' = At(places)) /\ rec' = rec /\ lock' = lock
      /\ OnList' = OnList /\ blocks' = blocks /\ (\A b : First(b)' = First(b))
      /\ (\A m : Reaches(m)' = Reaches(m)) /\ ListHead' = ListHead /\ First(ListHead)' = First(ListHead)
      /\ Sold' = Sold /\ Turn' = Turn /\ Cut' = Cut /\ closed' = closed /\ offset' = offset
      /\ flags' = flags /\ stored' = stored /\ next' = next /\ CutDrawn' = CutDrawn
  <2>1. UNCHANGED <<queue, reclaim_counter, reclaim, setup>> /\ {t} \in SUBSET Tokens /\ lock \notin {t}
    BY <1>1, <1>2 DEF counters
  <2>2. haz_ptr_counter' \in Nat /\ haz_ptr_counter <= haz_ptr_counter'
    BY <1>1, Fixed DEF counters
  <2>3. /\ Calm({t}) /\ Resting /\ (\A places : At(places)' = At(places)) /\ rec' = rec /\ lock' = lock
        /\ OnList' = OnList /\ blocks' = blocks /\ (\A b : First(b)' = First(b))
        /\ (\A m : Reaches(m)' = Reaches(m)) /\ ListHead' = ListHead /\ offset' = offset
        /\ Sold' = Sold /\ Turn' = Turn /\ Cut' = Cut /\ closed' = closed
        /\ flags' = flags /\ stored' = stored /\ next' = next /\ CutDrawn' = CutDrawn
    BY <1>7, <2>1, <2>2, Frame
  <2> QED BY <2>3 DEF First
<1>9. /\ Begin(t)' = Begin(t) /\ Finish(t)' = Finish(t) /\ Active(t)' = Active(t) /\ LastPos(t)' = LastPos(t)
      /\ Posting(t)' = Posting(t) /\ Field(t)' = Field(t) /\ op'[t].count = op[t].count /\ op'[t].name = op[t].name
  BY <1>6, <1>7 DEF Begin, Finish, Active, LastPos, Posting, Field, Keeps
<1>31. From(t)' = From(t) /\ Search(t)' = Search(t)
  <2>1. PICK y : y = haz[t][Field(t)] OBVIOUS
  <2>2. haz'[t][Field(t)'] = y BY <1>6, <1>7, <1>9, <2>1
  <2>3. First(y)' = First(y) BY <1>8
  <2>4. Search(t)' = Search(t) BY <1>6, <1>7 DEF Search
  <2> QED BY <2>1, <2>2, <2>3, <2>4 DEF From
<1>11. /\ Sender(t) /\ Sender(t)' /\ ~Reader(t) /\ ~Reader(t)' /\ Drawn(t)' /\ ~Unaware(t)' /\ Ahead(t)' = Ahead(t)
       /\ Posting(t)
  BY <1>1, <1>50, <1>6, <1>7, <1>9 DEF Sender, Reader, Drawn, Unaware, Reclaimer, Ahead, Walking, Polling, Writing, Reading, Reclaiming,
     Scanning, Visiting, Announcing, Moves, Posting, Calling
<1>10. Control(t)'
  BY <1>1, <1>2, <1>50, <1>6, <1>7, <1>8, <1>9, Parts, <1>11, <1>29 DEF Control, Named, Calling, Acquiring, Polling, Closing, Reclaiming, Writing, Posting,
     Scanning, Visiting, Announcing, Moves, Sweeping, Walking, Reading
<1>12. Seen({t}) BY <1>1, <1>6, <1>7, <1>9, <1>11, SeenSame DEF Calling
<1>13. Post(t)'
  BY <1>1, <1>50, <1>7, <1>8, <1>9, <1>11, Parts DEF Post, Writing, Sender, Posting
<1>14. Pull(t)' BY <1>1, <1>50, <1>6, <1>7, <1>8, <1>9, <1>11, Parts DEF Pull
<1>15. Sought(t)' BY <1>7, <1>8, <1>9, <1>11, SoughtStays
<1>16. Parks(t)' BY <1>7 DEF Parks
<1>17. Has(t)'
  <2>1. Acquired(t)' => Acquired(t)
    BY <1>1, <1>7, <1>6, Parts DEF Acquired, Control, Named, Calling, Acquiring, Polling, Closing, Reclaiming, Writing, Posting,
     Scanning, Visiting, Announcing, Moves, Sweeping
  <2> QED BY <1>6, <1>7, <1>8, <2>1, HasStays DEF Keeps
<1>18. Uses(t)'
  <2>1. Uses(t) /\ pc[t] \in Walking /\ pc[t] \in Seeking BY <1>1, Parts DEF Walking, Seeking
  <2>2. /\ Active(t) <= From(t) /\ From(t) <= Base(Begin(t)) /\ First(ListHead) <= Search(t)
        /\ Search(t) \in Starts /\ Active(t) <= Search(t)
    BY <1>29, <2>1 DEF Uses
  <2>3. Base(Begin(t)) <= Base(LastPos(t)) /\ Base(LastPos(t)) \in Nat
    <3>1. Begin(t) \in Nat /\ LastPos(t) \in Nat /\ Begin(t) <= LastPos(t)
      BY <1>11, Parts, LastOfIs
    <3> QED BY <3>1, BaseGrows, BaseOf
  <2>4. op'[t].walk = x /\ op'[t].block = x /\ First(x)' = First(x) /\ First(x) = Base(Begin(t))
    BY <1>6, <1>7, <1>8, <1>29, <1>30
  <2>5. First(op[t].walk)' = First(x) /\ First(op[t].block)' = First(x) BY <2>4 DEF First
  <2>6. /\ Active(t)' <= From(t)' /\ First(ListHead)' <= Base(Begin(t)') /\ Active(t)' <= Base(Begin(t)')
        /\ From(t)' <= Base(Begin(t)') /\ op'[t].walk \in OnList' /\ First(ListHead)' <= Search(t)'
        /\ Search(t)' \in Starts /\ Active(t)' <= Search(t)' /\ Search(t)' <= First(op[t].walk)'
        /\ op'[t].block \in OnList' /\ First(op[t].block)' = Base(Begin(t)')
    BY <1>8, <1>9, <1>29, <1>30, <1>31, <2>2, <2>4, <2>5
  <2>7. First(op[t].block)' <= First(op[t].walk)' /\ First(op[t].walk)' <= Base(LastPos(t)')
    BY <1>9, <1>29, <1>30, <2>3, <2>4, <2>5
  <2> QED BY <1>7, <1>50, <2>6, <2>7, UsesReserve
<1>19. Met(t)'
  <2>1. Member(t)' /\ NobodyCame' => Member(t) /\ \A f \in Fields :
             \/ haz'[t][f] = haz[t][f]
             \/ Drawn(t) /\ haz'[t][f] \in blocks /\ Base(Begin(t)) <= First(haz'[t][f])
    BY <1>6, <1>7, <1>29
  <2>2. Drawn(t)' => Drawn(t) /\ Begin(t)' \in Nat /\ Begin(t) <= Begin(t)'
    BY <1>9, <1>29, Parts
  <2>3. pc'[t] \in Walking =>
             /\ haz'[t] = haz[t] /\ Field(t)' = Field(t)
             /\ (pc[t] \in Walking /\ Search(t)' = Search(t)) \/ Search(t)' = From(t)'
    BY <1>1, <1>6, <1>7, <1>9, <1>31 DEF Walking
  <2>4. At({"swap", "revalidate"}) /\ t = rec.at => Near(haz[t].active_offset)'
    BY <1>6, <1>7, Parts DEF Met, Near
  <2> QED BY <1>2, <1>8, <2>1, <2>2, <2>3, <2>4, MetStays
<1>20. told' \in [Tokens -> BOOLEAN] /\ \A u \in Tokens : told'[u] => told[u] \/ (closed = "closed" /\ Cut <= Turn)
  <2>1. told' = told /\ told \in [Tokens -> BOOLEAN]
    BY DEF SeekEndsInBulk, clients, Running, TypeOK
  <2> QED BY <2>1
<1>21. /\ under' \in [Tokens -> Tokens \cup {Nobody}] /\ c.written <= c.count /\ c.seen <= reclaim_counter
  <2>1. under \in [Tokens -> Tokens \cup {Nobody}] BY DEF Running, TypeOK
  <2> QED BY <1>1, <1>2, <1>6, <2>1
<1> QED
  BY <1>1, <1>2, <1>7, <1>51, <1>10, <1>12, <1>13, <1>14, <1>15, <1>16, <1>17, <1>18, <1>19, <1>20, <1>21, CallStep

\* A bulk on the way to its last block.
LEMMA Reserving ==
  ASSUME Running, NEW t \in Tokens, pc[t] = "reserve"
  PROVE  /\ op[t].walk \in OnList /\ op[t].block \in OnList /\ OnList \subseteq blocks /\ blocks \subseteq Block
         /\ Posting(t) /\ Sender(t) /\ Drawn(t) /\ Acquired(t) /\ Member(t) /\ op[t].written = 0
         /\ op[t].name = "post_bulk"
         /\ First(op[t].block) = Base(Begin(t)) /\ Base(Begin(t)) \in Nat /\ First(op[t].walk) \in Nat
         /\ First(ListHead) <= Base(Begin(t)) /\ Active(t) <= Base(Begin(t))
         /\ First(op[t].block) <= First(op[t].walk) /\ First(op[t].walk) <= Base(LastPos(t))
         /\ First(op[t].walk) \in Starts
         /\ Active(t) <= Search(t) /\ Search(t) <= First(op[t].walk) /\ Search(t) \in Starts
         /\ First(ListHead) <= Search(t) /\ Active(t) <= From(t) /\ From(t) <= Base(Begin(t))
         /\ LastOf(t) \in Word /\ Pos(LastOf(t)) = LastPos(t) /\ LastPos(t) \in Nat
         /\ Begin(t) <= LastPos(t) /\ LastPos(t) <= Sold
         /\ Base(LastPos(t)) <= LastPos(t) /\ LastPos(t) < Base(LastPos(t)) + BlockSize
         /\ Base(LastPos(t)) \in Nat /\ Base(LastPos(t)) \in Starts
         /\ StartOf(LastOf(t)) \in Word /\ Pos(StartOf(LastOf(t))) = Base(LastPos(t))
<1> HIDE DEF Running
<1>1. /\ Uses(t) /\ Control(t) /\ pc[t] \in Walking /\ pc[t] \in Seeking /\ OnList \subseteq blocks
      /\ blocks \subseteq Block /\ \A b \in blocks : First(b) \in Nat /\ First(b) \in Starts
  BY Parts, Types, Bounds, Fixed DEF Walking, Seeking, Running
<1>2. op[t].name = "post_bulk" /\ op[t].written = 0 /\ Posting(t) /\ Sender(t) /\ Drawn(t)
  BY <1>1 DEF Control, Named, Posting, Sender, Drawn, Writing
<1>3. Acquired(t) /\ Member(t) /\ LastOf(t) \in Word /\ Pos(LastOf(t)) = LastPos(t) /\ LastPos(t) \in Nat
      /\ Begin(t) <= LastPos(t) /\ LastPos(t) <= Sold
  BY <1>2, Members, LastOfIs
<1>4. /\ Base(LastPos(t)) <= LastPos(t) /\ LastPos(t) < Base(LastPos(t)) + BlockSize
      /\ Base(LastPos(t)) \in Nat /\ Base(LastPos(t)) \in Starts
  BY <1>3, BaseOf
<1>5. StartOf(LastOf(t)) \in Word /\ Pos(StartOf(LastOf(t))) = Base(LastPos(t)) BY <1>3, PlaceOf
<1>6. Base(Begin(t)) \in Nat BY <1>2, InUse
<1>7. /\ op[t].walk \in OnList /\ op[t].block \in OnList
      /\ First(op[t].block) = Base(Begin(t))
      /\ First(ListHead) <= Base(Begin(t)) /\ Active(t) <= Base(Begin(t))
      /\ First(op[t].block) <= First(op[t].walk) /\ First(op[t].walk) <= Base(LastPos(t))
      /\ Active(t) <= Search(t) /\ Search(t) <= First(op[t].walk) /\ Search(t) \in Starts
      /\ First(ListHead) <= Search(t) /\ Active(t) <= From(t) /\ From(t) <= Base(Begin(t))
  BY <1>1, <1>2 DEF Uses
<1> QED BY <1>1, <1>2, <1>3, <1>4, <1>5, <1>6, <1>7

\* It is there when the offsets are the same.
LEMMA ReservedIs ==
  ASSUME Running, NEW t \in Tokens, pc[t] = "reserve"
  PROVE  offset[op[t].walk] = StartOf(LastOf(t)) <=> First(op[t].walk) = Base(LastPos(t))
<1>1. offset[op[t].walk] \in Word BY Reserving, Types DEF Running
<1> QED BY <1>1, Reserving, PosTells DEF First

\* A block further on, from where the call is.
LEMMA NextInUse ==
  ASSUME Running, NEW b \in OnList, NEW m \in Nat, Reaches(m), First(b) + BlockSize <= m
  PROVE  next[b] \in OnList /\ next[b] \in blocks /\ next[b] \in Block /\ First(next[b]) = First(b) + BlockSize
<1>1. TypeOK /\ Linked /\ b \in blocks /\ First(b) \in Nat /\ blocks \subseteq Block /\ First(ListHead) \in Nat
  BY Types, Bounds DEF Running
<1>2. First(b) <= m BY <1>1, Sizes
<1>3. PICK c \in blocks : First(c) = Base(m) /\ First(b) <= First(c) BY <1>1, <1>2, HasBlock
<1>4. First(b) < First(c) BY <1>1, <1>3, BaseOf, Sizes
<1>5. next[b] \in blocks /\ First(next[b]) = First(b) + BlockSize BY <1>1, <1>3, <1>4, NextOf
<1>6. First(ListHead) <= First(b) BY DEF OnList
<1>7. First(ListHead) <= First(next[b]) BY <1>1, <1>5, <1>6, Sizes
<1> QED BY <1>1, <1>5, <1>7 DEF OnList

\* A bulk has all its blocks.
LEMMA ReserveEndKeeps ==
  ASSUME Running, NEW t \in Tokens, Reserve(t),
         offset[op[t].walk] = StartOf(LastOf(t))
  PROVE  Running'
<1> HIDE DEF Running
<1>1. /\ pc[t] = "reserve" /\ op[t].name \in {"post_bulk"}
      /\ UNCHANGED <<queue, counters, reclaim, setup>> /\ UNCHANGED under
  <2>1. pc[t] = "reserve" /\ UNCHANGED <<queue, counters, reclaim, setup>> /\ UNCHANGED under
    BY DEF Reserve, clients, counters, queue, list, elements, offsets, reclaim
  <2> QED
    BY <2>1, Parts DEF Control, Named, Calling, Acquiring, Polling, Closing, Reclaiming, Writing, Posting,
     Scanning, Visiting, Announcing, Moves, Sweeping
<1>2. /\ lock # t /\ op[t] \in CallType /\ haz[t] \in HazType /\ op[t].written <= op[t].count
      /\ op[t].seen <= reclaim_counter /\ op[t].written \in Nat /\ op[t].count \in Nat
      /\ op[t].walk \in Block \cup {Null} /\ op[t].block \in Block \cup {Null}
      /\ op[t].boff \in Word /\ op[t].idx \in Word /\ op[t].end \in Word
      /\ write_offset \in Word /\ read_offset \in Word
  <2>1. lock # t
    BY <1>1, Parts DEF Control, Named, Calling, Acquiring, Polling, Closing, Reclaiming, Writing, Posting,
     Scanning, Visiting, Announcing, Moves, Sweeping
  <2>2. write_offset \in Word /\ read_offset \in Word BY Types DEF Running
  <2> QED BY <2>1, <2>2, Parts, Fixed
<1>29. PICK x \in OnList : x = op[t].walk /\ x \in Block /\ x \in blocks /\ offset[x] \in Word
  BY <1>1, Reserving, Types DEF Running
<1>30. /\ First(x) = Base(LastPos(t)) /\ Drawn(t) /\ Acquired(t) /\ Member(t) /\ Sender(t) /\ Posting(t)
       /\ op[t].written = 0 /\ Base(Begin(t)) <= First(x) /\ First(x) \in Nat /\ First(x) <= Sold
       /\ First(x) = Pos(offset[x])
  BY <1>1, <1>29, Reserving, ReservedIs, Parts DEF First
<1>3. PICK c \in CallType : c = op[t] BY <1>2, Unmoved, Edited
<1>4. PICK h \in HazType : h = [haz[t] EXCEPT !.write_block = x, !.next_protect_write = offset[x]]
  BY <1>2, <1>29, HazAt
<1>50. PICK p \in {"release", "write"} : p = (IF op[t].count = 0 THEN "release" ELSE "write")
  OBVIOUS
<1>51. pc' = [pc EXCEPT ![t] = p] /\ op' = [op EXCEPT ![t] = c] /\ haz' = [haz EXCEPT ![t] = h]
  <2>1. haz \in [Tokens -> HazType] BY DEF Running, TypeOK
  <2>2. haz' = [haz EXCEPT ![t].write_block = x, ![t].next_protect_write = offset[x]]
    BY <1>29 DEF Reserve
  <2>3. haz' = [haz EXCEPT ![t] = h] BY <1>4, <2>1, <2>2
  <2>4. op' = [op EXCEPT ![t] = c] /\ pc' = [pc EXCEPT ![t] = p]
    BY <1>3, <1>50, Unmoved DEF Reserve, GoTo
  <2> QED BY <2>3, <2>4
<1>6. /\ c.name = op[t].name /\ c.idx = op[t].idx /\ c.count = op[t].count /\ c.written = op[t].written
      /\ c.seen = op[t].seen /\ c.end = op[t].end /\ c.walk = op[t].walk /\ c.boff = op[t].boff /\ c.past = op[t].past /\ c.block = op[t].block
      /\ h.active_offset = haz[t].active_offset /\ h.owned = haz[t].owned /\ h.write_block = x /\ h.next_protect_write = offset[x]
      /\ h.read_block = haz[t].read_block /\ h.next_protect_read = haz[t].next_protect_read
  BY <1>2, <1>3, <1>4 DEF CallType, HazType, Keeps
<1>7. pc'[t] = p /\ op'[t] = c /\ haz'[t] = h /\ Only({t}) /\ p \in Places \ (BeforeDraw \cup Closing)
  <2>1. p \in Places \ (BeforeDraw \cup Closing)
    BY DEF Places, BeforeDraw, Control, Named, Calling, Acquiring, Polling, Closing, Reclaiming, Writing, Posting,
     Scanning, Visiting, Announcing, Moves, Sweeping, Walking, Reading
  <2> QED BY <1>51, <2>1, Moved
<1>8. /\ Calm({t}) /\ Resting /\ (\A places : At(places)' = At(places)) /\ rec' = rec /\ lock' = lock
      /\ OnList' = OnList /\ blocks' = blocks /\ (\A b : First(b)' = First(b))
      /\ (\A m : Reaches(m)' = Reaches(m)) /\ ListHead' = ListHead /\ First(ListHead)' = First(ListHead)
      /\ Sold' = Sold /\ Turn' = Turn /\ Cut' = Cut /\ closed' = closed /\ offset' = offset
      /\ flags' = flags /\ stored' = stored /\ next' = next /\ CutDrawn' = CutDrawn
  <2>1. UNCHANGED <<queue, reclaim_counter, reclaim, setup>> /\ {t} \in SUBSET Tokens /\ lock \notin {t}
    BY <1>1, <1>2 DEF counters
  <2>2. haz_ptr_counter' \in Nat /\ haz_ptr_counter <= haz_ptr_counter'
    BY <1>1, Fixed DEF counters
  <2>3. /\ Calm({t}) /\ Resting /\ (\A places : At(places)' = At(places)) /\ rec' = rec /\ lock' = lock
        /\ OnList' = OnList /\ blocks' = blocks /\ (\A b : First(b)' = First(b))
        /\ (\A m : Reaches(m)' = Reaches(m)) /\ ListHead' = ListHead /\ offset' = offset
        /\ Sold' = Sold /\ Turn' = Turn /\ Cut' = Cut /\ closed' = closed
        /\ flags' = flags /\ stored' = stored /\ next' = next /\ CutDrawn' = CutDrawn
    BY <1>7, <2>1, <2>2, Frame
  <2> QED BY <2>3 DEF First
<1>9. /\ Begin(t)' = Begin(t) /\ Finish(t)' = Finish(t) /\ Active(t)' = Active(t) /\ LastPos(t)' = LastPos(t)
      /\ Posting(t)' = Posting(t) /\ Field(t)' = Field(t) /\ op'[t].count = op[t].count /\ op'[t].name = op[t].name
      /\ Search(t)' = Search(t)
  BY <1>6, <1>7 DEF Begin, Finish, Active, LastPos, Posting, Field, Search
<1>11. /\ ~Reader(t) /\ ~Reader(t)' /\ ~Unaware(t)' /\ Ahead(t)' = Ahead(t)
       /\ (Drawn(t)' <=> p = "write") /\ (Sender(t)' <=> p = "write")
       /\ Sender(t) /\ Posting(t) /\ op[t].written = 0 /\ (p = "release" <=> op[t].count = 0)
  BY <1>1, <1>50, <1>6, <1>7, <1>9, <1>30 DEF Sender, Reader, Drawn, Unaware, Reclaimer, Ahead, Walking, Polling, Writing, Reading, Reclaiming,
     Scanning, Visiting, Announcing, Moves, Posting, Calling
<1>10. Control(t)'
  <2>1. Finish(t)' <= Top BY <1>9, <1>30, InUse
  <2>2. p = "release" => op[t].count = 0 BY <1>11
  <2> QED
    BY <1>1, <1>2, <1>50, <1>6, <1>7, <1>8, <1>9, <1>11, <2>1, <2>2, Parts DEF Control, Named, Calling, Acquiring, Polling, Closing, Reclaiming, Writing, Posting,
     Scanning, Visiting, Announcing, Moves, Sweeping, Walking, Reading
<1>12. Seen({t})
  <2>1. {Begin(t), op[t].written, op[t].count} \subseteq Nat /\ (Sender(t)' \/ op[t].written >= op[t].count)
    BY <1>11, Parts
  <2> QED BY <1>1, <1>6, <1>7, <1>9, <1>11, <2>1, SeenGoes
<1>13. Post(t)' BY <1>1, <1>50, <1>7, <1>8, <1>9, <1>11, Parts DEF Post, Writing
<1>14. Pull(t)' BY <1>1, <1>7, <1>9, <1>11 DEF Pull
<1>15. Sought(t)' BY <1>7, <1>8, <1>9, <1>11, SoughtStays
<1>16. Parks(t)' BY <1>7 DEF Parks
<1>17. Has(t)'
  <2>1. haz'[t].active_offset = haz[t].active_offset /\ Pos(haz'[t].next_protect_write) <= First(x)
    BY <1>6, <1>7, <1>30
  <2> QED BY <1>6, <1>7, <1>8, <1>29, <1>30, <2>1, HasMoved
<1>18. Uses(t)'
  <2>1. CASE p = "release"
    <3>1. pc'[t] \in Outer /\ pc'[t] # "draw" BY <1>7, <2>1 DEF Outer
    <3> QED BY <3>1, OuterToken
  <2>2. CASE p = "write"
    <3>1. Active(t)' <= From(t)' /\ First(ListHead)' <= Base(Begin(t)') /\ Active(t)' <= Base(Begin(t)')
      <4>1. From(t)' = First(x) BY <1>6, <1>7, <1>8, <1>9, <1>11 DEF From, Field, Posting
      <4>2. Active(t) <= First(x) BY <1>1, <1>29, <1>30, Reserving, Parts
      <4> QED BY <1>1, <1>8, <1>9, <4>1, <4>2, Reserving
    <3>2. op'[t].block \in OnList' /\ First(op[t].block)' = Base(Begin(t)' + op'[t].written)
      <4>1. PICK y : y = op[t].block OBVIOUS
      <4>2. op'[t].block = y /\ op'[t].written = 0 /\ Begin(t) \in Nat
        BY <1>6, <1>7, <1>30, <4>1, Parts
      <4>3. First(op[t].block)' = First(y)' BY <4>2
      <4> QED BY <1>1, <1>8, <1>9, <4>1, <4>2, <4>3, Reserving
    <3>3. Reaches(Finish(t) - 1)'
      <4>1. Finish(t) - 1 = LastPos(t) BY <1>11, <2>2 DEF LastPos
      <4>2. Finish(t) - 1 < First(x) + BlockSize BY <1>1, <1>30, <4>1, Reserving
      <4> QED BY <1>8, <1>9, <1>29, <4>2 DEF Reaches
    <3> QED BY <1>7, <2>2, <3>1, <3>2, <3>3, UsesPlaced
  <2> QED BY <2>1, <2>2
<1>19. Met(t)'
  <2>1. Member(t)' /\ NobodyCame' => Member(t) /\ \A f \in Fields :
             \/ haz'[t][f] = haz[t][f]
             \/ Drawn(t) /\ haz'[t][f] \in blocks /\ Base(Begin(t)) <= First(haz'[t][f])
    <3>1. \A f \in Fields : haz'[t][f] = haz[t][f] \/ haz'[t][f] = x BY <1>6, <1>7 DEF Fields
    <3> QED BY <1>29, <1>30, <3>1
  <2>2. Drawn(t)' => Drawn(t) /\ Begin(t)' \in Nat /\ Begin(t) <= Begin(t)'
    BY <1>9, <1>30, Parts
  <2>3. pc'[t] \notin Walking BY <1>7 DEF Walking
  <2>4. At({"swap", "revalidate"}) /\ t = rec.at => Near(haz[t].active_offset)'
    <3>1. haz'[t].active_offset = haz[t].active_offset BY <1>6, <1>7
    <3> QED BY <3>1, Parts DEF Met, Near
  <2> QED BY <1>2, <1>8, <2>1, <2>2, <2>3, <2>4, MetStays
<1>20. told' \in [Tokens -> BOOLEAN] /\ \A u \in Tokens : told'[u] => told[u] \/ (closed = "closed" /\ Cut <= Turn)
  <2>1. told' = told /\ told \in [Tokens -> BOOLEAN] BY DEF Reserve, clients, Running, TypeOK
  <2> QED BY <2>1
<1>21. /\ under' \in [Tokens -> Tokens \cup {Nobody}] /\ c.written <= c.count /\ c.seen <= reclaim_counter
  <2>1. under \in [Tokens -> Tokens \cup {Nobody}] BY DEF Running, TypeOK
  <2> QED BY <1>1, <1>2, <1>6, <2>1
<1> QED
  BY <1>1, <1>2, <1>7, <1>51, <1>10, <1>12, <1>13, <1>14, <1>15, <1>16, <1>17, <1>18, <1>19, <1>20, <1>21, CallStep

\* A bulk goes on in its next block, if it has values left.
LEMMA CrossKeeps ==
  ASSUME Running, NEW t \in Tokens, Cross(t)
  PROVE  Running'
<1> HIDE DEF Running
<1>1. /\ pc[t] = "cross" /\ op[t].name \in {"post_bulk"}
      /\ UNCHANGED <<queue, counters, reclaim, setup>> /\ UNCHANGED under
  <2>1. pc[t] = "cross" /\ UNCHANGED <<queue, counters, reclaim, setup>> /\ UNCHANGED under
    BY DEF Cross, clients, counters, queue, list, elements, offsets, reclaim
  <2> QED
    BY <2>1, Parts DEF Control, Named, Calling, Acquiring, Polling, Closing, Reclaiming, Writing, Posting,
     Scanning, Visiting, Announcing, Moves, Sweeping
<1>2. /\ lock # t /\ op[t] \in CallType /\ haz[t] \in HazType /\ op[t].written <= op[t].count
      /\ op[t].seen <= reclaim_counter /\ op[t].written \in Nat /\ op[t].count \in Nat
      /\ op[t].walk \in Block \cup {Null} /\ op[t].block \in Block \cup {Null}
      /\ op[t].boff \in Word /\ op[t].idx \in Word /\ op[t].end \in Word
      /\ write_offset \in Word /\ read_offset \in Word
  <2>1. lock # t
    BY <1>1, Parts DEF Control, Named, Calling, Acquiring, Polling, Closing, Reclaiming, Writing, Posting,
     Scanning, Visiting, Announcing, Moves, Sweeping
  <2>2. write_offset \in Word /\ read_offset \in Word BY Types DEF Running
  <2> QED BY <2>1, <2>2, Parts, Fixed
<1>29. /\ op[t].block \in OnList /\ op[t].block \in Block /\ next[op[t].block] \in Block \cup {Null}
       /\ First(op[t].block) + BlockSize = Begin(t) + op[t].written /\ Reaches(Finish(t) - 1)
       /\ Drawn(t) /\ Sender(t) /\ Posting(t) /\ op[t].written > 0
       /\ First(ListHead) <= Base(Begin(t)) /\ Active(t) <= Base(Begin(t)) /\ Active(t) <= From(t)
  <2>1. Uses(t) /\ Control(t) /\ pc[t] \in Writing /\ OnList \subseteq blocks
    BY <1>1, Parts, Types DEF Writing, Running
  <2>2. Drawn(t) /\ Sender(t) /\ Posting(t) BY <1>1, <2>1 DEF Drawn, Sender, Posting
  <2> QED BY <1>1, <2>1, <2>2, Types DEF Uses, Control, Running
<1>30. PICK x \in Block \cup {Null} : x = next[op[t].block] BY <1>29
<1>31. op[t].written < op[t].count =>
          x \in OnList /\ First(x) = Begin(t) + op[t].written /\ Base(Begin(t) + op[t].written) = First(x)
  <2> SUFFICES ASSUME op[t].written < op[t].count
               PROVE  x \in OnList /\ First(x) = Begin(t) + op[t].written
                      /\ Base(Begin(t) + op[t].written) = First(x)
    OBVIOUS
  <2>1. Finish(t) = Begin(t) + op[t].count /\ Begin(t) \in Nat BY Parts
  <2>2. Finish(t) - 1 \in Nat /\ First(op[t].block) + BlockSize <= Finish(t) - 1
    BY <1>2, <1>29, <2>1
  <2>3. x \in OnList /\ First(x) = First(op[t].block) + BlockSize /\ x \in blocks
    BY <1>29, <1>30, <2>2, NextInUse
  <2>4. First(x) = Begin(t) + op[t].written /\ Begin(t) + op[t].written \in Nat
    BY <1>2, <1>29, <2>1, <2>3
  <2>5. First(x) \in Starts /\ First(x) <= First(x) /\ First(x) < First(x) + BlockSize
    BY <2>3, <2>4, Bounds, Sizes
  <2> QED BY <2>3, <2>4, <2>5, BaseOf
<1>3. PICK c \in CallType : c = [op[t] EXCEPT !.block = x] BY <1>2, <1>30, Unmoved, Edited
<1>4. PICK h \in HazType : h = haz[t] BY <1>2, Unmoved, Edited
<1>50. PICK p \in {"release", "write"} : p = (IF op[t].written < op[t].count THEN "write" ELSE "release")
  OBVIOUS
<1>51. pc' = [pc EXCEPT ![t] = p] /\ op' = [op EXCEPT ![t] = c] /\ haz' = [haz EXCEPT ![t] = h]
  BY <1>3, <1>4, <1>30, <1>50, Unmoved DEF Cross, GoTo
<1>6. /\ c.name = op[t].name /\ c.idx = op[t].idx /\ c.count = op[t].count /\ c.written = op[t].written
      /\ c.seen = op[t].seen /\ c.end = op[t].end /\ c.walk = op[t].walk /\ c.boff = op[t].boff /\ c.past = op[t].past /\ c.block = x
      /\ h = haz[t]
  BY <1>2, <1>3, <1>4 DEF CallType, HazType, Keeps
<1>7. pc'[t] = p /\ op'[t] = c /\ haz'[t] = h /\ Only({t}) /\ p \in Places \ (BeforeDraw \cup Closing)
  <2>1. p \in Places \ (BeforeDraw \cup Closing)
    BY DEF Places, BeforeDraw, Control, Named, Calling, Acquiring, Polling, Closing, Reclaiming, Writing, Posting,
     Scanning, Visiting, Announcing, Moves, Sweeping, Walking, Reading
  <2> QED BY <1>51, <2>1, Moved
<1>8. /\ Calm({t}) /\ Resting /\ (\A places : At(places)' = At(places)) /\ rec' = rec /\ lock' = lock
      /\ OnList' = OnList /\ blocks' = blocks /\ (\A b : First(b)' = First(b))
      /\ (\A m : Reaches(m)' = Reaches(m)) /\ ListHead' = ListHead /\ First(ListHead)' = First(ListHead)
      /\ Sold' = Sold /\ Turn' = Turn /\ Cut' = Cut /\ closed' = closed /\ offset' = offset
      /\ flags' = flags /\ stored' = stored /\ next' = next /\ CutDrawn' = CutDrawn
  <2>1. UNCHANGED <<queue, reclaim_counter, reclaim, setup>> /\ {t} \in SUBSET Tokens /\ lock \notin {t}
    BY <1>1, <1>2 DEF counters
  <2>2. haz_ptr_counter' \in Nat /\ haz_ptr_counter <= haz_ptr_counter'
    BY <1>1, Fixed DEF counters
  <2>3. /\ Calm({t}) /\ Resting /\ (\A places : At(places)' = At(places)) /\ rec' = rec /\ lock' = lock
        /\ OnList' = OnList /\ blocks' = blocks /\ (\A b : First(b)' = First(b))
        /\ (\A m : Reaches(m)' = Reaches(m)) /\ ListHead' = ListHead /\ offset' = offset
        /\ Sold' = Sold /\ Turn' = Turn /\ Cut' = Cut /\ closed' = closed
        /\ flags' = flags /\ stored' = stored /\ next' = next /\ CutDrawn' = CutDrawn
    BY <1>7, <2>1, <2>2, Frame
  <2> QED BY <2>3 DEF First
<1>9. /\ Begin(t)' = Begin(t) /\ Finish(t)' = Finish(t) /\ Active(t)' = Active(t) /\ LastPos(t)' = LastPos(t)
      /\ Posting(t)' = Posting(t) /\ Field(t)' = Field(t) /\ op'[t].count = op[t].count /\ op'[t].name = op[t].name
  BY <1>6, <1>7 DEF Begin, Finish, Active, LastPos, Posting, Field, Keeps
<1>11. /\ ~Reader(t) /\ ~Reader(t)' /\ ~Unaware(t)' /\ Ahead(t)' = Ahead(t)
       /\ (Drawn(t)' <=> p = "write") /\ (Sender(t)' <=> p = "write")
       /\ Sender(t) /\ Posting(t) /\ (p = "write" <=> op[t].written < op[t].count)
  BY <1>1, <1>50, <1>6, <1>7, <1>9, <1>29 DEF Sender, Reader, Drawn, Unaware, Reclaimer, Ahead, Walking, Polling, Writing, Reading, Reclaiming,
     Scanning, Visiting, Announcing, Moves, Posting, Calling
<1>10. Control(t)'
  <2>1. Finish(t)' <= Top BY <1>9, <1>29, InUse
  <2>2. p = "write" => op[t].written < op[t].count BY <1>11
  <2> QED
    BY <1>1, <1>2, <1>50, <1>6, <1>7, <1>8, <1>9, <1>11, <2>1, <2>2, Parts DEF Control, Named, Calling, Acquiring, Polling, Closing, Reclaiming, Writing, Posting,
     Scanning, Visiting, Announcing, Moves, Sweeping, Walking, Reading
<1>12. Seen({t})
  <2>1. {Begin(t), op[t].written, op[t].count} \subseteq Nat /\ (Sender(t)' \/ op[t].written >= op[t].count)
    BY <1>2, <1>11, Parts
  <2> QED BY <1>1, <1>6, <1>7, <1>9, <1>11, <2>1, SeenGoes
<1>13. Post(t)' BY <1>1, <1>50, <1>7, <1>8, <1>9, <1>11, Parts DEF Post, Writing
<1>14. Pull(t)' BY <1>1, <1>7, <1>9, <1>11 DEF Pull
<1>15. Sought(t)' BY <1>7, <1>8, <1>9, <1>11, SoughtStays
<1>16. Parks(t)' BY <1>7 DEF Parks
<1>17. Has(t)'
  <2>1. Acquired(t)' => Acquired(t)
    BY <1>1, <1>7, <1>6, Parts DEF Acquired, Control, Named, Calling, Acquiring, Polling, Closing, Reclaiming, Writing, Posting,
     Scanning, Visiting, Announcing, Moves, Sweeping
  <2> QED BY <1>6, <1>7, <1>8, <2>1, HasStays DEF Keeps
<1>18. Uses(t)'
  <2>1. CASE p = "release"
    <3>1. pc'[t] \in Outer /\ pc'[t] # "draw" BY <1>7, <2>1 DEF Outer
    <3> QED BY <3>1, OuterToken
  <2>2. CASE p = "write"
    <3>1. x \in OnList /\ First(x) = Begin(t) + op[t].written /\ Base(Begin(t) + op[t].written) = First(x)
      BY <1>11, <1>31, <2>2
    <3>2. Active(t)' <= From(t)' /\ First(ListHead)' <= Base(Begin(t)') /\ Active(t)' <= Base(Begin(t)')
      <4>1. PICK y : y = haz[t][Field(t)] OBVIOUS
      <4>2. haz'[t][Field(t)'] = y /\ First(y)' = First(y) BY <1>6, <1>7, <1>8, <1>9, <4>1
      <4> QED BY <1>8, <1>9, <1>29, <4>1, <4>2 DEF From
    <3>3. op'[t].block \in OnList' /\ First(op[t].block)' = Base(Begin(t)' + op'[t].written)
      <4>1. op'[t].block = x /\ op'[t].written = op[t].written BY <1>6, <1>7
      <4>2. First(op[t].block)' = First(x)' BY <4>1
      <4> QED BY <1>8, <1>9, <3>1, <4>1, <4>2
    <3>4. Reaches(Finish(t) - 1)' BY <1>8, <1>9, <1>29
    <3> QED BY <1>7, <2>2, <3>2, <3>3, <3>4, UsesPlaced
  <2> QED BY <2>1, <2>2
<1>19. Met(t)'
  <2>1. Member(t)' /\ NobodyCame' => Member(t) /\ \A f \in Fields :
             \/ haz'[t][f] = haz[t][f]
             \/ Drawn(t) /\ haz'[t][f] \in blocks /\ Base(Begin(t)) <= First(haz'[t][f])
    BY <1>6, <1>7, <1>11, <1>29, Members
  <2>2. Drawn(t)' => Drawn(t) /\ Begin(t)' \in Nat /\ Begin(t) <= Begin(t)'
    BY <1>9, <1>29, Parts
  <2>3. pc'[t] \in Walking =>
             /\ haz'[t] = haz[t] /\ Field(t)' = Field(t)
             /\ (pc[t] \in Walking /\ Search(t)' = Search(t)) \/ Search(t)' = From(t)'
    BY <1>7 DEF Walking
  <2>4. At({"swap", "revalidate"}) /\ t = rec.at => Near(haz[t].active_offset)'
    BY <1>6, <1>7, Parts DEF Met, Near
  <2> QED BY <1>2, <1>8, <2>1, <2>2, <2>3, <2>4, MetStays
<1>20. told' \in [Tokens -> BOOLEAN] /\ \A u \in Tokens : told'[u] => told[u] \/ (closed = "closed" /\ Cut <= Turn)
  <2>1. told' = told /\ told \in [Tokens -> BOOLEAN] BY DEF Cross, clients, Running, TypeOK
  <2> QED BY <2>1
<1>21. /\ under' \in [Tokens -> Tokens \cup {Nobody}] /\ c.written <= c.count /\ c.seen <= reclaim_counter
  <2>1. under \in [Tokens -> Tokens \cup {Nobody}] BY DEF Running, TypeOK
  <2> QED BY <1>1, <1>2, <1>6, <2>1
<1> QED
  BY <1>1, <1>2, <1>7, <1>51, <1>10, <1>12, <1>13, <1>14, <1>15, <1>16, <1>17, <1>18, <1>19, <1>20, <1>21, CallStep

\* A poll on its way.
LEMMA Polls ==
  ASSUME Running, NEW t \in Tokens, op[t].name = "try_pull", pc[t] \in {"load_woff", "claim", "reread", "status"}
  PROVE  /\ Drawn(t) /\ ~Posting(t) /\ Begin(t) \in Nat /\ Skip <= Begin(t) /\ Begin(t) <= Turn /\ Turn \in Nat
         /\ Base(Begin(t)) <= Base(Turn) /\ Base(Turn) \in Nat /\ Base(Begin(t)) \in Nat /\ Skip <= Turn
         /\ Active(t) <= From(t) /\ First(ListHead) <= Base(Begin(t)) /\ Active(t) <= Base(Begin(t))
         /\ From(t) <= Base(Begin(t)) /\ {First(ListHead), Active(t), From(t)} \subseteq Nat
         /\ op[t].written = 0 /\ Finish(t) = Begin(t) /\ Begin(t) <= Top
<1> HIDE DEF Running
<1>1. Drawn(t) /\ ~Posting(t) /\ pc[t] \in Seeking BY DEF Drawn, Posting, Polling, Seeking
<1>2. /\ Uses(t) /\ Control(t) /\ Begin(t) \in Nat /\ Skip <= Begin(t) /\ Begin(t) <= Turn /\ Turn \in Nat
      /\ Skip <= Turn /\ Finish(t) = Begin(t) /\ Begin(t) <= Top /\ Skip \in Nat
  BY <1>1, Parts, InUse, OriginIs
<1>3. Base(Begin(t)) <= Base(Turn) /\ Base(Turn) \in Nat /\ Base(Begin(t)) \in Nat
  BY <1>2, BaseGrows, BaseOf
<1>4. {First(ListHead), Active(t)} \subseteq Nat BY Types, Bounds DEF Running
<1>5. From(t) \in Nat
  <2>1. haz[t][Field(t)] \in blocks BY <1>1, Members DEF Field, Fields
  <2> QED BY <2>1, Types DEF From, Running
<1>6. Active(t) <= From(t) /\ First(ListHead) <= Base(Begin(t)) /\ Active(t) <= Base(Begin(t))
      /\ From(t) <= Base(Begin(t))
  BY <1>1, <1>2 DEF Uses
<1>7. op[t].written = 0 BY <1>2 DEF Control, Writing
<1> QED BY <1>1, <1>2, <1>3, <1>4, <1>5, <1>6, <1>7

\* Polls keep what they know.
LEMMA PullPolls ==
  ASSUME NEW t, op'[t].name = "try_pull", ~Reader(t)', Skip <= Begin(t)', Begin(t)' <= Turn',
         pc'[t] \in {"load_block", "claim", "reread", "status"} => Pos(op[t].end)' <= Sold',
         pc'[t] \notin {"seek", "try_lock", "holding"},
         pc'[t] = "claim" => Done(Begin(t))'
  PROVE  Pull(t)'
BY DEF Pull

\* A poll looks whether there is anything to have.
LEMMA LoadWriteOffsetKeeps ==
  ASSUME Running, NEW t \in Tokens, LoadWriteOffset(t)
  PROVE  Running'
<1> HIDE DEF Running
<1>1. /\ pc[t] = "load_woff" /\ op[t].name \in {"try_pull"}
      /\ UNCHANGED <<queue, counters, reclaim, setup>> /\ UNCHANGED under
  <2>1. pc[t] = "load_woff" /\ UNCHANGED <<queue, counters, reclaim, setup>> /\ UNCHANGED under
    BY DEF LoadWriteOffset, clients, counters, queue, list, elements, offsets, reclaim
  <2> QED
    BY <2>1, Parts DEF Control, Named, Calling, Acquiring, Polling, Closing, Reclaiming, Writing, Posting,
     Scanning, Visiting, Announcing, Moves, Sweeping
<1>2. /\ lock # t /\ op[t] \in CallType /\ haz[t] \in HazType /\ op[t].written <= op[t].count
      /\ op[t].seen <= reclaim_counter /\ op[t].written \in Nat /\ op[t].count \in Nat
      /\ op[t].walk \in Block \cup {Null} /\ op[t].block \in Block \cup {Null}
      /\ op[t].boff \in Word /\ op[t].idx \in Word /\ op[t].end \in Word
      /\ write_offset \in Word /\ read_offset \in Word
  <2>1. lock # t
    BY <1>1, Parts DEF Control, Named, Calling, Acquiring, Polling, Closing, Reclaiming, Writing, Posting,
     Scanning, Visiting, Announcing, Moves, Sweeping
  <2>2. write_offset \in Word /\ read_offset \in Word BY Types DEF Running
  <2> QED BY <2>1, <2>2, Parts, Fixed
<1>29. /\ Drawn(t) /\ ~Posting(t) /\ Begin(t) \in Nat /\ Skip <= Begin(t) /\ Begin(t) <= Turn /\ Turn \in Nat
       /\ Base(Begin(t)) <= Base(Turn) /\ Base(Turn) \in Nat /\ Base(Begin(t)) \in Nat /\ Skip <= Turn
       /\ Active(t) <= From(t) /\ First(ListHead) <= Base(Begin(t)) /\ Active(t) <= Base(Begin(t))
       /\ From(t) <= Base(Begin(t)) /\ {First(ListHead), Active(t), From(t)} \subseteq Nat
       /\ op[t].written = 0 /\ Finish(t) = Begin(t) /\ Begin(t) <= Top
  BY <1>1, Polls
<1>3. PICK c \in CallType : c = [op[t] EXCEPT !.end = write_offset] BY <1>2, Unmoved, Edited
<1>4. PICK h \in HazType : h = haz[t] BY <1>2, Unmoved, Edited
<1>50. PICK p \in {"status", "load_block"} : p = (IF AtOrBefore(write_offset, op[t].idx) THEN "status" ELSE "load_block")
  OBVIOUS
<1>51. pc' = [pc EXCEPT ![t] = p] /\ op' = [op EXCEPT ![t] = c] /\ haz' = [haz EXCEPT ![t] = h]
  BY <1>3, <1>4, <1>50, Unmoved DEF LoadWriteOffset, GoTo
<1>6. /\ c.name = op[t].name /\ c.idx = op[t].idx /\ c.count = op[t].count /\ c.written = op[t].written
      /\ c.seen = op[t].seen /\ c.walk = op[t].walk /\ c.boff = op[t].boff /\ c.past = op[t].past /\ c.block = op[t].block /\ c.end = write_offset
      /\ h = haz[t]
  BY <1>2, <1>3, <1>4 DEF CallType, HazType, Keeps
<1>7. pc'[t] = p /\ op'[t] = c /\ haz'[t] = h /\ Only({t}) /\ p \in Places \ (BeforeDraw \cup Closing)
  <2>1. p \in Places \ (BeforeDraw \cup Closing)
    BY DEF Places, BeforeDraw, Control, Named, Calling, Acquiring, Polling, Closing, Reclaiming, Writing, Posting,
     Scanning, Visiting, Announcing, Moves, Sweeping, Walking, Reading
  <2> QED BY <1>51, <2>1, Moved
<1>8. /\ Calm({t}) /\ Resting /\ (\A places : At(places)' = At(places)) /\ rec' = rec /\ lock' = lock
      /\ OnList' = OnList /\ blocks' = blocks /\ (\A b : First(b)' = First(b))
      /\ (\A m : Reaches(m)' = Reaches(m)) /\ ListHead' = ListHead /\ First(ListHead)' = First(ListHead)
      /\ Sold' = Sold /\ Turn' = Turn /\ Cut' = Cut /\ closed' = closed /\ offset' = offset
      /\ flags' = flags /\ stored' = stored /\ next' = next /\ CutDrawn' = CutDrawn
  <2>1. UNCHANGED <<queue, reclaim_counter, reclaim, setup>> /\ {t} \in SUBSET Tokens /\ lock \notin {t}
    BY <1>1, <1>2 DEF counters
  <2>2. haz_ptr_counter' \in Nat /\ haz_ptr_counter <= haz_ptr_counter'
    BY <1>1, Fixed DEF counters
  <2>3. /\ Calm({t}) /\ Resting /\ (\A places : At(places)' = At(places)) /\ rec' = rec /\ lock' = lock
        /\ OnList' = OnList /\ blocks' = blocks /\ (\A b : First(b)' = First(b))
        /\ (\A m : Reaches(m)' = Reaches(m)) /\ ListHead' = ListHead /\ offset' = offset
        /\ Sold' = Sold /\ Turn' = Turn /\ Cut' = Cut /\ closed' = closed
        /\ flags' = flags /\ stored' = stored /\ next' = next /\ CutDrawn' = CutDrawn
    BY <1>7, <2>1, <2>2, Frame
  <2> QED BY <2>3 DEF First
<1>9. /\ Begin(t)' = Begin(t) /\ Active(t)' = Active(t)
      /\ Posting(t)' = Posting(t) /\ Field(t)' = Field(t) /\ op'[t].count = op[t].count /\ op'[t].name = op[t].name
  BY <1>6, <1>7, <1>8 DEF Begin, Turn, Active, Posting, Field, Keeps
<1>31. From(t)' = From(t)
  <2>1. PICK y : y = haz[t][Field(t)] OBVIOUS
  <2>2. haz'[t][Field(t)'] = y BY <1>6, <1>7, <1>9, <2>1
  <2>3. First(y)' = First(y) BY <1>8
  <2> QED BY <2>1, <2>2, <2>3 DEF From
<1>10. Control(t)'
  BY <1>1, <1>2, <1>50, <1>6, <1>7, <1>8, <1>9, Parts, <1>29 DEF Control, Named, Calling, Acquiring, Polling, Closing, Reclaiming, Writing, Posting,
     Scanning, Visiting, Announcing, Moves, Sweeping, Walking, Reading
<1>12. Seen({t}) /\ ~Reader(t) /\ ~Reader(t)' /\ ~Sender(t) /\ ~Sender(t)' /\ ~Unaware(t)'
  BY <1>1, <1>7, <1>9, SeenPolls DEF Polling
<1>13. Post(t)' BY <1>12 DEF Post
<1>14. Pull(t)'
  <2>1. Skip <= Begin(t)' /\ Begin(t)' <= Turn' /\ op'[t].name = "try_pull"
    BY <1>1, <1>8, <1>9, <1>29
  <2>2. Pos(op[t].end)' <= Sold' BY <1>6, <1>7, <1>8, Parts DEF Sold
  <2> QED BY <1>7, <1>12, <2>1, <2>2, PullPolls
<1>15. Sought(t)' BY <1>12 DEF Sought
<1>16. Parks(t)' BY <1>7 DEF Parks
<1>17. Has(t)'
  <2>1. Acquired(t)' => Acquired(t)
    BY <1>1, <1>7, <1>6, Parts DEF Acquired, Control, Named, Calling, Acquiring, Polling, Closing, Reclaiming, Writing, Posting,
     Scanning, Visiting, Announcing, Moves, Sweeping
  <2> QED BY <1>6, <1>7, <1>8, <2>1, HasStays DEF Keeps
<1>18. Uses(t)'
  <2>1. /\ Active(t)' <= From(t)' /\ First(ListHead)' <= Base(Begin(t)') /\ Active(t)' <= Base(Begin(t)')
        /\ From(t)' <= Base(Begin(t)')
    BY <1>8, <1>9, <1>29, <1>31
  <2> QED BY <1>7, <2>1, UsesBetween
<1>19. Met(t)'
  <2>1. Member(t)' /\ NobodyCame' => Member(t) /\ \A f \in Fields :
             \/ haz'[t][f] = haz[t][f]
             \/ Drawn(t) /\ haz'[t][f] \in blocks /\ Base(Begin(t)) <= First(haz'[t][f])
    BY <1>6, <1>7, <1>29, Members
  <2>2. Drawn(t)' => Drawn(t) /\ Begin(t)' \in Nat /\ Begin(t) <= Begin(t)' BY <1>9, <1>29
  <2>3. pc'[t] \notin Walking BY <1>7 DEF Walking
  <2>4. At({"swap", "revalidate"}) /\ t = rec.at => Near(haz[t].active_offset)'
    BY <1>6, <1>7, Parts DEF Met, Near
  <2> QED BY <1>2, <1>8, <2>1, <2>2, <2>3, <2>4, MetStays
<1>20. told' \in [Tokens -> BOOLEAN] /\ \A u \in Tokens : told'[u] => told[u] \/ (closed = "closed" /\ Cut <= Turn)
  <2>1. told' = told /\ told \in [Tokens -> BOOLEAN]
    BY DEF LoadWriteOffset, clients, Running, TypeOK
  <2> QED BY <2>1
<1>21. /\ under' \in [Tokens -> Tokens \cup {Nobody}] /\ c.written <= c.count /\ c.seen <= reclaim_counter
  <2>1. under \in [Tokens -> Tokens \cup {Nobody}] BY DEF Running, TypeOK
  <2> QED BY <1>1, <1>2, <1>6, <2>1
<1> QED
  BY <1>1, <1>2, <1>7, <1>51, <1>10, <1>12, <1>13, <1>14, <1>15, <1>16, <1>17, <1>18, <1>19, <1>20, <1>21, CallStep

\* A poll that found nothing looks whether it has been overtaken.
LEMMA RereadOffsetKeeps ==
  ASSUME Running, NEW t \in Tokens, RereadOffset(t)
  PROVE  Running'
<1> HIDE DEF Running
<1>1. /\ pc[t] = "reread" /\ op[t].name \in {"try_pull"}
      /\ UNCHANGED <<queue, counters, reclaim, setup>> /\ UNCHANGED under
  <2>1. pc[t] = "reread" /\ UNCHANGED <<queue, counters, reclaim, setup>> /\ UNCHANGED under
    BY DEF RereadOffset, clients, counters, queue, list, elements, offsets, reclaim
  <2> QED
    BY <2>1, Parts DEF Control, Named, Calling, Acquiring, Polling, Closing, Reclaiming, Writing, Posting,
     Scanning, Visiting, Announcing, Moves, Sweeping
<1>2. /\ lock # t /\ op[t] \in CallType /\ haz[t] \in HazType /\ op[t].written <= op[t].count
      /\ op[t].seen <= reclaim_counter /\ op[t].written \in Nat /\ op[t].count \in Nat
      /\ op[t].walk \in Block \cup {Null} /\ op[t].block \in Block \cup {Null}
      /\ op[t].boff \in Word /\ op[t].idx \in Word /\ op[t].end \in Word
      /\ write_offset \in Word /\ read_offset \in Word
  <2>1. lock # t
    BY <1>1, Parts DEF Control, Named, Calling, Acquiring, Polling, Closing, Reclaiming, Writing, Posting,
     Scanning, Visiting, Announcing, Moves, Sweeping
  <2>2. write_offset \in Word /\ read_offset \in Word BY Types DEF Running
  <2> QED BY <2>1, <2>2, Parts, Fixed
<1>29. /\ Drawn(t) /\ ~Posting(t) /\ Begin(t) \in Nat /\ Skip <= Begin(t) /\ Begin(t) <= Turn /\ Turn \in Nat
       /\ Base(Begin(t)) <= Base(Turn) /\ Base(Turn) \in Nat /\ Base(Begin(t)) \in Nat /\ Skip <= Turn
       /\ Active(t) <= From(t) /\ First(ListHead) <= Base(Begin(t)) /\ Active(t) <= Base(Begin(t))
       /\ From(t) <= Base(Begin(t)) /\ {First(ListHead), Active(t), From(t)} \subseteq Nat
       /\ op[t].written = 0 /\ Finish(t) = Begin(t) /\ Begin(t) <= Top
  BY <1>1, Polls
<1>3. PICK c \in CallType : c = [op[t] EXCEPT !.idx = read_offset] BY <1>2, Unmoved, Edited
<1>4. PICK h \in HazType : h = haz[t] BY <1>2, Unmoved, Edited
<1>50. PICK p \in {"status", "load_woff"} : p = (IF read_offset = op[t].idx THEN "status" ELSE "load_woff")
  OBVIOUS
<1>51. pc' = [pc EXCEPT ![t] = p] /\ op' = [op EXCEPT ![t] = c] /\ haz' = [haz EXCEPT ![t] = h]
  BY <1>3, <1>4, <1>50, Unmoved DEF RereadOffset, GoTo
<1>6. /\ c.name = op[t].name /\ c.count = op[t].count /\ c.written = op[t].written
      /\ c.seen = op[t].seen /\ c.end = op[t].end /\ c.walk = op[t].walk /\ c.boff = op[t].boff /\ c.past = op[t].past /\ c.block = op[t].block /\ c.idx = read_offset
      /\ h = haz[t]
  BY <1>2, <1>3, <1>4 DEF CallType, HazType, Keeps
<1>7. pc'[t] = p /\ op'[t] = c /\ haz'[t] = h /\ Only({t}) /\ p \in Places \ (BeforeDraw \cup Closing)
  <2>1. p \in Places \ (BeforeDraw \cup Closing)
    BY DEF Places, BeforeDraw, Control, Named, Calling, Acquiring, Polling, Closing, Reclaiming, Writing, Posting,
     Scanning, Visiting, Announcing, Moves, Sweeping, Walking, Reading
  <2> QED BY <1>51, <2>1, Moved
<1>8. /\ Calm({t}) /\ Resting /\ (\A places : At(places)' = At(places)) /\ rec' = rec /\ lock' = lock
      /\ OnList' = OnList /\ blocks' = blocks /\ (\A b : First(b)' = First(b))
      /\ (\A m : Reaches(m)' = Reaches(m)) /\ ListHead' = ListHead /\ First(ListHead)' = First(ListHead)
      /\ Sold' = Sold /\ Turn' = Turn /\ Cut' = Cut /\ closed' = closed /\ offset' = offset
      /\ flags' = flags /\ stored' = stored /\ next' = next /\ CutDrawn' = CutDrawn
  <2>1. UNCHANGED <<queue, reclaim_counter, reclaim, setup>> /\ {t} \in SUBSET Tokens /\ lock \notin {t}
    BY <1>1, <1>2 DEF counters
  <2>2. haz_ptr_counter' \in Nat /\ haz_ptr_counter <= haz_ptr_counter'
    BY <1>1, Fixed DEF counters
  <2>3. /\ Calm({t}) /\ Resting /\ (\A places : At(places)' = At(places)) /\ rec' = rec /\ lock' = lock
        /\ OnList' = OnList /\ blocks' = blocks /\ (\A b : First(b)' = First(b))
        /\ (\A m : Reaches(m)' = Reaches(m)) /\ ListHead' = ListHead /\ offset' = offset
        /\ Sold' = Sold /\ Turn' = Turn /\ Cut' = Cut /\ closed' = closed
        /\ flags' = flags /\ stored' = stored /\ next' = next /\ CutDrawn' = CutDrawn
    BY <1>7, <2>1, <2>2, Frame
  <2> QED BY <2>3 DEF First
<1>9. /\ Begin(t)' = Turn /\ Active(t)' = Active(t)
      /\ Posting(t)' = Posting(t) /\ Field(t)' = Field(t) /\ op'[t].count = op[t].count /\ op'[t].name = op[t].name
  BY <1>6, <1>7, <1>8 DEF Begin, Turn, Active, Posting, Field, Keeps
<1>31. From(t)' = From(t)
  <2>1. PICK y : y = haz[t][Field(t)] OBVIOUS
  <2>2. haz'[t][Field(t)'] = y BY <1>6, <1>7, <1>9, <2>1
  <2>3. First(y)' = First(y) BY <1>8
  <2> QED BY <2>1, <2>2, <2>3 DEF From
<1>10. Control(t)'
  BY <1>1, <1>2, <1>50, <1>6, <1>7, <1>8, <1>9, Parts, <1>29 DEF Control, Named, Calling, Acquiring, Polling, Closing, Reclaiming, Writing, Posting,
     Scanning, Visiting, Announcing, Moves, Sweeping, Walking, Reading
<1>12. Seen({t}) /\ ~Reader(t) /\ ~Reader(t)' /\ ~Sender(t) /\ ~Sender(t)' /\ ~Unaware(t)'
  BY <1>1, <1>7, <1>9, SeenPolls DEF Polling
<1>13. Post(t)' BY <1>12 DEF Post
<1>14. Pull(t)'
  <2>1. Skip <= Begin(t)' /\ Begin(t)' <= Turn' /\ op'[t].name = "try_pull"
    BY <1>1, <1>8, <1>9, <1>29
  <2>2. Pos(op[t].end)' <= Sold' BY <1>1, <1>6, <1>7, <1>8, Parts DEF Pull, Drawn, Polling
  <2> QED BY <1>7, <1>12, <2>1, <2>2, PullPolls
<1>15. Sought(t)' BY <1>12 DEF Sought
<1>16. Parks(t)' BY <1>7 DEF Parks
<1>17. Has(t)'
  <2>1. Acquired(t)' => Acquired(t)
    BY <1>1, <1>7, <1>6, Parts DEF Acquired, Control, Named, Calling, Acquiring, Polling, Closing, Reclaiming, Writing, Posting,
     Scanning, Visiting, Announcing, Moves, Sweeping
  <2> QED BY <1>6, <1>7, <1>8, <2>1, HasStays DEF Keeps
<1>18. Uses(t)'
  <2>1. /\ Active(t)' <= From(t)' /\ First(ListHead)' <= Base(Begin(t)') /\ Active(t)' <= Base(Begin(t)')
        /\ From(t)' <= Base(Begin(t)')
    BY <1>8, <1>9, <1>29, <1>31
  <2> QED BY <1>7, <2>1, UsesBetween
<1>19. Met(t)'
  <2>1. Member(t)' /\ NobodyCame' => Member(t) /\ \A f \in Fields :
             \/ haz'[t][f] = haz[t][f]
             \/ Drawn(t) /\ haz'[t][f] \in blocks /\ Base(Begin(t)) <= First(haz'[t][f])
    BY <1>6, <1>7, <1>29, Members
  <2>2. Drawn(t)' => Drawn(t) /\ Begin(t)' \in Nat /\ Begin(t) <= Begin(t)' BY <1>9, <1>29
  <2>3. pc'[t] \notin Walking BY <1>7 DEF Walking
  <2>4. At({"swap", "revalidate"}) /\ t = rec.at => Near(haz[t].active_offset)'
    BY <1>6, <1>7, Parts DEF Met, Near
  <2> QED BY <1>2, <1>8, <2>1, <2>2, <2>3, <2>4, MetStays
<1>20. told' \in [Tokens -> BOOLEAN] /\ \A u \in Tokens : told'[u] => told[u] \/ (closed = "closed" /\ Cut <= Turn)
  <2>1. told' = told /\ told \in [Tokens -> BOOLEAN]
    BY DEF RereadOffset, clients, Running, TypeOK
  <2> QED BY <2>1
<1>21. /\ under' \in [Tokens -> Tokens \cup {Nobody}] /\ c.written <= c.count /\ c.seen <= reclaim_counter
  <2>1. under \in [Tokens -> Tokens \cup {Nobody}] BY DEF Running, TypeOK
  <2> QED BY <1>1, <1>2, <1>6, <2>1
<1> QED
  BY <1>1, <1>2, <1>7, <1>51, <1>10, <1>12, <1>13, <1>14, <1>15, <1>16, <1>17, <1>18, <1>19, <1>20, <1>21, CallStep

\* Another consumer was there first.
LEMMA ClaimFailsKeeps ==
  ASSUME Running, NEW t \in Tokens, Claim(t), read_offset # op[t].idx
  PROVE  Running'
<1> HIDE DEF Running
<1>1. /\ pc[t] = "claim" /\ op[t].name \in {"try_pull"}
      /\ UNCHANGED <<queue, counters, reclaim, setup>> /\ UNCHANGED under
  <2>1. pc[t] = "claim" /\ UNCHANGED <<queue, counters, reclaim, setup>> /\ UNCHANGED under
    BY DEF Claim, clients, counters, queue, list, elements, offsets, reclaim
  <2> QED
    BY <2>1, Parts DEF Control, Named, Calling, Acquiring, Polling, Closing, Reclaiming, Writing, Posting,
     Scanning, Visiting, Announcing, Moves, Sweeping
<1>2. /\ lock # t /\ op[t] \in CallType /\ haz[t] \in HazType /\ op[t].written <= op[t].count
      /\ op[t].seen <= reclaim_counter /\ op[t].written \in Nat /\ op[t].count \in Nat
      /\ op[t].walk \in Block \cup {Null} /\ op[t].block \in Block \cup {Null}
      /\ op[t].boff \in Word /\ op[t].idx \in Word /\ op[t].end \in Word
      /\ write_offset \in Word /\ read_offset \in Word
  <2>1. lock # t
    BY <1>1, Parts DEF Control, Named, Calling, Acquiring, Polling, Closing, Reclaiming, Writing, Posting,
     Scanning, Visiting, Announcing, Moves, Sweeping
  <2>2. write_offset \in Word /\ read_offset \in Word BY Types DEF Running
  <2> QED BY <2>1, <2>2, Parts, Fixed
<1>29. /\ Drawn(t) /\ ~Posting(t) /\ Begin(t) \in Nat /\ Skip <= Begin(t) /\ Begin(t) <= Turn /\ Turn \in Nat
       /\ Base(Begin(t)) <= Base(Turn) /\ Base(Turn) \in Nat /\ Base(Begin(t)) \in Nat /\ Skip <= Turn
       /\ Active(t) <= From(t) /\ First(ListHead) <= Base(Begin(t)) /\ Active(t) <= Base(Begin(t))
       /\ From(t) <= Base(Begin(t)) /\ {First(ListHead), Active(t), From(t)} \subseteq Nat
       /\ op[t].written = 0 /\ Finish(t) = Begin(t) /\ Begin(t) <= Top
  BY <1>1, Polls
<1>3. PICK c \in CallType : c = [op[t] EXCEPT !.idx = read_offset] BY <1>2, Unmoved, Edited
<1>4. PICK h \in HazType : h = haz[t] BY <1>2, Unmoved, Edited
<1>50. PICK p \in {"load_woff"} : p = "load_woff" OBVIOUS
<1>51. pc' = [pc EXCEPT ![t] = p] /\ op' = [op EXCEPT ![t] = c] /\ haz' = [haz EXCEPT ![t] = h]
  BY <1>3, <1>4, <1>50, Unmoved DEF Claim, GoTo
<1>6. /\ c.name = op[t].name /\ c.count = op[t].count /\ c.written = op[t].written
      /\ c.seen = op[t].seen /\ c.end = op[t].end /\ c.walk = op[t].walk /\ c.boff = op[t].boff /\ c.past = op[t].past /\ c.block = op[t].block /\ c.idx = read_offset
      /\ h = haz[t]
  BY <1>2, <1>3, <1>4 DEF CallType, HazType, Keeps
<1>7. pc'[t] = p /\ op'[t] = c /\ haz'[t] = h /\ Only({t}) /\ p \in Places \ (BeforeDraw \cup Closing)
  <2>1. p \in Places \ (BeforeDraw \cup Closing)
    BY DEF Places, BeforeDraw, Control, Named, Calling, Acquiring, Polling, Closing, Reclaiming, Writing, Posting,
     Scanning, Visiting, Announcing, Moves, Sweeping, Walking, Reading
  <2> QED BY <1>51, <2>1, Moved
<1>8. /\ Calm({t}) /\ Resting /\ (\A places : At(places)' = At(places)) /\ rec' = rec /\ lock' = lock
      /\ OnList' = OnList /\ blocks' = blocks /\ (\A b : First(b)' = First(b))
      /\ (\A m : Reaches(m)' = Reaches(m)) /\ ListHead' = ListHead /\ First(ListHead)' = First(ListHead)
      /\ Sold' = Sold /\ Turn' = Turn /\ Cut' = Cut /\ closed' = closed /\ offset' = offset
      /\ flags' = flags /\ stored' = stored /\ next' = next /\ CutDrawn' = CutDrawn
  <2>1. UNCHANGED <<queue, reclaim_counter, reclaim, setup>> /\ {t} \in SUBSET Tokens /\ lock \notin {t}
    BY <1>1, <1>2 DEF counters
  <2>2. haz_ptr_counter' \in Nat /\ haz_ptr_counter <= haz_ptr_counter'
    BY <1>1, Fixed DEF counters
  <2>3. /\ Calm({t}) /\ Resting /\ (\A places : At(places)' = At(places)) /\ rec' = rec /\ lock' = lock
        /\ OnList' = OnList /\ blocks' = blocks /\ (\A b : First(b)' = First(b))
        /\ (\A m : Reaches(m)' = Reaches(m)) /\ ListHead' = ListHead /\ offset' = offset
        /\ Sold' = Sold /\ Turn' = Turn /\ Cut' = Cut /\ closed' = closed
        /\ flags' = flags /\ stored' = stored /\ next' = next /\ CutDrawn' = CutDrawn
    BY <1>7, <2>1, <2>2, Frame
  <2> QED BY <2>3 DEF First
<1>9. /\ Begin(t)' = Turn /\ Active(t)' = Active(t)
      /\ Posting(t)' = Posting(t) /\ Field(t)' = Field(t) /\ op'[t].count = op[t].count /\ op'[t].name = op[t].name
  BY <1>6, <1>7, <1>8 DEF Begin, Turn, Active, Posting, Field, Keeps
<1>31. From(t)' = From(t)
  <2>1. PICK y : y = haz[t][Field(t)] OBVIOUS
  <2>2. haz'[t][Field(t)'] = y BY <1>6, <1>7, <1>9, <2>1
  <2>3. First(y)' = First(y) BY <1>8
  <2> QED BY <2>1, <2>2, <2>3 DEF From
<1>10. Control(t)'
  BY <1>1, <1>2, <1>50, <1>6, <1>7, <1>8, <1>9, Parts, <1>29 DEF Control, Named, Calling, Acquiring, Polling, Closing, Reclaiming, Writing, Posting,
     Scanning, Visiting, Announcing, Moves, Sweeping, Walking, Reading
<1>12. Seen({t}) /\ ~Reader(t) /\ ~Reader(t)' /\ ~Sender(t) /\ ~Sender(t)' /\ ~Unaware(t)'
  BY <1>1, <1>7, <1>9, SeenPolls DEF Polling
<1>13. Post(t)' BY <1>12 DEF Post
<1>14. Pull(t)'
  <2>1. Skip <= Begin(t)' /\ Begin(t)' <= Turn' /\ op'[t].name = "try_pull"
    BY <1>1, <1>8, <1>9, <1>29
  <2> QED BY <1>7, <1>50, <1>12, <2>1, PullPolls
<1>15. Sought(t)' BY <1>12 DEF Sought
<1>16. Parks(t)' BY <1>7 DEF Parks
<1>17. Has(t)'
  <2>1. Acquired(t)' => Acquired(t)
    BY <1>1, <1>7, <1>6, Parts DEF Acquired, Control, Named, Calling, Acquiring, Polling, Closing, Reclaiming, Writing, Posting,
     Scanning, Visiting, Announcing, Moves, Sweeping
  <2> QED BY <1>6, <1>7, <1>8, <2>1, HasStays DEF Keeps
<1>18. Uses(t)'
  <2>1. /\ Active(t)' <= From(t)' /\ First(ListHead)' <= Base(Begin(t)') /\ Active(t)' <= Base(Begin(t)')
        /\ From(t)' <= Base(Begin(t)')
    BY <1>8, <1>9, <1>29, <1>31
  <2> QED BY <1>7, <2>1, UsesBetween
<1>19. Met(t)'
  <2>1. Member(t)' /\ NobodyCame' => Member(t) /\ \A f \in Fields :
             \/ haz'[t][f] = haz[t][f]
             \/ Drawn(t) /\ haz'[t][f] \in blocks /\ Base(Begin(t)) <= First(haz'[t][f])
    BY <1>6, <1>7, <1>29, Members
  <2>2. Drawn(t)' => Drawn(t) /\ Begin(t)' \in Nat /\ Begin(t) <= Begin(t)' BY <1>9, <1>29
  <2>3. pc'[t] \notin Walking BY <1>7 DEF Walking
  <2>4. At({"swap", "revalidate"}) /\ t = rec.at => Near(haz[t].active_offset)'
    BY <1>6, <1>7, Parts DEF Met, Near
  <2> QED BY <1>2, <1>8, <2>1, <2>2, <2>3, <2>4, MetStays
<1>20. told' \in [Tokens -> BOOLEAN] /\ \A u \in Tokens : told'[u] => told[u] \/ (closed = "closed" /\ Cut <= Turn)
  <2>1. told' = told /\ told \in [Tokens -> BOOLEAN] BY DEF Claim, clients, Running, TypeOK
  <2> QED BY <2>1
<1>21. /\ under' \in [Tokens -> Tokens \cup {Nobody}] /\ c.written <= c.count /\ c.seen <= reclaim_counter
  <2>1. under \in [Tokens -> Tokens \cup {Nobody}] BY DEF Running, TypeOK
  <2> QED BY <1>1, <1>2, <1>6, <2>1
<1> QED
  BY <1>1, <1>2, <1>7, <1>51, <1>10, <1>12, <1>13, <1>14, <1>15, <1>16, <1>17, <1>18, <1>19, <1>20, <1>21, CallStep

\* A poll says EMPTY or CLOSED.
LEMMA StatusKeeps ==
  ASSUME Running, NEW t \in Tokens, Status(t)
  PROVE  Running'
<1> HIDE DEF Running
<1>1. /\ pc[t] = "status" /\ op[t].name \in {"try_pull"}
      /\ UNCHANGED <<queue, counters, reclaim, setup>> /\ UNCHANGED under
  <2>1. pc[t] = "status" /\ UNCHANGED <<queue, counters, reclaim, setup>> /\ UNCHANGED under
    BY DEF Status, clients, counters, queue, list, elements, offsets, reclaim
  <2> QED
    BY <2>1, Parts DEF Control, Named, Calling, Acquiring, Polling, Closing, Reclaiming, Writing, Posting,
     Scanning, Visiting, Announcing, Moves, Sweeping
<1>2. /\ lock # t /\ op[t] \in CallType /\ haz[t] \in HazType /\ op[t].written <= op[t].count
      /\ op[t].seen <= reclaim_counter /\ op[t].written \in Nat /\ op[t].count \in Nat
      /\ op[t].walk \in Block \cup {Null} /\ op[t].block \in Block \cup {Null}
      /\ op[t].boff \in Word /\ op[t].idx \in Word /\ op[t].end \in Word
      /\ write_offset \in Word /\ read_offset \in Word
  <2>1. lock # t
    BY <1>1, Parts DEF Control, Named, Calling, Acquiring, Polling, Closing, Reclaiming, Writing, Posting,
     Scanning, Visiting, Announcing, Moves, Sweeping
  <2>2. write_offset \in Word /\ read_offset \in Word BY Types DEF Running
  <2> QED BY <2>1, <2>2, Parts, Fixed
<1>29. /\ Drawn(t) /\ ~Posting(t) /\ Begin(t) \in Nat /\ Skip <= Begin(t) /\ Begin(t) <= Turn /\ Turn \in Nat
       /\ Base(Begin(t)) <= Base(Turn) /\ Base(Turn) \in Nat /\ Base(Begin(t)) \in Nat /\ Skip <= Turn
       /\ Active(t) <= From(t) /\ First(ListHead) <= Base(Begin(t)) /\ Active(t) <= Base(Begin(t))
       /\ From(t) <= Base(Begin(t)) /\ {First(ListHead), Active(t), From(t)} \subseteq Nat
       /\ op[t].written = 0 /\ Finish(t) = Begin(t) /\ Begin(t) <= Top
  BY <1>1, Polls
<1>3. PICK c \in CallType : c = op[t] BY <1>2, Unmoved, Edited
<1>4. PICK h \in HazType : h = haz[t] BY <1>2, Unmoved, Edited
<1>50. PICK p \in {"release"} : p = "release" OBVIOUS
<1>51. pc' = [pc EXCEPT ![t] = p] /\ op' = [op EXCEPT ![t] = c] /\ haz' = [haz EXCEPT ![t] = h]
  BY <1>3, <1>4, <1>50, Unmoved DEF Status, GoTo
<1>6. /\ c.name = op[t].name /\ c.idx = op[t].idx /\ c.count = op[t].count /\ c.written = op[t].written
      /\ c.seen = op[t].seen /\ c.end = op[t].end /\ c.walk = op[t].walk /\ c.boff = op[t].boff /\ c.past = op[t].past /\ c.block = op[t].block
      /\ h = haz[t]
  BY <1>2, <1>3, <1>4 DEF CallType, HazType, Keeps
<1>7. pc'[t] = p /\ op'[t] = c /\ haz'[t] = h /\ Only({t}) /\ p \in Places \ (BeforeDraw \cup Closing)
  <2>1. p \in Places \ (BeforeDraw \cup Closing)
    BY DEF Places, BeforeDraw, Control, Named, Calling, Acquiring, Polling, Closing, Reclaiming, Writing, Posting,
     Scanning, Visiting, Announcing, Moves, Sweeping, Walking, Reading
  <2> QED BY <1>51, <2>1, Moved
<1>8. /\ Calm({t}) /\ Resting /\ (\A places : At(places)' = At(places)) /\ rec' = rec /\ lock' = lock
      /\ OnList' = OnList /\ blocks' = blocks /\ (\A b : First(b)' = First(b))
      /\ (\A m : Reaches(m)' = Reaches(m)) /\ ListHead' = ListHead /\ First(ListHead)' = First(ListHead)
      /\ Sold' = Sold /\ Turn' = Turn /\ Cut' = Cut /\ closed' = closed /\ offset' = offset
      /\ flags' = flags /\ stored' = stored /\ next' = next /\ CutDrawn' = CutDrawn
  <2>1. UNCHANGED <<queue, reclaim_counter, reclaim, setup>> /\ {t} \in SUBSET Tokens /\ lock \notin {t}
    BY <1>1, <1>2 DEF counters
  <2>2. haz_ptr_counter' \in Nat /\ haz_ptr_counter <= haz_ptr_counter'
    BY <1>1, Fixed DEF counters
  <2>3. /\ Calm({t}) /\ Resting /\ (\A places : At(places)' = At(places)) /\ rec' = rec /\ lock' = lock
        /\ OnList' = OnList /\ blocks' = blocks /\ (\A b : First(b)' = First(b))
        /\ (\A m : Reaches(m)' = Reaches(m)) /\ ListHead' = ListHead /\ offset' = offset
        /\ Sold' = Sold /\ Turn' = Turn /\ Cut' = Cut /\ closed' = closed
        /\ flags' = flags /\ stored' = stored /\ next' = next /\ CutDrawn' = CutDrawn
    BY <1>7, <2>1, <2>2, Frame
  <2> QED BY <2>3 DEF First
<1>9. /\ Begin(t)' = Begin(t) /\ Active(t)' = Active(t)
      /\ Posting(t)' = Posting(t) /\ Field(t)' = Field(t) /\ op'[t].count = op[t].count /\ op'[t].name = op[t].name
  BY <1>6, <1>7, <1>8 DEF Begin, Turn, Active, Posting, Field, Keeps
<1>30. Finish(t)' <= Top BY <1>6, <1>7, <1>9, <1>29, Parts DEF Finish
<1>10. Control(t)'
  BY <1>1, <1>2, <1>50, <1>6, <1>7, <1>8, <1>9, Parts, <1>29, <1>30 DEF Control, Named, Calling, Acquiring, Polling, Closing, Reclaiming, Writing, Posting,
     Scanning, Visiting, Announcing, Moves, Sweeping, Walking, Reading
<1>12. Seen({t}) /\ ~Reader(t) /\ ~Reader(t)' /\ ~Sender(t) /\ ~Sender(t)' /\ ~Unaware(t)'
  BY <1>1, <1>7, <1>9, SeenPolls DEF Polling
<1>13. Post(t)' BY <1>12 DEF Post
<1>32. pc'[t] \in Outer /\ pc'[t] # "draw" BY <1>7 DEF Outer
<1>14. Pull(t)' /\ Uses(t)' BY <1>32, OuterToken
<1>15. Sought(t)' BY <1>12 DEF Sought
<1>16. Parks(t)' BY <1>7 DEF Parks
<1>17. Has(t)'
  <2>1. Acquired(t)' => Acquired(t)
    BY <1>1, <1>7, <1>6, Parts DEF Acquired, Control, Named, Calling, Acquiring, Polling, Closing, Reclaiming, Writing, Posting,
     Scanning, Visiting, Announcing, Moves, Sweeping
  <2> QED BY <1>6, <1>7, <1>8, <2>1, HasStays DEF Keeps
<1>18. Uses(t)' BY <1>14
<1>19. Met(t)'
  <2>1. Member(t)' /\ NobodyCame' => Member(t) /\ \A f \in Fields :
             \/ haz'[t][f] = haz[t][f]
             \/ Drawn(t) /\ haz'[t][f] \in blocks /\ Base(Begin(t)) <= First(haz'[t][f])
    BY <1>6, <1>7, <1>29, Members
  <2>2. Drawn(t)' => Drawn(t) /\ Begin(t)' \in Nat /\ Begin(t) <= Begin(t)' BY <1>9, <1>29
  <2>3. pc'[t] \notin Walking BY <1>7 DEF Walking
  <2>4. At({"swap", "revalidate"}) /\ t = rec.at => Near(haz[t].active_offset)'
    BY <1>6, <1>7, Parts DEF Met, Near
  <2> QED BY <1>2, <1>8, <2>1, <2>2, <2>3, <2>4, MetStays
<1>20. told' \in [Tokens -> BOOLEAN] /\ \A u \in Tokens : told'[u] => told[u] \/ (closed = "closed" /\ Cut <= Turn)
  <2>1. PICK past \in BOOLEAN : past = PastCutoff(t) BY DEF PastCutoff, AtOrBefore, CircularLess
  <2>2. told' = [told EXCEPT ![t] = past] /\ told \in [Tokens -> BOOLEAN]
    BY <2>1 DEF Status, Running, TypeOK
  <2>3. past => closed = "closed" /\ Cut <= Turn
    <3>1. write_closed_at \in Word /\ Cut \in Nat /\ Cut <= Top BY Parts, Types DEF Running
    <3>2. closed = "closed" => Cut = Pos(write_closed_at) BY DEF Cut
    <3>3. closed = "closed" => (AtOrBefore(write_closed_at, op[t].idx) <=> Cut <= Begin(t))
      BY <1>2, <1>29, <3>1, <3>2, AtOrBeforeIs DEF Begin
    <3>4. past => closed = "closed" /\ AtOrBefore(write_closed_at, op[t].idx)
      BY <2>1 DEF PastCutoff
    <3>5. past => closed = "closed" /\ Cut <= Begin(t) BY <3>3, <3>4
    <3> QED BY <1>29, <3>1, <3>5
  <2> QED BY <2>2, <2>3
<1>21. /\ under' \in [Tokens -> Tokens \cup {Nobody}] /\ c.written <= c.count /\ c.seen <= reclaim_counter
  <2>1. under \in [Tokens -> Tokens \cup {Nobody}] BY DEF Running, TypeOK
  <2> QED BY <1>1, <1>2, <1>6, <2>1
<1> QED
  BY <1>1, <1>2, <1>7, <1>51, <1>10, <1>12, <1>13, <1>14, <1>15, <1>16, <1>17, <1>18, <1>19, <1>20, <1>21, CallStep

\* A call that has its block.
LEMMA Reads ==
  ASSUME Running, NEW t \in Tokens, pc[t] \in Reading \/ Reclaimer(t)
  PROVE  /\ op[t].block \in OnList /\ op[t].block \in blocks /\ op[t].block \in Block
         /\ First(op[t].block) = Base(Begin(t)) /\ op[t].written = 0 /\ op[t].count = 0
         /\ Drawn(t) /\ Reader(t) /\ ~Posting(t) /\ ~Sender(t) /\ op[t].name \in {"pull", "try_pull"}
         /\ Begin(t) \in Nat /\ Skip <= Begin(t) /\ Begin(t) < Turn /\ Begin(t) <= Top
         /\ Active(t) <= From(t) /\ First(ListHead) <= Base(Begin(t)) /\ Active(t) <= Base(Begin(t))
         /\ Base(Begin(t)) \in Nat /\ Finish(t) = Begin(t) /\ Acquired(t) /\ Member(t)
         /\ op[t].name = "try_pull" => Done(Begin(t))
         /\ flags[op[t].block][IndexOf(op[t].idx)] \in Flag
         /\ CellOK(Begin(t), flags[op[t].block][IndexOf(op[t].idx)], stored[op[t].block][IndexOf(op[t].idx)])
         /\ IndexOf(op[t].idx) \in Index /\ First(op[t].block) + IndexOf(op[t].idx) = Begin(t)
<1> HIDE DEF Running
<1>1. Drawn(t) /\ Uses(t) /\ Control(t) /\ Pull(t) /\ Acquired(t) /\ Member(t)
  <2>1. Drawn(t) BY DEF Drawn
  <2> QED BY <2>1, Parts, Members
<1>2. op[t].name \in {"pull", "try_pull"}
  BY <1>1 DEF Control, Named, Reading, Reclaiming, Reclaimer, Scanning, Visiting, Announcing, Moves
<1>3. ~Posting(t) /\ ~Sender(t) /\ op[t].written = 0 /\ op[t].count = 0
  <2>1. ~Posting(t) /\ ~Sender(t) BY <1>2 DEF Posting, Sender
  <2>2. pc[t] \notin Writing \cup {"release"}
    BY DEF Reading, Reclaimer, Reclaiming, Scanning, Visiting, Announcing, Moves, Writing
  <2> QED BY <1>1, <2>1, <2>2 DEF Control
<1>4. Reader(t)
  <2>1. op[t].name = "try_pull" => pc[t] \in {"try_lock", "holding"} \/ Reclaimer(t)
    BY <1>1 DEF Control, Named, Reading
  <2> QED BY <1>1, <1>2, <2>1 DEF Reader
<1>5. /\ Begin(t) \in Nat /\ Skip <= Begin(t) /\ Begin(t) < Turn /\ Begin(t) <= Top /\ Finish(t) = Begin(t)
      /\ Base(Begin(t)) \in Nat
  BY <1>1, <1>3, <1>4, InUse DEF Pull
<1>6. op[t].block \in OnList /\ First(op[t].block) = Base(Begin(t)) BY <1>1, <1>3, <1>5 DEF Uses
<1>7. Active(t) <= From(t) /\ First(ListHead) <= Base(Begin(t)) /\ Active(t) <= Base(Begin(t))
  BY <1>1 DEF Uses
<1>8. op[t].name = "try_pull" => Done(Begin(t)) BY <1>1, <1>4 DEF Pull
<1>9. op[t].idx \in Word /\ Begin(t) = Pos(op[t].idx) BY Fixed DEF Begin
<1>10. /\ CellOK(Begin(t), flags[op[t].block][IndexOf(op[t].idx)], stored[op[t].block][IndexOf(op[t].idx)])
       /\ flags[op[t].block][IndexOf(op[t].idx)] \in Flag
       /\ IndexOf(op[t].idx) \in Index /\ First(op[t].block) + IndexOf(op[t].idx) = Begin(t)
       /\ op[t].block \in blocks /\ op[t].block \in Block
  BY <1>6, <1>9, CellAt
<1> QED BY <1>1, <1>2, <1>3, <1>4, <1>5, <1>6, <1>7, <1>8, <1>10

\* Readers keep what they know.
LEMMA PullReads ==
  ASSUME NEW t, Skip <= Begin(t)', Begin(t)' <= Turn', Begin(t)' < Turn',
         pc'[t] \notin {"load_block", "seek", "claim", "reread", "status"},
         op'[t].name = "try_pull" /\ pc'[t] = "try_lock" => Pos(op[t].end)' <= Sold',
         pc'[t] = "holding" \/ op'[t].name = "try_pull" => Done(Begin(t))'
  PROVE  Pull(t)'
BY DEF Pull

\* A poll looks at the element of its index.
LEMMA PollKeeps ==
  ASSUME Running, NEW t \in Tokens, Poll(t)
  PROVE  Running'
<1> HIDE DEF Running
<1>1. /\ pc[t] = "seek" /\ op[t].name \in {"try_pull"}
      /\ UNCHANGED <<queue, counters, reclaim, setup>> /\ UNCHANGED under
  <2>1. pc[t] = "seek" /\ UNCHANGED <<queue, counters, reclaim, setup>> /\ UNCHANGED under /\ op[t].name = "try_pull"
    BY DEF Poll, clients, counters, queue, list, elements, offsets, reclaim
  <2> QED
    BY <2>1, Parts DEF Control, Named, Calling, Acquiring, Polling, Closing, Reclaiming, Writing, Posting,
     Scanning, Visiting, Announcing, Moves, Sweeping
<1>2. /\ lock # t /\ op[t] \in CallType /\ haz[t] \in HazType /\ op[t].written <= op[t].count
      /\ op[t].seen <= reclaim_counter /\ op[t].written \in Nat /\ op[t].count \in Nat
      /\ op[t].walk \in Block \cup {Null} /\ op[t].block \in Block \cup {Null}
      /\ op[t].boff \in Word /\ op[t].idx \in Word /\ op[t].end \in Word
      /\ write_offset \in Word /\ read_offset \in Word
  <2>1. lock # t
    BY <1>1, Parts DEF Control, Named, Calling, Acquiring, Polling, Closing, Reclaiming, Writing, Posting,
     Scanning, Visiting, Announcing, Moves, Sweeping
  <2>2. write_offset \in Word /\ read_offset \in Word BY Types DEF Running
  <2> QED BY <2>1, <2>2, Parts, Fixed
<1>29. /\ op[t].walk \in OnList /\ op[t].walk \in blocks /\ op[t].walk \in Block
       /\ First(op[t].walk) = Base(Begin(t)) /\ Base(Begin(t)) \in Nat
       /\ First(ListHead) <= Base(Begin(t)) /\ Active(t) <= Base(Begin(t))
       /\ Search(t) <= First(op[t].walk) /\ Base(Begin(t)) <= Begin(t)
       /\ Begin(t) < Base(Begin(t)) + BlockSize
       /\ Drawn(t) /\ Acquired(t) /\ Member(t) /\ op[t].written = 0
  <2>1. Found(t) BY DEF Poll
  <2> QED BY <1>1, <2>1, Placed
<1>30. PICK x \in OnList : x = op[t].walk /\ x \in Block /\ x \in blocks BY <1>29
<1>3. PICK c \in CallType : c = [op[t] EXCEPT !.block = op[t].walk]
  BY <1>2, <1>29, Unmoved, Edited
<1>4. PICK h \in HazType : h = haz[t] BY <1>2, Unmoved, Edited
<1>50. PICK p \in {"claim", "reread"} : p = (IF FlagAt(op[t].walk, op[t].idx) = "data" THEN "claim" ELSE "reread")
  OBVIOUS
<1>51. pc' = [pc EXCEPT ![t] = p] /\ op' = [op EXCEPT ![t] = c] /\ haz' = [haz EXCEPT ![t] = h]
  BY <1>3, <1>4, <1>50, Unmoved DEF Poll, GoTo
<1>6. /\ c.name = op[t].name /\ c.idx = op[t].idx /\ c.count = op[t].count /\ c.written = op[t].written
      /\ c.seen = op[t].seen /\ c.end = op[t].end /\ c.walk = op[t].walk /\ c.boff = op[t].boff /\ c.past = op[t].past /\ c.block = op[t].walk
      /\ h = haz[t]
  BY <1>2, <1>3, <1>4 DEF CallType, HazType, Keeps
<1>7. pc'[t] = p /\ op'[t] = c /\ haz'[t] = h /\ Only({t}) /\ p \in Places \ (BeforeDraw \cup Closing)
  <2>1. p \in Places \ (BeforeDraw \cup Closing)
    BY DEF Places, BeforeDraw, Control, Named, Calling, Acquiring, Polling, Closing, Reclaiming, Writing, Posting,
     Scanning, Visiting, Announcing, Moves, Sweeping, Walking, Reading
  <2> QED BY <1>51, <2>1, Moved
<1>8. /\ Calm({t}) /\ Resting /\ (\A places : At(places)' = At(places)) /\ rec' = rec /\ lock' = lock
      /\ OnList' = OnList /\ blocks' = blocks /\ (\A b : First(b)' = First(b))
      /\ (\A m : Reaches(m)' = Reaches(m)) /\ ListHead' = ListHead /\ First(ListHead)' = First(ListHead)
      /\ Sold' = Sold /\ Turn' = Turn /\ Cut' = Cut /\ closed' = closed /\ offset' = offset
      /\ flags' = flags /\ stored' = stored /\ next' = next /\ CutDrawn' = CutDrawn
  <2>1. UNCHANGED <<queue, reclaim_counter, reclaim, setup>> /\ {t} \in SUBSET Tokens /\ lock \notin {t}
    BY <1>1, <1>2 DEF counters
  <2>2. haz_ptr_counter' \in Nat /\ haz_ptr_counter <= haz_ptr_counter'
    BY <1>1, Fixed DEF counters
  <2>3. /\ Calm({t}) /\ Resting /\ (\A places : At(places)' = At(places)) /\ rec' = rec /\ lock' = lock
        /\ OnList' = OnList /\ blocks' = blocks /\ (\A b : First(b)' = First(b))
        /\ (\A m : Reaches(m)' = Reaches(m)) /\ ListHead' = ListHead /\ offset' = offset
        /\ Sold' = Sold /\ Turn' = Turn /\ Cut' = Cut /\ closed' = closed
        /\ flags' = flags /\ stored' = stored /\ next' = next /\ CutDrawn' = CutDrawn
    BY <1>7, <2>1, <2>2, Frame
  <2> QED BY <2>3 DEF First
<1>9. /\ Begin(t)' = Begin(t) /\ Finish(t)' = Finish(t) /\ Active(t)' = Active(t) /\ LastPos(t)' = LastPos(t)
      /\ Posting(t)' = Posting(t) /\ Field(t)' = Field(t) /\ op'[t].count = op[t].count /\ op'[t].name = op[t].name
  BY <1>6, <1>7 DEF Begin, Finish, Active, LastPos, Posting, Field, Keeps
<1>31. From(t)' = From(t) /\ Search(t)' = Search(t)
  <2>1. PICK y : y = haz[t][Field(t)] OBVIOUS
  <2>2. haz'[t][Field(t)'] = y BY <1>6, <1>7, <1>9, <2>1
  <2>3. First(y)' = First(y) BY <1>8
  <2>4. Search(t)' = Search(t) BY <1>6, <1>7 DEF Search
  <2> QED BY <2>1, <2>2, <2>3, <2>4 DEF From
<1>10. Control(t)'
  BY <1>1, <1>2, <1>50, <1>6, <1>7, <1>8, <1>9, Parts, <1>29 DEF Control, Named, Calling, Acquiring, Polling, Closing, Reclaiming, Writing, Posting,
     Scanning, Visiting, Announcing, Moves, Sweeping, Walking, Reading
<1>12. Seen({t}) /\ ~Reader(t) /\ ~Reader(t)' /\ ~Sender(t) /\ ~Sender(t)' /\ ~Unaware(t)'
  BY <1>1, <1>7, <1>9, SeenPolls DEF Polling
<1>13. Post(t)' BY <1>12 DEF Post
<1>32. Skip <= Begin(t) /\ Begin(t) <= Turn /\ Begin(t) \in Nat /\ Pos(op[t].end) <= Sold
  BY <1>1, <1>29, Parts DEF Pull
<1>33. p = "claim" => Done(Begin(t))
  <2>1. PICK f : f = FlagAt(op[t].walk, op[t].idx) OBVIOUS
  <2>2. op[t].idx \in Word /\ Begin(t) = Pos(op[t].idx) BY Fixed DEF Begin
  <2>3. CellOK(Begin(t), f, stored[op[t].walk][IndexOf(op[t].idx)]) /\ f \in Flag
    BY <1>29, <2>1, <2>2, CellAt DEF FlagAt
  <2>4. p = "claim" => f = "data" /\ "data" \notin Tokens BY <1>50, <2>1, TokenAssumption
  <2> QED BY <1>32, <2>3, <2>4 DEF CellOK
<1>34. Done(Begin(t))' <=> Done(Begin(t))
  <2>1. \A m \in Nat : Done(m)' = Done(m) BY <1>7, <1>8, <1>12, ViewsKeep
  <2>2. PICK m : m = Begin(t) OBVIOUS
  <2>3. Done(Begin(t))' <=> Done(m)' BY <1>9, <2>2 DEF Done
  <2> QED BY <1>32, <2>1, <2>2, <2>3
<1>14. Pull(t)'
  <2>1. Skip <= Begin(t)' /\ Begin(t)' <= Turn' /\ op'[t].name = "try_pull"
    BY <1>1, <1>8, <1>9, <1>32
  <2>2. Pos(op[t].end)' <= Sold' BY <1>6, <1>7, <1>8, <1>32
  <2> QED BY <1>7, <1>12, <1>33, <1>34, <2>1, <2>2, PullPolls
<1>15. Sought(t)' BY <1>12 DEF Sought
<1>16. Parks(t)' BY <1>7 DEF Parks
<1>17. Has(t)'
  <2>1. Acquired(t)' => Acquired(t)
    BY <1>1, <1>7, <1>6, Parts DEF Acquired, Control, Named, Calling, Acquiring, Polling, Closing, Reclaiming, Writing, Posting,
     Scanning, Visiting, Announcing, Moves, Sweeping
  <2> QED BY <1>6, <1>7, <1>8, <2>1, HasStays DEF Keeps
<1>18. Uses(t)'
  <2>1. Active(t) <= From(t) /\ From(t) <= Base(Begin(t))
    BY <1>1, <1>29, Parts DEF Uses, Seeking, Walking
  <2>2. /\ Active(t)' <= From(t)' /\ First(ListHead)' <= Base(Begin(t)') /\ Active(t)' <= Base(Begin(t)')
        /\ From(t)' <= Base(Begin(t)')
    BY <1>8, <1>9, <1>29, <1>31, <2>1
  <2>3. op'[t].block = x /\ op'[t].written = 0 /\ First(x)' = First(x)
    BY <1>6, <1>7, <1>8, <1>29, <1>30
  <2>4. First(op[t].block)' = First(x) BY <2>3 DEF First
  <2>5. op'[t].block \in OnList' /\ First(op[t].block)' = Base(Begin(t)' + op'[t].written)
    BY <1>8, <1>9, <1>29, <1>30, <1>32, <2>3, <2>4
  <2>6. Search(t)' <= First(op[t].block)' BY <1>29, <1>30, <1>31, <2>4
  <2> QED BY <1>7, <2>2, <2>5, <2>6, UsesPlaced, UsesBetween
<1>19. Met(t)'
  <2>1. Member(t)' /\ NobodyCame' => Member(t) /\ \A f \in Fields :
             \/ haz'[t][f] = haz[t][f]
             \/ Drawn(t) /\ haz'[t][f] \in blocks /\ Base(Begin(t)) <= First(haz'[t][f])
    BY <1>6, <1>7, <1>29, Members
  <2>2. Drawn(t)' => Drawn(t) /\ Begin(t)' \in Nat /\ Begin(t) <= Begin(t)'
    BY <1>9, <1>29, <1>32
  <2>3. pc'[t] \notin Walking BY <1>7 DEF Walking
  <2>4. At({"swap", "revalidate"}) /\ t = rec.at => Near(haz[t].active_offset)'
    BY <1>6, <1>7, Parts DEF Met, Near
  <2> QED BY <1>2, <1>8, <2>1, <2>2, <2>3, <2>4, MetStays
<1>20. told' \in [Tokens -> BOOLEAN] /\ \A u \in Tokens : told'[u] => told[u] \/ (closed = "closed" /\ Cut <= Turn)
  <2>1. told' = told /\ told \in [Tokens -> BOOLEAN] BY DEF Poll, clients, Running, TypeOK
  <2> QED BY <2>1
<1>21. /\ under' \in [Tokens -> Tokens \cup {Nobody}] /\ c.written <= c.count /\ c.seen <= reclaim_counter
  <2>1. under \in [Tokens -> Tokens \cup {Nobody}] BY DEF Running, TypeOK
  <2> QED BY <1>1, <1>2, <1>6, <2>1
<1> QED
  BY <1>1, <1>2, <1>7, <1>51, <1>10, <1>12, <1>13, <1>14, <1>15, <1>16, <1>17, <1>18, <1>19, <1>20, <1>21, CallStep

\* Somebody else reclaims or closes.
LEMMA TryLockFailsKeeps ==
  ASSUME Running, NEW t \in Tokens, TryLock(t), lock # Nobody
  PROVE  Running'
<1> HIDE DEF Running
<1>1. /\ pc[t] = "try_lock" /\ op[t].name \in {"pull", "try_pull"}
      /\ UNCHANGED <<queue, counters, reclaim, setup>> /\ UNCHANGED under
  <2>1. pc[t] = "try_lock" /\ UNCHANGED <<queue, counters, reclaim, setup>> /\ UNCHANGED under
    BY DEF TryLock, clients, counters, queue, list, elements, offsets, reclaim
  <2> QED
    BY <2>1, Parts DEF Control, Named, Calling, Acquiring, Polling, Closing, Reclaiming, Writing, Posting,
     Scanning, Visiting, Announcing, Moves, Sweeping
<1>2. /\ lock # t /\ op[t] \in CallType /\ haz[t] \in HazType /\ op[t].written <= op[t].count
      /\ op[t].seen <= reclaim_counter /\ op[t].written \in Nat /\ op[t].count \in Nat
      /\ op[t].walk \in Block \cup {Null} /\ op[t].block \in Block \cup {Null}
      /\ op[t].boff \in Word /\ op[t].idx \in Word /\ op[t].end \in Word
      /\ write_offset \in Word /\ read_offset \in Word
  <2>1. lock # t
    BY <1>1, Parts DEF Control, Named, Calling, Acquiring, Polling, Closing, Reclaiming, Writing, Posting,
     Scanning, Visiting, Announcing, Moves, Sweeping
  <2>2. write_offset \in Word /\ read_offset \in Word BY Types DEF Running
  <2> QED BY <2>1, <2>2, Parts, Fixed
<1>29. /\ op[t].block \in OnList /\ op[t].block \in blocks /\ op[t].block \in Block
       /\ First(op[t].block) = Base(Begin(t)) /\ op[t].written = 0 /\ op[t].count = 0
       /\ Drawn(t) /\ Reader(t) /\ ~Posting(t) /\ ~Sender(t)
       /\ Begin(t) \in Nat /\ Skip <= Begin(t) /\ Begin(t) < Turn /\ Begin(t) <= Top
       /\ Active(t) <= From(t) /\ First(ListHead) <= Base(Begin(t)) /\ Active(t) <= Base(Begin(t))
       /\ Base(Begin(t)) \in Nat /\ Finish(t) = Begin(t) /\ Acquired(t) /\ Member(t)
       /\ op[t].name = "try_pull" => Done(Begin(t))
       /\ flags[op[t].block][IndexOf(op[t].idx)] \in Flag
       /\ CellOK(Begin(t), flags[op[t].block][IndexOf(op[t].idx)], stored[op[t].block][IndexOf(op[t].idx)])
  BY <1>1, Reads DEF Reading
<1>3. PICK c \in CallType : c = op[t] BY <1>2, <1>29, Unmoved, Edited
<1>4. PICK h \in HazType : h = haz[t] BY <1>2, Unmoved, Edited
<1>50. PICK p \in {"wait", "holding"} : p = AfterTicket(t) BY DEF AfterTicket
<1>51. pc' = [pc EXCEPT ![t] = p] /\ op' = [op EXCEPT ![t] = c] /\ haz' = [haz EXCEPT ![t] = h]
  BY <1>3, <1>4, <1>50, Unmoved DEF TryLock, GoTo
<1>6. /\ c.name = op[t].name /\ c.idx = op[t].idx /\ c.count = op[t].count /\ c.written = op[t].written
      /\ c.seen = op[t].seen /\ c.end = op[t].end /\ c.walk = op[t].walk /\ c.boff = op[t].boff /\ c.past = op[t].past /\ c.block = op[t].block
      /\ h = haz[t]
  BY <1>2, <1>3, <1>4 DEF CallType, HazType, Keeps
<1>7. pc'[t] = p /\ op'[t] = c /\ haz'[t] = h /\ Only({t}) /\ p \in Places \ (BeforeDraw \cup Closing)
  <2>1. p \in Places \ (BeforeDraw \cup Closing)
    BY DEF Places, BeforeDraw, Control, Named, Calling, Acquiring, Polling, Closing, Reclaiming, Writing, Posting,
     Scanning, Visiting, Announcing, Moves, Sweeping, Walking, Reading
  <2> QED BY <1>51, <2>1, Moved
<1>8. /\ Calm({t}) /\ Resting /\ (\A places : At(places)' = At(places)) /\ rec' = rec /\ lock' = lock
      /\ OnList' = OnList /\ blocks' = blocks /\ (\A b : First(b)' = First(b))
      /\ (\A m : Reaches(m)' = Reaches(m)) /\ ListHead' = ListHead /\ First(ListHead)' = First(ListHead)
      /\ Sold' = Sold /\ Turn' = Turn /\ Cut' = Cut /\ closed' = closed /\ offset' = offset
      /\ flags' = flags /\ stored' = stored /\ next' = next /\ CutDrawn' = CutDrawn
  <2>1. UNCHANGED <<queue, reclaim_counter, reclaim, setup>> /\ {t} \in SUBSET Tokens /\ lock \notin {t}
    BY <1>1, <1>2 DEF counters
  <2>2. haz_ptr_counter' \in Nat /\ haz_ptr_counter <= haz_ptr_counter'
    BY <1>1, Fixed DEF counters
  <2>3. /\ Calm({t}) /\ Resting /\ (\A places : At(places)' = At(places)) /\ rec' = rec /\ lock' = lock
        /\ OnList' = OnList /\ blocks' = blocks /\ (\A b : First(b)' = First(b))
        /\ (\A m : Reaches(m)' = Reaches(m)) /\ ListHead' = ListHead /\ offset' = offset
        /\ Sold' = Sold /\ Turn' = Turn /\ Cut' = Cut /\ closed' = closed
        /\ flags' = flags /\ stored' = stored /\ next' = next /\ CutDrawn' = CutDrawn
    BY <1>7, <2>1, <2>2, Frame
  <2> QED BY <2>3 DEF First
<1>9. /\ Begin(t)' = Begin(t) /\ Finish(t)' = Finish(t) /\ Active(t)' = Active(t) /\ LastPos(t)' = LastPos(t)
      /\ Posting(t)' = Posting(t) /\ Field(t)' = Field(t) /\ op'[t].count = op[t].count /\ op'[t].name = op[t].name
  BY <1>6, <1>7 DEF Begin, Finish, Active, LastPos, Posting, Field, Keeps
<1>31. From(t)' = From(t) /\ Search(t)' = Search(t)
  <2>1. PICK y : y = haz[t][Field(t)] OBVIOUS
  <2>2. haz'[t][Field(t)'] = y BY <1>6, <1>7, <1>9, <2>1
  <2>3. First(y)' = First(y) BY <1>8
  <2>4. Search(t)' = Search(t) BY <1>6, <1>7 DEF Search
  <2> QED BY <2>1, <2>2, <2>3, <2>4 DEF From
<1>11. /\ ~Sender(t) /\ ~Sender(t)' /\ Reader(t) /\ Reader(t)' /\ Drawn(t)' /\ (Unaware(t)' => Unaware(t))
  BY <1>1, <1>50, <1>6, <1>7, <1>9, <1>29 DEF AfterTicket, Sender, Reader, Drawn, Unaware, Reclaimer, Ahead, Walking, Polling, Writing, Reading, Reclaiming,
     Scanning, Visiting, Announcing, Moves, Posting, Calling
<1>10. Control(t)'
  BY <1>1, <1>2, <1>50, <1>6, <1>7, <1>8, <1>9, Parts, <1>29 DEF AfterTicket, Control, Named, Calling, Acquiring, Polling, Closing, Reclaiming, Writing, Posting,
     Scanning, Visiting, Announcing, Moves, Sweeping, Walking, Reading
<1>12. Seen({t}) BY <1>1, <1>6, <1>7, <1>9, <1>11, SeenSame
<1>34. Done(Begin(t))' <=> Done(Begin(t))
  <2>1. \A m \in Nat : Done(m)' = Done(m) BY <1>7, <1>8, <1>12, ViewsKeep
  <2>2. PICK m : m = Begin(t) OBVIOUS
  <2>3. Done(Begin(t))' <=> Done(m)' BY <1>9, <2>2 DEF Done
  <2> QED BY <1>29, <2>1, <2>2, <2>3
<1>35. (pc'[t] = "holding" => Done(Begin(t))) /\ (op[t].name = "try_pull" => Done(Begin(t)))
  BY <1>1, <1>7, <1>29, <1>50 DEF AfterTicket
<1>13. Post(t)' BY <1>11 DEF Post
<1>14. Pull(t)'
  <2>1. pc'[t] \notin {"load_block", "seek", "claim", "reread", "status", "try_lock"} BY <1>7
  <2>2. Skip <= Begin(t)' /\ Begin(t)' <= Turn' /\ Begin(t)' < Turn' BY <1>8, <1>9, <1>29, Parts
  <2>3. pc'[t] = "holding" \/ op'[t].name = "try_pull" => Done(Begin(t))' BY <1>9, <1>34, <1>35
  <2> QED BY <2>1, <2>2, <2>3, PullReads
<1>15. Sought(t)' BY <1>7, <1>8, <1>9, <1>11, SoughtStays
<1>16. Parks(t)' BY <1>7 DEF Parks
<1>17. Has(t)'
  <2>1. Acquired(t)' => Acquired(t)
    BY <1>1, <1>7, <1>6, Parts DEF Acquired, Control, Named, Calling, Acquiring, Polling, Closing, Reclaiming, Writing, Posting,
     Scanning, Visiting, Announcing, Moves, Sweeping
  <2> QED BY <1>6, <1>7, <1>8, <2>1, HasStays DEF Keeps
<1>18. Uses(t)'
  <2>1. Active(t)' <= From(t)' /\ First(ListHead)' <= Base(Begin(t)') /\ Active(t)' <= Base(Begin(t)')
    BY <1>8, <1>9, <1>29, <1>31
  <2>2. PICK y : y = op[t].block OBVIOUS
  <2>3. op'[t].block = y /\ op'[t].written = 0 /\ First(y)' = First(y)
    BY <1>6, <1>7, <1>8, <1>29, <2>2
  <2>4. op'[t].block \in OnList' /\ First(op[t].block)' = Base(Begin(t)' + op'[t].written)
    <3>1. First(op[t].block)' = First(y)' BY <2>3
    <3> QED BY <1>8, <1>9, <1>29, <2>2, <2>3, <3>1
  <2> QED BY <1>7, <2>1, <2>4, UsesPlaced DEF Reading
<1>19. Met(t)'
  <2>1. Member(t)' /\ NobodyCame' => Member(t) /\ \A f \in Fields :
             \/ haz'[t][f] = haz[t][f]
             \/ Drawn(t) /\ haz'[t][f] \in blocks /\ Base(Begin(t)) <= First(haz'[t][f])
    BY <1>6, <1>7, <1>29, Members
  <2>2. Drawn(t)' => Drawn(t) /\ Begin(t)' \in Nat /\ Begin(t) <= Begin(t)' BY <1>9, <1>29
  <2>3. pc'[t] \notin Walking BY <1>7 DEF Walking
  <2>4. At({"swap", "revalidate"}) /\ t = rec.at => Near(haz[t].active_offset)'
    BY <1>6, <1>7, Parts DEF Met, Near
  <2> QED BY <1>2, <1>8, <2>1, <2>2, <2>3, <2>4, MetStays
<1>20. told' \in [Tokens -> BOOLEAN] /\ \A u \in Tokens : told'[u] => told[u] \/ (closed = "closed" /\ Cut <= Turn)
  <2>1. told' = told /\ told \in [Tokens -> BOOLEAN] BY DEF TryLock, clients, Running, TypeOK
  <2> QED BY <2>1
<1>21. /\ under' \in [Tokens -> Tokens \cup {Nobody}] /\ c.written <= c.count /\ c.seen <= reclaim_counter
  <2>1. under \in [Tokens -> Tokens \cup {Nobody}] BY DEF Running, TypeOK
  <2> QED BY <1>1, <1>2, <1>6, <2>1
<1> QED
  BY <1>1, <1>2, <1>7, <1>51, <1>10, <1>12, <1>13, <1>14, <1>15, <1>16, <1>17, <1>18, <1>19, <1>20, <1>21, CallStep

\* A pull finds its value there.
LEMMA WaitFindsKeeps ==
  ASSUME Running, NEW t \in Tokens, Wait(t),
         flags[op[t].block][IndexOf(op[t].idx)] # "empty"
  PROVE  Running'
<1> HIDE DEF Running
<1>1. /\ pc[t] = "wait" /\ op[t].name \in {"pull"}
      /\ UNCHANGED <<queue, counters, reclaim, setup>> /\ UNCHANGED under
  <2>1. pc[t] = "wait" /\ UNCHANGED <<queue, counters, reclaim, setup>> /\ UNCHANGED under
    BY DEF Wait, clients, counters, queue, list, elements, offsets, reclaim
  <2> QED
    BY <2>1, Parts DEF Control, Named, Calling, Acquiring, Polling, Closing, Reclaiming, Writing, Posting,
     Scanning, Visiting, Announcing, Moves, Sweeping
<1>2. /\ lock # t /\ op[t] \in CallType /\ haz[t] \in HazType /\ op[t].written <= op[t].count
      /\ op[t].seen <= reclaim_counter /\ op[t].written \in Nat /\ op[t].count \in Nat
      /\ op[t].walk \in Block \cup {Null} /\ op[t].block \in Block \cup {Null}
      /\ op[t].boff \in Word /\ op[t].idx \in Word /\ op[t].end \in Word
      /\ write_offset \in Word /\ read_offset \in Word
  <2>1. lock # t
    BY <1>1, Parts DEF Control, Named, Calling, Acquiring, Polling, Closing, Reclaiming, Writing, Posting,
     Scanning, Visiting, Announcing, Moves, Sweeping
  <2>2. write_offset \in Word /\ read_offset \in Word BY Types DEF Running
  <2> QED BY <2>1, <2>2, Parts, Fixed
<1>29. /\ op[t].block \in OnList /\ op[t].block \in blocks /\ op[t].block \in Block
       /\ First(op[t].block) = Base(Begin(t)) /\ op[t].written = 0 /\ op[t].count = 0
       /\ Drawn(t) /\ Reader(t) /\ ~Posting(t) /\ ~Sender(t)
       /\ Begin(t) \in Nat /\ Skip <= Begin(t) /\ Begin(t) < Turn /\ Begin(t) <= Top
       /\ Active(t) <= From(t) /\ First(ListHead) <= Base(Begin(t)) /\ Active(t) <= Base(Begin(t))
       /\ Base(Begin(t)) \in Nat /\ Finish(t) = Begin(t) /\ Acquired(t) /\ Member(t)
       /\ op[t].name = "try_pull" => Done(Begin(t))
       /\ flags[op[t].block][IndexOf(op[t].idx)] \in Flag
       /\ CellOK(Begin(t), flags[op[t].block][IndexOf(op[t].idx)], stored[op[t].block][IndexOf(op[t].idx)])
  BY <1>1, Reads DEF Reading
<1>3. PICK c \in CallType : c = op[t] BY <1>2, <1>29, Unmoved, Edited
<1>4. PICK h \in HazType : h = haz[t] BY <1>2, Unmoved, Edited
<1>50. PICK p \in {"holding"} : p = "holding" OBVIOUS
<1>51. pc' = [pc EXCEPT ![t] = p] /\ op' = [op EXCEPT ![t] = c] /\ haz' = [haz EXCEPT ![t] = h]
  BY <1>3, <1>4, <1>50, Unmoved DEF Wait, GoTo
<1>6. /\ c.name = op[t].name /\ c.idx = op[t].idx /\ c.count = op[t].count /\ c.written = op[t].written
      /\ c.seen = op[t].seen /\ c.end = op[t].end /\ c.walk = op[t].walk /\ c.boff = op[t].boff /\ c.past = op[t].past /\ c.block = op[t].block
      /\ h = haz[t]
  BY <1>2, <1>3, <1>4 DEF CallType, HazType, Keeps
<1>7. pc'[t] = p /\ op'[t] = c /\ haz'[t] = h /\ Only({t}) /\ p \in Places \ (BeforeDraw \cup Closing)
  <2>1. p \in Places \ (BeforeDraw \cup Closing)
    BY DEF Places, BeforeDraw, Control, Named, Calling, Acquiring, Polling, Closing, Reclaiming, Writing, Posting,
     Scanning, Visiting, Announcing, Moves, Sweeping, Walking, Reading
  <2> QED BY <1>51, <2>1, Moved
<1>8. /\ Calm({t}) /\ Resting /\ (\A places : At(places)' = At(places)) /\ rec' = rec /\ lock' = lock
      /\ OnList' = OnList /\ blocks' = blocks /\ (\A b : First(b)' = First(b))
      /\ (\A m : Reaches(m)' = Reaches(m)) /\ ListHead' = ListHead /\ First(ListHead)' = First(ListHead)
      /\ Sold' = Sold /\ Turn' = Turn /\ Cut' = Cut /\ closed' = closed /\ offset' = offset
      /\ flags' = flags /\ stored' = stored /\ next' = next /\ CutDrawn' = CutDrawn
  <2>1. UNCHANGED <<queue, reclaim_counter, reclaim, setup>> /\ {t} \in SUBSET Tokens /\ lock \notin {t}
    BY <1>1, <1>2 DEF counters
  <2>2. haz_ptr_counter' \in Nat /\ haz_ptr_counter <= haz_ptr_counter'
    BY <1>1, Fixed DEF counters
  <2>3. /\ Calm({t}) /\ Resting /\ (\A places : At(places)' = At(places)) /\ rec' = rec /\ lock' = lock
        /\ OnList' = OnList /\ blocks' = blocks /\ (\A b : First(b)' = First(b))
        /\ (\A m : Reaches(m)' = Reaches(m)) /\ ListHead' = ListHead /\ offset' = offset
        /\ Sold' = Sold /\ Turn' = Turn /\ Cut' = Cut /\ closed' = closed
        /\ flags' = flags /\ stored' = stored /\ next' = next /\ CutDrawn' = CutDrawn
    BY <1>7, <2>1, <2>2, Frame
  <2> QED BY <2>3 DEF First
<1>9. /\ Begin(t)' = Begin(t) /\ Finish(t)' = Finish(t) /\ Active(t)' = Active(t) /\ LastPos(t)' = LastPos(t)
      /\ Posting(t)' = Posting(t) /\ Field(t)' = Field(t) /\ op'[t].count = op[t].count /\ op'[t].name = op[t].name
  BY <1>6, <1>7 DEF Begin, Finish, Active, LastPos, Posting, Field, Keeps
<1>31. From(t)' = From(t) /\ Search(t)' = Search(t)
  <2>1. PICK y : y = haz[t][Field(t)] OBVIOUS
  <2>2. haz'[t][Field(t)'] = y BY <1>6, <1>7, <1>9, <2>1
  <2>3. First(y)' = First(y) BY <1>8
  <2>4. Search(t)' = Search(t) BY <1>6, <1>7 DEF Search
  <2> QED BY <2>1, <2>2, <2>3, <2>4 DEF From
<1>11. /\ ~Sender(t) /\ ~Sender(t)' /\ Reader(t) /\ Reader(t)' /\ Drawn(t)' /\ (Unaware(t)' => Unaware(t))
  BY <1>1, <1>50, <1>6, <1>7, <1>9, <1>29 DEF Sender, Reader, Drawn, Unaware, Reclaimer, Ahead, Walking, Polling, Writing, Reading, Reclaiming,
     Scanning, Visiting, Announcing, Moves, Posting, Calling
<1>10. Control(t)'
  BY <1>1, <1>2, <1>50, <1>6, <1>7, <1>8, <1>9, Parts, <1>29 DEF Control, Named, Calling, Acquiring, Polling, Closing, Reclaiming, Writing, Posting,
     Scanning, Visiting, Announcing, Moves, Sweeping, Walking, Reading
<1>12. Seen({t}) BY <1>1, <1>6, <1>7, <1>9, <1>11, SeenSame
<1>34. Done(Begin(t))' <=> Done(Begin(t))
  <2>1. \A m \in Nat : Done(m)' = Done(m) BY <1>7, <1>8, <1>12, ViewsKeep
  <2>2. PICK m : m = Begin(t) OBVIOUS
  <2>3. Done(Begin(t))' <=> Done(m)' BY <1>9, <2>2 DEF Done
  <2> QED BY <1>29, <2>1, <2>2, <2>3
<1>35. Done(Begin(t)) BY <1>1, <1>29, ReaderFinds
<1>13. Post(t)' BY <1>11 DEF Post
<1>14. Pull(t)'
  <2>1. pc'[t] \notin {"load_block", "seek", "claim", "reread", "status", "try_lock"} BY <1>7
  <2>2. Skip <= Begin(t)' /\ Begin(t)' <= Turn' /\ Begin(t)' < Turn' BY <1>8, <1>9, <1>29, Parts
  <2>3. pc'[t] = "holding" \/ op'[t].name = "try_pull" => Done(Begin(t))' BY <1>9, <1>34, <1>35
  <2> QED BY <2>1, <2>2, <2>3, PullReads
<1>15. Sought(t)' BY <1>7, <1>8, <1>9, <1>11, SoughtStays
<1>16. Parks(t)' BY <1>7 DEF Parks
<1>17. Has(t)'
  <2>1. Acquired(t)' => Acquired(t)
    BY <1>1, <1>7, <1>6, Parts DEF Acquired, Control, Named, Calling, Acquiring, Polling, Closing, Reclaiming, Writing, Posting,
     Scanning, Visiting, Announcing, Moves, Sweeping
  <2> QED BY <1>6, <1>7, <1>8, <2>1, HasStays DEF Keeps
<1>18. Uses(t)'
  <2>1. Active(t)' <= From(t)' /\ First(ListHead)' <= Base(Begin(t)') /\ Active(t)' <= Base(Begin(t)')
    BY <1>8, <1>9, <1>29, <1>31
  <2>2. PICK y : y = op[t].block OBVIOUS
  <2>3. op'[t].block = y /\ op'[t].written = 0 /\ First(y)' = First(y)
    BY <1>6, <1>7, <1>8, <1>29, <2>2
  <2>4. op'[t].block \in OnList' /\ First(op[t].block)' = Base(Begin(t)' + op'[t].written)
    <3>1. First(op[t].block)' = First(y)' BY <2>3
    <3> QED BY <1>8, <1>9, <1>29, <2>2, <2>3, <3>1
  <2> QED BY <1>7, <2>1, <2>4, UsesPlaced DEF Reading
<1>19. Met(t)'
  <2>1. Member(t)' /\ NobodyCame' => Member(t) /\ \A f \in Fields :
             \/ haz'[t][f] = haz[t][f]
             \/ Drawn(t) /\ haz'[t][f] \in blocks /\ Base(Begin(t)) <= First(haz'[t][f])
    BY <1>6, <1>7, <1>29, Members
  <2>2. Drawn(t)' => Drawn(t) /\ Begin(t)' \in Nat /\ Begin(t) <= Begin(t)' BY <1>9, <1>29
  <2>3. pc'[t] \notin Walking BY <1>7 DEF Walking
  <2>4. At({"swap", "revalidate"}) /\ t = rec.at => Near(haz[t].active_offset)'
    BY <1>6, <1>7, Parts DEF Met, Near
  <2> QED BY <1>2, <1>8, <2>1, <2>2, <2>3, <2>4, MetStays
<1>20. told' \in [Tokens -> BOOLEAN] /\ \A u \in Tokens : told'[u] => told[u] \/ (closed = "closed" /\ Cut <= Turn)
  <2>1. told' = told /\ told \in [Tokens -> BOOLEAN] BY DEF Wait, clients, Running, TypeOK
  <2> QED BY <2>1
<1>21. /\ under' \in [Tokens -> Tokens \cup {Nobody}] /\ c.written <= c.count /\ c.seen <= reclaim_counter
  <2>1. under \in [Tokens -> Tokens \cup {Nobody}] BY DEF Running, TypeOK
  <2> QED BY <1>1, <1>2, <1>6, <2>1
<1> QED
  BY <1>1, <1>2, <1>7, <1>51, <1>10, <1>12, <1>13, <1>14, <1>15, <1>16, <1>17, <1>18, <1>19, <1>20, <1>21, CallStep

\* Calls that have not drawn yet
\* The tickets of one call.
LEMMA PairsOf ==
  ASSUME NEW t, NEW n \in Nat
  PROVE  IsFiniteSet({t} \X (1 .. n)) /\ Cardinality({t} \X (1 .. n)) = n
<1> DEFINE S == {t}
           T == 1 .. n
<1>1. IsFiniteSet(S) /\ Cardinality(S) = 1 BY FS_Singleton
<1>2. IsFiniteSet(T) /\ Cardinality(T) = n BY FS_Interval
<1> HIDE DEF S, T
<1>3. IsFiniteSet(S \X T) /\ Cardinality(S \X T) = Cardinality(S) * Cardinality(T)
  BY <1>1, <1>2, FS_Product
<1>4. Cardinality(S \X T) = n BY <1>1, <1>2, <1>3
<1> QED BY <1>3, <1>4 DEF S, T

\* No more is asked than one call more asks.
LEMMA PairsGrow ==
  ASSUME NEW t \in Tokens, Only({t}), op'[t].count \in Nat
  PROVE  /\ Cardinality(TicketPairs') \in Nat /\ Cardinality(Pullers') \in Nat
         /\ Cardinality(TicketPairs') <=
               Cardinality(TicketPairs) + (IF op'[t].name \in {"post", "post_bulk"} THEN op'[t].count ELSE 0)
         /\ Cardinality(Pullers') <=
               Cardinality(Pullers) + (IF op'[t].name \in {"pull", "try_pull"} THEN 1 ELSE 0)
<1> DEFINE n == IF op'[t].name \in {"post", "post_bulk"} THEN op'[t].count ELSE 0
           P == {t} \X (1 .. n)
           Q == IF op'[t].name \in {"pull", "try_pull"} THEN {t} ELSE {}
<1>1. n \in Nat /\ IsFiniteSet(P) /\ Cardinality(P) = n BY PairsOf
<1>2. IsFiniteSet(Q) /\ Cardinality(Q) = (IF op'[t].name \in {"pull", "try_pull"} THEN 1 ELSE 0)
  BY FS_Singleton, FS_EmptySet
<1>3. /\ IsFiniteSet(TicketPairs) /\ Cardinality(TicketPairs) \in Nat
      /\ IsFiniteSet(Pullers) /\ Cardinality(Pullers) \in Nat
  BY PairsAreFew
<1>4. TicketPairs' \subseteq TicketPairs \cup P
  <2> SUFFICES ASSUME NEW e \in TicketPairs'
               PROVE  e \in TicketPairs \cup P
    OBVIOUS
  <2>1. PICK u \in Tokens, k \in 1 .. MaxTicket :
           e = <<u, k>> /\ pc'[u] \in BeforeDraw /\ op'[u].name \in {"post", "post_bulk"} /\ k <= op'[u].count
    BY DEF TicketPairs, Asked
  <2>2. CASE u = t
    <3>1. k \in 1 .. n BY <2>1, <2>2, Sizes
    <3> QED BY <2>1, <2>2, <3>1
  <2>3. CASE u # t BY <2>1, <2>3 DEF Only, TicketPairs, Asked
  <2> QED BY <2>2, <2>3
<1>5. Pullers' \subseteq Pullers \cup Q BY DEF Pullers, Asked, Only
<1> HIDE DEF n, P, Q
<1>6. /\ IsFiniteSet(TicketPairs \cup P)
      /\ Cardinality(TicketPairs \cup P) = Cardinality(TicketPairs) + Cardinality(P) - Cardinality(TicketPairs \cap P)
      /\ IsFiniteSet(Pullers \cup Q)
      /\ Cardinality(Pullers \cup Q) = Cardinality(Pullers) + Cardinality(Q) - Cardinality(Pullers \cap Q)
  BY <1>1, <1>2, <1>3, FS_Union
<1>7. Cardinality(TicketPairs \cap P) \in Nat /\ Cardinality(Pullers \cap Q) \in Nat
  <2>1. IsFiniteSet(TicketPairs \cap P) /\ IsFiniteSet(Pullers \cap Q) BY <1>3, FS_Subset
  <2> QED BY <2>1, FS_CardinalityType
<1>8. /\ IsFiniteSet(TicketPairs') /\ Cardinality(TicketPairs') <= Cardinality(TicketPairs \cup P)
      /\ IsFiniteSet(Pullers') /\ Cardinality(Pullers') <= Cardinality(Pullers \cup Q)
  BY <1>4, <1>5, <1>6, FS_Subset
<1>9. Cardinality(TicketPairs') \in Nat /\ Cardinality(Pullers') \in Nat
  BY <1>8, FS_CardinalityType
<1>10. /\ Cardinality(TicketPairs') <= Cardinality(TicketPairs) + n
       /\ Cardinality(Pullers') <= Cardinality(Pullers) + Cardinality(Q)
  BY <1>1, <1>2, <1>3, <1>6, <1>7, <1>8, <1>9
<1> QED BY <1>2, <1>9, <1>10 DEF n

\* What a call draws is not asked any more.
LEMMA PairsShrink ==
  ASSUME NEW t \in Tokens, Only({t}), pc[t] \in BeforeDraw, pc'[t] \notin BeforeDraw, op[t].count \in 0 .. MaxTicket
  PROVE  /\ Cardinality(TicketPairs') \in Nat /\ Cardinality(Pullers') \in Nat
         /\ Cardinality(TicketPairs') + (IF Posting(t) THEN op[t].count ELSE 0) <= Cardinality(TicketPairs)
         /\ Cardinality(Pullers') + (IF op[t].name \in {"pull", "try_pull"} THEN 1 ELSE 0) <= Cardinality(Pullers)
<1> DEFINE n == IF Posting(t) THEN op[t].count ELSE 0
           P == {t} \X (1 .. n)
           Q == IF op[t].name \in {"pull", "try_pull"} THEN {t} ELSE {}
<1>1. n \in Nat /\ n <= MaxTicket /\ IsFiniteSet(P) /\ Cardinality(P) = n
  <2>1. n \in Nat /\ n <= MaxTicket BY Sizes
  <2> HIDE DEF n
  <2> QED BY <2>1, PairsOf
<1>2. IsFiniteSet(Q) /\ Cardinality(Q) = (IF op[t].name \in {"pull", "try_pull"} THEN 1 ELSE 0)
  BY FS_Singleton, FS_EmptySet
<1>3. /\ IsFiniteSet(TicketPairs) /\ Cardinality(TicketPairs) \in Nat
      /\ IsFiniteSet(Pullers) /\ Cardinality(Pullers) \in Nat
  BY PairsAreFew
<1>4. TicketPairs' \cup P \subseteq TicketPairs
  <2>1. ASSUME NEW e \in TicketPairs'
        PROVE  e \in TicketPairs
    <3>1. PICK u \in Tokens, k \in 1 .. MaxTicket :
             e = <<u, k>> /\ pc'[u] \in BeforeDraw /\ op'[u].name \in {"post", "post_bulk"} /\ k <= op'[u].count
      BY <2>1 DEF TicketPairs, Asked
    <3>2. u # t BY <3>1
    <3> QED BY <3>1, <3>2 DEF Only, TicketPairs, Asked
  <2>2. ASSUME NEW e \in P
        PROVE  e \in TicketPairs
    <3>1. PICK k \in 1 .. n : e = <<t, k>> BY <2>2
    <3>2. n > 0 /\ Posting(t) /\ k <= op[t].count /\ k \in 1 .. MaxTicket BY <1>1, <3>1, Sizes
    <3> QED BY <3>1, <3>2 DEF TicketPairs, Asked, Posting
  <2> QED BY <2>1, <2>2
<1>5. Pullers' \cup Q \subseteq Pullers BY DEF Pullers, Asked, Only
<1>6. TicketPairs' \cap P = {} /\ Pullers' \cap Q = {}
  <2>1. \A e \in P : e[1] = t OBVIOUS
  <2>2. \A e \in TicketPairs' : e[1] # t BY DEF TicketPairs, Asked
  <2>3. t \notin Pullers' BY DEF Pullers, Asked
  <2> QED BY <2>1, <2>2, <2>3
<1> HIDE DEF n, P, Q
<1>7. IsFiniteSet(TicketPairs') /\ IsFiniteSet(Pullers')
  <2>1. TicketPairs' \subseteq TicketPairs /\ Pullers' \subseteq Pullers BY <1>4, <1>5
  <2> QED BY <1>3, <2>1, FS_Subset
<1>8. /\ Cardinality(TicketPairs' \cup P) = Cardinality(TicketPairs') + Cardinality(P) - Cardinality(TicketPairs' \cap P)
      /\ Cardinality(Pullers' \cup Q) = Cardinality(Pullers') + Cardinality(Q) - Cardinality(Pullers' \cap Q)
  BY <1>1, <1>2, <1>7, FS_Union
<1>9. /\ Cardinality(TicketPairs' \cup P) <= Cardinality(TicketPairs)
      /\ Cardinality(Pullers' \cup Q) <= Cardinality(Pullers)
  BY <1>3, <1>4, <1>5, FS_Subset
<1>10. /\ Cardinality(TicketPairs' \cap P) = 0 /\ Cardinality(Pullers' \cap Q) = 0
       /\ Cardinality(TicketPairs') \in Nat /\ Cardinality(Pullers') \in Nat
  BY <1>6, <1>7, FS_EmptySet, FS_CardinalityType
<1>11. /\ Cardinality(TicketPairs') + n <= Cardinality(TicketPairs)
       /\ Cardinality(Pullers') + Cardinality(Q) <= Cardinality(Pullers)
  BY <1>1, <1>2, <1>3, <1>8, <1>9, <1>10
<1> QED BY <1>2, <1>10, <1>11 DEF n

\* A call begins, within the bounds of the model.
LEMMA StartKeeps ==
  ASSUME Running, NEW t \in Tokens, NEW name \in Calls \ {"leave"}, NEW n \in Counts(name), Start(t, name, n)
  PROVE  Running'
<1> HIDE DEF Running
<1>1. /\ pc[t] = "idle" /\ UNCHANGED <<queue, reclaim_counter, reclaim, clients>>
      /\ setup' = setup /\ lock' = lock /\ haz_ptr_counter' = haz_ptr_counter
  BY DEF Start, counters, clients, reclaim
<1>2. /\ Control(t) /\ reclaim_counter \in Nat
      /\ haz_ptr_counter \in Nat /\ op[t] \in CallType /\ haz[t] \in HazType /\ haz[t].owned \in BOOLEAN
  BY Fixed, Unmoved
<1>3. /\ name \in {"post", "post_bulk", "pull", "try_pull", "close"}
      /\ n \in Nat
      /\ name = "post" => n = 1
      /\ name \in {"pull", "try_pull", "close"} => n = 0
  BY Sizes DEF Calls, Counts, Bulks
<1>4. /\ Sold + Cardinality(TicketPairs) <= Skip + MaxTicket + 1
      /\ Turn + Cardinality(Pullers) <= Top /\ Cardinality(Pullers) <= MaxPull
      /\ Cardinality(TicketPairs) \in Nat /\ Cardinality(Pullers) \in Nat
      /\ Sold \in Nat /\ Turn \in Nat /\ Skip \in Nat /\ Skip <= Sold /\ Skip <= Turn
      /\ MaxTicket \in Nat /\ MaxPull \in Nat /\ Top = Skip + MaxTicket + MaxPull + 1
  <2>1. Asking /\ Skip <= Sold /\ Skip <= Turn /\ Sold \in Nat /\ Turn \in Nat /\ Skip \in Nat
    BY Bounds, Types, OriginIs DEF Running
  <2>2. Cardinality(TicketPairs) \in Nat /\ Cardinality(Pullers) \in Nat BY PairsAreFew
  <2> QED BY <2>1, <2>2, Sizes, TopIs DEF Asking
<1>5. name \in {"post", "post_bulk"} => Sold + Cardinality(TicketPairs) + n <= Skip + MaxTicket
  <2>1. write_offset \in Word BY Types DEF Running
  <2>2. TicketsAsked = Sold - Skip + Cardinality(TicketPairs)
    BY <1>4, <2>1, Count DEF TicketsAsked, TicketPairs, Sold
  <2>3. name \in {"post", "post_bulk"} => TicketsAsked + n <= MaxTicket BY DEF Start
  <2> QED BY <1>3, <1>4, <2>2, <2>3
<1>6. name \in {"pull", "try_pull"} => Turn + Cardinality(Pullers) + 1 <= Skip + MaxPull
  <2>1. read_offset \in Word BY Types DEF Running
  <2>2. PullsAsked = Turn - Skip + Cardinality(Pullers)
    BY <1>4, <2>1, Count DEF PullsAsked, Pullers, Turn
  <2>3. setup.pulls \in 0 .. MaxPull BY SetupAssumption DEF Running, TypeOK
  <2>4. name \in {"pull", "try_pull"} => PullsAsked < setup.pulls BY DEF Start
  <2> QED BY <1>4, <2>2, <2>3, <2>4
<1>7. n \in 0 .. MaxTicket BY <1>3, <1>4, <1>5
<1>8. PICK c \in CallType : c = [NoCall EXCEPT !.name = name, !.count = n]
  <2>1. NoCall \in CallType BY Edited
  <2> QED BY <1>3, <1>7, <2>1 DEF CallType
<1>9. c.name = name /\ c.count = n /\ c.written = 0 /\ c.seen = 0 BY <1>8 DEF NoCall
<1>10. PICK p : p = (CASE name = "close" -> "lock"
                       [] name # "close" /\ haz[t].owned -> "protect"
                       [] name # "close" /\ ~haz[t].owned -> "acquire")
  OBVIOUS
<1>11. /\ name = "close" => p = "lock"
       /\ name # "close" /\ haz[t].owned => p = "protect"
       /\ name # "close" /\ ~haz[t].owned => p = "acquire"
  BY <1>2, <1>10
<1>12. PICK h \in HazType : h = haz[t] BY <1>2
<1>13. pc' = [pc EXCEPT ![t] = p] /\ op' = [op EXCEPT ![t] = c] /\ haz' = [haz EXCEPT ![t] = h]
  <2>1. haz' = haz BY DEF Start
  <2> QED BY <1>8, <1>10, <1>12, <2>1, Unmoved DEF Start, GoTo
<1>14. /\ p \in Outer \ {"cutoff", "publish"} /\ pc[t] \in Outer \ {"cutoff", "publish"}
       /\ p \in Places /\ lock # t /\ p \in {"lock", "protect", "acquire"}
  BY <1>1, <1>2, <1>11 DEF Outer, Places, Control, Named, Acquiring, Polling, Closing, Reclaiming, Writing,
     Posting, Scanning, Visiting, Announcing, Moves, Sweeping
<1>15. pc'[t] = p /\ op'[t] = c /\ haz'[t] = haz[t] /\ Only({t})
  BY <1>2, <1>12, <1>13, <1>14, Moved
<1>16. Control(t)'
  BY <1>1, <1>2, <1>3, <1>9, <1>11, <1>14, <1>15 DEF Control, Named, Calling, Acquiring, Polling, Closing,
     Reclaiming, Writing, Posting, Scanning, Visiting, Announcing, Moves, Sweeping
<1>17. /\ (Member(t)' => Member(t)) /\ (Acquired(t)' => Acquired(t)) /\ Keeps(h, haz[t])
       /\ h.active_offset = haz[t].active_offset /\ \A f \in Fields : h[f] = haz[t][f]
  BY <1>1, <1>12, <1>14, <1>15 DEF Member, Acquired, Uncounted, Keeps
<1>18. Asking'
  <2>1. Sold' = Sold /\ Turn' = Turn /\ CutDrawn' = CutDrawn
    <3>1. {t} \in SUBSET Tokens /\ lock \notin {t} /\ haz_ptr_counter' \in Nat /\ haz_ptr_counter <= haz_ptr_counter'
      BY <1>1, <1>2, <1>14
    <3>2. UNCHANGED <<queue, reclaim_counter, reclaim, setup>> BY <1>1
    <3> QED BY <1>15, <3>1, <3>2, Frame
  <2>2. op'[t].count = n /\ op'[t].name = name BY <1>9, <1>15
  <2>3. /\ Cardinality(TicketPairs') \in Nat /\ Cardinality(Pullers') \in Nat
        /\ Cardinality(TicketPairs') <=
               Cardinality(TicketPairs) + (IF name \in {"post", "post_bulk"} THEN n ELSE 0)
        /\ Cardinality(Pullers') <=
               Cardinality(Pullers) + (IF name \in {"pull", "try_pull"} THEN 1 ELSE 0)
    BY <1>3, <1>15, <2>2, PairsGrow
  <2>4. Sold + Cardinality(TicketPairs) <= Skip + MaxTicket + (IF CutDrawn THEN 1 ELSE 0)
    BY DEF Running, Asking
  <2>5. Sold + Cardinality(TicketPairs)' <= Skip + MaxTicket + (IF CutDrawn THEN 1 ELSE 0)
    <3>1. PICK k \in {0, 1} : k = (IF CutDrawn THEN 1 ELSE 0) OBVIOUS
    <3>2. name \in {"post", "post_bulk"} => Sold + Cardinality(TicketPairs)' <= Skip + MaxTicket + k
      BY <1>3, <1>4, <1>5, <2>3
    <3>3. name \notin {"post", "post_bulk"} => Sold + Cardinality(TicketPairs)' <= Skip + MaxTicket + k
      BY <1>4, <2>3, <2>4, <3>1
    <3> QED BY <3>1, <3>2, <3>3
  <2>6. Turn + Cardinality(Pullers)' <= Top /\ Cardinality(Pullers)' <= MaxPull
    BY <1>4, <1>6, <2>3
  <2> QED BY <2>1, <2>5, <2>6 DEF Asking
<1>19. haz_ptr_counter' \in Nat /\ haz_ptr_counter <= haz_ptr_counter' BY <1>1, <1>2
<1>20. p \notin {"load_head", "init", "count", "recheck"} /\ p # "draw" /\ c.written <= c.count /\ c.seen <= reclaim_counter
  BY <1>2, <1>3, <1>9, <1>14
<1> QED BY <1>1, <1>13, <1>14, <1>16, <1>17, <1>18, <1>19, <1>20, OuterStep

\* A step that no call takes part in.
LEMMA NobodyActs ==
  ASSUME Running, UNCHANGED <<queue, counters, reclaim, haz, pc, op, told, setup>>,
         under' \in [Tokens -> Tokens \cup {Nobody}]
  PROVE  Running'
<1> HIDE DEF Running
<1>1. /\ UNCHANGED <<queue, counters, reclaim, haz, pc, op, told, setup>>
      /\ haz_ptr_counter' = haz_ptr_counter
      /\ reclaim_counter' = reclaim_counter /\ haz_ptr_counter \in Nat
  BY DEF Running, TypeOK, counters
<1>2. Only({}) /\ Seen({}) /\ {} \in SUBSET Tokens /\ lock \notin {} BY <1>1 DEF Only, Seen
<1>3. /\ UNCHANGED <<cutoff, reclaim_counter, reclaim, setup, blocks, offset>>
      /\ UNCHANGED <<list, elements, offsets, tail_block>> /\ closed' = closed
  BY <1>1 DEF queue, counters, list, reclaim, heads, cutoff
<1>4. Sold' = Sold /\ Turn' = Turn /\ Sold \in Nat /\ Turn \in Nat
  <2>1. Sold \in Nat /\ Turn \in Nat BY Types DEF Running
  <2> QED BY <1>3, <2>1 DEF offsets, Sold, Turn
<1>5. /\ Calm({}) /\ Resting /\ \A places : At(places)' = At(places)
      /\ Lowest' = Lowest /\ rec' = rec /\ CutDrawn' = CutDrawn /\ Cut' = Cut /\ Reclaim' /\ Heads'
  <2>1. haz_ptr_counter' \in Nat /\ haz_ptr_counter <= haz_ptr_counter' /\ Sold' \in Nat /\ Turn' \in Nat
        /\ Sold <= Sold' /\ Turn <= Turn' /\ Reclaim /\ Heads
    BY <1>1, <1>4 DEF Running
  <2> QED BY <1>2, <1>3, <1>4, <2>1, Beside
<1>6. \A u \in Tokens \ {} : Met(u)' BY <1>5, MetKeeps
<1>7. Numbers' /\ Asking'
  <2>1. Numbers /\ Asking BY DEF Running
  <2>2. told' = told BY <1>1
  <2>3. Asking' BY <1>1, <1>4, <1>5, <2>1, AskingKeeps
  <2> QED BY <1>3, <1>4, <1>5, <2>1, <2>2, <2>3 DEF Numbers
<1>8. TypeOK' /\ pc' \in [Tokens -> Places]
  BY <1>1, <1>3 DEF Running, TypeOK, queue, list, elements, offsets, cutoff, counters, reclaim, heads
<1> QED BY <1>2, <1>3, <1>5, <1>6, <1>7, <1>8, CalmStep

\* A coroutine lets the caller that resumed it go on.
LEMMA YieldKeeps ==
  ASSUME Running, NEW t \in Tokens, Yield(t)
  PROVE  Running'
<1> HIDE DEF Running
<1>1. /\ UNCHANGED <<queue, counters, reclaim, haz, pc, op, told, setup>>
      /\ under' \in [Tokens -> Tokens \cup {Nobody}]
  BY DEF Yield, Running, TypeOK
<1> QED BY <1>1, NobodyActs

\* Steps that others see
\* A suspended pull and who resumes it.
LEMMA ParksBeside ==
  ASSUME Running, NEW S \in SUBSET Tokens, Only(S), NEW u \in Tokens \ S,
         pc[u] = "parked" => flags'[op[u].block][IndexOf(op[u].idx)] = u,
         pc[u] = "parked" /\ Done(Begin(u))' =>
             Done(Begin(u)) \/ \E w \in Tokens : Wakes(w, Begin(u))',
         \A w \in S, m \in Nat : (Wakes(w, m) => Wakes(w, m)') /\ (Suspended(w, m) => Suspended(w, m)')
  PROVE  Parks(u)'
<1> HIDE DEF Running
<1>1. TypeOK /\ Parks(u) BY DEF Running, Token
<1>2. pc'[u] = pc[u] /\ op'[u] = op[u] /\ haz'[u] = haz[u] BY DEF Only
<1>3. Begin(u)' = Begin(u) /\ Begin(u) \in Nat /\ op[u].written \in Nat
  BY <1>1, <1>2, Same, Types
<1>4. \A w \in Tokens, m \in Nat : (Suspended(w, m) => Suspended(w, m)') /\ (Wakes(w, m) => Wakes(w, m)')
  <2>1. \A w \in Tokens \ S, m \in Nat : Suspended(w, m)' = Suspended(w, m) /\ Wakes(w, m)' = Wakes(w, m)
    BY Same DEF Only
  <2> QED BY <2>1
<1>5. PICK m, k : m = Begin(u) /\ k = Begin(u) + op[u].written OBVIOUS
<1>6. m \in Nat /\ k \in Nat BY <1>3, <1>5
<1>7. ASSUME pc'[u] = "parked", Done(m)'
      PROVE  \E w \in Tokens : pc'[w] = "wake" /\ Begin(w)' + op'[w].written = m
  <2>1. Done(Begin(u))' <=> Done(m)' BY <1>3, <1>5 DEF Done
  <2>2. \A w : Wakes(w, Begin(u))' <=> Wakes(w, m)' BY <1>3, <1>5 DEF Wakes
  <2>3. (\E w \in Tokens : Wakes(w, m)') \/ Done(Begin(u)) BY <1>2, <1>7, <2>1, <2>2
  <2>4. CASE Done(Begin(u))
    <3>1. PICK w \in Tokens : Wakes(w, m) BY <1>1, <1>2, <1>5, <1>6, <1>7, <2>4 DEF Parks, Wakes
    <3>2. Wakes(w, m)' BY <1>4, <1>6, <3>1
    <3> QED BY <3>2 DEF Wakes
  <2>5. CASE \E w \in Tokens : Wakes(w, m)' BY <2>5 DEF Wakes
  <2> QED BY <2>3, <2>4, <2>5
<1>8. ASSUME pc'[u] = "wake"
      PROVE  \E w \in Tokens : Suspended(w, k)'
  <2>1. PICK w \in Tokens : Suspended(w, k) BY <1>1, <1>2, <1>5, <1>8 DEF Parks
  <2>2. Suspended(w, k)' BY <1>4, <1>6, <2>1
  <2> QED BY <2>2
<1>9. Begin(u)' = m /\ Begin(u)' + op'[u].written = k BY <1>2, <1>3, <1>5
<1>10. /\ pc'[u] = "parked" =>
             /\ flags'[op'[u].block][IndexOf(op'[u].idx)] = u
             /\ Done(Begin(u))' => \E w \in Tokens : pc'[w] = "wake" /\ Begin(w)' + op'[w].written = Begin(u)'
       /\ pc'[u] = "wake" => \E w \in Tokens : Suspended(w, Begin(u) + op[u].written)'
  <2>1. Done(Begin(u))' <=> Done(m)' BY <1>9 DEF Done
  <2>2. \A w \in Tokens : Suspended(w, Begin(u) + op[u].written)' = Suspended(w, k)'
    BY <1>9 DEF Suspended
  <2> QED BY <1>2, <1>7, <1>8, <1>9, <2>1, <2>2
<1> QED BY <1>10 DEF Parks, Done, Suspended

\* The parts that only the others' steps could change.
LEMMA OpenStep ==
  ASSUME Running, NEW S, Calm(S), \A u \in Tokens \ S : Met(u)' /\ Parks(u)',
         \A m \in Nat : Done(m) => Done(m)',
         closed' = "closed" => closed = "closed",
         \A u \in Tokens \ S, w \in S : Unaware(u) /\ Swept(w, Begin(u)) => Swept(w, Begin(u))',
         TypeOK', pc' \in [Tokens -> Places], Linked', Heads', Reclaim', Numbers', Asking',
         SendersApart', ReadersApart', Served', Cells', Clean',
         \A u \in S : Token(u)'
  PROVE  Running'
<1> HIDE DEF Running, Calm
<1>1. ASSUME NEW u \in Tokens \ S
      PROVE  Token(u)'
  <2>1. Control(u)' /\ Closer(u)' /\ Post(u)' /\ Acquires(u)' /\ Has(u)' /\ Uses(u)'
    BY OthersKeep
  <2>2. Pull(u)' /\ Sought(u)' BY PullsKeep
  <2> QED BY <2>1, <2>2 DEF Token
<1> QED BY <1>1 DEF Running

\* Elements that stay as they must be.
LEMMA CellsFrom ==
  ASSUME Running, blocks' = blocks, \A b : First(b)' = First(b),
         At({"relink"})' = At({"relink"}), Unlinked' = Unlinked,
         \A m \in Nat : \A b \in blocks, i \in Index : \A flag, value :
             First(b) + i = m /\ CellOK(m, flags[b][i], stored[b][i])
             /\ flag = flags'[b][i] /\ value = stored'[b][i] => CellOK(m, flag, value)',
         \A m \in Nat : Done(m)' => Done(m) \/ Reaches(m)
  PROVE  Cells'
<1> HIDE DEF Running
<1>1. TypeOK /\ Cells BY DEF Running
<1>2. ASSUME NEW b \in blocks, NEW i \in Index, ~(At({"relink"}) /\ b \in Unlinked)
      PROVE  CellOK(First(b) + i, flags[b][i], stored[b][i])'
  <2>1. PICK m, flag, value : m = First(b) + i /\ flag = flags'[b][i] /\ value = stored'[b][i]
    OBVIOUS
  <2>2. m \in Nat BY <1>1, <2>1, Types, Sizes DEF Index
  <2>3. CellOK(m, flags[b][i], stored[b][i]) BY <1>1, <1>2, <2>1 DEF Cells
  <2>4. CellOK(m, flag, value)' BY <2>1, <2>2, <2>3
  <2>5. First(b)' + i = m BY <2>1
  <2> QED BY <2>1, <2>4, <2>5
<1>3. \A m \in Nat : Reaches(m)' <=> Reaches(m) BY DEF Reaches
<1>4. \A m \in Nat : Done(m)' => Reaches(m)' BY <1>1, <1>3 DEF Cells
<1>5. \A b \in blocks', i \in Index :
          (At({"relink"})' /\ b \in Unlinked') \/ CellOK(First(b) + i, flags[b][i], stored[b][i])'
  BY <1>2
<1> QED BY <1>4, <1>5 DEF Cells

\* Drawing a ticket
\* A call that draws next.
LEMMA Draws ==
  ASSUME Running, NEW t \in Tokens, pc[t] = "draw"
  PROVE  /\ op[t].name \in Calling /\ lock # t /\ haz[t].owned /\ Acquired(t) /\ Member(t)
         /\ op[t].written = 0 /\ op[t].count \in 0 .. MaxTicket
         /\ ~Drawn(t) /\ ~Reader(t) /\ ~Sender(t)
         /\ Active(t) <= From(t) /\ From(t) \in Nat /\ Active(t) \in Nat
         /\ Posting(t) => From(t) <= Base(Sold) /\ op[t].name \in {"post", "post_bulk"}
         /\ ~Posting(t) => From(t) <= Base(Turn) /\ op[t].name \in {"pull", "try_pull"} /\ op[t].count = 0
         /\ First(ListHead) <= Base(Sold) /\ First(ListHead) <= Base(Turn)
         /\ First(ListHead) \in Nat /\ Base(Sold) \in Nat /\ Base(Turn) \in Nat
<1> HIDE DEF Running
<1>1. /\ Control(t) /\ Has(t) /\ Uses(t) /\ TypeOK /\ op[t] \in CallType /\ OnList \subseteq blocks
      /\ {Sold, Turn, Active(t)} \subseteq Nat /\ haz[t].owned \in BOOLEAN
      /\ First(ListHead) <= Sold /\ First(ListHead) <= Turn /\ ListHead \in blocks
      /\ \A b \in blocks : First(b) \in Starts /\ First(b) \in Nat
  BY Parts, Types, Bounds, Fixed DEF Running
<1>2. haz[t].owned /\ lock # t /\ op[t].name \in Calling /\ op[t].written = 0
  BY <1>1 DEF Control, Named, Closing, Sweeping, Reclaiming, Scanning, Visiting, Announcing, Moves, Acquiring, Writing
<1>3. Acquired(t) /\ Member(t) BY <1>2 DEF Acquired, Member, Uncounted
<1>4. ~Drawn(t) /\ ~Sender(t) /\ ~Reader(t) BY Outside DEF Outer
<1>5. /\ First(haz[t].write_block) <= Sold /\ First(haz[t].read_block) <= Turn
      /\ {haz[t].write_block, haz[t].read_block} \subseteq blocks /\ Active(t) <= From(t)
  BY <1>1, <1>3 DEF Has, Uses
<1>6. \A m \in Nat : Base(m) \in Nat /\ \A b \in blocks : First(b) <= m => First(b) <= Base(m)
  BY <1>1, BaseOf
<1>7. op[t].count \in 0 .. MaxTicket /\ (~Posting(t) => op[t].count = 0)
  BY <1>1 DEF CallType, Control
<1>8. /\ Posting(t) => From(t) <= Base(Sold) /\ op[t].name \in {"post", "post_bulk"}
      /\ ~Posting(t) => From(t) <= Base(Turn) /\ op[t].name \in {"pull", "try_pull"}
      /\ From(t) \in Nat
  BY <1>1, <1>2, <1>5, <1>6 DEF From, Field, Posting, Calling
<1>9. First(ListHead) <= Base(Sold) /\ First(ListHead) <= Base(Turn) /\ Base(Sold) \in Nat /\ Base(Turn) \in Nat
      /\ First(ListHead) \in Nat
  BY <1>1, <1>6
<1> QED BY <1>1, <1>2, <1>3, <1>4, <1>5, <1>7, <1>8, <1>9

\* What is being reclaimed is before a ticket that is drawn now.
LEMMA MetDraws ==
  ASSUME Running, Resting, NEW t \in Tokens, t # lock, pc'[t] \notin Walking, haz'[t] = haz[t],
         Member(t)' => Member(t), Begin(t)' = Sold \/ Begin(t)' = Turn
  PROVE  Met(t)'
<1> HIDE DEF Running, Resting
<1>1. TypeOK /\ Met(t) /\ Linked /\ Reclaim BY DEF Running, Token
<1>2. SUFFICES ASSUME At(Watched)'
               PROVE  Met(t)'
  <2>1. CASE ~At(Watched)'
    <3>1. \A P \in SUBSET Watched : ~At(P)' BY <2>1 DEF At
    <3>2. /\ ~At({"scan"})' /\ ~At(Visiting)' /\ ~At(Announcing)' /\ ~At(Aiming)'
          /\ ~At({"swap", "revalidate"})'
      BY <3>1 DEF Watched, Aiming, Visiting
    <3> QED BY <3>2 DEF Met
  <2> QED BY <2>1
<1>3. /\ lock' = lock /\ rec' = rec /\ pc'[lock] = pc[lock] /\ op'[lock].idx = op[lock].idx
      /\ At(Watched)
  BY <1>2 DEF Resting
<1>4. /\ \A places : At(places)' = At(places)
      /\ Limit' = Limit /\ Begin(lock)' = Begin(lock)
  BY <1>3 DEF At, Limit, Begin
<1>5. \A b \in blocks : First(b)' = First(b) BY DEF Resting, First
<1>6. NobodyCame' => NobodyCame
  <2>1. rec.count \in Nat /\ haz_ptr_counter \in Nat /\ rec.count <= haz_ptr_counter
    BY <1>1 DEF TypeOK, RecType
  <2> QED BY <1>3, <2>1 DEF NobodyCame, Resting
<1>7. At({"scan"}) \/ At(Aiming) =>
         /\ lock \in Tokens /\ Reclaimer(lock) /\ Base(Begin(lock)) <= Base(Turn) /\ Base(Begin(lock)) \in Nat
         /\ Base(Turn) \in Nat /\ Base(Sold) \in Nat /\ Met(lock) /\ Drawn(lock)
  <2> SUFFICES ASSUME At({"scan"}) \/ At(Aiming)
               PROVE  /\ lock \in Tokens /\ Reclaimer(lock) /\ Base(Begin(lock)) <= Base(Turn)
                      /\ Base(Begin(lock)) \in Nat /\ Base(Turn) \in Nat /\ Base(Sold) \in Nat
                      /\ Met(lock) /\ Drawn(lock)
    OBVIOUS
  <2>1. lock \in Tokens /\ pc[lock] \in Reclaiming \ {"unlock"}
    BY <1>1 DEF At, TypeOK, Aiming, Visiting, Announcing, Reclaiming, Scanning
  <2>2. op[lock].name \in {"pull", "try_pull"} BY <2>1, Parts DEF Control, Named
  <2>3. Reclaimer(lock) /\ Drawn(lock) /\ Met(lock) BY <2>1, <2>2, Parts DEF Reclaimer, Drawn
  <2>4. Begin(lock) <= Turn /\ Begin(lock) \in Nat /\ Turn \in Nat /\ Sold \in Nat
    BY <1>1, <2>1, <2>2, <2>3, InUse, Types DEF Posting
  <2> QED BY <2>1, <2>3, <2>4, BaseGrows, BaseOf
<1>8. At({"scan"})' /\ ~Spoiled' /\ t \notin rec'.todo => Scanned(t)'
  <2> SUFFICES ASSUME At({"scan"}), ~Spoiled', t \notin rec.todo
               PROVE  Scanned(t)'
    BY <1>3, <1>4
  <2>1. rec.old \in blocks /\ rec.old = head_block BY <1>1, Bounds DEF Reclaim
  <2>2. First(rec.old)' = First(rec.old) BY <1>3, <1>5, <2>1 DEF First
  <2>3. ~Spoiled BY <1>3, <1>4, <2>2 DEF Spoiled
  <2>4. Limit <= Base(Sold) BY <1>1, <2>3 DEF Reclaim
  <2>5. Limit' <= Base(Begin(t)') \/ Base(Begin(lock))' <= Base(Begin(t)')
    BY <1>4, <1>7, <2>4 DEF Base
  <2>6. t # lock' BY <1>3
  <2> QED BY <2>5, <2>6 DEF Scanned
<1>9. \A f \in Fields : Member(t)' /\ At(Aiming) => Member(t) /\ First(haz[t][f])' = First(haz[t][f])
  <2> SUFFICES ASSUME NEW f \in Fields, Member(t)', At(Aiming)
               PROVE  Member(t) /\ First(haz[t][f])' = First(haz[t][f])
    OBVIOUS
  <2>1. PICK b : b = haz[t][f] OBVIOUS
  <2>2. b \in blocks /\ haz'[t][f] = b BY <2>1, Members
  <2>3. First(b)' = First(b) BY <1>5, <2>2
  <2> QED BY <2>1, <2>2, <2>3
<1>10. At(Aiming) => First(rec.new)' = First(rec.new)
  <2>1. At(Aiming) => rec.new \in blocks BY <1>1, Types DEF Reclaim
  <2> QED BY <1>3, <1>5, <2>1 DEF First
<1>11. At(Visiting)' /\ NobodyCame' /\ Member(t)' => \A f \in Fields : Visited(t, f)'
  <2> SUFFICES ASSUME At(Visiting), NobodyCame, Member(t)', NEW f \in Fields
               PROVE  Visited(t, f)'
    BY <1>4, <1>6
  <2>1. At(Aiming) BY DEF At, Aiming
  <2>2. Visited(t, f) /\ First(haz[t][f])' = First(haz[t][f]) BY <1>1, <1>9, <2>1 DEF Met
  <2>3. Pending(t, f)' = Pending(t, f) BY <1>3 DEF Pending
  <2> QED BY <1>4, <2>2, <2>3 DEF Visited
<1>12. At(Announcing)' /\ NobodyCame' /\ Member(t)' => Clear(t)'
  <2> SUFFICES ASSUME At(Announcing), NobodyCame, Member(t)'
               PROVE  Clear(t)'
    BY <1>4, <1>6
  <2>1. At(Aiming) BY DEF At, Aiming
  <2>2. Clear(t) /\ \A f \in Fields : First(haz[t][f])' = First(haz[t][f])
    BY <1>1, <1>9, <2>1 DEF Met
  <2> QED BY <1>10, <2>1, <2>2 DEF Clear
<1>13. At(Aiming)' /\ Drawn(t)' => First(rec.new)' <= Base(Begin(t))'
  <2> SUFFICES ASSUME At(Aiming)
               PROVE  First(rec.new)' <= Base(Begin(t)')
    BY <1>4
  <2>1. First(rec.new) <= Base(Sold) /\ First(rec.new) <= Base(Begin(lock)) /\ First(rec.new) \in Nat
    <3>1. rec.new \in blocks BY <1>1, Types DEF Reclaim
    <3> QED BY <1>1, <1>7, <3>1, Types DEF Reclaim, Met
  <2>2. First(rec.new) <= Base(Turn) BY <1>7, <2>1
  <2> QED BY <1>10, <2>1, <2>2
<1>14. At({"swap", "revalidate"})' /\ t = rec'.at => Near(haz[t].active_offset)'
  BY <1>1, <1>3, <1>4 DEF Met, Near
<1> QED BY <1>8, <1>11, <1>12, <1>13, <1>14, Zenon DEF Met

\* A step beside the reclaimer that leaves the list as it is.
LEMMA Deed ==
  ASSUME Running, NEW S \in SUBSET Tokens, Only(S), lock \notin S,
         UNCHANGED <<list, cutoff, counters, reclaim, setup>>,
         pc' \in [Tokens -> Places], op' \in [Tokens -> CallType], haz' \in [Tokens -> HazType],
         told' \in [Tokens -> BOOLEAN], under' \in [Tokens -> Tokens \cup {Nobody}],
         flags' \in [Block -> [Index -> Flag]], stored' \in [Block -> [Index -> Value \cup {NoValue}]],
         write_offset' \in Word, read_offset' \in Word, Sold <= Sold', Turn <= Turn',
         \A u \in S : op'[u].written <= op'[u].count /\ op'[u].seen <= reclaim_counter,
         \A b \in Block : b \notin OnList => flags'[b] = flags[b] /\ stored'[b] = stored[b],
         \A u \in Tokens \ S : Parks(u)',
         \A m \in Nat : Done(m) => Done(m)',
         \A m \in Nat : Done(m)' => Done(m) \/ Reaches(m),
         Numbers', Asking', SendersApart', ReadersApart', Served',
         \A m \in Nat : \A b \in blocks, i \in Index : \A flag, value :
             First(b) + i = m /\ CellOK(m, flags[b][i], stored[b][i])
             /\ flag = flags'[b][i] /\ value = stored'[b][i] => CellOK(m, flag, value)',
         \A u \in S : Token(u)'
  PROVE  Running'
<1> HIDE DEF Running
<1>1. TypeOK /\ Heads /\ Reclaim /\ Clean /\ OnList \subseteq blocks /\ blocks \subseteq Block
  BY Types DEF Running
<1>2. /\ blocks' = blocks /\ offset' = offset /\ next' = next /\ {Sold, Turn, Sold', Turn'} \subseteq Nat
      /\ closed' = closed /\ haz_ptr_counter' = haz_ptr_counter /\ tail_block' = tail_block
      /\ reclaim_counter' = reclaim_counter /\ haz_ptr_counter \in Nat
  <2>1. Sold \in Nat /\ Turn \in Nat BY <1>1, Types
  <2>2. Sold' \in Nat /\ Turn' \in Nat BY PosIs DEF Sold, Turn
  <2> QED BY <1>1, <2>1, <2>2 DEF list, cutoff, counters, TypeOK, reclaim, heads
<1>3. /\ Calm(S) /\ Resting /\ (\A places : At(places)' = At(places)) /\ ListHead' = ListHead
      /\ Lowest' = Lowest /\ rec' = rec /\ CutDrawn' = CutDrawn /\ Reclaim' /\ Heads'
  BY <1>1, <1>2, Beside
<1>4. \A u \in Tokens \ S : Met(u)' BY <1>3, MetKeeps
<1>5. Linked' /\ OnList' = OnList /\ \A b : First(b)' = First(b)
  <2>1. UNCHANGED <<list, tail_block>> BY <1>2 DEF list
  <2> QED BY <1>3, <2>1, ListKeeps
<1>6. Unlinked' = Unlinked BY <1>3 DEF Unlinked
<1>7. Clean'
  <2>1. \A b \in Block \ blocks, i \in Index : stored'[b][i] = NoValue BY <1>1 DEF Clean
  <2>2. ASSUME At({"relink"}), NEW b \in Unlinked
        PROVE  flags'[b] = Fresh /\ \A i \in Index : stored'[b][i] = NoValue
    <3>1. At(Moves) /\ b \in Block BY <1>1, <2>2 DEF At, Moves, Reclaim
    <3>2. b \notin OnList BY <2>2, <3>1, ListApart
    <3> QED BY <1>1, <2>2, <3>1, <3>2 DEF Clean
  <2> QED BY <1>2, <1>3, <1>6, <2>1, <2>2 DEF Clean, Fresh
<1>8. Cells' BY <1>2, <1>3, <1>5, <1>6, CellsFrom
<1>9. TypeOK'
  <2>1. \A u \in Tokens : op'[u].written <= op'[u].count /\ op'[u].seen <= reclaim_counter
    BY <1>1 DEF Only, TypeOK
  <2> QED BY <1>1, <1>2, <1>3, <2>1 DEF TypeOK, list, elements, offsets, cutoff, reclaim, heads
<1>10. \A u \in Tokens \ S, w \in S : Unaware(u) /\ Swept(w, Begin(u)) => Swept(w, Begin(u))'
  <2> SUFFICES ASSUME NEW w \in S, NEW m, Swept(w, m)
               PROVE  FALSE
    OBVIOUS
  <2>1. w \in Tokens /\ pc[w] \in Closing BY DEF Swept, Closing
  <2>2. lock = w BY <2>1, Parts DEF Control
  <2> QED BY <2>2
<1> QED BY <1>2, <1>3, <1>4, <1>5, <1>7, <1>8, <1>9, <1>10, OpenStep

\* Elements see nothing of a step.
LEMMA CellsSee ==
  ASSUME Running, \A m \in Nat : Done(m)' = Done(m), Turn' = Turn, closed' = closed, closed = "closed" => Cut' = Cut,
         \A u \in Tokens, m \in Nat : /\ Takes(u, m)' = Takes(u, m) /\ Suspended(u, m)' = Suspended(u, m)
                                      /\ Swept(u, m)' = Swept(u, m)
  PROVE  \A m \in Nat : \A flag, value : CellOK(m, flag, value) => CellOK(m, flag, value)'
<1> HIDE DEF Running
<1>1. SUFFICES ASSUME NEW m \in Nat, NEW flag, NEW value, CellOK(m, flag, value)
               PROVE  CellOK(m, flag, value)'
  OBVIOUS
<1>2. /\ (Turn <= m)' = (Turn <= m) /\ (m < Turn)' = (m < Turn)
      /\ (closed = "closed" /\ Cut <= m)' = (closed = "closed" /\ Cut <= m)
  <2>1. CASE closed = "closed" BY <2>1
  <2>2. CASE closed # "closed" BY <2>2
  <2> QED BY <2>1, <2>2
<1> QED BY <1>1, <1>2, CellSame

\* A post draws.
LEMMA DrawPostKeeps ==
  ASSUME Running, NEW t \in Tokens, Draw(t), Posting(t)
  PROVE  Running'
<1> HIDE DEF Running
<1>1. /\ pc[t] = "draw" /\ op[t].name \in {"post", "post_bulk"}
      /\ UNCHANGED <<list, cutoff, counters, reclaim, setup>> /\ UNCHANGED elements /\ UNCHANGED haz
      /\ told' = told /\ under' = under /\ read_offset' = read_offset
      /\ write_offset' = Plus(write_offset, op[t].count)
      /\ op' = [op EXCEPT ![t].idx = write_offset] /\ pc' = [pc EXCEPT ![t] = "load_block"]
  BY DEF Draw, Posting, clients, GoTo
<1>2. PICK c \in CallType : c = [op[t] EXCEPT !.idx = write_offset]
  <2>1. write_offset \in Word BY Types DEF Running
  <2> QED BY <2>1, Unmoved, Edited
<1>3. PICK h \in HazType : h = haz[t] BY Unmoved
<1>4. pc' = [pc EXCEPT ![t] = "load_block"] /\ op' = [op EXCEPT ![t] = c] /\ haz' = [haz EXCEPT ![t] = h]
  BY <1>1, <1>2, <1>3, Unmoved
<1>5. /\ c.name = op[t].name /\ c.idx = write_offset /\ c.count = op[t].count /\ c.written = op[t].written
      /\ c.seen = op[t].seen
  <2>1. op[t] \in CallType BY Parts
  <2> QED BY <1>2, <2>1 DEF CallType
<1>6. pc'[t] = "load_block" /\ op'[t] = c /\ haz'[t] = haz[t] /\ Only({t})
      /\ pc' \in [Tokens -> Places] /\ op' \in [Tokens -> CallType] /\ haz' \in [Tokens -> HazType]
  <2>1. "load_block" \in Places BY DEF Places
  <2> QED BY <1>3, <1>4, <2>1, Moved
<1>7. /\ op[t].name \in Calling /\ lock # t /\ haz[t].owned /\ Acquired(t) /\ Member(t)
      /\ op[t].written = 0 /\ op[t].count \in 0 .. MaxTicket
      /\ ~Drawn(t) /\ ~Reader(t) /\ ~Sender(t)
      /\ Active(t) <= From(t) /\ From(t) \in Nat /\ Active(t) \in Nat
      /\ From(t) <= Base(Sold) /\ First(ListHead) <= Base(Sold)
      /\ First(ListHead) \in Nat /\ Base(Sold) \in Nat
  BY <1>1, Draws DEF Posting
<1>8. PICK n : n = op[t].count OBVIOUS
<1>9. n \in Nat /\ n \in 0 .. MaxTicket /\ c.count = n BY <1>5, <1>7, <1>8, Sizes
<1>10. /\ Sold \in Nat /\ Turn \in Nat /\ Cut \in Nat /\ Skip \in Nat /\ Skip <= Cut /\ Cut <= Sold /\ Top \in Nat
       /\ Skip <= Turn /\ Turn <= Top /\ MaxTicket \in Nat /\ MaxPull \in Nat /\ 4 * Top < WordMod
       /\ Top = Skip + MaxTicket + MaxPull + 1 /\ WordMod \in Nat
       /\ write_offset \in Word /\ read_offset \in Word
       /\ TypeOK /\ Numbers /\ Asking /\ SendersApart /\ ReadersApart /\ Served
  BY Bounds, Types, OriginIs, Sizes, TopIs DEF Running
<1>11. /\ Cardinality(TicketPairs') \in Nat /\ Cardinality(Pullers') \in Nat
       /\ Cardinality(TicketPairs') + n <= Cardinality(TicketPairs)
       /\ Cardinality(Pullers') <= Cardinality(Pullers)
       /\ Cardinality(TicketPairs) \in Nat /\ Cardinality(Pullers) \in Nat
  <2>1. pc[t] \in BeforeDraw /\ pc'[t] \notin BeforeDraw /\ op[t].count \in 0 .. MaxTicket
    BY <1>1, <1>6, <1>8, <1>9 DEF BeforeDraw
  <2>2. /\ Cardinality(TicketPairs') \in Nat /\ Cardinality(Pullers') \in Nat
        /\ Cardinality(TicketPairs') + (IF Posting(t) THEN op[t].count ELSE 0) <= Cardinality(TicketPairs)
        /\ Cardinality(Pullers') + (IF op[t].name \in {"pull", "try_pull"} THEN 1 ELSE 0) <= Cardinality(Pullers)
    BY <1>6, <2>1, PairsShrink
  <2> QED BY <1>1, <1>8, <2>2, PairsAreFew DEF Posting
<1>12. PICK k \in {0, 1} : k = (IF CutDrawn THEN 1 ELSE 0) OBVIOUS
<1>13. Sold + Cardinality(TicketPairs) <= Skip + MaxTicket + k /\ Turn + Cardinality(Pullers) <= Top
       /\ Cardinality(Pullers) <= MaxPull
  BY <1>10, <1>12 DEF Asking
<1>14. Sold + n <= Top BY <1>9, <1>10, <1>11, <1>13
<1>15. /\ Sold' = Sold + n /\ Turn' = Turn /\ Sold' \in Nat /\ write_offset' \in Word
  <2>1. Sold + n < WordMod BY <1>9, <1>10, <1>14
  <2>2. write_offset' \in Word /\ Pos(write_offset') = Sold + n
    BY <1>1, <1>8, <1>9, <1>10, <2>1, PosPlus DEF Sold
  <2> QED BY <1>1, <1>9, <1>10, <2>2 DEF Sold, Turn
<1>16. /\ Begin(t)' = Sold /\ Finish(t)' = Sold + n /\ Ahead(t)' = Sold
       /\ Posting(t)' /\ Sender(t)' /\ ~Reader(t)' /\ ~Reclaimer(t)' /\ Drawn(t)' /\ ~Unaware(t)'
       /\ Field(t)' = Field(t) /\ Active(t)' = Active(t)
  <2>1. Begin(t)' = Sold /\ Posting(t)' /\ Active(t)' = Active(t) /\ Posting(t)
    BY <1>1, <1>5, <1>6 DEF Begin, Sold, Posting, Active
  <2>2. Sender(t)' /\ ~Reader(t)' /\ ~Reclaimer(t)' /\ Drawn(t)' /\ ~Unaware(t)' /\ Field(t)' = Field(t)
    BY <1>1, <1>5, <1>6, <2>1 DEF Sender, Reader, Reclaimer, Drawn, Unaware, Field, Reclaiming, Scanning, Visiting,
       Announcing, Moves, Reading
  <2>3. Finish(t)' = Sold + n /\ Ahead(t)' = Sold
    BY <1>5, <1>6, <1>7, <1>8, <1>10, <2>1 DEF Finish, Ahead
  <2> QED BY <2>1, <2>2, <2>3
<1>17. /\ Calm({t}) /\ Resting /\ (\A places : At(places)' = At(places)) /\ ListHead' = ListHead
       /\ CutDrawn' = CutDrawn /\ (CutDrawn => Cut' = Cut) /\ rec' = rec /\ lock' = lock
  <2>1. {t} \in SUBSET Tokens /\ lock \notin {t} BY <1>7
  <2>2. UNCHANGED <<cutoff, reclaim_counter, reclaim, setup, blocks, offset>>
        /\ haz_ptr_counter' \in Nat /\ haz_ptr_counter <= haz_ptr_counter'
    BY <1>1, Fixed DEF counters, list
  <2>3. Sold' \in Nat /\ Turn' \in Nat /\ Sold <= Sold' /\ Turn <= Turn' BY <1>9, <1>10, <1>15
  <2> QED BY <1>6, <2>1, <2>2, <2>3, Beside
<1>18. closed' = closed /\ (~CutDrawn => Cut = Sold /\ Cut' = Sold + n) /\ Cut' \in Nat /\ Cut <= Cut'
       /\ (closed = "closed" => Cut' = Cut) /\ (CutDrawn => Cut < Sold)
  <2>1. closed' = closed BY <1>1 DEF cutoff
  <2>2. ~CutDrawn => Cut = Sold /\ Cut' = Sold + n BY <1>15, <1>17, <2>1 DEF CutDrawn, Cut
  <2>3. CutDrawn => Cut' = Cut /\ Cut < Sold BY <1>10, <1>17 DEF Numbers
  <2>4. closed = "closed" => CutDrawn BY DEF CutDrawn
  <2> QED BY <1>9, <1>10, <2>1, <2>2, <2>3, <2>4
<1>19. blocks' = blocks /\ OnList' = OnList /\ (\A b : First(b)' = First(b))
       /\ \A m : Reaches(m)' = Reaches(m)
  <2>1. UNCHANGED <<list, tail_block>> /\ Lowest' = Lowest
    <3>1. UNCHANGED tail_block /\ UNCHANGED list /\ head_block' = head_block
      BY <1>1 DEF reclaim, heads
    <3> QED BY <1>17, <3>1 DEF Lowest
  <2> QED BY <1>17, <2>1, ListKeeps
<1>20. \A u \in Tokens, m \in Nat : /\ Takes(u, m)' = Takes(u, m) /\ Suspended(u, m)' = Suspended(u, m)
                                    /\ Swept(u, m)' = Swept(u, m) /\ Wakes(u, m)' = Wakes(u, m)
  <2> SUFFICES ASSUME NEW u \in Tokens, NEW m \in Nat
               PROVE  /\ Takes(u, m)' = Takes(u, m) /\ Suspended(u, m)' = Suspended(u, m)
                      /\ Swept(u, m)' = Swept(u, m) /\ Wakes(u, m)' = Wakes(u, m)
    OBVIOUS
  <2>1. CASE u = t
    BY <1>1, <1>5, <1>6, <1>7, <1>16, <2>1 DEF Takes, Suspended, Swept, Wakes, Sweeping
  <2>2. CASE u # t BY <1>6, <2>2, Same DEF Only
  <2> QED BY <2>1, <2>2
<1>21. \A m \in Nat : /\ Owns(t, m)' <=> Sold <= m /\ m < Sold + n
                      /\ ~Owns(t, m) /\ \A u \in Tokens \ {t} : Owns(u, m)' <=> Owns(u, m)
  <2>1. \A m \in Nat, u \in Tokens \ {t} : Owns(u, m)' <=> Owns(u, m) BY <1>6, Same DEF Only
  <2> QED BY <1>7, <1>16, <2>1 DEF Owns
<1>22. \A m \in Nat : Done(m)' = Done(m)
  <2> SUFFICES ASSUME NEW m \in Nat
               PROVE  Done(m)' = Done(m)
    OBVIOUS
  <2>1. CASE m < Cut
    <3>1. ~Owns(t, m)' /\ m < Cut' BY <1>10, <1>18, <1>21, <2>1
    <3>2. \A u \in Tokens : Owns(u, m)' <=> Owns(u, m) BY <1>21, <3>1
    <3> QED BY <2>1, <3>1, <3>2 DEF Done
  <2>2. CASE ~(m < Cut)
    <3>1. m < Cut' => Owns(t, m)' BY <1>10, <1>17, <1>18, <1>21, <2>2
    <3> QED BY <2>2, <3>1 DEF Done
  <2> QED BY <2>1, <2>2
<1>23. ASSUME NEW u \in Tokens \ {t}
       PROVE  Parks(u)'
  <2>1. pc[u] = "parked" => flags'[op[u].block][IndexOf(op[u].idx)] = u
    BY <1>1, Parts DEF elements, Parks
  <2>2. Done(Begin(u))' => Done(Begin(u))
    <3>1. PICK m : m = Begin(u) OBVIOUS
    <3>2. m \in Nat /\ Begin(u)' = m BY <1>6, <3>1, Same, Parts DEF Only
    <3>3. Done(m)' => Done(m) BY <1>22, <3>2
    <3>4. (Done(Begin(u))' <=> Done(m)') /\ (Done(Begin(u)) <=> Done(m)) BY <3>1, <3>2 DEF Done
    <3> QED BY <3>3, <3>4
  <2> QED BY <1>6, <1>20, <2>1, <2>2, ParksBeside
<1>24. Numbers' /\ Asking'
  <2>1. Numbers' BY <1>1, <1>9, <1>10, <1>15, <1>17, <1>18 DEF Numbers
  <2>2. Sold' + Cardinality(TicketPairs') <= Skip + MaxTicket + k /\ Turn' + Cardinality(Pullers') <= Top
        /\ Cardinality(Pullers') <= MaxPull
    BY <1>9, <1>10, <1>11, <1>13, <1>15
  <2> QED BY <1>12, <1>17, <2>1, <2>2 DEF Asking
<1>25. SendersApart' /\ ReadersApart' /\ Served'
  <2>1. \A u \in Tokens \ {t} : /\ Sender(u)' = Sender(u) /\ Begin(u)' = Begin(u) /\ Finish(u)' = Finish(u)
                                /\ op'[u].count = op[u].count /\ Reader(u)' = Reader(u)
                                /\ (Sender(u) => Finish(u) <= Sold)
    <3>1. \A u \in Tokens : Sender(u) => Finish(u) <= Sold BY Parts DEF Post
    <3> QED BY <1>6, <3>1, Same DEF Only
  <2>2. SendersApart' BY <1>10, <1>16, <2>1 DEF SendersApart
  <2>3. ReadersApart' BY <1>10, <1>16, <2>1 DEF ReadersApart
  <2>4. Served'
    <3>1. \A m \in Nat : Taken(m)' <=> Taken(m) BY <1>20 DEF Taken
    <3> QED BY <1>10, <1>15, <1>18, <1>22, <3>1 DEF Served
  <2> QED BY <2>2, <2>3, <2>4
<1>26. Control(t)' /\ Closer(t)' /\ Sought(t)' /\ Parks(t)' /\ Acquires(t)' /\ Pull(t)'
  <2>1. Control(t)'
    <3>1. Control(t) BY Parts
    <3> QED
      BY <1>1, <1>5, <1>6, <1>7, <1>16, <1>17, <3>1 DEF Control, Named, Calling, Acquiring, Polling, Closing, Reclaiming,
         Writing, Posting, Scanning, Visiting, Announcing, Moves, Sweeping
  <2>2. Closer(t)' /\ Sought(t)' /\ Parks(t)' /\ Acquires(t)'
    BY <1>6, <1>16 DEF Closer, Sweeping, Sought, Parks, Acquires
  <2>3. Pull(t)' BY <1>1, <1>5, <1>6, <1>16 DEF Pull
  <2> QED BY <2>1, <2>2, <2>3
<1>27. Post(t)'
  <2>1. Finish(t)' <= Cut' \/ Cut' < Begin(t)' BY <1>9, <1>10, <1>16, <1>17, <1>18
  <2> QED BY <1>6, <1>10, <1>15, <1>16, <1>18, <2>1 DEF Post, Writing
<1>28. Has(t)' /\ Met(t)'
  <2>1. Keeps(haz'[t], haz[t]) /\ haz'[t].active_offset = haz[t].active_offset BY <1>6 DEF Keeps
  <2>2. Has(t)' BY <1>7, <1>17, <2>1, HasStays
  <2>3. pc'[t] \notin Walking /\ haz'[t] = haz[t] BY <1>6 DEF Walking
  <2> QED BY <1>7, <1>16, <1>17, <2>2, <2>3, MetDraws
<1>29. Uses(t)'
  <2>1. From(t)' = From(t)
    <3>1. PICK b : b = haz[t][Field(t)] OBVIOUS
    <3>2. First(b)' = First(b) /\ haz'[t][Field(t)'] = b BY <1>6, <1>16, <1>19, <3>1
    <3> QED BY <3>1, <3>2 DEF From
  <2>2. First(ListHead)' = First(ListHead) BY <1>17, <1>19
  <2>3. Active(t)' <= Base(Begin(t)') BY <1>7, <1>16
  <2> QED BY <1>6, <1>7, <1>16, <2>1, <2>2, <2>3, UsesBetween
<1>30. \A u \in {t} : Token(u)' BY <1>26, <1>27, <1>28, <1>29 DEF Token
<1>31. \A m \in Nat : \A b \in blocks, i \in Index : \A flag, value :
           First(b) + i = m /\ CellOK(m, flags[b][i], stored[b][i])
           /\ flag = flags'[b][i] /\ value = stored'[b][i] => CellOK(m, flag, value)'
  <2>1. flags' = flags /\ stored' = stored BY <1>1 DEF elements
  <2> QED BY <1>15, <1>18, <1>20, <1>22, <2>1, CellsSee
<1>32. /\ told' \in [Tokens -> BOOLEAN] /\ under' \in [Tokens -> Tokens \cup {Nobody}]
       /\ flags' \in [Block -> [Index -> Flag]] /\ stored' \in [Block -> [Index -> Value \cup {NoValue}]]
       /\ write_offset' \in Word /\ read_offset' \in Word /\ flags' = flags /\ stored' = stored
  BY <1>1, <1>10, <1>15 DEF elements, TypeOK
<1>33. \A u \in {t} : op'[u].written <= op'[u].count /\ op'[u].seen <= reclaim_counter
  BY <1>5, <1>6, Parts
<1>34. Sold <= Sold' /\ Turn <= Turn' /\ {t} \in SUBSET Tokens /\ lock \notin {t}
  BY <1>7, <1>9, <1>10, <1>15
<1> QED BY <1>1, <1>6, <1>22, <1>23, <1>24, <1>25, <1>30, <1>31, <1>32, <1>33, <1>34, Deed

\* What a step beside the reclaimer leaves as it is when the list stays.
LEMMA Alongside ==
  ASSUME Running, NEW S \in SUBSET Tokens, Only(S), lock \notin S,
         UNCHANGED <<list, cutoff, counters, reclaim, setup>>,
         write_offset' \in Word, read_offset' \in Word, Sold <= Sold', Turn <= Turn'
  PROVE  /\ Calm(S) /\ Resting /\ \A places : At(places)' = At(places)
         /\ lock' = lock /\ rec' = rec /\ closed' = closed /\ head_block' = head_block
         /\ ListHead' = ListHead /\ Lowest' = Lowest /\ blocks' = blocks /\ OnList' = OnList
         /\ \A b : First(b)' = First(b)
         /\ \A m : Reaches(m)' = Reaches(m)
         /\ {Sold, Sold', Turn, Turn', Cut, Cut'} \subseteq Nat
         /\ CutDrawn' = CutDrawn /\ (CutDrawn => Cut' = Cut) /\ (Sold' = Sold => Cut' = Cut)
         /\ next' = next /\ offset' = offset /\ First(ListHead)' = First(ListHead)
<1> HIDE DEF Running
<1>1. Sold \in Nat /\ Turn \in Nat /\ Cut \in Nat BY Bounds, Types DEF Running
<1>2. Sold' \in Nat /\ Turn' \in Nat BY PosIs DEF Sold, Turn
<1>3. /\ UNCHANGED <<cutoff, reclaim_counter, reclaim, setup, blocks, offset>> /\ UNCHANGED <<list, tail_block>>
      /\ haz_ptr_counter' \in Nat /\ haz_ptr_counter <= haz_ptr_counter'
      /\ blocks' = blocks /\ next' = next /\ offset' = offset /\ closed' = closed /\ head_block' = head_block
  <2>1. haz_ptr_counter \in Nat BY DEF Running, TypeOK
  <2> QED BY <2>1 DEF counters, list, reclaim, heads, cutoff
<1>4. /\ Calm(S) /\ Resting /\ (\A places : At(places)' = At(places))
      /\ Lowest' = Lowest /\ ListHead' = ListHead /\ rec' = rec /\ lock' = lock
      /\ CutDrawn' = CutDrawn /\ (CutDrawn => Cut' = Cut) /\ (Sold' = Sold => Cut' = Cut)
  BY <1>1, <1>2, <1>3, Beside
<1>5. OnList' = OnList /\ blocks' = blocks /\ (\A b : First(b)' = First(b)) /\ \A m : Reaches(m)' = Reaches(m)
  BY <1>3, <1>4, ListKeeps
<1>6. Cut' \in Nat BY <1>4 DEF Calm
<1>7. First(ListHead)' = First(ListHead) BY <1>4, <1>5
<1> QED BY <1>1, <1>2, <1>3, <1>4, <1>5, <1>6, <1>7

\* A call takes the next index to read.
LEMMA TakesNext ==
  ASSUME Running, NEW t \in Tokens, Only({t}), lock # t,
         UNCHANGED <<list, cutoff, counters, reclaim, setup>>, UNCHANGED elements,
         write_offset' = write_offset, read_offset' \in Word, Turn' = Turn + 1, Turn' <= Top,
         pc' \in [Tokens -> Places], op' \in [Tokens -> CallType], haz' \in [Tokens -> HazType],
         told' \in [Tokens -> BOOLEAN], under' \in [Tokens -> Tokens \cup {Nobody}],
         \A u \in Tokens : told'[u] => told[u],
         op'[t].written <= op'[t].count, op'[t].seen <= reclaim_counter,
         ~Reader(t), ~Sender(t), ~Sender(t)', Reader(t)', Begin(t)' = Turn,
         pc[t] \notin {"parked", "wake"}, pc'[t] \notin {"parked", "wake"},
         op[t].name # "close", op'[t].name # "close",
         Asking', Token(t)'
  PROVE  Running'
<1> HIDE DEF Running
<1>1. /\ Sold \in Nat /\ Turn \in Nat /\ Cut \in Nat /\ Skip \in Nat /\ Skip <= Turn /\ Turn <= Top /\ Top \in Nat
      /\ TypeOK /\ Numbers /\ SendersApart /\ ReadersApart /\ Served /\ write_offset \in Word
  BY Bounds, Types, OriginIs DEF Running
<1>2. Sold' = Sold /\ Turn <= Turn' /\ Sold <= Sold' /\ {t} \in SUBSET Tokens /\ lock \notin {t}
      /\ write_offset' \in Word
  BY <1>1 DEF Sold
<1>3. /\ (\A places : At(places)' = At(places)) /\ closed' = closed /\ CutDrawn' = CutDrawn /\ Cut' = Cut
      /\ blocks' = blocks
  BY <1>2, Alongside
<1>4. flags' = flags /\ stored' = stored BY DEF elements
<1>5. \A u \in Tokens, m \in Nat : /\ (Takes(u, m)' <=> Takes(u, m) \/ (u = t /\ m = Turn))
                                   /\ Suspended(u, m)' = Suspended(u, m)
                                   /\ Swept(u, m)' = Swept(u, m) /\ Wakes(u, m)' = Wakes(u, m)
                                   /\ (Owns(u, m)' <=> Owns(u, m))
                                   /\ (Takes(u, m) => u # t /\ m < Turn)
  <2> SUFFICES ASSUME NEW u \in Tokens, NEW m \in Nat
               PROVE  /\ (Takes(u, m)' <=> Takes(u, m) \/ (u = t /\ m = Turn))
                      /\ Suspended(u, m)' = Suspended(u, m)
                      /\ Swept(u, m)' = Swept(u, m) /\ Wakes(u, m)' = Wakes(u, m)
                      /\ (Owns(u, m)' <=> Owns(u, m))
                      /\ (Takes(u, m) => u # t /\ m < Turn)
    OBVIOUS
  <2>1. CASE u = t BY <2>1 DEF Takes, Suspended, Swept, Wakes, Owns
  <2>2. CASE u # t BY <2>2, Same, Parts DEF Only, Takes, Pull
  <2> QED BY <2>1, <2>2
<1>6. \A m \in Nat : Done(m)' = Done(m)
  <2> SUFFICES ASSUME NEW m \in Nat
               PROVE  Done(m)' = Done(m)
    OBVIOUS
  <2>1. \A u \in Tokens : Owns(u, m)' <=> Owns(u, m) BY <1>5
  <2> QED BY <1>3, <2>1 DEF Done
<1>7. ASSUME NEW u \in Tokens \ {t}
      PROVE  Parks(u)'
  <2>1. pc[u] = "parked" => flags'[op[u].block][IndexOf(op[u].idx)] = u BY <1>4, Parts DEF Parks
  <2>2. Done(Begin(u))' => Done(Begin(u))
    <3>1. PICK m : m = Begin(u) OBVIOUS
    <3>2. m \in Nat /\ Begin(u)' = m BY <3>1, Same, Parts DEF Only
    <3>3. Done(m)' => Done(m) BY <1>6, <3>2
    <3>4. (Done(Begin(u))' <=> Done(m)') /\ (Done(Begin(u)) <=> Done(m)) BY <3>1, <3>2 DEF Done
    <3> QED BY <3>3, <3>4
  <2> QED BY <1>5, <2>1, <2>2, ParksBeside
<1>8. Numbers' BY <1>1, <1>2, <1>3 DEF Numbers
<1>9. \A u \in Tokens \ {t} : /\ Sender(u)' = Sender(u) /\ Begin(u)' = Begin(u) /\ Finish(u)' = Finish(u)
                              /\ op'[u].count = op[u].count /\ Reader(u)' = Reader(u)
                              /\ (Reader(u) => Begin(u) < Turn /\ Begin(u) \in Nat)
  <2>1. \A u \in Tokens : Reader(u) => Begin(u) < Turn /\ Begin(u) \in Nat BY Parts DEF Pull
  <2> QED BY <2>1, Same DEF Only
<1>10. SendersApart' /\ ReadersApart'
  <2>1. SendersApart' BY <1>1, <1>9 DEF SendersApart
  <2>2. ReadersApart' BY <1>1, <1>9 DEF ReadersApart
  <2> QED BY <2>1, <2>2
<1>11. Served'
  <2> SUFFICES ASSUME NEW m \in Nat, Skip <= m, m < Turn + 1
               PROVE  Taken(m)' \/ Done(m)' \/ (closed = "closed" /\ Cut <= m)
    BY <1>3 DEF Served
  <2>1. CASE m = Turn BY <1>1, <1>5, <2>1 DEF Taken
  <2>2. CASE m # Turn
    <3>1. Taken(m) \/ Done(m) \/ (closed = "closed" /\ Cut <= m) BY <1>1, <2>2 DEF Served
    <3>2. Taken(m) => Taken(m)' BY <1>5 DEF Taken
    <3> QED BY <1>6, <3>1, <3>2
  <2> QED BY <2>1, <2>2
<1>12. \A m \in Nat : \A flag, value : CellOK(m, flag, value) => CellOK(m, flag, value)'
  <2> SUFFICES ASSUME NEW m \in Nat, NEW flag, NEW value, CellOK(m, flag, value)
               PROVE  CellOK(m, flag, value)'
    OBVIOUS
  <2>1. CASE m = Turn
    <3>1. ~Taken(m) /\ Taken(m)' BY <1>1, <1>5, <2>1 DEF Taken
    <3>2. \A u \in Tokens : ~Takes(u, m) /\ Suspended(u, m)' = Suspended(u, m)
      BY <1>1, <1>5, <2>1
    <3>3. /\ value = (IF Done(m) THEN m - Skip + 1 ELSE NoValue)
          /\ Done(m) => flag = "data"
          /\ Skip <= m /\ ~Done(m) => flag = "empty" \/ (flag \in Tokens /\ Suspended(flag, m))
      BY <1>1, <2>1, <3>1, <3>2 DEF CellOK
    <3> QED BY <1>6, <3>1, <3>2, <3>3 DEF CellOK
  <2>2. CASE m # Turn
    <3>1. \A u \in Tokens : /\ Takes(u, m)' = Takes(u, m) /\ Suspended(u, m)' = Suspended(u, m)
                            /\ Swept(u, m)' = Swept(u, m)
      <4>1. \A u \in Tokens : Takes(u, m)' <=> Takes(u, m) BY <1>5, <2>2
      <4> QED BY <1>5, <4>1 DEF Takes
    <3>2. (Turn <= m)' = (Turn <= m) /\ (m < Turn)' = (m < Turn) BY <1>1, <2>2
    <3> QED BY <1>3, <1>6, <3>1, <3>2, CellSame
  <2> QED BY <2>1, <2>2
<1>13. \A m \in Nat : \A b \in blocks, i \in Index : \A flag, value :
           First(b) + i = m /\ CellOK(m, flags[b][i], stored[b][i])
           /\ flag = flags'[b][i] /\ value = stored'[b][i] => CellOK(m, flag, value)'
  BY <1>4, <1>12
<1>14. flags' \in [Block -> [Index -> Flag]] /\ stored' \in [Block -> [Index -> Value \cup {NoValue}]]
  BY <1>1, <1>4 DEF TypeOK
<1> QED BY <1>2, <1>4, <1>6, <1>7, <1>8, <1>10, <1>11, <1>13, <1>14, Deed

\* Nobody is handed more than is asked for.
LEMMA TurnBelow ==
  ASSUME Running, NEW t \in Tokens, Only({t}), pc[t] \in BeforeDraw, pc'[t] \notin BeforeDraw,
         op[t].name \in {"pull", "try_pull"}, op[t].count \in 0 .. MaxTicket
  PROVE  /\ op[t].name = "pull" => Turn + 1 <= Top
         /\ Turn + 1 + Cardinality(Pullers') <= Top /\ Cardinality(Pullers') <= MaxPull
         /\ Sold + Cardinality(TicketPairs') <= Skip + MaxTicket + (IF CutDrawn THEN 1 ELSE 0)
         /\ Cardinality(Pullers') \in Nat
<1> HIDE DEF Running
<1>1. /\ Sold \in Nat /\ Turn \in Nat /\ Skip \in Nat /\ Top \in Nat /\ MaxTicket \in Nat /\ MaxPull \in Nat /\ Asking
  BY Bounds, Types, OriginIs, Sizes DEF Running
<1>2. /\ Cardinality(TicketPairs') \in Nat /\ Cardinality(Pullers') \in Nat
      /\ Cardinality(TicketPairs') + (IF Posting(t) THEN op[t].count ELSE 0) <= Cardinality(TicketPairs)
      /\ Cardinality(Pullers') + (IF op[t].name \in {"pull", "try_pull"} THEN 1 ELSE 0) <= Cardinality(Pullers)
  BY PairsShrink
<1>3. Cardinality(TicketPairs) \in Nat /\ Cardinality(Pullers) \in Nat BY PairsAreFew
<1>4. Cardinality(TicketPairs') <= Cardinality(TicketPairs) /\ Cardinality(Pullers') + 1 <= Cardinality(Pullers)
  BY <1>2 DEF Posting
<1>5. PICK k \in {0, 1} : k = (IF CutDrawn THEN 1 ELSE 0) OBVIOUS
<1>6. Sold + Cardinality(TicketPairs) <= Skip + MaxTicket + k /\ Turn + Cardinality(Pullers) <= Top
      /\ Cardinality(Pullers) <= MaxPull
  BY <1>1, <1>5 DEF Asking
<1> QED BY <1>1, <1>2, <1>3, <1>4, <1>5, <1>6

\* What a call is that has just drawn an index to read.
LEMMA ReadTicket ==
  ASSUME Running, NEW t \in Tokens, pc[t] = "draw", ~Posting(t), NEW p \in {"load_block", "load_woff"},
         NEW c \in CallType, NEW h \in HazType, h = haz[t],
         c.name = op[t].name, c.idx = read_offset, c.count = op[t].count, c.written = op[t].written,
         c.seen = op[t].seen,
         pc' = [pc EXCEPT ![t] = p], op' = [op EXCEPT ![t] = c], haz' = [haz EXCEPT ![t] = h],
         UNCHANGED <<list, cutoff, counters, reclaim, setup>>,
         write_offset' = write_offset, read_offset' \in Word, Turn <= Turn',
         p = "load_woff" => op[t].name = "try_pull" /\ Turn' = Turn,
         p = "load_block" => op[t].name = "pull" /\ Turn < Turn'
  PROVE  /\ pc'[t] = p /\ op'[t] = c /\ haz'[t] = haz[t] /\ Only({t}) /\ lock # t
         /\ pc' \in [Tokens -> Places] /\ op' \in [Tokens -> CallType] /\ haz' \in [Tokens -> HazType]
         /\ c.name = op[t].name /\ c.count = op[t].count /\ c.written = 0 /\ c.seen = op[t].seen
         /\ op[t].name \in {"pull", "try_pull"} /\ Begin(t)' = Turn
         /\ ~Sender(t) /\ ~Reader(t) /\ ~Sender(t)' /\ (Reader(t)' <=> p = "load_block") /\ ~Unaware(t)'
         /\ Token(t)'
<1> HIDE DEF Running
<1>1. /\ op[t].name \in Calling /\ lock # t /\ haz[t].owned /\ Acquired(t) /\ Member(t)
      /\ op[t].written = 0 /\ op[t].count = 0 /\ op[t].name \in {"pull", "try_pull"}
      /\ ~Drawn(t) /\ ~Reader(t) /\ ~Sender(t)
      /\ Active(t) <= From(t) /\ From(t) \in Nat /\ Active(t) \in Nat
      /\ From(t) <= Base(Turn) /\ First(ListHead) <= Base(Turn)
      /\ First(ListHead) \in Nat /\ Base(Turn) \in Nat
  BY Draws
<1>2. /\ c.name = op[t].name /\ c.idx = read_offset /\ c.count = 0 /\ c.written = 0 /\ c.seen = op[t].seen
  BY <1>1
<1>3. p \in Places BY DEF Places, Polling
<1>4. pc'[t] = p /\ op'[t] = c /\ haz'[t] = haz[t] /\ Only({t})
      /\ pc' \in [Tokens -> Places] /\ op' \in [Tokens -> CallType] /\ haz' \in [Tokens -> HazType]
  BY <1>3, Moved
<1>5. /\ Begin(t)' = Turn /\ ~Posting(t)' /\ ~Sender(t)' /\ ~Unaware(t)' /\ ~Reclaimer(t)' /\ Drawn(t)'
      /\ (Reader(t)' <=> p = "load_block") /\ Active(t)' = Active(t) /\ Field(t)' = Field(t)
  <2>1. Begin(t)' = Turn /\ ~Posting(t)' /\ Active(t)' = Active(t)
    BY <1>1, <1>2, <1>4 DEF Begin, Turn, Posting, Active
  <2> QED
    BY <1>1, <1>2, <1>4, <2>1 DEF Sender, Unaware, Reclaimer, Drawn, Reader, Field, Polling, Reclaiming, Scanning,
       Visiting, Announcing, Moves, Reading
<1>6. /\ Sold \in Nat /\ Turn \in Nat /\ Skip \in Nat /\ Skip <= Turn /\ write_offset \in Word
  BY Bounds, Types, OriginIs DEF Running
<1>7. /\ Calm({t}) /\ Resting /\ (\A b : First(b)' = First(b)) /\ First(ListHead)' = First(ListHead)
      /\ lock' = lock /\ Turn' \in Nat
  <2>1. {t} \in SUBSET Tokens /\ lock \notin {t} /\ write_offset' \in Word /\ Sold <= Sold'
    BY <1>1, <1>6 DEF Sold
  <2> QED BY <1>4, <2>1, Alongside
<1>8. Control(t)' /\ Closer(t)' /\ Sought(t)' /\ Parks(t)' /\ Acquires(t)' /\ Post(t)'
  <2>1. Control(t)'
    <3>1. Control(t) BY Parts
    <3> QED
      BY <1>1, <1>2, <1>4, <1>5, <1>7, <3>1 DEF Control, Named, Calling, Acquiring, Polling, Closing, Reclaiming,
         Writing, Posting, Scanning, Visiting, Announcing, Moves, Sweeping
  <2>2. Closer(t)' /\ Sought(t)' /\ Parks(t)' /\ Acquires(t)' /\ Post(t)'
    BY <1>4, <1>5 DEF Closer, Sweeping, Sought, Parks, Acquires, Post
  <2> QED BY <2>1, <2>2
<1>9. Pull(t)'
  <2>1. Skip <= Begin(t)' /\ Begin(t)' <= Turn' /\ (Reader(t)' => Begin(t)' < Turn')
    BY <1>5, <1>6, <1>7
  <2> QED BY <1>2, <1>4, <1>5, <2>1 DEF Pull
<1>10. Has(t)' /\ Met(t)'
  <2>1. Keeps(haz'[t], haz[t]) /\ haz'[t].active_offset = haz[t].active_offset BY <1>4 DEF Keeps
  <2>2. Has(t)' BY <1>1, <1>7, <2>1, HasStays
  <2>3. pc'[t] \notin Walking /\ haz'[t] = haz[t] BY <1>4 DEF Walking
  <2> QED BY <1>1, <1>5, <1>7, <2>2, <2>3, MetDraws
<1>11. Uses(t)'
  <2>1. From(t)' = From(t)
    <3>1. PICK b : b = haz[t][Field(t)] OBVIOUS
    <3>2. First(b)' = First(b) /\ haz'[t][Field(t)'] = b BY <1>4, <1>5, <1>7, <3>1
    <3> QED BY <3>1, <3>2 DEF From
  <2>2. Active(t)' <= Base(Begin(t)') BY <1>1, <1>5
  <2> QED BY <1>1, <1>4, <1>5, <1>7, <2>1, <2>2, UsesBetween
<1>12. Token(t)' BY <1>8, <1>9, <1>10, <1>11 DEF Token
<1> QED BY <1>1, <1>2, <1>4, <1>5, <1>12

\* A pull draws.
LEMMA DrawPullKeeps ==
  ASSUME Running, NEW t \in Tokens, Draw(t), op[t].name = "pull"
  PROVE  Running'
<1> HIDE DEF Running
<1>1. /\ pc[t] = "draw" /\ ~Posting(t)
      /\ UNCHANGED <<list, cutoff, counters, reclaim, setup>> /\ UNCHANGED elements /\ UNCHANGED haz
      /\ told' = told /\ under' = under /\ write_offset' = write_offset
      /\ read_offset' = Plus(read_offset, 1)
      /\ op' = [op EXCEPT ![t].idx = read_offset] /\ pc' = [pc EXCEPT ![t] = "load_block"]
  BY DEF Draw, Posting, clients, GoTo
<1>2. PICK c \in CallType : c = [op[t] EXCEPT !.idx = read_offset]
  <2>1. read_offset \in Word BY Types DEF Running
  <2> QED BY <2>1, Unmoved, Edited
<1>20. /\ c.name = op[t].name /\ c.idx = read_offset /\ c.count = op[t].count /\ c.written = op[t].written
       /\ c.seen = op[t].seen
  <2>1. op[t] \in CallType BY Parts
  <2> QED BY <1>2, <2>1 DEF CallType
<1>3. PICK h \in HazType : h = haz[t] BY Unmoved
<1>4. pc' = [pc EXCEPT ![t] = "load_block"] /\ op' = [op EXCEPT ![t] = c] /\ haz' = [haz EXCEPT ![t] = h]
  BY <1>1, <1>2, <1>3, Unmoved
<1>5. Only({t}) /\ pc'[t] \notin BeforeDraw /\ pc[t] \in BeforeDraw /\ op[t].count \in 0 .. MaxTicket
  <2>1. "load_block" \in Places BY DEF Places
  <2>2. Only({t}) /\ pc'[t] = "load_block" BY <1>4, <2>1, Moved
  <2> QED BY <1>1, <2>2, Draws DEF BeforeDraw
<1>6. /\ Sold \in Nat /\ Turn \in Nat /\ Top \in Nat /\ 4 * Top < WordMod /\ WordMod \in Nat
      /\ read_offset \in Word /\ write_offset \in Word /\ TypeOK
  BY Bounds, Types DEF Running
<1>7. /\ Turn + 1 <= Top
      /\ Turn + 1 + Cardinality(Pullers') <= Top /\ Cardinality(Pullers') <= MaxPull
      /\ Sold + Cardinality(TicketPairs') <= Skip + MaxTicket + (IF CutDrawn THEN 1 ELSE 0)
  BY <1>5, TurnBelow
<1>8. Turn' = Turn + 1 /\ read_offset' \in Word
  <2>1. Turn + 1 < WordMod BY <1>6, <1>7
  <2> QED BY <1>1, <1>6, <2>1, PosPlus DEF Turn
<1>9. /\ pc'[t] = "load_block" /\ op'[t] = c /\ lock # t
      /\ pc' \in [Tokens -> Places] /\ op' \in [Tokens -> CallType] /\ haz' \in [Tokens -> HazType]
      /\ c.name = op[t].name /\ c.count = op[t].count /\ c.written = 0 /\ c.seen = op[t].seen
      /\ Begin(t)' = Turn /\ ~Sender(t) /\ ~Reader(t) /\ ~Sender(t)' /\ Reader(t)' /\ Token(t)'
  <2>1. PICK p \in {"load_block", "load_woff"} : p = "load_block" OBVIOUS
  <2>2. pc' = [pc EXCEPT ![t] = p] /\ Turn <= Turn' /\ Turn < Turn' BY <1>4, <1>6, <1>8, <2>1
  <2>5. /\ pc[t] = "draw" /\ ~Posting(t) /\ p \in {"load_block", "load_woff"} /\ c \in CallType /\ h \in HazType
        /\ h = haz[t] /\ c.name = op[t].name /\ c.idx = read_offset /\ c.count = op[t].count
        /\ c.written = op[t].written /\ c.seen = op[t].seen
        /\ pc' = [pc EXCEPT ![t] = p] /\ op' = [op EXCEPT ![t] = c] /\ haz' = [haz EXCEPT ![t] = h]
        /\ UNCHANGED <<list, cutoff, counters, reclaim, setup>>
        /\ write_offset' = write_offset /\ read_offset' \in Word /\ Turn <= Turn'
    BY <1>1, <1>20, <1>3, <1>4, <1>8, <2>1, <2>2
  <2>6. /\ p = "load_woff" => op[t].name = "try_pull" /\ Turn' = Turn
        /\ p = "load_block" => op[t].name = "pull" /\ Turn < Turn'
    BY <1>6, <1>8, <2>1
  <2> QED BY <2>1, <2>5, <2>6, ReadTicket, Zenon
<1>10. Asking'
  <2>1. Sold' = Sold /\ CutDrawn' = CutDrawn
    <3>1. {t} \in SUBSET Tokens /\ lock \notin {t} /\ write_offset' \in Word /\ Sold <= Sold' /\ Turn <= Turn'
      BY <1>1, <1>6, <1>8, <1>9 DEF Sold
    <3>2. CutDrawn' = CutDrawn BY <1>1, <1>5, <1>8, <3>1, Alongside
    <3> QED BY <1>1, <3>2 DEF Sold
  <2>2. Turn' + Cardinality(Pullers') <= Top /\ Cardinality(Pullers') <= MaxPull BY <1>7, <1>8
  <2>3. Sold' + Cardinality(TicketPairs') <= Skip + MaxTicket + (IF CutDrawn' THEN 1 ELSE 0)
    BY <1>7, <2>1
  <2> QED BY <2>2, <2>3, Zenon DEF Asking
<1>11. /\ told' \in [Tokens -> BOOLEAN] /\ under' \in [Tokens -> Tokens \cup {Nobody}]
       /\ \A u \in Tokens : told'[u] => told[u]
  BY <1>1, <1>6 DEF TypeOK
<1>12. op'[t].written <= op'[t].count /\ op'[t].seen <= reclaim_counter BY <1>9, Parts
<1>13. op[t].name # "close" /\ op'[t].name # "close" /\ pc[t] \notin {"parked", "wake"} /\ pc'[t] \notin {"parked", "wake"}
       /\ Turn' <= Top
  BY <1>1, <1>7, <1>8, <1>9
<1> QED BY <1>1, <1>5, <1>8, <1>9, <1>10, <1>11, <1>12, <1>13, TakesNext

\* A try_pull looks at the next index.
LEMMA DrawTryPullKeeps ==
  ASSUME Running, NEW t \in Tokens, Draw(t), op[t].name = "try_pull"
  PROVE  Running'
<1> HIDE DEF Running
<1>1. /\ pc[t] = "draw" /\ ~Posting(t)
      /\ UNCHANGED <<list, cutoff, counters, reclaim, setup>> /\ UNCHANGED <<queue, counters, reclaim, setup>>
      /\ UNCHANGED haz
      /\ told' = told /\ under' = under /\ write_offset' = write_offset /\ read_offset' = read_offset
      /\ op' = [op EXCEPT ![t].idx = read_offset] /\ pc' = [pc EXCEPT ![t] = "load_woff"]
  BY DEF Draw, Posting, clients, GoTo, queue, offsets
<1>2. PICK c \in CallType : c = [op[t] EXCEPT !.idx = read_offset]
  <2>1. read_offset \in Word BY Types DEF Running
  <2> QED BY <2>1, Unmoved, Edited
<1>20. /\ c.name = op[t].name /\ c.idx = read_offset /\ c.count = op[t].count /\ c.written = op[t].written
       /\ c.seen = op[t].seen
  <2>1. op[t] \in CallType BY Parts
  <2> QED BY <1>2, <2>1 DEF CallType
<1>3. PICK h \in HazType : h = haz[t] BY Unmoved
<1>4. PICK p \in {"load_block", "load_woff"} : p = "load_woff" OBVIOUS
<1>5. pc' = [pc EXCEPT ![t] = p] /\ op' = [op EXCEPT ![t] = c] /\ haz' = [haz EXCEPT ![t] = h]
  BY <1>1, <1>2, <1>3, <1>4, Unmoved
<1>6. Turn' = Turn /\ Turn <= Turn' /\ read_offset' \in Word /\ TypeOK
  <2>1. Turn \in Nat /\ read_offset \in Word /\ TypeOK BY Types DEF Running
  <2> QED BY <1>1, <2>1 DEF Turn
<1>7. /\ pc'[t] = p /\ op'[t] = c /\ lock # t /\ Only({t})
      /\ c.name = op[t].name /\ c.count = op[t].count /\ c.written = 0 /\ c.seen = op[t].seen
      /\ Begin(t)' = Turn /\ ~Sender(t) /\ ~Reader(t) /\ ~Sender(t)' /\ ~Reader(t)' /\ Token(t)'
  <2>1. p # "load_block" /\ UNCHANGED <<list, cutoff, counters, reclaim, setup>> BY <1>1, <1>4
  <2>5. /\ pc[t] = "draw" /\ ~Posting(t) /\ p \in {"load_block", "load_woff"} /\ c \in CallType /\ h \in HazType
        /\ h = haz[t] /\ c.name = op[t].name /\ c.idx = read_offset /\ c.count = op[t].count
        /\ c.written = op[t].written /\ c.seen = op[t].seen
        /\ pc' = [pc EXCEPT ![t] = p] /\ op' = [op EXCEPT ![t] = c] /\ haz' = [haz EXCEPT ![t] = h]
        /\ UNCHANGED <<list, cutoff, counters, reclaim, setup>>
        /\ write_offset' = write_offset /\ read_offset' \in Word /\ Turn <= Turn'
    BY <1>1, <1>20, <1>3, <1>5, <1>6
  <2>6. /\ p = "load_woff" => op[t].name = "try_pull" /\ Turn' = Turn
        /\ p = "load_block" => op[t].name = "pull" /\ Turn < Turn'
    BY <1>6, <2>1
  <2>2. /\ pc'[t] = p /\ op'[t] = c /\ lock # t /\ Only({t})
        /\ c.name = op[t].name /\ c.count = op[t].count /\ c.written = 0 /\ c.seen = op[t].seen
        /\ Begin(t)' = Turn /\ ~Sender(t) /\ ~Reader(t) /\ ~Sender(t)' /\ (Reader(t)' <=> p = "load_block")
        /\ Token(t)'
    BY <2>5, <2>6, ReadTicket, Zenon
  <2> QED BY <2>1, <2>2
<1>8. Seen({t}) BY <1>1, <1>4, <1>7 DEF Seen, Owns, Takes, Suspended, Swept, Wakes
<1>9. p \in Places \ (BeforeDraw \cup Closing)
  BY <1>4 DEF Places, Polling, BeforeDraw, Closing, Sweeping
<1>10. told' \in [Tokens -> BOOLEAN] /\ under' \in [Tokens -> Tokens \cup {Nobody}]
       /\ \A u \in Tokens : told'[u] => told[u] \/ (closed = "closed" /\ Cut <= Turn)
  BY <1>1, <1>6 DEF TypeOK
<1>11. c.written <= c.count /\ c.seen <= reclaim_counter BY <1>7, Parts
<1>12. Control(t)' /\ Post(t)' /\ Pull(t)' /\ Sought(t)' /\ Parks(t)' /\ Has(t)' /\ Uses(t)' /\ Met(t)'
  BY <1>7 DEF Token
<1> QED BY <1>1, <1>5, <1>7, <1>8, <1>9, <1>10, <1>11, <1>12, CallStep
================================================================================
