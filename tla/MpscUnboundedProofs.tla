--------------------------- MODULE MpscUnboundedProofs ---------------------------
(***************************************************************************)
(* Safety of the MPSC list of blocks, for any number of producers, block   *)
(* size, word size and number of tickets.  A word stands for a position:   *)
(* how far it is from the start of the first block.  No position that the  *)
(* queue works with is as much as half the range of a word, so that they   *)
(* are compared as numbers.                                                *)
(***************************************************************************)
EXTENDS MpscUnbounded, WordArithmetic, SequenceTheorems

Skipped  == IndexOf(FirstTicket)
Pos(off) == (off - StartOf(FirstTicket)) % WordMod

\* Where blocks start, and where the one of a position does.
Starts  == { m \in Nat : m % BlockSize = 0 }
Base(m) == m - (m % BlockSize)

\* No ticket is after this, the closer's included.
Top == Skipped + MaxTicket + 1

First(b) == Pos(offset[b])       \* of the block's elements
Sold     == Pos(write_offset)    \* where the tickets that were drawn end
Turn     == Pos(read_offset)     \* the consumer's next one

\* A producer's tickets, and the first that it has not published.
Begin(p)  == Pos(idx[p])
Finish(p) == Begin(p) + count[p]
Ahead(p)  == Begin(p) + written[p] + (IF ppc[p] = "wake" THEN 1 ELSE 0)

Reclaiming == {"collect", "reset", "find_tail", "unlink", "relink"}
Tidying    == {"try_finish", "try_start", "move_hint", "read_cutoff"} \cup Reclaiming
AtElement  == {"suspend", "restore", "parked", "resume", "holding"}
Stopping   == {"check_closed", "spin"}
Starting   == {"load_hint", "load_write_block"}
Writing    == {"write", "cross", "wake"}
Posting    == Stopping \cup Starting \cup {"seek", "reserve"} \cup Writing
Drawing    == {"draw_cutoff", "set_cutoff"}
Placing    == Starting \cup {"seek", "sentinel"}

\* The list
OnList == blocks \ Unlinked
Lowest == IF oldHead = Null THEN head_block ELSE oldHead

\* There is an element for this position on the list, or there was.
Reaches(m) == \E b \in OnList : m < First(b) + BlockSize

\* The blocks on the list follow each other.
Linked ==
    /\ {Lowest, head_block} \subseteq OnList
    /\ \A b \in OnList : First(b) \in Starts /\ First(Lowest) <= First(b)
    /\ \A b, c \in OnList : First(b) = First(c) => b = c
    /\ \A b \in OnList : next[b] # Null =>
          next[b] \in OnList /\ First(next[b]) = First(b) + BlockSize
    /\ \A b, c \in OnList : next[b] = Null => First(c) <= First(b)
    /\ \A b \in OnList : First(b) + BlockSize * Len(unlinked) <= Top + First(Lowest)

\* The blocks that the consumer is moving hang together.
Moving ==
    /\ Unlinked \subseteq blocks
    /\ \A i, j \in 1 .. Len(unlinked) : unlinked[i] = unlinked[j] => i = j
    /\ BlockSize * Len(unlinked) <= First(Lowest)
    /\ \A i \in 1 .. Len(unlinked) :
          next[unlinked[i]] = IF i < Len(unlinked) THEN unlinked[i + 1]
                              ELSE IF cpc = "relink" THEN Null ELSE oldHead
    /\ cpc \in Reclaiming \ {"collect"} => unlinked # <<>>
    /\ cpc \in Reclaiming <=> oldHead # Null
    /\ cpc \notin Reclaiming => unlinked = <<>>
    /\ tail_block \in blocks
    /\ cpc = "find_tail" => tailBlock \in blocks
    /\ cpc \in {"unlink", "relink"} => tailBlock \in OnList

\* The heads are on the list, one behind the other.  What is pending is what
\* the head will be, and nobody starts before that any more.
Heads ==
    /\ {write_block, write_block_hint, read_block} \subseteq OnList
    /\ First(Lowest) <= First(head_block)
    /\ First(head_block) <= First(write_block)
    /\ First(head_block) <= First(write_block_hint)
    /\ cpc # "move_hint" => First(write_block) <= First(write_block_hint)
    /\ First(write_block) <= First(read_block)
    /\ First(write_block_hint) <= Sold
    /\ First(read_block) < Turn \/ First(read_block) = 0
    /\ pending_old_head # Null =>
          /\ pending_old_head = head_block /\ pending_new_head = write_block
          /\ Pos(pending_cutoff) <= Sold
    /\ cpc \in {"move_hint", "read_cutoff"} => pending_old_head = Null /\ write_block = rblock
    /\ cpc \in Tidying => rblock = read_block
    /\ cpc = "seek" => /\ rblock \in OnList
                       /\ First(read_block) <= First(rblock) /\ First(rblock) <= Turn
    /\ cpc \in AtElement => rblock \in OnList /\ First(rblock) = Base(Turn)

\* Tickets
\* The cutoff is where the tickets end until close() draws it.
Cutoff(cut) ==
    /\ Skipped <= Turn /\ Turn <= cut /\ cut <= Sold
    /\ cut <= Skipped + MaxTicket /\ Sold <= Top
    /\ taken = Turn - Skipped
    /\ closed_ready => closed /\ cut = Pos(write_closed_at) /\ cut < Sold
    /\ ~closed_ready => cut = Sold \/ \E p \in Producers : ppc[p] = "set_cutoff"
    /\ closed /\ ~closed_ready => \E p \in Producers : ppc[p] \in Drawing

Closer(p) == count[p] = 0 /\ ppc[p] # "idle"

\* There is one closer at most.
CloserOK(cut, p) ==
    /\ Closer(p) =>
          /\ ppc[p] \in Drawing \cup Placing \cup {"wake"}
          /\ closed
          /\ closed_ready <=> ppc[p] \notin Drawing
          /\ ppc[p] # "draw_cutoff" => Begin(p) = cut /\ cut < Sold
    /\ count[p] = 0 => written[p] = 0
Closers(cut) ==
    /\ \A p \in Producers : CloserOK(cut, p)
    /\ \A p, q \in Producers : Closer(p) /\ Closer(q) => p = q

\* Every ticket has one owner.
PostOK(cut, p) ==
    count[p] > 0 =>
        /\ ppc[p] \in Posting
        /\ written[p] < count[p]
        /\ ppc[p] \notin Writing => written[p] = 0
        /\ Finish(p) <= Sold
        /\ Finish(p) <= cut \/ cut < Begin(p)
        /\ ppc[p] \notin Stopping => Begin(p) < cut
        /\ Ahead(p) < Finish(p) => Turn <= Ahead(p)
Posts(cut) ==
    /\ \A p \in Producers : PostOK(cut, p)
    /\ \A p, q \in Producers :
          count[p] > 0 /\ count[q] > 0 /\ p # q =>
              Finish(p) <= Begin(q) \/ Finish(q) <= Begin(p)

\* Where a search is, and where the call writes.
Search(p) ==
    /\ ppc[p] \in {"seek", "reserve"} =>
          /\ {observed[p], walk[p]} \subseteq OnList
          /\ First(head_block) <= First(observed[p]) /\ First(observed[p]) <= First(walk[p])
          /\ pending_old_head # Null =>
                Begin(p) < Pos(pending_cutoff) \/ First(pending_new_head) <= First(observed[p])
    /\ ppc[p] = "seek" => First(walk[p]) <= Begin(p) /\ pblock[p] = Null
    /\ ppc[p] = "reserve" =>
          /\ First(walk[p]) < Finish(p)
          /\ pblock[p] \in OnList /\ First(pblock[p]) = Base(Begin(p))
          /\ First(pblock[p]) <= First(walk[p])
Place(p) ==
    /\ ppc[p] \in Starting \cup Stopping \cup Drawing \cup {"idle"} => pblock[p] = Null
    /\ ppc[p] \in {"write", "sentinel"} \/ (ppc[p] = "wake" /\ count[p] > 0) =>
          pblock[p] \in OnList /\ First(pblock[p]) = Base(Begin(p) + written[p])
    /\ ppc[p] = "cross" =>
          pblock[p] \in OnList /\ First(pblock[p]) + BlockSize = Begin(p) + written[p]
    /\ ppc[p] \in Writing /\ count[p] > 0 => Reaches(Finish(p) - 1)

Cursor == \A p \in Producers : Search(p) /\ Place(p)

\* Elements
\* The value of this position is published.
Done(cut, m) ==
    /\ m < cut
    /\ \A p \in Producers : ~(Ahead(p) <= m /\ m < Finish(p))

\* close() has placed the sentinel.
Placed == closed_ready /\ \A p \in Producers : ~(count[p] = 0 /\ ppc[p] \in Placing)
AtEnd(cut, m) == m = cut /\ Placed

\* What the flag says where nothing is published.
Asleep == cpc = "parked" /\ \A p \in Producers : ppc[p] # "wake"
Mark(cut, m) ==
    IF AtEnd(cut, m) THEN IF cpc = "restore" /\ m = Turn THEN "cons" ELSE "closed"
    ELSE IF m = Turn /\ Asleep THEN "cons" ELSE "empty"

\* What is in an element at or after the consumer's position.
CellOK(cut, m, flag, value) ==
    IF Done(cut, m)
       THEN /\ value = m - Skipped + 1
            /\ flag = "data" \/ (m = Turn /\ cpc = "holding" /\ flag = "cons")
       ELSE value = NoValue /\ flag = Mark(cut, m)

Cells(cut) ==
    /\ \A b \in OnList, i \in Index :
          IF First(b) + i < Turn THEN stored[b][i] = NoValue
          ELSE CellOK(cut, First(b) + i, flags[b][i], stored[b][i])
    /\ \A m \in Nat : Turn <= m /\ (Done(cut, m) \/ AtEnd(cut, m)) => Reaches(m)

\* And in the blocks that are not on the list.
Clean ==
    /\ \A b \in Block \ OnList, i \in Index : stored[b][i] = NoValue
    /\ cpc \in {"find_tail", "unlink", "relink"} => \A b \in Unlinked : flags[b] = Fresh

\* Why the consumer sleeps, and what it was resumed with.
Rousing(cut) ==
    /\ \A p, q \in Producers : ppc[p] = "wake" /\ ppc[q] = "wake" => p = q
    /\ \A p \in Producers : ppc[p] = "wake" =>
          cpc = "parked" /\ (count[p] > 0 => Begin(p) + written[p] = Turn)
    /\ Asleep => elem /\ ~Done(cut, Turn) /\ ~AtEnd(cut, Turn)
    /\ (cpc = "parked" /\ ~Asleep) \/ cpc = "resume" =>
          IF elem THEN Done(cut, Turn) ELSE AtEnd(cut, Turn)
    /\ cpc = "restore" \/ outcome = "CLOSED" => AtEnd(cut, Turn)
    /\ cpc = "holding" => Done(cut, Turn)
    /\ call = "pull" \/ cpc \in {"suspend", "restore", "parked", "resume"} => can_suspend

\* The invariant
Shape(cut) ==
    /\ Linked /\ Moving /\ Heads
    /\ Cutoff(cut) /\ Closers(cut) /\ Posts(cut) /\ Cursor
    /\ Cells(cut) /\ Clean /\ Rousing(cut)

Running == \E cut \in Nat : Shape(cut)

Destroyed ==
    /\ \A p \in Producers : ppc[p] = "gone"
    /\ blocks = {}
    /\ \A b \in Block, i \in Index : stored[b][i] = NoValue
    /\ outcome = "CLOSED" => closed_ready /\ read_offset = write_closed_at

Alive == cpc # "gone" /\ \A p \in Producers : ppc[p] # "gone"

IInv == TypeOK /\ IF cpc = "gone" THEN Destroyed ELSE Alive /\ Running

Going(cut) == TypeOK /\ Alive /\ Shape(cut)

\* A step leaves the blocks on the list where they are.
Grows == \A b \in OnList : b \in OnList' /\ First(b)' = First(b)

\* What is published, and whether the sentinel is placed, stays.
Stable(cut, cut2) ==
    \A m \in Nat : (Done(cut2, m)' <=> Done(cut, m)) /\ (AtEnd(cut2, m)' <=> AtEnd(cut, m))

\* Words and positions
\* The constants are numbers.
LEMMA Sizes ==
  /\ BlockSize \in Nat /\ BlockSize > 0 /\ WordMod \in Nat /\ WordMod > 0
  /\ FirstTicket \in Nat /\ FirstTicket < WordMod
  /\ MaxTicket \in Nat /\ 2 * (MaxTicket + BlockSize + 1) < WordMod
  /\ MaxBlocks \in Nat /\ MaxBlocks > 0 /\ MaxBulk \in Nat /\ MaxBulk > 0 /\ MaxBulk <= MaxTicket
  /\ WordMod % BlockSize = 0
  BY BlockAssumption, WordAssumption, StartAssumption, RangeAssumption, BoundAssumption

\* Blocks start a whole block apart.
LEMMA StartsApart ==
  /\ 0 \in Starts
  /\ \A a \in Starts : a \in Nat /\ a + BlockSize \in Starts
  /\ \A a, b \in Starts : a < b => a + BlockSize <= b
<1>1. BlockSize \in Nat /\ BlockSize > 0 BY Sizes
<1>2. 0 \in Starts BY <1>1 DEF Starts
<1>3. ASSUME NEW a \in Starts
      PROVE  a \in Nat /\ a + BlockSize \in Starts
  <2>1. a \in Nat /\ a % BlockSize = 0 BY DEF Starts
  <2>2. a \div BlockSize \in Nat /\ a = BlockSize * (a \div BlockSize) + (a % BlockSize)
    BY <1>1, <2>1, DivMod
  <2> DEFINE q == a \div BlockSize
  <2>3. q \in Nat /\ a = BlockSize * q BY <1>1, <2>1, <2>2
  <2> HIDE DEF q
  <2>4. a + BlockSize = BlockSize * (q + 1) + 0 /\ q + 1 \in Nat /\ 0 \in 0 .. BlockSize - 1
    BY <1>1, <2>3
  <2>5. (BlockSize * (q + 1) + 0) % BlockSize = 0 BY <1>1, <2>4, ModUnique
  <2> QED BY <1>1, <2>1, <2>4, <2>5 DEF Starts
<1>4. ASSUME NEW a \in Starts, NEW b \in Starts, a < b
      PROVE  a + BlockSize <= b
  <2>1. a \in Nat /\ b \in Nat /\ a % BlockSize = b % BlockSize BY DEF Starts
  <2> QED BY <1>1, <1>4, <2>1, ModApart
<1> QED BY <1>2, <1>3, <1>4

\* The start of a position's block.
LEMMA BaseOf ==
  ASSUME NEW m \in Nat
  PROVE  /\ Base(m) \in Starts /\ Base(m) \in Nat /\ Base(m) <= m /\ m < Base(m) + BlockSize
         /\ m % BlockSize = m - Base(m) /\ m - Base(m) \in Index
         /\ \A f \in Starts : f <= m /\ m < f + BlockSize => f = Base(m)
         /\ \A f \in Starts : f <= m => f <= Base(m)
         /\ \A f \in Starts : m < f => Base(m) + BlockSize <= f
<1>1. BlockSize \in Nat /\ BlockSize > 0 BY Sizes
<1> DEFINE q == m \div BlockSize
           r == m % BlockSize
<1>2. q \in Nat /\ r \in 0 .. BlockSize - 1 /\ m = BlockSize * q + r BY <1>1, DivMod
<1> HIDE DEF q, r
<1>3. Base(m) = m - r BY DEF Base, r
<1>4. Base(m) = BlockSize * q + 0 /\ Base(m) \in Nat /\ 0 \in 0 .. BlockSize - 1
  BY <1>1, <1>2, <1>3
<1>5. Base(m) \in Starts
  <2>1. (BlockSize * q + 0) % BlockSize = 0 BY <1>1, <1>2, <1>4, ModUnique
  <2> QED BY <1>4, <2>1 DEF Starts
<1>6. Base(m) <= m /\ m < Base(m) + BlockSize /\ r = m - Base(m) /\ r \in Index
  <2>1. r \in Nat /\ r < BlockSize BY <1>1, <1>2
  <2> QED BY <1>1, <1>2, <1>3, <1>4, <2>1 DEF Index
<1>7. ASSUME NEW f \in Starts
      PROVE  /\ f <= m /\ m < f + BlockSize => f = Base(m)
             /\ f <= m => f <= Base(m)
             /\ m < f => Base(m) + BlockSize <= f
  <2>1. f \in Nat /\ (f < Base(m) => f + BlockSize <= Base(m))
        /\ (Base(m) < f => Base(m) + BlockSize <= f)
    BY <1>5, StartsApart
  <2> QED BY <1>1, <1>4, <1>6, <2>1
<1> QED BY <1>4, <1>5, <1>6, <1>7 DEF r

\* Where the first block starts.
LEMMA Origin ==
  /\ StartOf(FirstTicket) \in Starts /\ StartOf(FirstTicket) \in Word
  /\ Skipped \in Index /\ Skipped \in Nat /\ Skipped < BlockSize
  /\ StartOf(FirstTicket) + Skipped = FirstTicket
<1>1. FirstTicket \in Nat /\ FirstTicket < WordMod /\ WordMod \in Nat /\ BlockSize \in Nat
  BY Sizes
<1>2. StartOf(FirstTicket) = Base(FirstTicket) BY DEF StartOf, IndexOf, Base
<1>3. Skipped = FirstTicket - Base(FirstTicket) BY <1>1, BaseOf DEF Skipped, IndexOf
<1>4. /\ Base(FirstTicket) \in Starts /\ Base(FirstTicket) \in Nat /\ Base(FirstTicket) <= FirstTicket
      /\ FirstTicket < Base(FirstTicket) + BlockSize /\ FirstTicket - Base(FirstTicket) \in Index
  BY <1>1, BaseOf
<1> QED BY <1>1, <1>2, <1>3, <1>4 DEF Word

\* A word's position, one way and the other.
LEMMA PosIs ==
  ASSUME NEW x \in Word
  PROVE  /\ Pos(x) \in Nat /\ Pos(x) < WordMod
         /\ x >= StartOf(FirstTicket) => Pos(x) = x - StartOf(FirstTicket)
         /\ x < StartOf(FirstTicket) => Pos(x) = x - StartOf(FirstTicket) + WordMod
<1> DEFINE o == StartOf(FirstTicket)
<1>1. o \in 0 .. WordMod - 1 /\ x \in 0 .. WordMod - 1 /\ WordMod \in Nat
  BY Origin, Sizes DEF Word
<1>2. Pos(x) = (x - o) % WordMod BY DEF Pos
<1> HIDE DEF o
<1>3. /\ o <= x => (x - o) % WordMod = x - o
      /\ x < o => (x - o) % WordMod = x - o + WordMod
  BY <1>1, ModMinus
<1> QED BY <1>1, <1>2, <1>3 DEF o

\* Different words have different positions.
LEMMA PosTells ==
  ASSUME NEW x \in Word, NEW y \in Word, Pos(x) = Pos(y)
  PROVE  x = y
<1> DEFINE o == StartOf(FirstTicket)
<1>1. o \in Nat /\ o < WordMod /\ x \in Nat /\ x < WordMod /\ y \in Nat /\ y < WordMod /\ WordMod \in Nat
  BY Origin, Sizes DEF Word
<1>2. /\ x >= o => Pos(x) = x - o
      /\ x < o => Pos(x) = x - o + WordMod
      /\ y >= o => Pos(y) = y - o
      /\ y < o => Pos(y) = y - o + WordMod
  BY PosIs
<1> HIDE DEF o
<1> QED BY <1>1, <1>2

\* Below the range of a word, positions add up.
LEMMA PosPlus ==
  ASSUME NEW x \in Word, NEW n \in Nat
  PROVE  /\ Plus(x, n) \in Word
         /\ Pos(x) + n < WordMod => Pos(Plus(x, n)) = Pos(x) + n
<1> DEFINE o == StartOf(FirstTicket)
           y == (x + n) % WordMod
<1>1. o \in Nat /\ o < WordMod /\ x \in Nat /\ x < WordMod /\ WordMod \in Nat /\ WordMod > 0
  BY Origin, Sizes DEF Word
<1>2. y \in Word /\ Plus(x, n) = y
  <2>1. x + n \in Nat BY <1>1
  <2>2. y \in 0 .. WordMod - 1 BY <1>1, <2>1, DivMod
  <2> QED BY <2>2 DEF Word, Plus
<1>3. /\ x >= o => Pos(x) = x - o
      /\ x < o => Pos(x) = x - o + WordMod
      /\ y >= o => Pos(y) = y - o
      /\ y < o => Pos(y) = y - o + WordMod
  BY <1>2, PosIs
<1> SUFFICES ASSUME Pos(x) + n < WordMod
             PROVE  Pos(y) = Pos(x) + n
  BY <1>2
<1>4. x + n < WordMod => y = x + n
  <2>1. CASE x + n < WordMod
    <3>1. x + n \in 0 .. WordMod - 1 /\ 0 \in 0 .. WordMod - 1 BY <1>1, <2>1
    <3>2. ((x + n) - 0) % WordMod = (x + n) - 0 BY <1>1, <3>1, ModMinus
    <3>3. (x + n) - 0 = x + n BY <1>1
    <3> QED BY <3>2, <3>3
  <2> QED BY <2>1
<1>5. x + n >= WordMod /\ x + n < 2 * WordMod => y = x + n - WordMod
  <2>1. CASE x + n >= WordMod /\ x + n < 2 * WordMod
    <3> DEFINE r == x + n - WordMod
    <3>1. r \in 0 .. WordMod - 1 /\ WordMod * 1 + r = x + n /\ 1 \in Nat BY <1>1, <2>1
    <3>2. (WordMod * 1 + r) % WordMod = r BY <1>1, <3>1, ModUnique
    <3> QED BY <3>1, <3>2
  <2> QED BY <2>1
<1>6. y \in Nat /\ y < WordMod BY <1>1, <1>2 DEF Word
<1> HIDE DEF o, y
<1> QED BY <1>1, <1>3, <1>4, <1>5, <1>6

\* Words of positions in one half of the range compare as the positions do.
LEMMA PosLess ==
  ASSUME NEW x \in Word, NEW y \in Word, 2 * Pos(x) < WordMod, 2 * Pos(y) < WordMod
  PROVE  CircularLess(x, y) <=> Pos(x) < Pos(y)
<1> DEFINE o == StartOf(FirstTicket)
           d == (x - y) % WordMod
<1>1. o \in Nat /\ o < WordMod /\ x \in Nat /\ x < WordMod /\ y \in Nat /\ y < WordMod /\ WordMod \in Nat
  BY Origin, Sizes DEF Word
<1>2. /\ x >= o => Pos(x) = x - o
      /\ x < o => Pos(x) = x - o + WordMod
      /\ y >= o => Pos(y) = y - o
      /\ y < o => Pos(y) = y - o + WordMod
      /\ Pos(x) \in Nat /\ Pos(y) \in Nat
  BY PosIs
<1>3. /\ y <= x => d = x - y
      /\ x < y => d = x - y + WordMod
  <2>1. x \in 0 .. WordMod - 1 /\ y \in 0 .. WordMod - 1 BY <1>1
  <2> QED BY <1>1, <2>1, ModMinus
<1>4. CircularLess(x, y) <=> 2 * d > WordMod BY DEF CircularLess
<1> HIDE DEF o, d
<1> QED BY <1>1, <1>2, <1>3, <1>4

\* The element and the block of a word.
LEMMA PlaceOf ==
  ASSUME NEW x \in Word
  PROVE  /\ IndexOf(x) = Pos(x) - Base(Pos(x)) /\ IndexOf(x) \in Index
         /\ StartOf(x) \in Word /\ Pos(StartOf(x)) = Base(Pos(x))
         /\ StartsBlock(x) <=> Base(Pos(x)) = Pos(x)
<1> DEFINE o == StartOf(FirstTicket)
           q == Base(x)
<1>1. /\ o \in Nat /\ o < WordMod /\ o \in Starts
      /\ x \in Nat /\ x < WordMod /\ WordMod \in Nat /\ WordMod > 0
      /\ BlockSize \in Nat /\ BlockSize > 0
  BY Origin, Sizes DEF Word
<1>2. /\ q \in Starts /\ q \in Nat /\ q <= x /\ x < q + BlockSize
      /\ IndexOf(x) = x - q /\ x - q \in Index
  BY <1>1, BaseOf DEF IndexOf
<1>3. StartOf(x) = q /\ q \in Word BY <1>1, <1>2 DEF StartOf, Word
<1>4. /\ x >= o => Pos(x) = x - o
      /\ x < o => Pos(x) = x - o + WordMod
      /\ q >= o => Pos(q) = q - o
      /\ q < o => Pos(q) = q - o + WordMod
      /\ Pos(x) \in Nat /\ Pos(q) \in Nat
  BY <1>3, PosIs
<1>5. q >= o <=> x >= o
  <2>1. q < o => q + BlockSize <= o BY <1>1, <1>2, StartsApart
  <2> QED BY <1>1, <1>2, <2>1
<1>6. Pos(q) = Pos(x) - (x - q) /\ Pos(q) <= Pos(x) /\ Pos(x) < Pos(q) + BlockSize
  BY <1>1, <1>2, <1>4, <1>5
<1>7. Pos(q) \in Starts
  <2>1. /\ q % BlockSize = 0 /\ o % BlockSize = 0 /\ WordMod % BlockSize = 0
    BY <1>1, <1>2, Sizes DEF Starts
  <2>2. \A a \in Nat : a % BlockSize = 0 => \E k \in Nat : a = BlockSize * k
    <3> SUFFICES ASSUME NEW a \in Nat, a % BlockSize = 0
                 PROVE  \E k \in Nat : a = BlockSize * k
      OBVIOUS
    <3>1. a \div BlockSize \in Nat /\ a = BlockSize * (a \div BlockSize) + (a % BlockSize)
      BY <1>1, DivMod
    <3> DEFINE k == a \div BlockSize
    <3>2. k \in Nat /\ a = BlockSize * k BY <1>1, <3>1
    <3> QED BY <3>2
  <2>3. PICK k \in Nat : q = BlockSize * k BY <1>2, <2>1, <2>2
  <2>4. PICK l \in Nat : o = BlockSize * l BY <1>1, <2>1, <2>2
  <2>5. PICK w \in Nat : WordMod = BlockSize * w BY <1>1, <2>1, <2>2
  <2> DEFINE n == IF q >= o THEN k - l ELSE k - l + w
  <2>6. n \in Int /\ Pos(q) = BlockSize * n BY <1>1, <1>2, <1>4, <2>3, <2>4, <2>5
  <2> HIDE DEF n
  <2>7. n \in Nat
    <3>1. CASE n < 0
      <4>1. -n \in Nat /\ 0 < -n /\ BlockSize * 0 + BlockSize <= BlockSize * (-n)
        BY <1>1, <2>6, <3>1, MulMono
      <4>2. BlockSize * (-n) = -(BlockSize * n) /\ BlockSize * 0 = 0 BY <1>1, <2>6
      <4> QED BY <1>1, <1>4, <2>6, <4>1, <4>2
    <3> QED BY <2>6, <3>1
  <2>8. (BlockSize * n + 0) % BlockSize = 0
    <3>1. 0 \in 0 .. BlockSize - 1 BY <1>1
    <3> QED BY <1>1, <2>7, <3>1, ModUnique
  <2>9. BlockSize * n + 0 = Pos(q) BY <1>4, <2>6
  <2> QED BY <1>4, <2>8, <2>9 DEF Starts
<1>8. Pos(q) = Base(Pos(x)) BY <1>4, <1>6, <1>7, BaseOf
<1>9. IndexOf(x) = Pos(x) - Base(Pos(x)) BY <1>1, <1>2, <1>4, <1>6, <1>8
<1> HIDE DEF q
<1> QED BY <1>2, <1>3, <1>4, <1>8, <1>9 DEF StartsBlock

\* The first ticket, and how many there are up to another.
LEMMA PosOfFirst ==
  /\ FirstTicket \in Word /\ Pos(FirstTicket) = Skipped
  /\ Pos(StartOf(FirstTicket)) = 0
  /\ Top \in Nat /\ 2 * Top < WordMod /\ Top = Skipped + MaxTicket + 1
<1>1. /\ StartOf(FirstTicket) \in Nat /\ StartOf(FirstTicket) \in Word
      /\ StartOf(FirstTicket) + Skipped = FirstTicket
      /\ Skipped \in Nat /\ Skipped < BlockSize
  BY Origin DEF Word
<1>2. FirstTicket \in Word BY Sizes DEF Word
<1>3. Pos(FirstTicket) = Skipped BY <1>1, <1>2, PosIs, Sizes
<1>4. Pos(StartOf(FirstTicket)) = 0
  <2> DEFINE o == StartOf(FirstTicket)
  <2>1. o >= o => Pos(o) = o - o BY <1>1, PosIs
  <2> QED BY <1>1, <2>1
<1> QED BY <1>1, <1>2, <1>3, <1>4, Sizes DEF Top

LEMMA Count ==
  ASSUME NEW x \in Word, Skipped <= Pos(x)
  PROVE  (x - FirstTicket) % WordMod = Pos(x) - Skipped
<1> DEFINE o == StartOf(FirstTicket)
<1>1. /\ o \in Nat /\ o < WordMod /\ x \in Nat /\ x < WordMod /\ WordMod \in Nat
      /\ o + Skipped = FirstTicket /\ FirstTicket \in Nat /\ FirstTicket < WordMod /\ Skipped \in Nat
  BY Origin, Sizes DEF Word
<1>2. /\ x >= o => Pos(x) = x - o
      /\ x < o => Pos(x) = x - o + WordMod
      /\ Pos(x) \in Nat
  BY PosIs
<1>3. /\ FirstTicket <= x => (x - FirstTicket) % WordMod = x - FirstTicket
      /\ x < FirstTicket => (x - FirstTicket) % WordMod = x - FirstTicket + WordMod
  <2>1. x \in 0 .. WordMod - 1 /\ FirstTicket \in 0 .. WordMod - 1 BY <1>1
  <2> QED BY <1>1, <2>1, ModMinus
<1> HIDE DEF o
<1> QED BY <1>1, <1>2, <1>3

\* What the variables are
LEMMA Types ==
  ASSUME TypeOK
  PROVE  /\ \A b \in Block : /\ offset[b] \in Word /\ First(b) \in Nat /\ First(b) < WordMod
                             /\ next[b] \in Block \cup {Null} /\ b # Null
         /\ {write_offset, write_closed_at, read_offset, pending_cutoff} \subseteq Word
         /\ {Sold, Turn, Pos(pending_cutoff), Pos(write_closed_at)} \subseteq Nat
         /\ \A p \in Producers :
               /\ idx[p] \in Word /\ count[p] \in Nat /\ written[p] \in Nat
               /\ {Begin(p), Finish(p), Ahead(p)} \subseteq Nat
               /\ Begin(p) < WordMod /\ Finish(p) = Begin(p) + count[p]
               /\ ppc[p] = "wake" => Ahead(p) = Begin(p) + written[p] + 1
               /\ ppc[p] # "wake" => Ahead(p) = Begin(p) + written[p]
         /\ blocks \subseteq Block /\ OnList \subseteq Block
         /\ unlinked \in Seq(Block) /\ Len(unlinked) \in Nat
<1>1. \A x \in Word : Pos(x) \in Nat /\ Pos(x) < WordMod BY PosIs
<1>2. ASSUME NEW b \in Block
      PROVE  /\ offset[b] \in Word /\ First(b) \in Nat /\ First(b) < WordMod
             /\ next[b] \in Block \cup {Null} /\ b # Null
  <2>1. offset[b] \in Word /\ next[b] \in Block \cup {Null} BY DEF TypeOK
  <2> QED BY <1>1, <2>1 DEF First, Block, Null
<1>3. {write_offset, write_closed_at, read_offset, pending_cutoff} \subseteq Word BY DEF TypeOK
<1>4. {Sold, Turn, Pos(pending_cutoff), Pos(write_closed_at)} \subseteq Nat
  BY <1>1, <1>3 DEF Sold, Turn
<1>5. ASSUME NEW p \in Producers
      PROVE  /\ idx[p] \in Word /\ count[p] \in Nat /\ written[p] \in Nat
             /\ {Begin(p), Finish(p), Ahead(p)} \subseteq Nat
             /\ Begin(p) < WordMod /\ Finish(p) = Begin(p) + count[p]
             /\ ppc[p] = "wake" => Ahead(p) = Begin(p) + written[p] + 1
             /\ ppc[p] # "wake" => Ahead(p) = Begin(p) + written[p]
  <2>1. idx[p] \in Word /\ count[p] \in Nat /\ written[p] \in Nat BY Sizes DEF TypeOK
  <2>2. Begin(p) \in Nat /\ Begin(p) < WordMod BY <1>1, <2>1 DEF Begin
  <2>3. /\ ppc[p] = "wake" => Ahead(p) = Begin(p) + written[p] + 1
        /\ ppc[p] # "wake" => Ahead(p) = Begin(p) + written[p]
    BY <2>1, <2>2 DEF Ahead
  <2>4. Ahead(p) \in Nat BY <2>1, <2>2, <2>3
  <2> QED BY <2>1, <2>2, <2>3, <2>4 DEF Finish
<1>6. blocks \subseteq Block /\ OnList \subseteq Block BY DEF TypeOK, OnList
<1>7. unlinked \in Seq(Block) /\ Len(unlinked) \in Nat BY DEF TypeOK
<1> QED BY <1>2, <1>3, <1>4, <1>5, <1>6, <1>7

\* How far the positions go.
LEMMA Bounds ==
  ASSUME NEW cut \in Nat, Going(cut)
  PROVE  /\ Skipped <= Turn /\ Turn <= cut /\ cut <= Sold /\ Sold <= Top
         /\ 2 * Turn < WordMod /\ 2 * Sold < WordMod /\ 2 * cut < WordMod
         /\ \A p \in Producers : count[p] > 0 => Begin(p) < Finish(p) /\ Finish(p) <= Sold
         /\ Lowest \in OnList /\ First(Lowest) <= Turn /\ BlockSize * Len(unlinked) \in Nat
         /\ \A b \in OnList : /\ First(b) \in Starts
                              /\ First(b) + BlockSize * Len(unlinked) <= 2 * Top
<1>1. /\ Skipped <= Turn /\ Turn <= cut /\ cut <= Sold /\ Sold <= Top
      /\ Turn \in Nat /\ Sold \in Nat /\ Top \in Nat /\ WordMod \in Nat /\ 2 * Top < WordMod
  BY Types, PosOfFirst, Sizes DEF Going, Shape, Cutoff
<1>2. ASSUME NEW p \in Producers, count[p] > 0
      PROVE  Begin(p) < Finish(p) /\ Finish(p) <= Sold
  BY <1>2, Types DEF Going, Shape, Posts, PostOK
<1>3. /\ Lowest \in OnList /\ \A b \in OnList : First(b) \in Starts
      /\ \A b \in OnList : First(b) + BlockSize * Len(unlinked) <= Top + First(Lowest)
  BY DEF Going, Shape, Linked
<1>4. First(Lowest) <= Turn
  <2>1. /\ {write_block, read_block} \subseteq OnList /\ head_block \in OnList
        /\ First(Lowest) <= First(head_block) /\ First(head_block) <= First(write_block)
        /\ First(write_block) <= First(read_block)
        /\ First(read_block) < Turn \/ First(read_block) = 0
    BY DEF Going, Shape, Heads, Linked
  <2>2. {First(Lowest), First(head_block), First(write_block), First(read_block)} \subseteq Nat
    BY <1>3, <2>1, Types DEF Going
  <2> QED BY <1>1, <2>1, <2>2
<1>5. Len(unlinked) \in Nat /\ BlockSize \in Nat /\ BlockSize * Len(unlinked) \in Nat
  BY Types, Sizes DEF Going
<1> DEFINE k == BlockSize * Len(unlinked)
<1>6. ASSUME NEW b \in OnList
      PROVE  First(b) + k <= 2 * Top
  <2>1. First(b) \in Nat /\ First(Lowest) \in Nat /\ First(b) + k <= Top + First(Lowest) /\ k \in Nat
    BY <1>3, <1>5, Types DEF Going
  <2> HIDE DEF k
  <2> QED BY <1>1, <1>4, <2>1
<1> QED BY <1>1, <1>2, <1>3, <1>4, <1>5, <1>6

\* The list
\* A block on the list leads to itself and those after it.
LEMMA Chain ==
  ASSUME TypeOK, Linked, NEW b \in OnList
  PROVE  ReachableFrom(b) = { c \in OnList : First(b) <= First(c) }
<1> DEFINE C == { c \in OnList : First(b) <= First(c) }
<1>1. OnList \subseteq blocks /\ \A c \in OnList : First(c) \in Nat /\ First(c) \in Starts
  BY Types DEF OnList, Linked
<1>2. C \in SUBSET blocks /\ b \in C BY <1>1
<1>3. ASSUME NEW d \in C, next[d] # Null
      PROVE  next[d] \in C
  <2>1. d \in OnList /\ next[d] \in OnList /\ First(next[d]) = First(d) + BlockSize
    BY <1>3 DEF Linked
  <2>2. First(d) \in Nat /\ First(next[d]) \in Nat /\ First(b) \in Nat /\ BlockSize \in Nat
    BY <1>1, <2>1, Sizes
  <2> QED BY <1>3, <2>1, <2>2
<1>4. ReachableFrom(b) \subseteq C BY <1>2, <1>3 DEF ReachableFrom
<1>5. ASSUME NEW S \in SUBSET blocks, b \in S, \A d \in S : next[d] # Null => next[d] \in S,
             NEW c \in C
      PROVE  c \in S
  <2> DEFINE T == { n \in Nat : \E x \in S : x \in OnList /\ First(x) <= First(c) /\ n = First(c) - First(x) }
  <2>1. First(c) - First(b) \in T BY <1>1, <1>5
  <2>2. PICK n \in T : \A m \in T : n <= m
    <3>1. T \subseteq Nat /\ T # {} BY <2>1
    <3> HIDE DEF T
    <3> QED BY <3>1, LeastOf
  <2>3. PICK x \in S : x \in OnList /\ First(x) <= First(c) /\ n = First(c) - First(x) OBVIOUS
  <2>4. First(x) \in Nat /\ First(c) \in Nat /\ First(x) \in Starts /\ First(c) \in Starts
    BY <1>1, <2>3
  <2>5. CASE First(x) = First(c)
    <3>1. x = c BY <1>5, <2>3, <2>5 DEF Linked
    <3> QED BY <3>1
  <2>6. CASE First(x) < First(c)
    <3>1. next[x] # Null BY <1>5, <2>3, <2>4, <2>6 DEF Linked
    <3>2. next[x] \in S /\ next[x] \in OnList /\ First(next[x]) = First(x) + BlockSize
      BY <1>5, <2>3, <3>1 DEF Linked
    <3>3. First(x) + BlockSize <= First(c) /\ BlockSize \in Nat /\ BlockSize > 0
      BY <2>4, <2>6, StartsApart, Sizes
    <3>4. First(c) - First(next[x]) \in T /\ First(c) - First(next[x]) < n
      BY <2>3, <2>4, <3>2, <3>3
    <3> HIDE DEF T
    <3> QED BY <2>2, <2>3, <2>4, <3>2, <3>3, <3>4
  <2> QED BY <2>3, <2>4, <2>5, <2>6
<1>6. C \subseteq ReachableFrom(b)
  <2> SUFFICES ASSUME NEW c \in C
               PROVE  c \in ReachableFrom(b)
    OBVIOUS
  <2>1. c \in blocks BY <1>1
  <2> QED BY <1>5, <2>1 DEF ReachableFrom
<1> QED BY <1>4, <1>6

LEMMA NewBlockIsNew ==
  ASSUME blocks \subseteq Block, blocks # Block
  PROVE  NewBlock \in Block \ blocks
<1> DEFINE T == Block \ blocks
<1>1. T \subseteq Nat /\ T # {}
  <2>1. \E b \in Block : b \notin blocks OBVIOUS
  <2> QED BY <2>1, Sizes DEF Block
<1>2. \E x \in T : \A y \in T : x <= y
  <2> HIDE DEF T
  <2> QED BY <1>1, LeastOf
<1> QED BY <1>2, Zenon DEF NewBlock

\* Different positions are in different elements.
LEMMA OneCell ==
  ASSUME TypeOK, Linked, NEW b \in OnList, NEW i \in Index, NEW c \in OnList, NEW j \in Index,
         First(b) + i = First(c) + j
  PROVE  b = c /\ i = j
<1>1. /\ First(b) \in Starts /\ First(c) \in Starts /\ First(b) \in Nat /\ First(c) \in Nat
      /\ i \in Nat /\ i < BlockSize /\ j \in Nat /\ j < BlockSize /\ BlockSize \in Nat
  <2>1. First(b) \in Starts /\ First(c) \in Starts /\ First(b) \in Nat /\ First(c) \in Nat
    BY Types DEF Linked
  <2> QED BY <2>1, Sizes DEF Index
<1>2. /\ First(b) < First(c) => First(b) + BlockSize <= First(c)
      /\ First(c) < First(b) => First(c) + BlockSize <= First(b)
  BY <1>1, StartsApart
<1>3. First(b) = First(c) /\ i = j BY <1>1, <1>2
<1> QED BY <1>3 DEF Linked

\* The block of a position, when the list gets that far.
LEMMA HasBlock ==
  ASSUME TypeOK, Linked, NEW m \in Nat, Reaches(m), NEW a \in OnList, First(a) <= m
  PROVE  \E b \in OnList : First(b) = Base(m)
<1> DEFINE T == { n \in Nat : \E x \in OnList : First(x) <= m /\ n = m - First(x) }
<1>1. \A c \in OnList : First(c) \in Nat /\ First(c) \in Starts BY Types DEF Linked
<1>2. m - First(a) \in T BY <1>1
<1>3. PICK n \in T : \A k \in T : n <= k
  <2>1. T \subseteq Nat /\ T # {} BY <1>2
  <2> HIDE DEF T
  <2> QED BY <2>1, LeastOf
<1>4. PICK x \in OnList : First(x) <= m /\ n = m - First(x) OBVIOUS
<1>5. m < First(x) + BlockSize
  <2> SUFFICES ASSUME First(x) + BlockSize <= m
               PROVE  FALSE
    BY <1>1, <1>4, Sizes
  <2>1. PICK b \in OnList : m < First(b) + BlockSize BY DEF Reaches
  <2>2. First(x) < First(b) BY <1>1, <1>4, <2>1, Sizes
  <2>3. next[x] # Null BY <1>1, <2>2 DEF Linked
  <2>4. next[x] \in OnList /\ First(next[x]) = First(x) + BlockSize BY <2>3 DEF Linked
  <2>5. m - First(next[x]) \in T /\ m - First(next[x]) < n BY <1>1, <1>4, <2>4, Sizes
  <2> HIDE DEF T
  <2> QED BY <1>1, <1>3, <1>4, <2>4, <2>5
<1>6. First(x) = Base(m) BY <1>1, <1>4, <1>5, BaseOf
<1> QED BY <1>6

\* What leaves a part of the invariant as it is
LEMMA GrowsAt ==
  ASSUME Grows, NEW b \in OnList
  PROVE  b \in OnList' /\ Pos(offset'[b]) = Pos(offset[b])
  BY DEF Grows, First

\* Nothing happens to the list.
LEMMA ListStays ==
  ASSUME UNCHANGED <<list, unlinked>>
  PROVE  /\ Grows /\ OnList' = OnList /\ Unlinked' = Unlinked
         /\ \A m : Reaches(m)' <=> Reaches(m)
         /\ \A b : First(b)' = First(b)
<1>1. blocks' = blocks /\ unlinked' = unlinked /\ offset' = offset BY DEF list
<1>2. OnList' = OnList /\ Unlinked' = Unlinked BY <1>1 DEF OnList, Unlinked
<1>3. \A b : First(b)' = First(b) BY <1>1 DEF First
<1>4. \A m : Reaches(m)' <=> Reaches(m) BY <1>2, <1>3, Zenon DEF Reaches
<1> QED BY <1>2, <1>3, <1>4 DEF Grows

LEMMA LinkedStays ==
  ASSUME Linked, UNCHANGED <<list, head_block, oldHead, unlinked>>
  PROVE  Linked'
<1>1. /\ blocks' = blocks /\ next' = next /\ offset' = offset /\ head_block' = head_block
      /\ oldHead' = oldHead /\ unlinked' = unlinked
  BY DEF list
<1> QED BY <1>1 DEF Linked, Lowest, OnList, Unlinked, First

\* Nothing is being moved, or it stays where it is.
LEMMA MovingStays ==
  ASSUME Moving, UNCHANGED <<list, head_block, oldHead, unlinked, tail_block, tailBlock>>,
         cpc' = cpc \/ {cpc, cpc'} \cap Reclaiming = {}
  PROVE  Moving'
<1>1. /\ blocks' = blocks /\ next' = next /\ offset' = offset /\ head_block' = head_block
      /\ oldHead' = oldHead /\ unlinked' = unlinked /\ tail_block' = tail_block
      /\ tailBlock' = tailBlock
  BY DEF list
<1>2. CASE cpc' = cpc BY <1>1, <1>2 DEF Moving, Lowest, OnList, Unlinked, First
<1>3. CASE {cpc, cpc'} \cap Reclaiming = {}
  <2>1. cpc \notin Reclaiming /\ cpc' \notin Reclaiming BY <1>3
  <2>2. /\ unlinked = <<>> /\ Len(unlinked) = 0 /\ oldHead = Null /\ tail_block \in blocks
        /\ Unlinked \subseteq blocks /\ BlockSize * Len(unlinked) <= First(Lowest)
    BY <2>1 DEF Moving
  <2>3. /\ Unlinked' = Unlinked
        /\ (BlockSize * Len(unlinked) <= First(Lowest))' <=> BlockSize * Len(unlinked) <= First(Lowest)
    BY <1>1 DEF Unlinked, Lowest, First
  <2>4. cpc' \notin {"find_tail", "unlink", "relink"} BY <2>1 DEF Reclaiming
  <2>5. \A i \in 1 .. Len(unlinked) : FALSE BY <2>2
  <2> QED BY <1>1, <2>1, <2>2, <2>3, <2>4, <2>5 DEF Moving
<1> QED BY <1>2, <1>3

\* A producer may append and move the hint forward, and draw tickets.
LEMMA HeadsStay ==
  ASSUME TypeOK, TypeOK', Linked, Heads, Grows, UNCHANGED <<write_block, consumer>>,
         Sold <= Sold',
         \/ write_block_hint' = write_block_hint
         \/ /\ write_block_hint' \in OnList /\ First(write_block_hint) <= Pos(offset[write_block_hint'])
            /\ Pos(offset[write_block_hint']) <= Sold
  PROVE  Heads'
<1>1. /\ write_block' = write_block /\ read_block' = read_block /\ read_offset' = read_offset
      /\ rblock' = rblock /\ head_block' = head_block /\ oldHead' = oldHead /\ cpc' = cpc
      /\ pending_old_head' = pending_old_head /\ pending_new_head' = pending_new_head
      /\ pending_cutoff' = pending_cutoff
  BY DEF consumer, reading, reclaim, pending
<1>2. /\ Lowest \in OnList /\ head_block \in OnList /\ Lowest' = Lowest
      /\ write_block \in OnList /\ read_block \in OnList /\ write_block_hint \in OnList
  BY <1>1 DEF Linked, Heads, Lowest
<1>3. /\ Sold \in Nat /\ Sold' \in Nat /\ Turn' = Turn
      /\ \A b \in OnList : First(b) \in Nat /\ b \in Block /\ First(b) = Pos(offset[b])
  <2>1. Sold \in Nat /\ \A b \in OnList : First(b) \in Nat /\ b \in Block BY Types
  <2>2. write_offset' \in Word BY DEF TypeOK
  <2>3. Sold' \in Nat BY <2>2, PosIs DEF Sold
  <2> QED BY <1>1, <2>1, <2>3 DEF First, Turn
<1>4. /\ write_block \in OnList' /\ read_block \in OnList' /\ write_block_hint' \in OnList'
      /\ First(Lowest)' = First(Lowest) /\ First(head_block)' = First(head_block)
      /\ First(write_block)' = First(write_block) /\ First(read_block)' = First(read_block)
      /\ First(write_block_hint)' \in Nat
      /\ First(write_block_hint) <= First(write_block_hint)' /\ First(write_block_hint)' <= Sold'
  <2>1. \A b \in OnList : b \in OnList' /\ Pos(offset'[b]) = Pos(offset[b]) BY GrowsAt
  <2>2. write_block_hint' \in OnList BY <1>2
  <2>3. First(write_block_hint)' = Pos(offset[write_block_hint']) BY <2>1, <2>2 DEF First
  <2>4. First(write_block_hint) <= Sold BY DEF Heads
  <2>5. First(write_block_hint) \in Nat /\ First(write_block_hint)' \in Nat
    BY <1>2, <1>3, <2>2, <2>3
  <2>6. First(write_block_hint) <= First(write_block_hint)' /\ First(write_block_hint)' <= Sold'
    <3>1. CASE write_block_hint' = write_block_hint BY <1>3, <2>3, <2>4, <2>5, <3>1 DEF First
    <3>2. CASE write_block_hint' # write_block_hint BY <1>3, <2>3, <2>5, <3>2
    <3> QED BY <3>1, <3>2
  <2> QED BY <1>1, <1>2, <2>1, <2>2, <2>5, <2>6 DEF First
<1>5. /\ {First(Lowest), First(head_block), First(write_block), First(write_block_hint), First(read_block)} \subseteq Nat
  BY <1>2, <1>3
<1>6. pending_old_head # Null => /\ pending_old_head = head_block /\ pending_new_head = write_block
                                 /\ Pos(pending_cutoff) <= Sold /\ Pos(pending_cutoff) \in Nat
  BY Types DEF Heads
<1>7. rblock \in OnList => rblock \in OnList' /\ First(rblock)' = First(rblock)
  BY <1>1, GrowsAt DEF First
<1> QED BY <1>1, <1>2, <1>3, <1>4, <1>5, <1>6, <1>7 DEF Heads

\* A producer that does nothing with the cutoff.
LEMMA CutoffStays ==
  ASSUME NEW cut, Cutoff(cut), UNCHANGED <<write_offset, read_offset, taken, cutoff>>,
         \A q \in Producers : ppc[q] \in Drawing => ppc'[q] = ppc[q]
  PROVE  Cutoff(cut)'
<1>1. /\ write_offset' = write_offset /\ read_offset' = read_offset /\ taken' = taken
      /\ closed' = closed /\ write_closed_at' = write_closed_at /\ closed_ready' = closed_ready
  BY DEF cutoff
<1>2. \A q \in Producers : ppc[q] = "set_cutoff" => ppc'[q] = "set_cutoff" BY DEF Drawing
<1>3. \A q \in Producers : ppc[q] \in Drawing => ppc'[q] \in Drawing OBVIOUS
<1> QED BY <1>1, <1>2, <1>3 DEF Cutoff, Sold, Turn

\* A producer moves, and the others do not.
LEMMA ClosersMove ==
  ASSUME NEW cut, Closers(cut), NEW p \in Producers, UNCHANGED <<write_offset, cutoff>>,
         \A q \in Producers : q # p =>
             ppc'[q] = ppc[q] /\ idx'[q] = idx[q] /\ count'[q] = count[q] /\ written'[q] = written[q],
         CloserOK(cut, p)', Closer(p)' => Closer(p)
  PROVE  Closers(cut)'
<1>1. /\ write_offset' = write_offset /\ closed' = closed /\ closed_ready' = closed_ready
  BY DEF cutoff
<1>2. ASSUME NEW q \in Producers, q # p
      PROVE  CloserOK(cut, q)' /\ (Closer(q)' <=> Closer(q))
  <2>1. CloserOK(cut, q) BY DEF Closers
  <2> QED BY <1>1, <1>2, <2>1 DEF CloserOK, Closer, Begin, Sold
<1>3. \A q \in Producers : CloserOK(cut, q)' /\ (Closer(q)' => Closer(q)) BY <1>2
<1> QED BY <1>3 DEF Closers

LEMMA PostsMove ==
  ASSUME NEW cut, Posts(cut), NEW p \in Producers, UNCHANGED <<write_offset, read_offset>>,
         \A q \in Producers : q # p =>
             ppc'[q] = ppc[q] /\ idx'[q] = idx[q] /\ count'[q] = count[q] /\ written'[q] = written[q],
         PostOK(cut, p)',
         count'[p] = 0 \/ (count'[p] = count[p] /\ idx'[p] = idx[p]), count'[p] \in Nat
  PROVE  Posts(cut)'
<1>1. ASSUME NEW q \in Producers, q # p
      PROVE  PostOK(cut, q)'
  <2>1. PostOK(cut, q) BY DEF Posts
  <2> QED BY <1>1, <2>1 DEF PostOK, Begin, Finish, Ahead, Sold, Turn
<1>2. \A q \in Producers : PostOK(cut, q)' BY <1>1
<1>3. ASSUME NEW q \in Producers, count'[q] > 0
      PROVE  count[q] > 0 /\ Begin(q)' = Begin(q) /\ Finish(q)' = Finish(q)
  <2>1. count'[q] = count[q] /\ idx'[q] = idx[q] BY <1>3
  <2> QED BY <1>3, <2>1 DEF Begin, Finish
<1>4. ASSUME NEW q \in Producers, NEW r \in Producers, count'[q] > 0, count'[r] > 0, q # r
      PROVE  Finish(q)' <= Begin(r)' \/ Finish(r)' <= Begin(q)'
  <2>1. Finish(q) <= Begin(r) \/ Finish(r) <= Begin(q) BY <1>3, <1>4 DEF Posts
  <2> QED BY <1>3, <1>4, <2>1
<1> QED BY <1>2, <1>4 DEF Posts

\* The consumer does nothing to the producers.
LEMMA ProducersStay ==
  ASSUME NEW cut, Closers(cut), UNCHANGED <<producer, write_offset, cutoff>>
  PROVE  /\ Closers(cut)'
         /\ \A q \in Producers : /\ Begin(q)' = Begin(q) /\ Finish(q)' = Finish(q) /\ Ahead(q)' = Ahead(q)
                                 /\ ppc'[q] = ppc[q] /\ count'[q] = count[q]
<1>1. /\ write_offset' = write_offset /\ closed' = closed /\ closed_ready' = closed_ready
      /\ ppc' = ppc /\ idx' = idx /\ count' = count /\ written' = written
  BY DEF cutoff, producer, locals
<1>2. \A q \in Producers : CloserOK(cut, q)' /\ (Closer(q)' <=> Closer(q))
  BY <1>1 DEF Closers, CloserOK, Closer, Begin, Sold
<1>3. Closers(cut)' BY <1>2 DEF Closers
<1> QED BY <1>1, <1>3 DEF Begin, Finish, Ahead

LEMMA ReachesMore ==
  ASSUME Grows, NEW m, Reaches(m)
  PROVE  Reaches(m)'
<1>1. PICK b \in OnList : m < First(b) + BlockSize BY DEF Reaches
<1>2. b \in OnList' /\ First(b)' = First(b) BY DEF Grows
<1> QED BY <1>1, <1>2 DEF Reaches

\* Who does nothing stays on the list.
LEMMA CursorStays ==
  ASSUME Linked, Heads, NEW q \in Producers, Search(q), Place(q), Grows, UNCHANGED <<head_block, pending>>,
         /\ ppc'[q] = ppc[q] /\ idx'[q] = idx[q] /\ count'[q] = count[q] /\ written'[q] = written[q]
         /\ observed'[q] = observed[q] /\ walk'[q] = walk[q] /\ pblock'[q] = pblock[q]
  PROVE  Search(q)' /\ Place(q)'
<1>1. /\ head_block' = head_block /\ pending_old_head' = pending_old_head
      /\ pending_new_head' = pending_new_head /\ pending_cutoff' = pending_cutoff
  BY DEF pending
<1>2. Begin(q)' = Begin(q) /\ Finish(q)' = Finish(q) BY DEF Begin, Finish
<1>3. \A b \in OnList : b \in OnList' /\ Pos(offset'[b]) = Pos(offset[b]) BY GrowsAt
<1>4. head_block \in OnList /\ (pending_old_head # Null => pending_new_head \in OnList)
  BY DEF Linked, Heads
<1>5. Search(q)' BY <1>1, <1>2, <1>3, <1>4 DEF Search, First
<1>6. PICK n : n = Finish(q) - 1 OBVIOUS
<1>7. Reaches(n) => Reaches(n)' BY ReachesMore
<1>8. Place(q)'
  <2>1. ppc'[q] \in Starting \cup Stopping \cup Drawing \cup {"idle"} => pblock'[q] = Null
    BY DEF Place
  <2>2. ppc'[q] \in {"write", "sentinel"} \/ (ppc'[q] = "wake" /\ count'[q] > 0) =>
          pblock'[q] \in OnList' /\ Pos(offset'[pblock'[q]]) = Base(Begin(q)' + written'[q])
    BY <1>2, <1>3 DEF Place, First
  <2>3. ppc'[q] = "cross" =>
          pblock'[q] \in OnList' /\ Pos(offset'[pblock'[q]]) + BlockSize = Begin(q)' + written'[q]
    BY <1>2, <1>3 DEF Place, First
  <2>4. ppc'[q] \in Writing /\ count'[q] > 0 => Reaches(n)' BY <1>6, <1>7 DEF Place
  <2> QED BY <1>2, <1>6, <2>1, <2>2, <2>3, <2>4 DEF Place, First
<1> QED BY <1>5, <1>8

LEMMA CursorMoves ==
  ASSUME Linked, Heads, Cursor, NEW p \in Producers, Grows, UNCHANGED <<head_block, pending>>,
         \A q \in Producers : q # p =>
             /\ ppc'[q] = ppc[q] /\ idx'[q] = idx[q] /\ count'[q] = count[q] /\ written'[q] = written[q]
             /\ observed'[q] = observed[q] /\ walk'[q] = walk[q] /\ pblock'[q] = pblock[q],
         Search(p)', Place(p)'
  PROVE  Cursor'
<1>1. ASSUME NEW q \in Producers, q # p
      PROVE  Search(q)' /\ Place(q)'
  BY <1>1, CursorStays DEF Cursor
<1> QED BY <1>1 DEF Cursor

LEMMA CursorsStay ==
  ASSUME Linked, Heads, Cursor, Grows, UNCHANGED <<head_block, pending, producer>>
  PROVE  Cursor'
<1>1. \A q \in Producers :
          /\ ppc'[q] = ppc[q] /\ idx'[q] = idx[q] /\ count'[q] = count[q] /\ written'[q] = written[q]
          /\ observed'[q] = observed[q] /\ walk'[q] = walk[q] /\ pblock'[q] = pblock[q]
  BY DEF producer, locals
<1>2. ASSUME NEW q \in Producers
      PROVE  Search(q)' /\ Place(q)'
  BY <1>1, CursorStays DEF Cursor
<1> QED BY <1>2 DEF Cursor

\* Elements that stay as they are
\* Nothing is published, and nobody comes or goes as a waker.
LEMMA IsStable ==
  ASSUME NEW cut, UNCHANGED <<idx, count, written, closed_ready>>,
         \A q \in Producers : ppc'[q] = "wake" <=> ppc[q] = "wake",
         \A q \in Producers : count[q] = 0 => (ppc'[q] \in Placing <=> ppc[q] \in Placing)
  PROVE  Stable(cut, cut)
<1>1. \A q \in Producers : Ahead(q)' = Ahead(q) /\ Finish(q)' = Finish(q)
  BY DEF Ahead, Finish, Begin
<1>2. \A m \in Nat : Done(cut, m)' <=> Done(cut, m) BY <1>1 DEF Done
<1>3. Placed' <=> Placed BY DEF Placed
<1>4. \A m \in Nat : AtEnd(cut, m)' <=> AtEnd(cut, m) BY <1>3 DEF AtEnd
<1> QED BY <1>2, <1>4 DEF Stable

LEMMA ProducersStable ==
  ASSUME NEW cut, UNCHANGED <<producer, cutoff>>
  PROVE  Stable(cut, cut)
<1>1. UNCHANGED <<idx, count, written, closed_ready>> /\ ppc' = ppc
  BY DEF producer, locals, cutoff
<1> QED BY <1>1, IsStable

LEMMA CellsStay ==
  ASSUME TypeOK, NEW cut, NEW cut2, Cells(cut), UNCHANGED <<list, unlinked, elements, read_offset>>,
         Stable(cut, cut2), Asleep' <=> Asleep, cpc' = "restore" <=> cpc = "restore",
         cpc = "holding" => cpc' = "holding"
  PROVE  Cells(cut2)'
<1>1. flags' = flags /\ stored' = stored /\ Turn' = Turn /\ OnList' = OnList
      /\ (\A b : First(b)' = First(b)) /\ (\A m : Reaches(m)' <=> Reaches(m))
  BY ListStays DEF elements, Turn
<1>2. ASSUME NEW m \in Nat, NEW f, NEW v, CellOK(cut, m, f, v)
      PROVE  CellOK(cut2, m, f, v)'
  <2>1. (Done(cut2, m)' <=> Done(cut, m)) /\ (AtEnd(cut2, m)' <=> AtEnd(cut, m)) BY DEF Stable
  <2>2. Mark(cut2, m)' = Mark(cut, m) BY <1>1, <2>1 DEF Mark
  <2> QED BY <1>1, <1>2, <2>1, <2>2 DEF CellOK
<1>3. ASSUME NEW b \in OnList, NEW i \in Index
      PROVE  IF First(b)' + i < Turn' THEN stored'[b][i] = NoValue
             ELSE CellOK(cut2, First(b) + i, flags[b][i], stored[b][i])'
  <2>1. First(b) + i \in Nat BY Types, Sizes DEF Index
  <2>2. IF First(b) + i < Turn THEN stored[b][i] = NoValue
        ELSE CellOK(cut, First(b) + i, flags[b][i], stored[b][i])
    BY DEF Cells
  <2>3. PICK m \in Nat : m = First(b) + i BY <2>1
  <2>4. PICK f, v : f = flags[b][i] /\ v = stored[b][i] OBVIOUS
  <2>5. First(b)' + i = m /\ flags'[b][i] = f /\ stored'[b][i] = v BY <1>1, <2>3, <2>4
  <2>6. ~(m < Turn) => CellOK(cut2, m, f, v)' BY <1>2, <2>2, <2>3, <2>4
  <2>7. m < Turn => v = NoValue BY <2>2, <2>3, <2>4
  <2> QED BY <1>1, <2>5, <2>6, <2>7
<1>4. ASSUME NEW m \in Nat, Turn <= m, (Done(cut2, m) \/ AtEnd(cut2, m))'
      PROVE  Reaches(m)
  BY <1>4 DEF Cells, Stable
<1> QED BY <1>1, <1>3, <1>4 DEF Cells

\* The blocks off the list are not written.
LEMMA CleanStays ==
  ASSUME Clean, UNCHANGED <<list, elements, unlinked>>,
         cpc' = cpc \/ cpc' \notin {"find_tail", "unlink", "relink"}
  PROVE  Clean'
<1>1. OnList' = OnList /\ Unlinked' = Unlinked /\ flags' = flags /\ stored' = stored
  BY ListStays DEF elements
<1> QED BY <1>1 DEF Clean

\* A producer that does not wake the consumer.
LEMMA RousingStays ==
  ASSUME TypeOK, NEW cut, NEW cut2, Rousing(cut), Stable(cut, cut2), UNCHANGED <<consumer, elem, can_suspend>>,
         \A q \in Producers : ppc'[q] = "wake" <=> ppc[q] = "wake",
         \A q \in Producers : ppc[q] = "wake" =>
             idx'[q] = idx[q] /\ count'[q] = count[q] /\ written'[q] = written[q]
  PROVE  Rousing(cut2)' /\ (Asleep' <=> Asleep)
<1>1. /\ read_offset' = read_offset /\ cpc' = cpc /\ call' = call /\ outcome' = outcome
      /\ elem' = elem /\ can_suspend' = can_suspend
  BY DEF consumer, reading
<1>2. PICK t \in Nat : t = Turn BY Types
<1>3. Turn' = t /\ (Asleep' <=> Asleep) BY <1>1, <1>2 DEF Turn, Asleep
<1>4. (Done(cut2, t)' <=> Done(cut, t)) /\ (AtEnd(cut2, t)' <=> AtEnd(cut, t)) BY DEF Stable
<1>5. /\ Asleep => elem /\ ~Done(cut, t) /\ ~AtEnd(cut, t)
      /\ (cpc = "parked" /\ ~Asleep) \/ cpc = "resume" => IF elem THEN Done(cut, t) ELSE AtEnd(cut, t)
      /\ cpc = "restore" \/ outcome = "CLOSED" => AtEnd(cut, t)
      /\ cpc = "holding" => Done(cut, t)
  BY <1>2 DEF Rousing
<1>6. /\ Asleep' => elem' /\ ~Done(cut2, t)' /\ ~AtEnd(cut2, t)'
      /\ (cpc' = "parked" /\ ~Asleep') \/ cpc' = "resume" => IF elem' THEN Done(cut2, t)' ELSE AtEnd(cut2, t)'
      /\ cpc' = "restore" \/ outcome' = "CLOSED" => AtEnd(cut2, t)'
      /\ cpc' = "holding" => Done(cut2, t)'
  BY <1>1, <1>3, <1>4, <1>5
<1>7. /\ Done(cut2, Turn)' <=> Done(cut2, t)'
      /\ AtEnd(cut2, Turn)' <=> AtEnd(cut2, t)'
  BY <1>3
<1>8. \A q \in Producers : ppc'[q] = "wake" =>
          cpc' = "parked" /\ (count'[q] > 0 => Begin(q)' + written'[q] = Turn')
  BY <1>1, <1>2, <1>3 DEF Rousing, Begin
<1>9. \A q, r \in Producers : ppc'[q] = "wake" /\ ppc'[r] = "wake" => q = r BY DEF Rousing
<1>10. call' = "pull" \/ cpc' \in {"suspend", "restore", "parked", "resume"} => can_suspend'
  BY <1>1 DEF Rousing
<1>11. /\ Asleep' => elem' /\ ~Done(cut2, Turn)' /\ ~AtEnd(cut2, Turn)'
       /\ (cpc' = "parked" /\ ~Asleep') \/ cpc' = "resume" => IF elem' THEN Done(cut2, Turn)' ELSE AtEnd(cut2, Turn)'
       /\ cpc' = "restore" \/ outcome' = "CLOSED" => AtEnd(cut2, Turn)'
       /\ cpc' = "holding" => Done(cut2, Turn)'
  BY <1>6, <1>7, Zenon
<1> QED
  <2>1. Rousing(cut2)' BY <1>8, <1>9, <1>10, <1>11, Zenon DEF Rousing
  <2> QED BY <1>3, <2>1

\* find_block(): a search goes on, or appends a block first
LEMMA Extend ==
  ASSUME NEW cut \in Nat, Going(cut), NEW b \in OnList, NEW c \in Block, Advance(b, c),
         First(b) + BlockSize <= Top,
         UNCHANGED <<stored, unlinked, head_block, oldHead, tail_block, tailBlock, read_offset, cpc>>,
         Stable(cut, cut), Asleep' <=> Asleep
  PROVE  /\ Grows /\ c \in OnList' /\ Pos(offset'[c]) = First(b) + BlockSize
         /\ Linked' /\ Moving' /\ Cells(cut)' /\ Clean'
         /\ blocks' \subseteq Block /\ next' \in [Block -> Block \cup {Null}]
         /\ offset' \in [Block -> Word] /\ flags' \in [Block -> [Index -> Flag]]
<1> USE DEF Going, Shape
<1>1. CASE next[b] # Null
  <2>1. c = next[b] /\ UNCHANGED <<list, flags>> BY <1>1 DEF Advance
  <2>2. UNCHANGED elements /\ UNCHANGED <<blocks, next, offset, flags>>
    BY <2>1 DEF elements, list
  <2>3. Grows /\ OnList' = OnList BY <2>1, ListStays
  <2>4. c \in OnList /\ First(c) = First(b) + BlockSize BY <1>1, <2>1 DEF Linked
  <2>5. Linked' BY <2>1, LinkedStays
  <2>6. Moving' BY <2>1, MovingStays
  <2>7. Cells(cut)' BY <2>1, <2>2, CellsStay
  <2>8. Clean' BY <2>1, <2>2, CleanStays
  <2> QED BY <2>2, <2>3, <2>4, <2>5, <2>6, <2>7, <2>8 DEF First, TypeOK
<1>2. CASE next[b] = Null
  <2>1. /\ blocks # Block /\ c = NewBlock
        /\ blocks' = blocks \cup {c}
        /\ next' = [next EXCEPT ![b] = c, ![c] = Null]
        /\ offset' = [offset EXCEPT ![c] = Plus(offset[b], BlockSize)]
        /\ flags' = [flags EXCEPT ![c] = Fresh]
    BY <1>2 DEF Advance
  <2>2. c \in Block \ blocks /\ b \in Block /\ b \in blocks /\ b # c
    BY <2>1, Types, NewBlockIsNew DEF OnList
  <2>3. /\ next \in [Block -> Block \cup {Null}] /\ offset \in [Block -> Word]
        /\ flags \in [Block -> [Index -> Flag]] /\ blocks \subseteq Block
        /\ Unlinked \subseteq blocks /\ Unlinked' = Unlinked
    BY DEF TypeOK, Moving, Unlinked
  <2>4. OnList' = OnList \cup {c} /\ c \notin OnList BY <2>1, <2>2, <2>3 DEF OnList
  <2>5. Plus(offset[b], BlockSize) \in Word /\ Pos(Plus(offset[b], BlockSize)) = First(b) + BlockSize
    <3>1. offset[b] \in Word /\ First(b) \in Nat BY <2>2, Types
    <3>2. First(b) + BlockSize < WordMod BY <3>1, Sizes, PosOfFirst
    <3> QED BY <3>1, <3>2, Sizes, PosPlus DEF First
  <2>6. /\ next'[c] = Null /\ next'[b] = c /\ offset'[c] = Plus(offset[b], BlockSize)
        /\ flags'[c] = Fresh
        /\ \A x \in Block : x # c /\ x # b => next'[x] = next[x]
        /\ \A x \in Block : x # c => offset'[x] = offset[x] /\ flags'[x] = flags[x]
    BY <2>1, <2>2, <2>3
  <2>7. Fresh \in [Index -> Flag] BY DEF Fresh, Flag
  <2>8. /\ blocks' \subseteq Block /\ next' \in [Block -> Block \cup {Null}]
        /\ offset' \in [Block -> Word] /\ flags' \in [Block -> [Index -> Flag]]
    BY <2>1, <2>2, <2>3, <2>5, <2>7
  <2>9. \A x \in OnList : x \in Block /\ x # c /\ First(x)' = First(x) /\ First(x) \in Nat /\ First(x) \in Starts
    BY <2>4, <2>6, Types DEF First, Linked
  <2>10. First(c)' = First(b) + BlockSize /\ First(c)' \in Starts /\ First(c)' \in Nat /\ BlockSize \in Nat
         /\ BlockSize > 0 /\ First(b) \in Nat
    BY <2>5, <2>6, <2>9, StartsApart, Sizes DEF First
  <2>11. Grows BY <2>4, <2>9 DEF Grows
  <2>12. \A x \in OnList : First(x) <= First(b) BY <1>2 DEF Linked
  <2>13. Lowest' = Lowest /\ Lowest \in OnList /\ head_block \in OnList BY DEF Lowest, Linked
  <2>14. First(Lowest)' = First(Lowest) /\ First(Lowest) \in Nat /\ First(Lowest) <= First(b)
    <3>1. First(Lowest)' = Pos(offset'[Lowest]) BY <2>13 DEF First
    <3>2. Pos(offset'[Lowest]) = Pos(offset[Lowest]) BY <2>11, <2>13, GrowsAt
    <3> QED BY <2>9, <2>12, <2>13, <3>1, <3>2 DEF First
  <2>15. Linked'
    <3>1. {Lowest', head_block'} \subseteq OnList' BY <2>4, <2>13
    <3>2. \A x \in OnList' : First(x)' \in Starts /\ First(Lowest)' <= First(x)'
      <4>1. \A x \in OnList : First(Lowest) <= First(x) BY DEF Linked
      <4> QED BY <2>4, <2>9, <2>10, <2>14, <4>1
    <3>3. \A x, y \in OnList' : First(x)' = First(y)' => x = y
      <4>1. \A x, y \in OnList : First(x) = First(y) => x = y BY DEF Linked
      <4> QED BY <2>4, <2>9, <2>10, <2>12, <4>1
    <3>4. \A x \in OnList' : next'[x] # Null => next'[x] \in OnList' /\ First(next[x])' = First(x)' + BlockSize
      <4> SUFFICES ASSUME NEW x \in OnList', next'[x] # Null
                   PROVE  next'[x] \in OnList' /\ Pos(offset'[next'[x]]) = First(x)' + BlockSize
        BY DEF First
      <4>1. x # c /\ x \in OnList BY <2>4, <2>6
      <4>2. CASE x = b BY <2>4, <2>6, <2>9, <2>10, <4>1, <4>2 DEF First
      <4>3. CASE x # b
        <5>1. next'[x] = next[x] /\ next[x] \in OnList /\ First(next[x]) = First(x) + BlockSize
          BY <2>6, <2>9, <4>1, <4>3 DEF Linked
        <5>2. Pos(offset'[next[x]]) = First(next[x]) BY <2>11, <5>1, GrowsAt DEF First
        <5> QED BY <2>4, <2>9, <4>1, <5>1, <5>2
      <4> QED BY <4>2, <4>3
    <3>5. \A x, y \in OnList' : next'[x] = Null => First(y)' <= First(x)'
      <4> SUFFICES ASSUME NEW x \in OnList', NEW y \in OnList', next'[x] = Null
                   PROVE  First(y)' <= First(x)'
        OBVIOUS
      <4>1. x = c
        <5> SUFFICES ASSUME x # c
                     PROVE  FALSE
          OBVIOUS
        <5>0. c # Null BY Types
        <5>1. x \in OnList /\ x # b /\ next[x] = Null BY <2>4, <2>6, <2>9, <5>0
        <5>2. First(b) <= First(x) /\ First(x) <= First(b) BY <2>12, <5>1 DEF Linked
        <5>3. First(x) = First(b) BY <2>9, <2>10, <5>1, <5>2
        <5> QED BY <5>1, <5>3 DEF Linked
      <4> QED BY <2>4, <2>9, <2>10, <2>12, <4>1
    <3>6. \A x \in OnList' : First(x)' + BlockSize * Len(unlinked)' <= Top + First(Lowest)'
      <4> DEFINE k == BlockSize * Len(unlinked)
      <4>1. k \in Nat /\ k <= First(Lowest) /\ BlockSize * Len(unlinked)' = k
        BY Bounds DEF Moving
      <4>2. \A x \in OnList : First(x) + k <= Top + First(Lowest) BY DEF Linked
      <4> HIDE DEF k
      <4>3. First(Lowest)' = First(Lowest) /\ First(Lowest) \in Nat /\ Top \in Nat
        BY <2>14, PosOfFirst
      <4>4. ASSUME NEW x \in OnList
            PROVE  First(x)' + k <= Top + First(Lowest)'
        <5>1. First(x)' = First(x) /\ First(x) + k <= Top + First(Lowest) BY <2>9, <4>2
        <5> QED BY <4>3, <5>1
      <4>5. First(c)' + k <= Top + First(Lowest)'
        <5>1. First(c)' = First(b) + BlockSize /\ First(b) + BlockSize <= Top /\ First(b) + BlockSize \in Nat
          BY <2>10
        <5> QED BY <4>1, <4>3, <5>1
      <4>6. \A x \in OnList' : First(x)' + k <= Top + First(Lowest)' BY <2>4, <4>4, <4>5
      <4> QED BY <4>1, <4>6
    <3> QED BY <3>1, <3>2, <3>3, <3>4, <3>5, <3>6 DEF Linked
  <2>16. Moving'
    <3>1. ASSUME NEW i \in 1 .. Len(unlinked)
          PROVE  next'[unlinked[i]] = next[unlinked[i]]
      <4>1. unlinked[i] \in Unlinked /\ unlinked[i] \in Block
        BY Types, ElementOfSeq DEF Unlinked
      <4>2. unlinked[i] # c /\ unlinked[i] # b BY <2>2, <2>3, <4>1 DEF OnList
      <4> QED BY <2>6, <4>1, <4>2
    <3>2. BlockSize * Len(unlinked) <= First(Lowest) BY DEF Moving
    <3>3. tail_block \in blocks' /\ (tailBlock \in blocks => tailBlock \in blocks')
          /\ (tailBlock \in OnList => tailBlock \in OnList') /\ Unlinked \subseteq blocks'
      BY <2>1, <2>3, <2>4 DEF Moving
    <3> QED BY <2>3, <2>14, <3>1, <3>2, <3>3 DEF Moving
  <2>17. \A m \in Nat : First(b) + BlockSize <= m => ~Reaches(m)
    BY <2>9, <2>10, <2>12 DEF Reaches
  <2>18. /\ Turn' = Turn /\ Turn \in Nat
         /\ \A m \in Nat : m = Turn /\ Asleep => Reaches(m)
    <3>1. Asleep => rblock \in OnList /\ First(rblock) = Base(Turn)
      BY DEF Asleep, Heads, AtElement
    <3>2. Turn \in Nat BY Types
    <3>3. Turn < Base(Turn) + BlockSize BY <3>2, BaseOf
    <3> QED BY <3>1, <3>2, <3>3 DEF Reaches, Turn
  <2>19. Cells(cut)'
    <3>1. ASSUME NEW m \in Nat, NEW f, NEW v, CellOK(cut, m, f, v)
          PROVE  CellOK(cut, m, f, v)'
      <4>1. (Done(cut, m)' <=> Done(cut, m)) /\ (AtEnd(cut, m)' <=> AtEnd(cut, m)) BY DEF Stable
      <4>2. Mark(cut, m)' = Mark(cut, m) BY <2>18, <4>1 DEF Mark
      <4> QED BY <2>18, <3>1, <4>1, <4>2 DEF CellOK
    <3>2. ASSUME NEW x \in OnList, NEW i \in Index
          PROVE  IF First(x)' + i < Turn' THEN stored'[x][i] = NoValue
                 ELSE CellOK(cut, First(x) + i, flags[x][i], stored[x][i])'
      <4>1. i \in Nat BY Sizes DEF Index
      <4>2. PICK m \in Nat : m = First(x) + i BY <2>9, <4>1
      <4>3. PICK f, v : f = flags[x][i] /\ v = stored[x][i] OBVIOUS
      <4>4. IF m < Turn THEN v = NoValue ELSE CellOK(cut, m, f, v) BY <4>2, <4>3 DEF Cells
      <4>5. First(x)' + i = m /\ flags'[x][i] = f /\ stored'[x][i] = v BY <2>6, <2>9, <4>2, <4>3
      <4> QED BY <2>18, <3>1, <4>4, <4>5
    <3>3. ASSUME NEW i \in Index
          PROVE  IF First(c)' + i < Turn' THEN stored'[c][i] = NoValue
                 ELSE CellOK(cut, First(c) + i, flags[c][i], stored[c][i])'
      <4>1. i \in Nat BY Sizes DEF Index
      <4>2. PICK m \in Nat : m = First(c)' + i BY <2>10, <4>1
      <4>3. stored'[c][i] = NoValue BY <2>2 DEF Clean, OnList
      <4>4. flags'[c][i] = "empty" BY <2>6 DEF Fresh
      <4>5. ~Reaches(m) BY <2>10, <2>17, <4>1, <4>2
      <4>6. ASSUME ~(m < Turn)
            PROVE  CellOK(cut, m, "empty", NoValue)'
        <5>1. ~Done(cut, m) /\ ~AtEnd(cut, m) /\ ~(m = Turn /\ Asleep)
          BY <2>18, <4>5, <4>6 DEF Cells
        <5>2. ~Done(cut, m)' /\ ~AtEnd(cut, m)' /\ ~(m = Turn' /\ Asleep')
          BY <2>18, <5>1 DEF Stable
        <5> QED BY <5>2 DEF CellOK, Mark
      <4> QED BY <2>18, <4>2, <4>3, <4>4, <4>6
    <3>4. ASSUME NEW m \in Nat, Turn' <= m, (Done(cut, m) \/ AtEnd(cut, m))'
          PROVE  Reaches(m)'
      <4>1. Reaches(m) BY <2>18, <3>4 DEF Cells, Stable
      <4> QED BY <2>11, <4>1, ReachesMore
    <3>5. \A x \in OnList', i \in Index :
             IF First(x)' + i < Turn' THEN stored'[x][i] = NoValue
             ELSE CellOK(cut, First(x) + i, flags[x][i], stored[x][i])'
      BY <2>4, <3>2, <3>3, Zenon
    <3> QED BY <3>4, <3>5 DEF Cells
  <2>20. Clean'
    <3>1. Block \ OnList' \subseteq Block \ OnList /\ \A x \in Unlinked : x # c /\ x \in Block
      BY <2>2, <2>3, <2>4
    <3> QED BY <2>3, <2>6, <3>1 DEF Clean
  <2> QED BY <2>4, <2>8, <2>10, <2>11, <2>15, <2>16, <2>19, <2>20 DEF First
<1> QED BY <1>1, <1>2

\* A producer on its way
\* It goes from one step of its call to another, and publishes nothing.
Walk(p) ==
    /\ UNCHANGED <<idx, count, written, write_offset, write_block, cutoff, consumer, elem, can_suspend>>
    /\ \A q \in Producers : q # p =>
          /\ ppc'[q] = ppc[q] /\ observed'[q] = observed[q]
          /\ walk'[q] = walk[q] /\ pblock'[q] = pblock[q]
    /\ {ppc[p], ppc'[p]} \cap (Drawing \cup {"idle", "wake", "gone"}) = {}
    /\ count[p] = 0 => (ppc'[p] \in Placing <=> ppc[p] \in Placing)

LEMMA WalkIsStable ==
  ASSUME NEW p \in Producers, NEW cut, Walk(p)
  PROVE  /\ Stable(cut, cut) /\ (Asleep' <=> Asleep)
         /\ \A q \in Producers : ppc'[q] = "wake" <=> ppc[q] = "wake"
<1>1. UNCHANGED <<idx, count, written, closed_ready>> /\ cpc' = cpc
  BY DEF Walk, cutoff, consumer
<1>2. ASSUME NEW q \in Producers
      PROVE  /\ ppc'[q] = "wake" <=> ppc[q] = "wake"
             /\ count[q] = 0 => (ppc'[q] \in Placing <=> ppc[q] \in Placing)
  <2>1. CASE q = p BY <2>1 DEF Walk
  <2>2. CASE q # p BY <2>2 DEF Walk
  <2> QED BY <2>1, <2>2
<1>3. Stable(cut, cut) BY <1>1, <1>2, IsStable
<1> QED BY <1>1, <1>2, <1>3 DEF Asleep

LEMMA WalkKeeps ==
  ASSUME NEW p \in Producers, NEW cut \in Nat, Going(cut), Walk(p), TypeOK',
         Grows, Linked', Moving', Cells(cut)', Clean',
         \/ write_block_hint' = write_block_hint
         \/ /\ write_block_hint' \in OnList /\ First(write_block_hint) <= Pos(offset[write_block_hint'])
            /\ Pos(offset[write_block_hint']) <= Sold,
         count[p] > 0 => /\ ppc'[p] \in Posting
                         /\ ppc'[p] \notin Writing => ppc[p] \notin Writing
                         /\ ppc'[p] \notin Stopping => Begin(p) < cut,
         Search(p)', Place(p)'
  PROVE  Going(cut)'
<1> USE DEF Going, Shape
<1>1. /\ idx' = idx /\ count' = count /\ written' = written /\ write_offset' = write_offset
      /\ UNCHANGED <<cutoff, consumer, elem, can_suspend>> /\ write_block' = write_block
      /\ UNCHANGED <<read_offset, taken, head_block, pending>> /\ cpc' = cpc
  BY DEF Walk, consumer, reading, reclaim
<1>2. \A q \in Producers : q # p =>
          /\ ppc'[q] = ppc[q] /\ observed'[q] = observed[q]
          /\ walk'[q] = walk[q] /\ pblock'[q] = pblock[q]
  BY DEF Walk
<1>3. /\ ppc[p] \notin Drawing /\ ppc[p] # "idle" /\ ppc[p] # "wake"
      /\ ppc'[p] \notin Drawing /\ ppc'[p] # "idle" /\ ppc'[p] # "wake" /\ ppc'[p] # "gone"
      /\ count[p] = 0 => (ppc'[p] \in Placing <=> ppc[p] \in Placing)
  BY DEF Walk
<1>4. Heads'
  <2>1. Sold <= Sold' BY <1>1, Types DEF Sold
  <2> QED BY <1>1, <2>1, HeadsStay
<1>5. Cutoff(cut)'
  <2>1. \A q \in Producers : ppc[q] \in Drawing => ppc'[q] = ppc[q] BY <1>2, <1>3
  <2> QED BY <1>1, <2>1, CutoffStays
<1>6. Closers(cut)'
  <2>1. CloserOK(cut, p) BY DEF Closers
  <2>2. Closer(p)' => Closer(p) BY <1>1, <1>3 DEF Closer
  <2>3. CloserOK(cut, p)'
    <3>1. UNCHANGED <<closed, closed_ready>> BY <1>1 DEF cutoff
    <3>2. Begin(p)' = Begin(p) /\ Sold' = Sold BY <1>1 DEF Begin, Sold
    <3>3. "draw_cutoff" \in Drawing /\ "wake" \notin Placing BY DEF Drawing, Placing, Starting
    <3>4. ppc[p] # "draw_cutoff" /\ (Closer(p) => ppc[p] \in Placing)
      BY <1>3, <2>1, <3>3 DEF CloserOK
    <3> QED BY <1>1, <1>3, <2>1, <2>2, <3>1, <3>2, <3>4 DEF CloserOK, Closer
  <2> QED BY <1>1, <1>2, <2>2, <2>3, ClosersMove
<1>7. Posts(cut)'
  <2>1. PostOK(cut, p) BY DEF Posts
  <2>2. PostOK(cut, p)'
    <3>1. /\ Begin(p)' = Begin(p) /\ Finish(p)' = Finish(p) /\ Ahead(p)' = Ahead(p)
          /\ Sold' = Sold /\ Turn' = Turn
      BY <1>1, <1>3 DEF Begin, Finish, Ahead, Sold, Turn
    <3> QED BY <1>1, <2>1, <3>1 DEF PostOK
  <2>3. count'[p] \in Nat BY <1>1, Types
  <2> QED BY <1>1, <1>2, <2>2, <2>3, PostsMove
<1>8. Cursor' BY <1>1, <1>2, CursorMoves
<1>9. Rousing(cut)'
  <2>1. Stable(cut, cut) /\ \A q \in Producers : ppc'[q] = "wake" <=> ppc[q] = "wake"
    BY WalkIsStable
  <2> QED BY <1>1, <2>1, RousingStays
<1>10. Alive'
  <2>1. \A q \in Producers : ppc'[q] # "gone" BY <1>2, <1>3 DEF Alive
  <2> QED BY <1>1, <2>1 DEF Alive
<1> QED BY <1>4, <1>5, <1>6, <1>7, <1>8, <1>9, <1>10

\* The list and the elements stay as well.
LEMMA StandKeeps ==
  ASSUME NEW p \in Producers, NEW cut \in Nat, Going(cut), Walk(p), TypeOK',
         UNCHANGED <<list, elements>>,
         \/ write_block_hint' = write_block_hint
         \/ /\ write_block_hint' \in OnList /\ First(write_block_hint) <= Pos(offset[write_block_hint'])
            /\ Pos(offset[write_block_hint']) <= Sold,
         count[p] > 0 => /\ ppc'[p] \in Posting
                         /\ ppc'[p] \notin Writing => ppc[p] \notin Writing
                         /\ ppc'[p] \notin Stopping => Begin(p) < cut,
         Search(p)', Place(p)'
  PROVE  Going(cut)'
<1>1. /\ UNCHANGED <<head_block, oldHead, unlinked, tail_block, tailBlock, read_offset>> /\ cpc' = cpc
  BY DEF Walk, consumer, reading, reclaim
<1>2. Grows BY <1>1, ListStays
<1>3. Linked' /\ Moving' /\ Clean'
  BY <1>1, LinkedStays, MovingStays, CleanStays DEF Going, Shape
<1>4. Cells(cut)' BY <1>1, WalkIsStable, CellsStay DEF Going, Shape
<1> QED BY <1>2, <1>3, <1>4, WalkKeeps

LEMMA GoesTo ==
  ASSUME TypeOK, NEW p \in Producers, NEW s, ppc' = [ppc EXCEPT ![p] = s]
  PROVE  ppc'[p] = s /\ \A q \in Producers : q # p => ppc'[q] = ppc[q]
  BY DEF TypeOK

\* What a producer is doing tells whether it posts or closes.
LEMMA Doing ==
  ASSUME NEW cut \in Nat, Going(cut), NEW p \in Producers
  PROVE  /\ ppc[p] \in Stopping \cup {"reserve", "write", "cross"} => count[p] > 0
         /\ ppc[p] \in Drawing \cup {"sentinel", "idle"} => count[p] = 0
         /\ count[p] = 0 => written[p] = 0
         /\ count[p] > 0 => PostOK(cut, p)
         /\ count[p] = 0 /\ ppc[p] # "idle" => closed
         /\ count[p] = 0 /\ ppc[p] \notin {"idle", "draw_cutoff"} => Begin(p) = cut /\ cut < Sold
         /\ PostOK(cut, p) /\ CloserOK(cut, p)
         /\ ~closed => cut = Sold
<1>1. /\ CloserOK(cut, p) /\ PostOK(cut, p) /\ count[p] \in Nat
      /\ \A q \in Producers : CloserOK(cut, q) /\ PostOK(cut, q) /\ count[q] \in Nat
  BY Types DEF Going, Shape, Closers, Posts
<1>2. ASSUME NEW q \in Producers, ppc[q] \in Drawing \cup {"sentinel", "idle"}
      PROVE  count[q] = 0
  <2>1. ppc[q] \notin Posting BY <1>2 DEF Posting, Stopping, Starting, Writing, Drawing
  <2> QED BY <1>1, <2>1 DEF PostOK
<1>3. ppc[p] \in Stopping \cup {"reserve", "write", "cross"} => count[p] > 0
  <2>1. ppc[p] \in Stopping \cup {"reserve", "write", "cross"} => ppc[p] \notin Drawing \cup Placing \cup {"wake", "idle"}
    BY DEF Stopping, Drawing, Placing, Starting
  <2>2. count[p] = 0 \/ count[p] > 0 BY <1>1
  <2> QED BY <1>1, <2>1, <2>2 DEF CloserOK, Closer
<1>4. ~closed => cut = Sold
  <2>1. ASSUME NEW q \in Producers, ppc[q] = "set_cutoff"
        PROVE  closed
    <3>1. count[q] = 0 /\ ppc[q] # "idle" BY <1>2, <2>1 DEF Drawing
    <3> QED BY <1>1, <3>1 DEF CloserOK, Closer
  <2> QED BY <2>1 DEF Going, Shape, Cutoff
<1> QED BY <1>1, <1>2, <1>3, <1>4 DEF CloserOK, Closer

LEMMA CheckClosedKeeps ==
  ASSUME NEW p \in Producers, NEW cut \in Nat, Going(cut), CheckClosed(p)
  PROVE  Going(cut)'
<1>1. /\ ppc[p] = "check_closed" /\ ppc' = [ppc EXCEPT ![p] = IF closed THEN "spin" ELSE "load_hint"]
      /\ UNCHANGED <<list, elements, write_offset, heads, cutoff, locals, consumer, elem, can_suspend>>
  BY DEF CheckClosed, GoTo
<1>2. TypeOK BY DEF Going
<1>3. ppc'[p] = (IF closed THEN "spin" ELSE "load_hint") /\ \A q \in Producers : q # p => ppc'[q] = ppc[q]
  BY <1>1, <1>2, GoesTo
<1>4. TypeOK'
  BY <1>1, <1>2 DEF TypeOK, list, elements, heads, cutoff, locals, consumer, reading, reclaim, pending, Function
<1>5. count[p] > 0 /\ (~closed => Begin(p) < cut)
  <2>1. count[p] > 0 /\ (~closed => cut = Sold) BY <1>1, Doing DEF Stopping
  <2> QED BY <2>1, Bounds, <1>2, Types
<1>6. Walk(p) BY <1>1, <1>3, <1>5 DEF Walk, locals, heads, Drawing
<1>7. ppc'[p] \in Posting /\ ppc[p] \notin Writing /\ (ppc'[p] \notin Stopping => Begin(p) < cut)
  BY <1>1, <1>3, <1>5 DEF Posting, Writing, Stopping, Starting
<1>8. Search(p)' /\ Place(p)'
  <2>1. Place(p) /\ pblock'[p] = pblock[p] BY <1>1 DEF locals, Going, Shape, Cursor
  <2>2. pblock'[p] = Null BY <1>1, <2>1 DEF Place, Stopping
  <2> QED BY <1>3, <2>2 DEF Search, Place, Writing
<1> QED BY <1>1, <1>4, <1>6, <1>7, <1>8, StandKeeps DEF heads

\* What a call leaves behind.
LEMMA Returns ==
  ASSUME TypeOK, NEW p \in Producers, Return(p)
  PROVE  /\ ppc'[p] = "idle" /\ idx'[p] = 0 /\ count'[p] = 0 /\ written'[p] = 0
         /\ pblock'[p] = Null
         /\ \A q \in Producers : q # p =>
               /\ ppc'[q] = ppc[q] /\ idx'[q] = idx[q] /\ count'[q] = count[q] /\ written'[q] = written[q]
               /\ observed'[q] = observed[q] /\ walk'[q] = walk[q] /\ pblock'[q] = pblock[q]
         /\ ppc' \in [Producers -> {"idle", "check_closed", "spin", "load_hint", "load_write_block", "seek",
                              "reserve", "write", "cross", "wake", "draw_cutoff", "set_cutoff",
                              "sentinel", "gone"}]
         /\ idx' \in [Producers -> Word] /\ count' \in [Producers -> 0 .. MaxBulk]
         /\ written' \in [Producers -> 0 .. MaxBulk]
         /\ {observed', walk', pblock'} \subseteq [Producers -> Block \cup {Null}]
<1>1. /\ ppc' = [ppc EXCEPT ![p] = "idle"]
      /\ idx' = [idx EXCEPT ![p] = 0] /\ count' = [count EXCEPT ![p] = 0]
      /\ written' = [written EXCEPT ![p] = 0]
      /\ observed' = [observed EXCEPT ![p] = Null]
      /\ walk' = [walk EXCEPT ![p] = Null] /\ pblock' = [pblock EXCEPT ![p] = Null]
  BY DEF Return, GoTo
<1>2. 0 \in Word /\ 0 \in 0 .. MaxBulk BY Sizes DEF Word
<1>3. /\ idx \in [Producers -> Word] /\ count \in [Producers -> 0 .. MaxBulk]
      /\ written \in [Producers -> 0 .. MaxBulk]
      /\ observed \in [Producers -> Block \cup {Null}] /\ walk \in [Producers -> Block \cup {Null}]
      /\ pblock \in [Producers -> Block \cup {Null}]
  BY DEF TypeOK
<1>4. /\ idx'[p] = 0 /\ count'[p] = 0 /\ written'[p] = 0 /\ pblock'[p] = Null
      /\ \A q \in Producers : q # p =>
               /\ idx'[q] = idx[q] /\ count'[q] = count[q] /\ written'[q] = written[q]
               /\ observed'[q] = observed[q] /\ walk'[q] = walk[q] /\ pblock'[q] = pblock[q]
  BY <1>1, <1>3
<1>5. /\ idx' \in [Producers -> Word] /\ count' \in [Producers -> 0 .. MaxBulk]
      /\ written' \in [Producers -> 0 .. MaxBulk]
      /\ {observed', walk', pblock'} \subseteq [Producers -> Block \cup {Null}]
  BY <1>1, <1>2, <1>3
<1>6. ppc'[p] = "idle" /\ \A q \in Producers : q # p => ppc'[q] = ppc[q] BY <1>1, GoesTo
<1>7. ppc' \in [Producers -> {"idle", "check_closed", "spin", "load_hint", "load_write_block", "seek",
                              "reserve", "write", "cross", "wake", "draw_cutoff", "set_cutoff",
                              "sentinel", "gone"}]
  BY <1>1 DEF TypeOK
<1> QED BY <1>4, <1>5, <1>6, <1>7

LEMMA ReturnParts ==
  ASSUME NEW p \in Producers, NEW cut \in Nat, Going(cut), Return(p), ppc[p] \notin Drawing \cup {"idle"},
         UNCHANGED <<list, unlinked, head_block, pending, write_offset, cutoff, read_offset, taken>>,
         cpc' # "gone"
  PROVE  Cutoff(cut)' /\ Closers(cut)' /\ Posts(cut)' /\ Cursor' /\ Alive'
<1> USE DEF Going, Shape
<1>1. /\ ppc'[p] = "idle" /\ idx'[p] = 0 /\ count'[p] = 0 /\ written'[p] = 0 /\ pblock'[p] = Null
      /\ \A q \in Producers : q # p =>
            /\ ppc'[q] = ppc[q] /\ idx'[q] = idx[q] /\ count'[q] = count[q] /\ written'[q] = written[q]
            /\ observed'[q] = observed[q] /\ walk'[q] = walk[q] /\ pblock'[q] = pblock[q]
  BY Returns
<1>2. Cutoff(cut)'
  <2>1. \A q \in Producers : ppc[q] \in Drawing => ppc'[q] = ppc[q] BY <1>1
  <2> QED BY <2>1, CutoffStays
<1>3. Closers(cut)'
  <2>1. CloserOK(cut, p)' /\ (Closer(p)' => Closer(p)) BY <1>1 DEF CloserOK, Closer
  <2> QED BY <1>1, <2>1, ClosersMove
<1>4. Posts(cut)'
  <2>1. PostOK(cut, p)' /\ count'[p] \in Nat BY <1>1 DEF PostOK
  <2> QED BY <1>1, <2>1, PostsMove
<1>5. Cursor'
  <2>1. Search(p)' /\ Place(p)' BY <1>1 DEF Search, Place, Writing
  <2>2. Grows BY ListStays
  <2> QED BY <1>1, <2>1, <2>2, CursorMoves
<1>6. Alive'
  <2>1. \A q \in Producers : ppc'[q] # "gone" BY <1>1 DEF Alive
  <2> QED BY <2>1 DEF Alive
<1> QED BY <1>2, <1>3, <1>4, <1>5, <1>6

\* Below the cutoff nothing changes hands.
LEMMA IsStableWhen ==
  ASSUME NEW cut \in Nat, NEW p \in Producers, closed_ready' = closed_ready,
         \A q \in Producers : q # p =>
            ppc'[q] = ppc[q] /\ idx'[q] = idx[q] /\ count'[q] = count[q] /\ written'[q] = written[q],
         \A m \in Nat : m < cut =>
            ((Ahead(p)' <= m /\ m < Finish(p)') <=> (Ahead(p) <= m /\ m < Finish(p))),
         (count'[p] = 0 /\ ppc'[p] \in Placing) <=> (count[p] = 0 /\ ppc[p] \in Placing)
  PROVE  Stable(cut, cut)
<1>1. \A q \in Producers : q # p => Ahead(q)' = Ahead(q) /\ Finish(q)' = Finish(q)
  BY DEF Ahead, Finish, Begin
<1>2. ASSUME NEW m \in Nat
      PROVE  Done(cut, m)' <=> Done(cut, m)
  <2>1. CASE m < cut
    <3>1. \A q \in Producers : (Ahead(q)' <= m /\ m < Finish(q)') <=> (Ahead(q) <= m /\ m < Finish(q))
      BY <1>1, <2>1
    <3> QED BY <3>1, Zenon DEF Done
  <2>2. CASE ~(m < cut) BY <2>2 DEF Done
  <2> QED BY <2>1, <2>2
<1>3. Placed' <=> Placed
  <2>1. \A q \in Producers : (count'[q] = 0 /\ ppc'[q] \in Placing) <=> (count[q] = 0 /\ ppc[q] \in Placing)
    OBVIOUS
  <2> QED BY <2>1, Zenon DEF Placed
<1>4. \A m \in Nat : AtEnd(cut, m)' <=> AtEnd(cut, m) BY <1>3 DEF AtEnd
<1> QED BY <1>2, <1>4 DEF Stable

\* Whether it is turned away.
LEMMA CutoffTells ==
  ASSUME NEW cut \in Nat, Going(cut), NEW p \in Producers, count[p] > 0, closed_ready
  PROVE  /\ TurnedAway(p) => cut < Begin(p)
         /\ ~TurnedAway(p) => Begin(p) < cut
<1>1. /\ idx[p] \in Word /\ write_closed_at \in Word /\ Begin(p) \in Nat /\ Pos(write_closed_at) = cut
      /\ Sold \in Nat /\ Finish(p) \in Nat
  BY Types DEF Going, Shape, Cutoff
<1>2. Begin(p) < Finish(p) /\ Finish(p) <= Sold /\ 2 * Sold < WordMod /\ 2 * cut < WordMod
  BY Bounds
<1>3. Plus(idx[p], 1) \in Word /\ Pos(Plus(idx[p], 1)) = Begin(p) + 1
  <2>1. Begin(p) + 1 < WordMod BY <1>1, <1>2, Sizes
  <2> QED BY <1>1, <2>1, PosPlus DEF Begin
<1>4. TurnedAway(p) <=> cut < Begin(p) + 1
  <2>1. 2 * (Begin(p) + 1) < WordMod BY <1>1, <1>2, Sizes
  <2> QED BY <1>1, <1>2, <1>3, <2>1, PosLess DEF TurnedAway
<1>5. Finish(p) <= cut \/ cut < Begin(p) BY DEF Going, Shape, Posts, PostOK
<1> QED BY <1>1, <1>2, <1>4, <1>5

LEMMA CompareCutoffKeeps ==
  ASSUME NEW p \in Producers, NEW cut \in Nat, Going(cut), CompareCutoff(p)
  PROVE  Going(cut)'
<1> USE DEF Going, Shape
<1>1. /\ ppc[p] = "spin" /\ closed_ready
      /\ UNCHANGED <<list, elements, write_offset, heads, cutoff, consumer, elem, can_suspend>>
      /\ IF TurnedAway(p) THEN Return(p) ELSE ppc' = [ppc EXCEPT ![p] = "load_hint"] /\ UNCHANGED locals
  BY DEF CompareCutoff, GoTo
<1>2. count[p] > 0 /\ (TurnedAway(p) => cut < Begin(p)) /\ (~TurnedAway(p) => Begin(p) < cut)
  <2>1. count[p] > 0 BY <1>1, Doing DEF Stopping
  <2> QED BY <1>1, <2>1, CutoffTells
<1>3. CASE ~TurnedAway(p)
  <2>1. ppc'[p] = "load_hint" /\ \A q \in Producers : q # p => ppc'[q] = ppc[q]
    BY <1>1, <1>3, GoesTo
  <2>2. TypeOK'
    BY <1>1, <1>3 DEF TypeOK, list, elements, heads, cutoff, locals, consumer, reading, reclaim, pending, Function
  <2>3. Walk(p) BY <1>1, <1>2, <1>3, <2>1 DEF Walk, locals, heads, Drawing
  <2>4. ppc'[p] \in Posting /\ ppc[p] \notin Writing /\ Begin(p) < cut
    BY <1>1, <1>2, <1>3, <2>1 DEF Posting, Writing, Starting
  <2>5. Search(p)' /\ Place(p)'
    <3>1. Place(p) /\ pblock'[p] = pblock[p] BY <1>1, <1>3 DEF locals, Cursor
    <3>2. pblock'[p] = Null BY <1>1, <3>1 DEF Place, Stopping
    <3> QED BY <2>1, <3>2 DEF Search, Place, Writing
  <2> QED BY <1>1, <2>2, <2>3, <2>4, <2>5, StandKeeps DEF heads
<1>4. CASE TurnedAway(p)
  <2>1. Return(p) /\ cut < Begin(p) BY <1>1, <1>2, <1>4
  <2>2. /\ UNCHANGED <<unlinked, head_block, oldHead, tail_block, tailBlock, pending, read_offset, taken>>
        /\ UNCHANGED <<write_block, write_block_hint>> /\ cpc' = cpc /\ closed_ready' = closed_ready
    BY <1>1 DEF consumer, reading, reclaim, heads, cutoff
  <2>3. TypeOK'
    BY <1>1, <2>1, Returns DEF TypeOK, list, elements, heads, cutoff, consumer, reading, reclaim, pending, Function
  <2>4. Cutoff(cut)' /\ Closers(cut)' /\ Posts(cut)' /\ Cursor' /\ Alive'
    <3>1. ppc[p] \notin Drawing \cup {"idle"} /\ cpc' # "gone" BY <1>1, <2>2 DEF Drawing, Alive
    <3> QED BY <1>1, <2>1, <2>2, <3>1, ReturnParts
  <2>5. Linked' /\ Moving' /\ Clean' /\ Grows
    BY <1>1, <2>2, LinkedStays, MovingStays, CleanStays, ListStays
  <2>6. Heads'
    <3>1. Sold <= Sold' BY <1>1, Types DEF Sold
    <3> QED BY <1>1, <2>2, <2>3, <2>5, <3>1, HeadsStay
  <2>7. Stable(cut, cut)
    <3>1. \A q \in Producers : q # p =>
            ppc'[q] = ppc[q] /\ idx'[q] = idx[q] /\ count'[q] = count[q] /\ written'[q] = written[q]
      BY <2>1, Returns
    <3>2. count'[p] = 0 /\ ppc'[p] = "idle" /\ written'[p] = 0 /\ idx'[p] = 0 BY <2>1, Returns
    <3>3. Pos(0) \in Nat BY PosIs, Sizes DEF Word
    <3>4. Ahead(p)' = Pos(0) /\ Finish(p)' = Pos(0) BY <3>2, <3>3 DEF Ahead, Finish, Begin
    <3>5. Begin(p) \in Nat /\ Ahead(p) = Begin(p) + written[p] /\ written[p] \in Nat
      BY <1>1, Types
    <3>6. \A m \in Nat : m < cut =>
             ((Ahead(p)' <= m /\ m < Finish(p)') <=> (Ahead(p) <= m /\ m < Finish(p)))
      BY <2>1, <3>3, <3>4, <3>5
    <3>7. (count'[p] = 0 /\ ppc'[p] \in Placing) <=> (count[p] = 0 /\ ppc[p] \in Placing)
      BY <1>2, <3>2 DEF Placing, Starting
    <3> QED BY <2>2, <3>1, <3>6, <3>7, IsStableWhen
  <2>8. \A q \in Producers : ppc'[q] = "wake" <=> ppc[q] = "wake" BY <1>1, <2>1, Returns
  <2>9. Rousing(cut)' /\ (Asleep' <=> Asleep)
    <3>1. \A q \in Producers : ppc[q] = "wake" =>
             idx'[q] = idx[q] /\ count'[q] = count[q] /\ written'[q] = written[q]
      BY <1>1, <2>1, Returns
    <3> QED BY <1>1, <2>7, <2>8, <3>1, RousingStays
  <2>10. Cells(cut)' BY <1>1, <2>2, <2>7, <2>9, CellsStay
  <2> QED BY <2>3, <2>4, <2>5, <2>6, <2>9, <2>10
<1> QED BY <1>3, <1>4

\* A search has its ticket, and the consumer is not past it.
LEMMA Searching ==
  ASSUME NEW cut \in Nat, Going(cut), NEW p \in Producers,
         ppc[p] \in Starting \cup {"seek", "reserve", "sentinel"}
  PROVE  /\ idx[p] \in Word /\ Begin(p) \in Nat /\ written[p] = 0 /\ Ahead(p) = Begin(p)
         /\ Turn <= Begin(p) /\ Begin(p) < Sold /\ Begin(p) <= cut
         /\ 2 * (Begin(p) + 1) < WordMod /\ Begin(p) < Top
         /\ count[p] > 0 => Begin(p) < cut /\ PostOK(cut, p)
         /\ count[p] = 0 => Begin(p) = cut
<1>1. /\ idx[p] \in Word /\ Begin(p) \in Nat /\ Finish(p) \in Nat /\ Ahead(p) = Begin(p) + written[p]
      /\ count[p] \in Nat /\ Sold \in Nat /\ Turn \in Nat /\ Finish(p) = Begin(p) + count[p]
      /\ written[p] \in Nat
  <2>1. ppc[p] # "wake" BY DEF Starting
  <2> QED BY <2>1, Types DEF Going
<1>2. /\ Turn <= cut /\ cut <= Sold /\ Sold <= Top /\ 2 * Sold < WordMod
      /\ count[p] > 0 => Begin(p) < Finish(p) /\ Finish(p) <= Sold
  BY Bounds
<1>3. /\ count[p] = 0 => Begin(p) = cut /\ cut < Sold /\ written[p] = 0
      /\ count[p] > 0 => PostOK(cut, p)
  <2>1. ppc[p] \notin {"idle", "draw_cutoff"} BY DEF Starting
  <2> QED BY <2>1, Doing
<1>4. count[p] > 0 => written[p] = 0 /\ Begin(p) < cut /\ (Ahead(p) < Finish(p) => Turn <= Ahead(p))
  <2>1. ppc[p] \notin Writing /\ ppc[p] \notin Stopping BY DEF Starting, Writing, Stopping
  <2> QED BY <1>3, <2>1 DEF PostOK
<1>5. Top \in Nat /\ 2 * Top < WordMod BY PosOfFirst
<1>6. CASE count[p] = 0 BY <1>1, <1>2, <1>3, <1>5, <1>6, Sizes
<1>7. CASE count[p] > 0 BY <1>1, <1>2, <1>3, <1>4, <1>5, <1>7, Sizes
<1> QED BY <1>1, <1>6, <1>7

\* The heads as numbers.
LEMMA HeadNumbers ==
  ASSUME NEW cut \in Nat, Going(cut)
  PROVE  /\ {head_block, write_block, write_block_hint, read_block, Lowest} \subseteq OnList
         /\ {head_block, write_block, write_block_hint, read_block, Lowest} \subseteq Block
         /\ First(Lowest) <= First(head_block)
         /\ First(head_block) <= First(write_block) /\ First(write_block) <= First(read_block)
         /\ First(head_block) <= First(write_block_hint) /\ First(write_block_hint) <= Sold
         /\ First(read_block) <= Turn
         /\ {First(Lowest), First(head_block), First(write_block), First(write_block_hint),
             First(read_block), Turn, Sold} \subseteq Nat
         /\ pending_old_head # Null =>
               /\ pending_new_head = write_block /\ First(write_block) <= First(write_block_hint)
               /\ Pos(pending_cutoff) \in Nat /\ Pos(pending_cutoff) <= Sold
<1>1. {head_block, write_block, write_block_hint, read_block, Lowest} \subseteq OnList
  BY DEF Going, Shape, Heads, Linked
<1>2. {head_block, write_block, write_block_hint, read_block, Lowest} \subseteq Block
  BY <1>1, Types DEF Going
<1>3. /\ {First(Lowest), First(head_block), First(write_block), First(write_block_hint),
          First(read_block), Turn, Sold} \subseteq Nat
      /\ Pos(pending_cutoff) \in Nat
  BY <1>2, Types DEF Going
<1> QED BY <1>1, <1>2, <1>3 DEF Going, Shape, Heads

\* It begins at a block that is still there when it comes to the element.
LEMMA StartKeeps ==
  ASSUME NEW p \in Producers, NEW cut \in Nat, Going(cut), ppc[p] \in Starting,
         NEW b \in {write_block, write_block_hint}, StartFrom(p, b), First(b) <= Begin(p),
         UNCHANGED <<list, elements, write_offset, heads, cutoff, idx, count, written, pblock,
                     consumer, elem, can_suspend>>
  PROVE  Going(cut)'
<1> USE DEF Going, Shape
<1>1. /\ observed' = [observed EXCEPT ![p] = b] /\ walk' = [walk EXCEPT ![p] = b]
      /\ ppc' = [ppc EXCEPT ![p] = "seek"]
  BY DEF StartFrom, GoTo
<1>2. b \in OnList /\ b \in Block /\ First(b) \in Nat /\ First(head_block) <= First(b)
  BY HeadNumbers
<1>3. ppc'[p] = "seek" /\ \A q \in Producers : q # p => ppc'[q] = ppc[q] BY <1>1, GoesTo
<1>4. /\ observed \in [Producers -> Block \cup {Null}] /\ walk \in [Producers -> Block \cup {Null}]
  BY DEF TypeOK
<1>5. /\ observed'[p] = b /\ walk'[p] = b
      /\ \A q \in Producers : q # p => observed'[q] = observed[q] /\ walk'[q] = walk[q]
      /\ {observed', walk'} \subseteq [Producers -> Block \cup {Null}]
  BY <1>1, <1>2, <1>4
<1>6. TypeOK'
  BY <1>1, <1>5 DEF TypeOK, list, elements, heads, cutoff, consumer, reading, reclaim, pending, Function
<1>7. Walk(p) BY <1>3, <1>5 DEF Walk, heads, Drawing, Placing, Starting
<1>8. count[p] > 0 => /\ ppc'[p] \in Posting /\ ppc[p] \notin Writing /\ Begin(p) < cut
  BY <1>3, Searching DEF Posting, Writing, Starting
<1>9. /\ UNCHANGED <<head_block, pending_old_head, pending_new_head, pending_cutoff, unlinked, idx, pblock>>
  BY DEF consumer, reclaim, pending
<1>10. OnList' = OnList /\ \A x : First(x)' = First(x) BY <1>9, ListStays
<1>11. Search(p)' /\ Place(p)'
  <2>1. pblock'[p] = Null BY <1>9 DEF Place, Cursor
  <2>2. /\ Begin(p)' = Begin(p) /\ Pos(offset'[b]) = First(b) /\ Pos(offset'[head_block]) = First(head_block)
        /\ Pos(offset'[pending_new_head]) = First(pending_new_head)
    BY <1>9, <1>10 DEF Begin, First
  <2>3. pending_old_head # Null => First(pending_new_head) <= First(b) BY HeadNumbers
  <2>4. ppc'[p] = "seek" /\ observed'[p] = b /\ walk'[p] = b BY <1>3, <1>5
  <2>5. Search(p)' BY <1>2, <1>9, <1>10, <2>1, <2>2, <2>3, <2>4 DEF Search, First
  <2>6. Place(p)' BY <2>1, <2>4 DEF Place, Writing
  <2> QED BY <2>5, <2>6
<1> QED BY <1>6, <1>7, <1>8, <1>11, StandKeeps DEF heads

LEMMA LoadHintKeeps ==
  ASSUME NEW p \in Producers, NEW cut \in Nat, Going(cut), LoadHint(p)
  PROVE  Going(cut)'
<1> USE DEF Going, Shape
<1>1. /\ ppc[p] = "load_hint"
      /\ IF AtOrBefore(write_block_hint, idx[p])
            THEN StartFrom(p, write_block_hint)
            ELSE ppc' = [ppc EXCEPT ![p] = "load_write_block"] /\ UNCHANGED <<observed, walk>>
      /\ UNCHANGED <<list, elements, write_offset, heads, cutoff, idx, count, written, pblock,
                     consumer, elem, can_suspend>>
  BY DEF LoadHint, GoTo
<1>2. ppc[p] \in Starting BY <1>1 DEF Starting
<1>3. CASE AtOrBefore(write_block_hint, idx[p])
  <2>1. offset[write_block_hint] \in Word /\ First(write_block_hint) \in Nat
        /\ First(write_block_hint) <= Sold /\ 2 * Sold < WordMod /\ Sold \in Nat
    BY HeadNumbers, Bounds, Types
  <2>2. idx[p] \in Word /\ Begin(p) \in Nat /\ 2 * (Begin(p) + 1) < WordMod BY <1>2, Searching
  <2>3. Plus(idx[p], 1) \in Word /\ Pos(Plus(idx[p], 1)) = Begin(p) + 1
    BY <2>2, PosPlus, Sizes DEF Begin
  <2>4. First(write_block_hint) < Begin(p) + 1
    <3>1. 2 * First(write_block_hint) < WordMod BY <2>1, Sizes
    <3> QED BY <1>3, <2>1, <2>2, <2>3, <3>1, PosLess DEF AtOrBefore, First
  <2> QED BY <1>1, <1>2, <1>3, <2>1, <2>2, <2>4, StartKeeps
<1>4. CASE ~AtOrBefore(write_block_hint, idx[p])
  <2>1. ppc' = [ppc EXCEPT ![p] = "load_write_block"] /\ UNCHANGED <<observed, walk>>
    BY <1>1, <1>4
  <2>2. ppc'[p] = "load_write_block" /\ \A q \in Producers : q # p => ppc'[q] = ppc[q]
    BY <2>1, GoesTo
  <2>3. TypeOK'
    BY <1>1, <2>1 DEF TypeOK, list, elements, heads, cutoff, consumer, reading, reclaim, pending, Function
  <2>4. Walk(p) BY <1>1, <2>1, <2>2 DEF Walk, heads, Drawing, Placing, Starting
  <2>5. count[p] > 0 => /\ ppc'[p] \in Posting /\ ppc[p] \notin Writing /\ Begin(p) < cut
    BY <1>1, <1>2, <2>2, Searching DEF Posting, Writing, Starting
  <2>6. Search(p)' /\ Place(p)'
    <3>1. pblock'[p] = Null BY <1>1, <1>2 DEF Place, Cursor
    <3> QED BY <2>2, <3>1 DEF Search, Place, Writing
  <2> QED BY <1>1, <2>3, <2>4, <2>5, <2>6, StandKeeps DEF heads
<1> QED BY <1>3, <1>4

LEMMA LoadWriteBlockKeeps ==
  ASSUME NEW p \in Producers, NEW cut \in Nat, Going(cut), LoadWriteBlock(p)
  PROVE  Going(cut)'
<1>1. /\ ppc[p] \in Starting /\ StartFrom(p, write_block)
      /\ UNCHANGED <<list, elements, write_offset, heads, cutoff, idx, count, written, pblock,
                     consumer, elem, can_suspend>>
  BY DEF LoadWriteBlock, Starting
<1>2. First(write_block) <= Begin(p)
  <2>1. /\ First(write_block) <= First(read_block) /\ First(read_block) <= Turn
        /\ {First(write_block), First(read_block), Turn} \subseteq Nat
    BY HeadNumbers
  <2>2. Turn <= Begin(p) /\ Begin(p) \in Nat BY <1>1, Searching
  <2> QED BY <2>1, <2>2
<1> QED BY <1>1, <1>2, StartKeeps

\* A block is the one of a word when it starts where the word's does.
LEMMA SameBlock ==
  ASSUME TypeOK, NEW b \in Block, NEW x \in Word
  PROVE  offset[b] = StartOf(x) <=> First(b) = Base(Pos(x))
<1>1. offset[b] \in Word /\ StartOf(x) \in Word /\ Pos(StartOf(x)) = Base(Pos(x))
  BY Types, PlaceOf
<1>2. First(b) = Base(Pos(x)) => offset[b] = StartOf(x) BY <1>1, PosTells DEF First
<1> QED BY <1>1, <1>2 DEF First

\* A search moves on by a block.
LEMMA AdvanceKeeps ==
  ASSUME NEW p \in Producers, NEW cut \in Nat, Going(cut), ppc[p] \in {"seek", "reserve"},
         NEW c \in Block, Advance(walk[p], c), walk' = [walk EXCEPT ![p] = c],
         First(walk[p]) + BlockSize <= Top,
         ppc[p] = "seek" => First(walk[p]) + BlockSize <= Begin(p),
         ppc[p] = "reserve" => First(walk[p]) + BlockSize < Finish(p),
         UNCHANGED <<stored, write_offset, heads, cutoff, ppc, idx, count, written, observed, pblock,
                     consumer, elem, can_suspend>>
  PROVE  Going(cut)'
<1> USE DEF Going, Shape
<1>1. /\ UNCHANGED <<unlinked, head_block, oldHead, tail_block, tailBlock, read_offset, cpc>>
      /\ UNCHANGED <<pending_old_head, pending_new_head, pending_cutoff, write_block, write_block_hint>>
  BY DEF consumer, reading, reclaim, pending, heads
<1>2. PICK b : b = walk[p] OBVIOUS
<1>3. /\ b \in OnList /\ First(head_block) <= First(observed[p]) /\ First(observed[p]) <= First(b)
      /\ observed[p] \in OnList
      /\ pending_old_head # Null =>
            Begin(p) < Pos(pending_cutoff) \/ First(pending_new_head) <= First(observed[p])
      /\ ppc[p] = "reserve" => /\ pblock[p] \in OnList /\ First(pblock[p]) = Base(Begin(p))
                               /\ First(pblock[p]) <= First(b)
  BY <1>2 DEF Cursor, Search
<1>4. walk \in [Producers -> Block \cup {Null}] BY DEF TypeOK
<1>5. walk'[p] = c /\ (\A q \in Producers : q # p => walk'[q] = walk[q])
      /\ walk' \in [Producers -> Block \cup {Null}]
  BY <1>4
<1>6. Walk(p) BY <1>5 DEF Walk, heads, Drawing
<1>7. Stable(cut, cut) /\ (Asleep' <=> Asleep) BY <1>6, WalkIsStable
<1>8. /\ Grows /\ c \in OnList' /\ Pos(offset'[c]) = First(b) + BlockSize
      /\ Linked' /\ Moving' /\ Cells(cut)' /\ Clean'
      /\ blocks' \subseteq Block /\ next' \in [Block -> Block \cup {Null}]
      /\ offset' \in [Block -> Word] /\ flags' \in [Block -> [Index -> Flag]]
  <2>1. Advance(b, c) /\ First(b) + BlockSize <= Top BY <1>2
  <2> QED BY <1>1, <1>3, <1>7, <2>1, Extend
<1>9. TypeOK'
  BY <1>5, <1>8 DEF TypeOK, heads, cutoff, consumer, reading, reclaim, pending, Function
<1>10. /\ observed[p] \in OnList' /\ Pos(offset'[observed[p]]) = First(observed[p])
       /\ Pos(offset'[head_block]) = First(head_block)
       /\ (pending_old_head # Null => Pos(offset'[pending_new_head]) = First(pending_new_head))
       /\ (ppc[p] = "reserve" => pblock[p] \in OnList' /\ Pos(offset'[pblock[p]]) = First(pblock[p]))
  <2>1. head_block \in OnList /\ (pending_old_head # Null => pending_new_head \in OnList)
    BY HeadNumbers
  <2> QED BY <1>3, <1>8, <2>1, GrowsAt DEF First
<1>11. First(observed[p]) <= First(b) + BlockSize /\ First(b) <= First(b) + BlockSize
       /\ (ppc[p] = "reserve" => First(pblock[p]) <= First(b) + BlockSize)
  <2>1. First(observed[p]) \in Nat /\ First(b) \in Nat /\ (ppc[p] = "reserve" => First(pblock[p]) \in Nat)
        /\ BlockSize \in Nat
    BY <1>3, Types, Sizes
  <2> QED BY <1>3, <2>1
<1>12. Begin(p)' = Begin(p) /\ Finish(p)' = Finish(p) BY DEF Begin, Finish
<1>13. Search(p)'
  <2>1. ppc'[p] = "seek" => First(c)' <= Begin(p) /\ pblock'[p] = Null
    BY <1>2, <1>8 DEF First, Cursor, Search
  <2>2. ppc'[p] = "reserve" => First(c)' < Finish(p) BY <1>2, <1>8 DEF First
  <2>3. ppc'[p] \in {"seek", "reserve"} =>
          /\ {observed'[p], walk'[p]} \subseteq OnList'
          /\ Pos(offset'[head_block']) <= Pos(offset'[observed'[p]])
          /\ Pos(offset'[observed'[p]]) <= Pos(offset'[walk'[p]])
          /\ pending_old_head' # Null =>
                Begin(p)' < Pos(pending_cutoff') \/ Pos(offset'[pending_new_head']) <= Pos(offset'[observed'[p]])
    BY <1>1, <1>3, <1>5, <1>8, <1>10, <1>11, <1>12
  <2>4. ppc'[p] = "reserve" =>
          /\ pblock'[p] \in OnList' /\ Pos(offset'[pblock'[p]]) = Base(Begin(p)')
          /\ Pos(offset'[pblock'[p]]) <= Pos(offset'[walk'[p]])
    BY <1>3, <1>5, <1>8, <1>10, <1>11, <1>12
  <2> QED BY <1>5, <1>12, <2>1, <2>2, <2>3, <2>4 DEF Search, First
<1>14. Place(p)' BY DEF Place, Writing, Starting, Stopping, Drawing
<1>15. count[p] > 0 => /\ ppc'[p] \in Posting
                       /\ ppc'[p] \notin Writing => ppc[p] \notin Writing
                       /\ ppc'[p] \notin Stopping => Begin(p) < cut
  <2>1. ppc[p] \in Posting /\ ppc[p] \notin Stopping BY DEF Posting, Stopping
  <2> QED BY <2>1, Doing DEF PostOK
<1> QED BY <1>1, <1>6, <1>8, <1>9, <1>13, <1>14, <1>15, WalkKeeps

LEMMA SeekKeeps ==
  ASSUME NEW p \in Producers, NEW cut \in Nat, Going(cut), Seek(p)
  PROVE  Going(cut)'
<1> USE DEF Going, Shape
<1>1. /\ ppc[p] = "seek"
      /\ UNCHANGED <<stored, write_offset, heads, cutoff, idx, count, written, observed, consumer,
                     elem, can_suspend>>
  BY DEF Seek
<1>2. PICK b : b = walk[p] OBVIOUS
<1>3. /\ b \in OnList /\ b \in Block /\ First(b) <= Begin(p) /\ First(b) \in Nat /\ First(b) \in Starts
      /\ pblock[p] = Null
  <2>1. b \in OnList /\ First(b) <= Begin(p) /\ pblock[p] = Null
    BY <1>1, <1>2 DEF Cursor, Search
  <2> QED BY <2>1, Types DEF Linked
<1>4. idx[p] \in Word /\ Begin(p) \in Nat /\ Begin(p) < Top
      /\ written[p] = 0 /\ (count[p] > 0 => Begin(p) < cut)
  BY <1>1, Searching
<1>5. offset[b] = StartOf(idx[p]) <=> First(b) = Base(Begin(p))
  BY <1>3, <1>4, SameBlock DEF Begin
<1>6. CASE offset[walk[p]] = StartOf(idx[p])
  <2>1. PICK s : s = IF Closing(p) THEN "sentinel" ELSE "reserve" OBVIOUS
  <2>2. /\ ppc' = [ppc EXCEPT ![p] = s] /\ pblock' = [pblock EXCEPT ![p] = b]
        /\ UNCHANGED <<list, flags, walk>>
    BY <1>2, <1>6, <2>1 DEF Seek, GoTo
  <2>3. ppc'[p] = s /\ \A q \in Producers : q # p => ppc'[q] = ppc[q] BY <2>2, GoesTo
  <2>4. pblock \in [Producers -> Block \cup {Null}] BY DEF TypeOK
  <2>5. pblock'[p] = b /\ (\A q \in Producers : q # p => pblock'[q] = pblock[q])
        /\ pblock' \in [Producers -> Block \cup {Null}]
    BY <1>3, <2>2, <2>4
  <2>6. s \in {"sentinel", "reserve"} /\ (s = "sentinel" <=> count[p] = 0) BY <2>1 DEF Closing
  <2>7. TypeOK'
    BY <1>1, <2>2, <2>5, <2>6 DEF TypeOK, list, heads, cutoff, consumer, reading, reclaim, pending, Function
  <2>8. Walk(p) BY <1>1, <2>2, <2>3, <2>5, <2>6 DEF Walk, heads, Drawing, Placing, Starting
  <2>9. count[p] > 0 => /\ ppc'[p] \in Posting /\ ppc[p] \notin Writing /\ Begin(p) < cut
    BY <1>1, <1>4, <2>3, <2>6 DEF Posting, Writing
  <2>10. /\ UNCHANGED <<head_block, pending_old_head, pending_new_head, pending_cutoff, unlinked>>
         /\ UNCHANGED elements /\ Begin(p)' = Begin(p) /\ Finish(p)' = Finish(p)
    BY <1>1, <2>2 DEF consumer, reclaim, pending, elements, Begin, Finish
  <2>11. OnList' = OnList /\ \A x : First(x)' = First(x) BY <2>2, <2>10, ListStays
  <2>12. First(b) = Base(Begin(p)) BY <1>2, <1>5, <1>6
  <2>13. Search(p)'
    <3>1. /\ {observed[p], walk[p]} \subseteq OnList
          /\ First(head_block) <= First(observed[p]) /\ First(observed[p]) <= First(walk[p])
          /\ pending_old_head # Null =>
                Begin(p) < Pos(pending_cutoff) \/ First(pending_new_head) <= First(observed[p])
      BY <1>1 DEF Cursor, Search
    <3>2. s = "reserve" => First(b) < Finish(p)
      <4>1. count[p] \in Nat /\ Finish(p) = Begin(p) + count[p] BY Types
      <4> QED BY <1>3, <1>4, <2>6, <4>1
    <3>3. \A x : Pos(offset'[x]) = Pos(offset[x]) BY <2>11 DEF First
    <3> QED
      BY <1>1, <1>2, <1>3, <2>2, <2>3, <2>5, <2>6, <2>10, <2>11, <2>12, <3>1, <3>2, <3>3 DEF Search, First
  <2>14. Place(p)'
    <3>1. Begin(p)' + written'[p] = Begin(p) BY <1>1, <1>4, <2>10
    <3>2. pblock'[p] \in OnList' /\ Pos(offset'[pblock'[p]]) = Base(Begin(p)' + written'[p])
      BY <1>3, <2>5, <2>11, <2>12, <3>1 DEF First
    <3> QED BY <2>3, <2>6, <3>2 DEF Place, First, Writing, Starting, Stopping, Drawing
  <2> QED BY <1>1, <2>2, <2>7, <2>8, <2>9, <2>10, <2>13, <2>14, StandKeeps DEF heads
<1>7. CASE offset[walk[p]] # StartOf(idx[p])
  <2>1. PICK c \in Block : Advance(b, c) /\ walk' = [walk EXCEPT ![p] = c] /\ UNCHANGED <<ppc, pblock>>
    BY <1>2, <1>7 DEF Seek
  <2>2. First(b) + BlockSize <= Begin(p)
    <3>1. First(b) # Base(Begin(p)) BY <1>2, <1>5, <1>7
    <3>2. First(b) <= Base(Begin(p)) /\ Base(Begin(p)) <= Begin(p) /\ Base(Begin(p)) \in Nat
          /\ Base(Begin(p)) \in Starts
      BY <1>3, <1>4, BaseOf
    <3>3. First(b) + BlockSize <= Base(Begin(p)) BY <1>3, <3>1, <3>2, StartsApart
    <3> QED BY <1>3, <1>4, <3>2, <3>3, Sizes
  <2>3. First(b) + BlockSize <= Top BY <1>3, <1>4, <2>2, Sizes, PosOfFirst
  <2> QED BY <1>1, <1>2, <2>1, <2>2, <2>3, AdvanceKeeps
<1> QED BY <1>6, <1>7

LEMMA ReserveKeeps ==
  ASSUME NEW p \in Producers, NEW cut \in Nat, Going(cut), Reserve(p)
  PROVE  Going(cut)'
<1> USE DEF Going, Shape
<1>1. /\ ppc[p] = "reserve"
      /\ UNCHANGED <<stored, write_offset, write_block, cutoff, idx, count, written, observed,
                     pblock, consumer, elem, can_suspend>>
  BY DEF Reserve
<1>2. PICK b : b = walk[p] OBVIOUS
<1>3. /\ b \in OnList /\ b \in Block /\ First(b) < Finish(p) /\ First(b) \in Nat /\ First(b) \in Starts
      /\ offset[b] \in Word
      /\ pblock[p] \in OnList /\ First(pblock[p]) = Base(Begin(p))
  <2>1. b \in OnList /\ First(b) < Finish(p) /\ pblock[p] \in OnList /\ First(pblock[p]) = Base(Begin(p))
    BY <1>1, <1>2 DEF Cursor, Search
  <2> QED BY <2>1, Types DEF Linked
<1>4. /\ idx[p] \in Word /\ Begin(p) \in Nat /\ count[p] \in Nat /\ count[p] > 0
      /\ Finish(p) = Begin(p) + count[p] /\ Finish(p) <= Sold /\ 2 * Sold < WordMod
      /\ Sold \in Nat /\ Sold <= Top /\ written[p] = 0 /\ Begin(p) < cut
  <2>1. count[p] > 0 BY <1>1, Doing
  <2>2. written[p] = 0 /\ (count[p] > 0 => Begin(p) < cut) BY <1>1, Searching
  <2> QED BY <2>1, <2>2, Types, Bounds
<1>5. PICK m \in Nat : m = Finish(p) - 1 BY <1>4
<1>6. LastOf(p) \in Word /\ Pos(LastOf(p)) = m
  <2>1. LastOf(p) = Plus(idx[p], count[p] - 1) /\ count[p] - 1 \in Nat
    BY <1>4 DEF LastOf, Closing
  <2>2. Begin(p) + (count[p] - 1) = m /\ m < WordMod BY <1>4, <1>5, Sizes
  <2> QED BY <1>4, <2>1, <2>2, PosPlus DEF Begin
<1>7. offset[b] = StartOf(LastOf(p)) <=> First(b) = Base(m) BY <1>3, <1>6, SameBlock
<1>8. First(b) <= m BY <1>3, <1>4, <1>5
<1>9. CASE offset[walk[p]] = StartOf(LastOf(p))
  <2>1. /\ write_block_hint' = IF BlockBefore(observed[p], b) /\ BlockBefore(write_block_hint, b)
                                  THEN b ELSE write_block_hint
        /\ ppc' = [ppc EXCEPT ![p] = "write"] /\ UNCHANGED <<list, flags, walk>>
    BY <1>2, <1>9 DEF Reserve, GoTo
  <2>2. ppc'[p] = "write" /\ \A q \in Producers : q # p => ppc'[q] = ppc[q] BY <2>1, GoesTo
  <2>3. write_block_hint \in OnList /\ write_block_hint \in Block /\ First(write_block_hint) \in Nat
        /\ First(write_block_hint) <= Sold /\ offset[write_block_hint] \in Word
    BY HeadNumbers, Types
  <2>4. BlockBefore(write_block_hint, b) => First(write_block_hint) <= First(b)
    <3>1. 2 * First(write_block_hint) < WordMod /\ 2 * First(b) < WordMod
      BY <1>3, <1>4, <2>3, Sizes
    <3>2. BlockBefore(write_block_hint, b) <=> First(write_block_hint) < First(b)
      BY <1>3, <2>3, <3>1, PosLess DEF BlockBefore, First
    <3> QED BY <1>3, <2>3, <3>2
  <2>5. \/ write_block_hint' = write_block_hint
        \/ /\ write_block_hint' \in OnList /\ First(write_block_hint) <= Pos(offset[write_block_hint'])
           /\ Pos(offset[write_block_hint']) <= Sold
    <3>1. First(b) <= Sold BY <1>3, <1>4
    <3> QED BY <1>3, <2>1, <2>4, <3>1 DEF First
  <2>6. TypeOK'
    <3>1. write_block_hint' \in Block BY <1>3, <2>1, <2>3
    <3> QED BY <1>1, <2>1, <3>1 DEF TypeOK, list, heads, cutoff, consumer, reading, reclaim, pending, Function
  <2>7. Walk(p) BY <1>1, <1>4, <2>1, <2>2 DEF Walk, Drawing
  <2>8. ppc'[p] \in Posting /\ ppc'[p] \in Writing BY <2>2 DEF Posting, Writing
  <2>9. UNCHANGED elements /\ UNCHANGED unlinked /\ Begin(p)' = Begin(p) /\ Finish(p)' = Finish(p)
    BY <1>1, <2>1 DEF elements, Begin, Finish, consumer, reclaim
  <2>10. /\ OnList' = OnList /\ (\A x : First(x)' = First(x))
         /\ Reaches(m)' <=> Reaches(m)
    BY <2>1, <2>9, ListStays
  <2>11. Reaches(m)
    <3>1. m < Base(m) + BlockSize /\ First(b) = Base(m) BY <1>2, <1>5, <1>7, <1>9, BaseOf
    <3> QED BY <1>3, <3>1 DEF Reaches
  <2>12. Search(p)' /\ Place(p)'
    <3>1. Search(p)' BY <2>2 DEF Search
    <3>2. Begin(p)' + written'[p] = Begin(p) BY <1>1, <1>4, <2>9
    <3>3. pblock'[p] \in OnList' /\ Pos(offset'[pblock'[p]]) = Base(Begin(p)' + written'[p])
      BY <1>1, <1>3, <2>10, <3>2 DEF First
    <3>4. Finish(p)' - 1 = m BY <1>5, <2>9
    <3>5. Reaches(Finish(p) - 1)' BY <2>10, <2>11, <3>4
    <3>6. Place(p)' BY <2>2, <3>3, <3>5 DEF Place, First, Starting, Stopping, Drawing
    <3> QED BY <3>1, <3>6
  <2> QED BY <1>4, <2>1, <2>5, <2>6, <2>7, <2>8, <2>9, <2>12, StandKeeps
<1>10. CASE offset[walk[p]] # StartOf(LastOf(p))
  <2>1. PICK c \in Block : /\ Advance(b, c) /\ walk' = [walk EXCEPT ![p] = c]
                           /\ UNCHANGED <<ppc, write_block_hint>>
    BY <1>2, <1>10 DEF Reserve
  <2>2. First(b) + BlockSize <= m
    <3>1. First(b) # Base(m) BY <1>2, <1>7, <1>10
    <3>2. First(b) <= Base(m) /\ Base(m) <= m /\ Base(m) \in Nat /\ Base(m) \in Starts
      BY <1>3, <1>5, <1>8, BaseOf
    <3>3. First(b) + BlockSize <= Base(m) BY <1>3, <3>1, <3>2, StartsApart
    <3> QED BY <1>3, <1>5, <3>2, <3>3, Sizes
  <2>3. First(b) + BlockSize <= Top /\ First(b) + BlockSize < Finish(p)
    BY <1>3, <1>4, <1>5, <2>2, Sizes, PosOfFirst
  <2> QED BY <1>1, <1>2, <2>1, <2>3, AdvanceKeeps DEF heads
<1> QED BY <1>9, <1>10

LEMMA CrossKeeps ==
  ASSUME NEW p \in Producers, NEW cut \in Nat, Going(cut), Cross(p)
  PROVE  Going(cut)'
<1> USE DEF Going, Shape
<1>1. /\ ppc[p] = "cross" /\ ppc' = [ppc EXCEPT ![p] = "write"]
      /\ UNCHANGED <<list, elements, write_offset, heads, cutoff, idx, count, written, observed,
                     walk, consumer, elem, can_suspend>>
  BY DEF Cross, GoTo
<1>2. PICK b : b = pblock[p] OBVIOUS
<1>3. PICK m : m = Finish(p) - 1 OBVIOUS
<1>4. PICK n : n = Begin(p) + written[p] OBVIOUS
<1>5. /\ count[p] > 0 /\ n \in Nat /\ m \in Nat /\ n <= m /\ PostOK(cut, p)
  <2>1. count[p] > 0 /\ PostOK(cut, p) BY <1>1, Doing
  <2>2. written[p] < count[p] BY <2>1 DEF PostOK
  <2>3. Begin(p) \in Nat /\ written[p] \in Nat /\ count[p] \in Nat /\ Finish(p) = Begin(p) + count[p]
    BY Types
  <2> QED BY <1>3, <1>4, <2>1, <2>2, <2>3
<1>6. b \in OnList /\ First(b) + BlockSize = n /\ Reaches(m)
  BY <1>1, <1>2, <1>3, <1>4, <1>5 DEF Cursor, Place, Writing
<1>7. PICK c : c = next[b] OBVIOUS
<1>8. c \in OnList /\ First(c) = n
  <2>1. PICK d \in OnList : m < First(d) + BlockSize BY <1>6 DEF Reaches
  <2>2. First(b) < First(d)
    <3>1. First(b) \in Nat /\ First(d) \in Nat BY <1>6, Types
    <3> QED BY <1>5, <1>6, <2>1, <3>1, Sizes
  <2>3. next[b] # Null
    <3>1. First(b) \in Nat /\ First(d) \in Nat BY <1>6, Types
    <3> QED BY <1>6, <2>2, <3>1 DEF Linked
  <2> QED BY <1>6, <1>7, <2>3 DEF Linked
<1>9. First(c) = Base(n)
  <2>1. First(c) \in Starts BY <1>8 DEF Linked
  <2>2. n <= n /\ n < n + BlockSize BY <1>5, Sizes
  <2> QED BY <1>5, <1>8, <2>1, <2>2, BaseOf
<1>10. c \in Block BY <1>8, Types
<1>11. pblock' = [pblock EXCEPT ![p] = c] /\ pblock \in [Producers -> Block \cup {Null}]
  BY <1>2, <1>7 DEF Cross, TypeOK
<1>12. pblock'[p] = c /\ (\A q \in Producers : q # p => pblock'[q] = pblock[q])
       /\ pblock' \in [Producers -> Block \cup {Null}]
  BY <1>10, <1>11
<1>13. ppc'[p] = "write" /\ \A q \in Producers : q # p => ppc'[q] = ppc[q] BY <1>1, GoesTo
<1>14. TypeOK'
  BY <1>1, <1>12 DEF TypeOK, list, elements, heads, cutoff, consumer, reading, reclaim, pending, Function
<1>15. Walk(p) BY <1>1, <1>5, <1>12, <1>13 DEF Walk, heads, Drawing
<1>16. ppc'[p] \in Posting /\ ppc'[p] \in Writing /\ Begin(p) < cut
  BY <1>1, <1>5, <1>13 DEF Posting, Writing, PostOK, Stopping
<1>17. UNCHANGED unlinked /\ Begin(p)' = Begin(p) /\ Finish(p)' = Finish(p)
  BY <1>1 DEF Begin, Finish, consumer, reclaim
<1>18. /\ OnList' = OnList /\ (\A x : First(x)' = First(x))
       /\ Reaches(m)' <=> Reaches(m)
  BY <1>1, <1>17, ListStays
<1>19. Search(p)' /\ Place(p)'
  <2>1. Search(p)' BY <1>13 DEF Search
  <2>2. Begin(p)' + written'[p] = n BY <1>1, <1>4, <1>17
  <2>3. pblock'[p] \in OnList' /\ Pos(offset'[pblock'[p]]) = Base(Begin(p)' + written'[p])
    BY <1>8, <1>9, <1>12, <1>18, <2>2 DEF First
  <2>4. Finish(p)' - 1 = m BY <1>3, <1>17
  <2>5. Reaches(Finish(p) - 1)' BY <1>6, <1>18, <2>4
  <2>6. Place(p)' BY <1>13, <2>3, <2>5 DEF Place, First, Starting, Stopping, Drawing
  <2> QED BY <2>1, <2>6
<1> QED BY <1>1, <1>14, <1>15, <1>16, <1>19, StandKeeps DEF heads

\* Tickets are drawn
LEMMA TakeTicketKeeps ==
  ASSUME NEW p \in Producers, NEW n \in 1 .. MaxBulk, NEW cut \in Nat, Going(cut), TakeTicket(p, n)
  PROVE  \E cut2 \in Nat : Going(cut2)' /\ Stable(cut, cut2)
<1> USE DEF Going, Shape
<1>1. /\ ppc[p] = "idle" /\ ppc' = [ppc EXCEPT ![p] = "check_closed"]
      /\ Tickets + n <= MaxTicket
      /\ write_offset' = Plus(write_offset, n)
      /\ idx' = [idx EXCEPT ![p] = write_offset] /\ count' = [count EXCEPT ![p] = n]
      /\ UNCHANGED <<list, elements, heads, cutoff, written, observed, walk, pblock, consumer,
                     elem, can_suspend>>
  BY DEF TakeTicket, GoTo
<1>2. /\ n \in Nat /\ n > 0 /\ write_offset \in Word /\ Sold \in Nat /\ Turn \in Nat
      /\ Skipped \in Nat /\ Skipped <= Turn /\ Turn <= cut /\ cut <= Sold
      /\ cut <= Skipped + MaxTicket /\ Top \in Nat /\ Top = Skipped + MaxTicket + 1
      /\ MaxTicket \in Nat /\ 2 * Top < WordMod /\ WordMod \in Nat
  BY Types, Sizes, Origin, PosOfFirst DEF Cutoff
<1>3. Sold + n <= Skipped + MaxTicket
  <2>1. Tickets = Sold - Skipped BY <1>2, Count DEF Tickets, Sold
  <2> QED BY <1>1, <1>2, <2>1
<1>4. write_offset' \in Word /\ Sold' = Sold + n
  <2>1. Sold + n < WordMod BY <1>2, <1>3
  <2> QED BY <1>1, <1>2, <2>1, PosPlus DEF Sold
<1>5. PICK cut2 \in Nat : cut2 = IF cut = Sold THEN Sold + n ELSE cut BY <1>2
<1>6. ppc'[p] = "check_closed" /\ \A q \in Producers : q # p => ppc'[q] = ppc[q] BY <1>1, GoesTo
<1>7. /\ idx'[p] = write_offset /\ count'[p] = n
      /\ \A q \in Producers : q # p => idx'[q] = idx[q] /\ count'[q] = count[q]
      /\ idx' \in [Producers -> Word] /\ count' \in [Producers -> 0 .. MaxBulk]
  <2>1. idx \in [Producers -> Word] /\ count \in [Producers -> 0 .. MaxBulk] /\ n \in 0 .. MaxBulk
    BY <1>2 DEF TypeOK
  <2> QED BY <1>1, <1>2, <2>1
<1>8. TypeOK'
  BY <1>1, <1>4, <1>7 DEF TypeOK, list, elements, heads, cutoff, consumer, reading, reclaim, pending, Function
<1>9. /\ UNCHANGED <<unlinked, head_block, oldHead, tail_block, tailBlock, pending, read_offset, taken>>
      /\ UNCHANGED <<write_block, write_block_hint, closed, closed_ready, write_closed_at>> /\ cpc' = cpc
      /\ written' = written /\ observed' = observed /\ walk' = walk /\ pblock' = pblock
  BY <1>1 DEF consumer, reading, reclaim, heads, cutoff
<1>10. Linked' /\ Moving' /\ Clean' /\ Grows
  BY <1>1, <1>9, LinkedStays, MovingStays, CleanStays, ListStays
<1>11. Heads'
  <2>1. Sold <= Sold' BY <1>2, <1>4
  <2> QED BY <1>1, <1>8, <1>9, <1>10, <2>1, HeadsStay
<1>12. count[p] = 0 /\ written[p] = 0 BY <1>1, Doing
<1>13. Cutoff(cut2)'
  <2>1. /\ Turn' = Turn /\ closed' = closed /\ closed_ready' = closed_ready /\ write_closed_at' = write_closed_at
        /\ taken' = taken
    BY <1>9 DEF Turn
  <2>2. Turn <= cut2 /\ cut2 <= Sold + n /\ cut2 <= Skipped + MaxTicket /\ Sold + n <= Top
    BY <1>2, <1>3, <1>5
  <2>3. closed_ready => closed /\ cut2 = Pos(write_closed_at) /\ cut2 < Sold + n
    BY <1>2, <1>5 DEF Cutoff
  <2>4. ~closed_ready => cut2 = Sold + n \/ \E q \in Producers : ppc'[q] = "set_cutoff"
    <3>1. \A q \in Producers : ppc[q] = "set_cutoff" => ppc'[q] = "set_cutoff" BY <1>1, <1>6
    <3> QED BY <1>5, <3>1 DEF Cutoff
  <2>5. closed /\ ~closed_ready => \E q \in Producers : ppc'[q] \in Drawing
    <3>1. \A q \in Producers : ppc[q] \in Drawing => ppc'[q] \in Drawing
      BY <1>1, <1>6 DEF Drawing
    <3> QED BY <3>1 DEF Cutoff
  <2> QED BY <1>2, <1>4, <2>1, <2>2, <2>3, <2>4, <2>5 DEF Cutoff
<1>14. Closers(cut2)'
  <2>1. ASSUME NEW q \in Producers
        PROVE  CloserOK(cut2, q)' /\ (Closer(q)' => Closer(q))
    <3>1. CASE q = p BY <1>2, <1>7, <3>1 DEF CloserOK, Closer
    <3>2. CASE q # p
      <4>1. CloserOK(cut, q) /\ Begin(q)' = Begin(q) /\ Closer(q)' = Closer(q)
        BY <1>6, <1>7, <3>2 DEF Closers, Begin, Closer
      <4>2. Begin(q) = cut /\ cut < Sold => Begin(q) = cut2 /\ cut2 < Sold' BY <1>2, <1>4, <1>5
      <4> QED BY <1>6, <1>7, <1>9, <3>2, <4>1, <4>2 DEF CloserOK
    <3> QED BY <3>1, <3>2
  <2> QED BY <2>1 DEF Closers
<1>15. Begin(p)' = Sold /\ Finish(p)' = Sold + n /\ Ahead(p)' = Sold
  BY <1>2, <1>6, <1>7, <1>9, <1>12 DEF Begin, Finish, Ahead, Sold
<1>16. \A q \in Producers : q # p => /\ Begin(q)' = Begin(q) /\ Finish(q)' = Finish(q) /\ Ahead(q)' = Ahead(q)
                                     /\ ppc'[q] = ppc[q] /\ count'[q] = count[q] /\ written'[q] = written[q]
  BY <1>6, <1>7, <1>9 DEF Begin, Finish, Ahead
<1>17. Posts(cut2)'
  <2>1. PostOK(cut2, p)'
    <3>1. Turn' = Turn BY <1>9 DEF Turn
    <3>2. Finish(p)' <= cut2 \/ cut2 < Begin(p)' BY <1>2, <1>5, <1>15
    <3> QED BY <1>2, <1>4, <1>6, <1>7, <1>9, <1>12, <1>15, <3>1, <3>2 DEF PostOK, Posting, Stopping, Writing
  <2>2. ASSUME NEW q \in Producers, q # p
        PROVE  PostOK(cut2, q)' /\ (count[q] > 0 => Finish(q) <= Sold)
    <3>1. PostOK(cut, q) /\ Turn' = Turn BY <1>9 DEF Posts, Turn
    <3>2. ASSUME count[q] > 0
          PROVE  /\ Finish(q) <= Sold /\ Finish(q) <= Sold'
                 /\ Finish(q) <= cut2 \/ cut2 < Begin(q)
                 /\ Begin(q) < cut => Begin(q) < cut2
      <4>1. Finish(q) \in Nat /\ Begin(q) \in Nat /\ Finish(q) <= Sold
            /\ (Finish(q) <= cut \/ cut < Begin(q))
        BY <3>1, <3>2, Types DEF PostOK
      <4> QED BY <1>2, <1>4, <1>5, <4>1
    <3> QED BY <1>16, <2>2, <3>1, <3>2 DEF PostOK
  <2>3. ASSUME NEW q \in Producers, NEW r \in Producers, count'[q] > 0, count'[r] > 0, q # r
        PROVE  Finish(q)' <= Begin(r)' \/ Finish(r)' <= Begin(q)'
    <3>1. CASE q = p BY <1>15, <1>16, <2>2, <2>3, <3>1
    <3>2. CASE r = p BY <1>15, <1>16, <2>2, <2>3, <3>2
    <3>3. CASE q # p /\ r # p BY <1>16, <2>3, <3>3 DEF Posts
    <3> QED BY <3>1, <3>2, <3>3
  <2>4. \A q \in Producers : PostOK(cut2, q)' BY <2>1, <2>2
  <2> QED BY <2>3, <2>4 DEF Posts
<1>18. Cursor'
  <2>1. pblock'[p] = Null BY <1>1 DEF Cursor, Place
  <2>2. Search(p)' /\ Place(p)' BY <1>6, <2>1 DEF Search, Place, Writing
  <2> QED BY <1>1, <1>9, <1>10, <1>16, <1>7, <2>2, CursorMoves
<1>19. Stable(cut, cut2)
  <2>1. Ahead(p) = Finish(p) /\ Finish(p) \in Nat BY <1>1, <1>12, Types
  <2>2. ASSUME NEW m \in Nat
        PROVE  Done(cut2, m)' <=> Done(cut, m)
    <3>1. CASE m < cut
      <4>1. \A q \in Producers : (Ahead(q)' <= m /\ m < Finish(q)') <=> (Ahead(q) <= m /\ m < Finish(q))
        BY <1>2, <1>15, <1>16, <2>1, <3>1
      <4>2. m < cut2 BY <1>2, <1>5, <3>1
      <4> QED BY <3>1, <4>1, <4>2, Zenon DEF Done
    <3>2. CASE ~(m < cut)
      <4>1. m < cut2 => Ahead(p)' <= m /\ m < Finish(p)' BY <1>2, <1>5, <1>15, <3>2
      <4> QED BY <3>2, <4>1 DEF Done
    <3> QED BY <3>1, <3>2
  <2>3. Placed' <=> Placed
    <3>1. \A q \in Producers : (count'[q] = 0 /\ ppc'[q] \in Placing) <=> (count[q] = 0 /\ ppc[q] \in Placing)
      BY <1>1, <1>2, <1>7, <1>16 DEF Placing, Starting
    <3> QED BY <1>9, <3>1, Zenon DEF Placed
  <2>4. ASSUME NEW m \in Nat
        PROVE  AtEnd(cut2, m)' <=> AtEnd(cut, m)
    <3>1. Placed => cut2 = cut BY <1>2, <1>5 DEF Placed, Cutoff
    <3> QED BY <2>3, <3>1 DEF AtEnd
  <2> QED BY <2>2, <2>4 DEF Stable
<1>20. \A q \in Producers : ppc'[q] = "wake" <=> ppc[q] = "wake" BY <1>1, <1>6
<1>21. Rousing(cut2)' /\ (Asleep' <=> Asleep)
  <2>1. \A q \in Producers : ppc[q] = "wake" =>
             idx'[q] = idx[q] /\ count'[q] = count[q] /\ written'[q] = written[q]
    BY <1>1, <1>7, <1>9
  <2> QED BY <1>1, <1>19, <1>20, <2>1, RousingStays
<1>22. Cells(cut2)' BY <1>1, <1>9, <1>19, <1>21, CellsStay
<1>23. Alive'
  <2>1. \A q \in Producers : ppc'[q] # "gone" BY <1>6 DEF Alive
  <2> QED BY <1>9, <2>1 DEF Alive
<1> QED BY <1>8, <1>10, <1>11, <1>13, <1>14, <1>17, <1>18, <1>19, <1>21, <1>22, <1>23

\* close()
\* A step of it, before it looks for its block.
LEMMA CloseStep ==
  ASSUME NEW p \in Producers, NEW cut \in Nat, Going(cut), TypeOK',
         ppc[p] \in Drawing \cup {"idle"}, ppc'[p] \in Drawing \cup Starting,
         \A q \in Producers : q # p => ppc'[q] = ppc[q] /\ idx'[q] = idx[q],
         UNCHANGED <<list, elements, heads, count, written, observed, walk, pblock, consumer,
                     elem, can_suspend>>,
         Sold <= Sold', Cutoff(cut)', Closers(cut)', Stable(cut, cut)
  PROVE  Going(cut)'
<1> USE DEF Going, Shape
<1>1. /\ UNCHANGED <<unlinked, head_block, oldHead, tail_block, tailBlock, pending, read_offset, taken>>
      /\ UNCHANGED <<write_block, write_block_hint>> /\ cpc' = cpc
  BY DEF consumer, reading, reclaim, heads
<1>2. Linked' /\ Moving' /\ Clean' /\ Grows
  BY <1>1, LinkedStays, MovingStays, CleanStays, ListStays
<1>3. Heads' BY <1>1, <1>2, HeadsStay
<1>4. count[p] = 0 /\ ppc[p] # "wake" /\ ppc'[p] # "wake" /\ ppc'[p] # "gone"
  BY Doing DEF Drawing, Starting
<1>5. Posts(cut)'
  <2>1. ASSUME NEW q \in Producers
        PROVE  PostOK(cut, q)'
    <3>1. CASE q = p BY <1>4, <3>1 DEF PostOK
    <3>2. CASE q # p
      <4>1. PostOK(cut, q) /\ /\ Begin(q)' = Begin(q) /\ Finish(q)' = Finish(q) /\ Ahead(q)' = Ahead(q)
                              /\ ppc'[q] = ppc[q] /\ Turn' = Turn
        BY <1>1, <3>2 DEF Posts, Begin, Finish, Ahead, Turn
      <4>2. count[q] > 0 => Finish(q) <= Sold'
        <5>1. write_offset' \in Word BY DEF TypeOK
        <5>2. Finish(q) \in Nat /\ Sold \in Nat /\ Sold' \in Nat BY <5>1, Types, PosIs DEF Sold
        <5> QED BY <4>1, <5>2 DEF PostOK
      <4> QED BY <4>1, <4>2 DEF PostOK
    <3> QED BY <3>1, <3>2
  <2>2. ASSUME NEW q \in Producers, NEW r \in Producers, count'[q] > 0, count'[r] > 0, q # r
        PROVE  Finish(q)' <= Begin(r)' \/ Finish(r)' <= Begin(q)'
    <3>1. q # p /\ r # p BY <1>4, <2>2
    <3>2. Finish(q) <= Begin(r) \/ Finish(r) <= Begin(q) BY <2>2 DEF Posts
    <3> QED BY <3>1, <3>2 DEF Begin, Finish
  <2> QED BY <2>1, <2>2 DEF Posts
<1>6. Cursor'
  <2>1. pblock'[p] = Null BY DEF Cursor, Place
  <2>2. ppc'[p] \notin {"seek", "reserve", "write", "sentinel", "wake", "cross"}
    BY DEF Drawing, Starting
  <2>3. Search(p)' /\ Place(p)' BY <2>1, <2>2 DEF Search, Place, Writing
  <2> QED BY <1>1, <1>2, <2>3, CursorMoves
<1>7. \A q \in Producers : ppc'[q] = "wake" <=> ppc[q] = "wake" BY <1>4
<1>8. Rousing(cut)' /\ (Asleep' <=> Asleep)
  <2>1. \A q \in Producers : ppc[q] = "wake" =>
             idx'[q] = idx[q] /\ count'[q] = count[q] /\ written'[q] = written[q]
    BY <1>4
  <2> QED BY <1>7, <2>1, RousingStays
<1>9. Cells(cut)' BY <1>1, <1>8, CellsStay
<1>10. Alive'
  <2>1. \A q \in Producers : ppc'[q] # "gone" BY <1>4 DEF Alive
  <2> QED BY <1>1, <2>1 DEF Alive
<1> QED BY <1>2, <1>3, <1>5, <1>6, <1>8, <1>9, <1>10

LEMMA CloseKeeps ==
  ASSUME NEW p \in Producers, NEW cut \in Nat, Going(cut), Close(p)
  PROVE  Going(cut)'
<1> USE DEF Going, Shape
<1>1. /\ ppc[p] = "idle" /\ ~closed /\ closed' = TRUE /\ ppc' = [ppc EXCEPT ![p] = "draw_cutoff"]
      /\ UNCHANGED <<list, elements, write_offset, heads, write_closed_at, closed_ready, locals,
                     consumer, elem, can_suspend>>
  BY DEF Close, GoTo
<1>2. UNCHANGED <<idx, count, written, observed, walk, pblock>> /\ read_offset' = read_offset /\ taken' = taken
  BY <1>1 DEF locals, consumer, reading
<1>3. ppc'[p] = "draw_cutoff" /\ \A q \in Producers : q # p => ppc'[q] = ppc[q] BY <1>1, GoesTo
<1>4. TypeOK'
  BY <1>1 DEF TypeOK, list, elements, heads, locals, consumer, reading, reclaim, pending, Function
<1>5. count[p] = 0 /\ written[p] = 0 /\ cut = Sold /\ ~closed_ready BY <1>1, Doing DEF Cutoff
<1>6. \A q \in Producers : ~Closer(q) BY <1>1 DEF Closers, CloserOK
<1>7. Sold' = Sold /\ Turn' = Turn /\ Sold \in Nat BY <1>1, <1>2, Types DEF Sold, Turn
<1>8. Cutoff(cut)'
  <2>1. ppc'[p] \in Drawing BY <1>3 DEF Drawing
  <2> QED BY <1>1, <1>2, <1>5, <1>7, <2>1 DEF Cutoff
<1>9. Closers(cut)'
  <2>1. \A q \in Producers : q # p => ~Closer(q)' /\ CloserOK(cut, q)'
    BY <1>2, <1>3, <1>6 DEF Closer, CloserOK, Closers
  <2>2. CloserOK(cut, p)' BY <1>1, <1>2, <1>3, <1>5 DEF CloserOK, Closer, Drawing
  <2> QED BY <2>1, <2>2 DEF Closers
<1>10. Stable(cut, cut)
  <2>1. \A q \in Producers : ppc'[q] = "wake" <=> ppc[q] = "wake" BY <1>1, <1>3
  <2>2. \A q \in Producers : ppc'[q] \in Placing <=> ppc[q] \in Placing
    BY <1>1, <1>3 DEF Placing, Starting
  <2> QED BY <1>1, <1>2, <2>1, <2>2, IsStable
<1>11. Sold <= Sold' BY <1>7
<1>12. ppc'[p] \in Drawing BY <1>3 DEF Drawing
<1> QED BY <1>1, <1>2, <1>3, <1>4, <1>8, <1>9, <1>10, <1>11, <1>12, CloseStep

LEMMA DrawCutoffKeeps ==
  ASSUME NEW p \in Producers, NEW cut \in Nat, Going(cut), DrawCutoff(p)
  PROVE  Going(cut)'
<1> USE DEF Going, Shape
<1>1. /\ ppc[p] = "draw_cutoff" /\ ppc' = [ppc EXCEPT ![p] = "set_cutoff"]
      /\ write_offset' = Plus(write_offset, 1) /\ idx' = [idx EXCEPT ![p] = write_offset]
      /\ UNCHANGED <<list, elements, heads, cutoff, count, written, observed, walk, pblock,
                     consumer, elem, can_suspend>>
  BY DEF DrawCutoff, GoTo
<1>2. /\ UNCHANGED <<closed, closed_ready, write_closed_at, read_offset, taken>>
  BY <1>1 DEF cutoff, consumer, reading
<1>3. ppc'[p] = "set_cutoff" /\ \A q \in Producers : q # p => ppc'[q] = ppc[q] BY <1>1, GoesTo
<1>4. count[p] = 0 /\ written[p] = 0 /\ Closer(p) /\ closed /\ ~closed_ready
  BY <1>1, Doing DEF Closer, CloserOK, Drawing
<1>5. \A q \in Producers : q # p => ~Closer(q) BY <1>4 DEF Closers
<1>6. cut = Sold
  <2>1. ASSUME NEW q \in Producers, ppc[q] = "set_cutoff"
        PROVE  FALSE
    <3>1. Closer(q) BY <2>1, Doing DEF Drawing, Closer
    <3> QED BY <1>1, <1>5, <2>1, <3>1
  <2> QED BY <1>4, <2>1 DEF Cutoff
<1>7. /\ write_offset \in Word /\ Sold \in Nat /\ Top \in Nat /\ Top = Skipped + MaxTicket + 1
      /\ Skipped \in Nat /\ MaxTicket \in Nat /\ Sold <= Skipped + MaxTicket
      /\ 2 * Top < WordMod /\ WordMod \in Nat
  BY <1>6, Types, Sizes, Origin, PosOfFirst DEF Cutoff
<1>8. write_offset' \in Word /\ Sold' = Sold + 1
  <2>1. Sold + 1 < WordMod BY <1>7
  <2> QED BY <1>1, <1>7, <2>1, PosPlus DEF Sold
<1>9. /\ idx'[p] = write_offset /\ idx' \in [Producers -> Word]
      /\ \A q \in Producers : q # p => idx'[q] = idx[q]
  <2>1. idx \in [Producers -> Word] BY DEF TypeOK
  <2> QED BY <1>1, <1>7, <2>1
<1>10. TypeOK'
  BY <1>1, <1>8, <1>9 DEF TypeOK, list, elements, heads, cutoff, consumer, reading, reclaim, pending, Function
<1>11. Begin(p)' = Sold BY <1>9 DEF Begin, Sold
<1>12. Cutoff(cut)'
  <2>1. Turn' = Turn /\ ppc'[p] \in Drawing BY <1>2, <1>3 DEF Turn, Drawing
  <2>2. cut <= Sold' /\ Sold' <= Top BY <1>6, <1>7, <1>8
  <2> QED BY <1>2, <1>3, <1>4, <2>1, <2>2 DEF Cutoff
<1>13. Closers(cut)'
  <2>1. \A q \in Producers : q # p => ~Closer(q)' /\ CloserOK(cut, q)'
    BY <1>1, <1>3, <1>5 DEF Closer, CloserOK, Closers
  <2>2. CloserOK(cut, p)'
    <3>1. cut < Sold' BY <1>6, <1>7, <1>8
    <3> QED BY <1>1, <1>2, <1>3, <1>4, <1>6, <1>11, <3>1 DEF CloserOK, Closer, Drawing
  <2> QED BY <2>1, <2>2 DEF Closers
<1>14. Stable(cut, cut)
  <2>1. /\ Ahead(p) = Begin(p) /\ Finish(p) = Begin(p) /\ Begin(p) \in Nat
        /\ Ahead(p)' = Sold /\ Finish(p)' = Sold
    BY <1>1, <1>3, <1>4, <1>7, <1>11, Types DEF Ahead, Finish
  <2>2. \A m \in Nat : m < cut =>
            ((Ahead(p)' <= m /\ m < Finish(p)') <=> (Ahead(p) <= m /\ m < Finish(p)))
    BY <1>7, <2>1
  <2>3. (count'[p] = 0 /\ ppc'[p] \in Placing) <=> (count[p] = 0 /\ ppc[p] \in Placing)
    BY <1>1, <1>3 DEF Placing, Starting
  <2> QED BY <1>1, <1>2, <1>3, <1>9, <2>2, <2>3, IsStableWhen
<1>15. Sold <= Sold' BY <1>7, <1>8
<1>16. ppc[p] \in Drawing /\ ppc'[p] \in Drawing BY <1>1, <1>3 DEF Drawing
<1> QED BY <1>1, <1>3, <1>9, <1>10, <1>12, <1>13, <1>14, <1>15, <1>16, CloseStep

LEMMA SetCutoffKeeps ==
  ASSUME NEW p \in Producers, NEW cut \in Nat, Going(cut), SetCutoff(p)
  PROVE  Going(cut)'
<1> USE DEF Going, Shape
<1>1. /\ ppc[p] = "set_cutoff" /\ ppc' = [ppc EXCEPT ![p] = "load_hint"]
      /\ write_closed_at' = idx[p] /\ closed_ready' = TRUE
      /\ UNCHANGED <<list, elements, write_offset, heads, closed, locals, consumer, elem, can_suspend>>
  BY DEF SetCutoff, GoTo
<1>2. UNCHANGED <<idx, count, written, observed, walk, pblock>> /\ read_offset' = read_offset /\ taken' = taken
  BY <1>1 DEF locals, consumer, reading
<1>3. ppc'[p] = "load_hint" /\ \A q \in Producers : q # p => ppc'[q] = ppc[q] BY <1>1, GoesTo
<1>4. count[p] = 0 /\ written[p] = 0 /\ Closer(p) /\ closed /\ ~closed_ready /\ Begin(p) = cut /\ cut < Sold
  BY <1>1, Doing DEF Closer, CloserOK, Drawing
<1>5. \A q \in Producers : q # p => ~Closer(q) BY <1>4 DEF Closers
<1>6. idx[p] \in Word BY Types
<1>7. TypeOK'
  BY <1>1, <1>6 DEF TypeOK, list, elements, heads, locals, consumer, reading, reclaim, pending, Function
<1>8. Sold' = Sold /\ Turn' = Turn /\ Sold \in Nat BY <1>1, <1>2, Types DEF Sold, Turn
<1>9. Cutoff(cut)'
  <2>1. Pos(write_closed_at') = cut BY <1>1, <1>4 DEF Begin
  <2> QED BY <1>1, <1>2, <1>4, <1>8, <2>1 DEF Cutoff
<1>10. Closers(cut)'
  <2>1. \A q \in Producers : q # p => ~Closer(q)' /\ CloserOK(cut, q)'
    BY <1>2, <1>3, <1>5 DEF Closer, CloserOK, Closers
  <2>2. CloserOK(cut, p)'
    <3>1. Begin(p)' = Begin(p) BY <1>2 DEF Begin
    <3> QED BY <1>1, <1>2, <1>3, <1>4, <1>8, <3>1 DEF CloserOK, Closer, Drawing, Placing, Starting
  <2> QED BY <2>1, <2>2 DEF Closers
<1>11. Stable(cut, cut)
  <2>1. \A q \in Producers : Ahead(q)' = Ahead(q) /\ Finish(q)' = Finish(q)
    BY <1>1, <1>2, <1>3 DEF Ahead, Finish, Begin
  <2>2. \A m \in Nat : Done(cut, m)' <=> Done(cut, m) BY <2>1 DEF Done
  <2>3. ~Placed BY <1>4 DEF Placed
  <2>4. ~Placed' BY <1>2, <1>3, <1>4 DEF Placed, Placing, Starting
  <2> QED BY <2>2, <2>3, <2>4 DEF Stable, AtEnd
<1>12. Sold <= Sold' BY <1>8
<1>13. ppc[p] \in Drawing /\ ppc'[p] \in Starting BY <1>1, <1>3 DEF Drawing, Starting
<1> QED BY <1>1, <1>2, <1>3, <1>7, <1>9, <1>10, <1>11, <1>12, <1>13, CloseStep

\* An element is written
LEMMA EditFlags ==
  ASSUME TypeOK, NEW b \in Block, NEW i \in Index, NEW f \in Flag, flags' = [flags EXCEPT ![b][i] = f]
  PROVE  /\ flags' \in [Block -> [Index -> Flag]] /\ flags'[b][i] = f
         /\ \A x \in Block, j \in Index : x # b \/ j # i => flags'[x][j] = flags[x][j]
         /\ \A x \in Block : x # b => flags'[x] = flags[x]
<1>1. flags \in [Block -> [Index -> Flag]] BY DEF TypeOK
<1> QED BY <1>1

LEMMA EditStored ==
  ASSUME TypeOK, NEW b \in Block, NEW i \in Index, NEW v, v \in Value \/ v = NoValue,
         stored' = [stored EXCEPT ![b][i] = v]
  PROVE  /\ stored' \in [Block -> [Index -> Value \cup {NoValue}]] /\ stored'[b][i] = v
         /\ \A x \in Block, j \in Index : x # b \/ j # i => stored'[x][j] = stored[x][j]
         /\ \A x \in Block : x # b => stored'[x] = stored[x]
<1>1. stored \in [Block -> [Index -> Value \cup {NoValue}]] BY DEF TypeOK
<1> QED BY <1>1

\* The element of a word.
LEMMA ElementOf ==
  ASSUME TypeOK, NEW b \in Block, NEW x \in Word, First(b) = Base(Pos(x))
  PROVE  /\ IndexOf(x) \in Index /\ First(b) + IndexOf(x) = Pos(x) /\ offset[b] = StartOf(x)
         /\ Pos(x) < First(b) + BlockSize
<1>1. IndexOf(x) = Pos(x) - Base(Pos(x)) /\ IndexOf(x) \in Index BY PlaceOf
<1>2. Base(Pos(x)) \in Nat /\ Pos(x) \in Nat /\ Pos(x) < Base(Pos(x)) + BlockSize
  BY PosIs, BaseOf
<1>3. offset[b] = StartOf(x) BY SameBlock
<1> QED BY <1>1, <1>2, <1>3

\* One element changes, and what is published only there.
LEMMA CellsChange ==
  ASSUME TypeOK, Linked, NEW cut, Cells(cut), Clean, NEW b \in OnList, NEW i \in Index, NEW t \in Nat, t = First(b) + i,
         UNCHANGED <<list, unlinked, read_offset>>, Turn <= t,
         \A x \in Block, j \in Index : x # b \/ j # i =>
             flags'[x][j] = flags[x][j] /\ stored'[x][j] = stored[x][j],
         \A x \in Block : x # b => flags'[x] = flags[x],
         CellOK(cut, t, flags[b][i], stored[b][i])',
         \A m \in Nat : m # t => (Done(cut, m)' <=> Done(cut, m)) /\ (AtEnd(cut, m)' <=> AtEnd(cut, m)),
         \/ t = Turn
         \/ /\ (Asleep' <=> Asleep) /\ (cpc' = "restore" <=> cpc = "restore")
            /\ cpc = "holding" => cpc' = "holding",
         cpc' = cpc \/ cpc' \notin {"find_tail", "unlink", "relink"}
  PROVE  Cells(cut)' /\ Clean'
<1>1. Turn' = Turn /\ OnList' = OnList /\ Unlinked' = Unlinked
      /\ (\A x : First(x)' = First(x)) /\ (\A m : Reaches(m)' <=> Reaches(m))
  BY ListStays DEF Turn
<1>2. ASSUME NEW m \in Nat, m # t, NEW f, NEW v, CellOK(cut, m, f, v)
      PROVE  CellOK(cut, m, f, v)'
  <2>1. (Done(cut, m)' <=> Done(cut, m)) /\ (AtEnd(cut, m)' <=> AtEnd(cut, m)) BY <1>2
  <2>2. m = Turn => /\ (Asleep' <=> Asleep) /\ (cpc' = "restore" <=> cpc = "restore")
                    /\ cpc = "holding" => cpc' = "holding"
    BY <1>2
  <2>3. Mark(cut, m)' = Mark(cut, m) BY <1>1, <2>1, <2>2 DEF Mark
  <2> QED BY <1>1, <1>2, <2>1, <2>2, <2>3 DEF CellOK
<1>3. ASSUME NEW x \in OnList, NEW j \in Index
      PROVE  IF First(x)' + j < Turn' THEN stored'[x][j] = NoValue
             ELSE CellOK(cut, First(x) + j, flags[x][j], stored[x][j])'
  <2>1. First(x) + j \in Nat /\ x \in Block
    <3>1. x \in Block /\ First(x) \in Nat BY Types
    <3>2. j \in Nat BY Sizes DEF Index
    <3> QED BY <3>1, <3>2
  <2>2. PICK m \in Nat : m = First(x) + j BY <2>1
  <2>3. CASE m = t
    <3>1. x = b /\ j = i BY <2>2, <2>3, OneCell
    <3>2. First(x)' + j = t /\ ~(t < Turn) BY <1>1, <2>2, <2>3, Types
    <3> QED BY <1>1, <3>1, <3>2
  <2>4. CASE m # t
    <3>1. PICK f, v : f = flags[x][j] /\ v = stored[x][j] OBVIOUS
    <3>2. IF m < Turn THEN v = NoValue ELSE CellOK(cut, m, f, v) BY <2>2, <3>1 DEF Cells
    <3>3. First(x)' + j = m /\ flags'[x][j] = f /\ stored'[x][j] = v
      BY <1>1, <2>1, <2>2, <2>4, <3>1
    <3> QED BY <1>1, <1>2, <2>4, <3>2, <3>3
  <2> QED BY <2>3, <2>4
<1>4. ASSUME NEW m \in Nat, Turn <= m, (Done(cut, m) \/ AtEnd(cut, m))'
      PROVE  Reaches(m)
  <2>1. CASE m = t
    <3>1. t < First(b) + BlockSize BY Types, Sizes DEF Index
    <3> QED BY <2>1, <3>1 DEF Reaches
  <2>2. CASE m # t BY <1>4, <2>2 DEF Cells
  <2> QED BY <2>1, <2>2
<1>5. Cells(cut)' BY <1>1, <1>3, <1>4 DEF Cells
<1>6. Clean'
  <2>1. OnList \subseteq Block /\ b \notin Unlinked BY Types DEF OnList
  <2>2. \A x \in Block \ OnList, j \in Index : stored'[x][j] = stored[x][j] OBVIOUS
  <2>3. \A x \in Unlinked : x \in Block BY Types, ElementOfSeq DEF Unlinked
  <2> QED BY <1>1, <2>1, <2>2, <2>3 DEF Clean
<1> QED BY <1>5, <1>6

\* A ticket has one owner.
LEMMA OneOwner ==
  ASSUME NEW cut, TypeOK, Posts(cut), NEW p \in Producers, NEW q \in Producers, NEW m \in Nat,
         Begin(p) <= m, m < Finish(p), Begin(q) <= m, m < Finish(q)
  PROVE  p = q
<1>1. /\ Finish(p) = Begin(p) + count[p] /\ Finish(q) = Begin(q) + count[q]
      /\ {Begin(p), Begin(q), count[p], count[q], Finish(p), Finish(q)} \subseteq Nat
  BY Types
<1>2. count[p] > 0 /\ count[q] > 0 BY <1>1
<1> QED BY <1>1, <1>2 DEF Posts

\* The heads when the consumer goes from one thing to another.
LEMMA HeadsGo ==
  ASSUME Heads, UNCHANGED <<list, unlinked, oldHead, head_block, write_block, write_block_hint,
                            read_block, read_offset, pending, write_offset>>,
         cpc' # "move_hint" => First(write_block) <= First(write_block_hint),
         cpc' \in {"move_hint", "read_cutoff"} => pending_old_head = Null /\ write_block = rblock',
         cpc' \in Tidying => rblock' = read_block,
         cpc' = "seek" => /\ rblock' \in OnList
                          /\ First(read_block) <= Pos(offset[rblock']) /\ Pos(offset[rblock']) <= Turn,
         cpc' \in AtElement => rblock' \in OnList /\ Pos(offset[rblock']) = Base(Turn)
  PROVE  Heads'
<1>1. OnList' = OnList /\ (\A x : First(x)' = First(x)) /\ offset' = offset
  BY ListStays DEF list
<1>2. /\ pending_old_head' = pending_old_head /\ pending_new_head' = pending_new_head
      /\ pending_cutoff' = pending_cutoff
  BY DEF pending
<1>3. Lowest' = Lowest /\ Turn' = Turn /\ Sold' = Sold BY DEF Lowest, Turn, Sold
<1> QED BY <1>1, <1>2, <1>3 DEF Heads, First

\* The rest of the producers' part when one has moved.
LEMMA StepParts ==
  ASSUME NEW p \in Producers, NEW cut \in Nat, Going(cut),
         UNCHANGED <<list, unlinked, head_block, pending, write_offset, cutoff, read_offset, taken>>,
         \A q \in Producers : q # p =>
             /\ ppc'[q] = ppc[q] /\ idx'[q] = idx[q] /\ count'[q] = count[q] /\ written'[q] = written[q]
             /\ observed'[q] = observed[q] /\ walk'[q] = walk[q] /\ pblock'[q] = pblock[q],
         ppc[p] \notin Drawing, ppc'[p] # "gone", cpc' # "gone",
         CloserOK(cut, p)', Closer(p)' => Closer(p),
         PostOK(cut, p)', count'[p] = 0 \/ (count'[p] = count[p] /\ idx'[p] = idx[p]),
         Search(p)', Place(p)'
  PROVE  Cutoff(cut)' /\ Closers(cut)' /\ Posts(cut)' /\ Cursor' /\ Alive'
<1> USE DEF Going, Shape
<1>1. Cutoff(cut)'
  <2>1. \A q \in Producers : ppc[q] \in Drawing => ppc'[q] = ppc[q] OBVIOUS
  <2> QED BY <2>1, CutoffStays
<1>2. Closers(cut)' BY ClosersMove
<1>3. Posts(cut)'
  <2>1. count'[p] \in Nat BY Types
  <2> QED BY <2>1, PostsMove
<1>4. Cursor'
  <2>1. Grows BY ListStays
  <2> QED BY <2>1, CursorMoves
<1>5. Alive'
  <2>1. \A q \in Producers : ppc'[q] # "gone" BY DEF Alive
  <2> QED BY <2>1 DEF Alive
<1> QED BY <1>1, <1>2, <1>3, <1>4, <1>5

\* A value is published
\* Its ticket is below the cutoff, and not behind the consumer.
LEMMA Writer ==
  ASSUME NEW cut \in Nat, Going(cut), NEW p \in Producers, count[p] > 0, ppc[p] \in {"write", "wake"}
  PROVE  /\ idx[p] \in Word /\ written[p] \in Nat /\ count[p] \in Nat /\ written[p] < count[p]
         /\ Begin(p) \in Nat /\ Finish(p) = Begin(p) + count[p]
         /\ Begin(p) + written[p] < Finish(p) /\ Finish(p) <= cut /\ Turn <= Begin(p) + written[p]
         /\ Turn \in Nat /\ Skipped \in Nat /\ Skipped <= Turn
         /\ cut <= Skipped + MaxTicket /\ 2 * cut < WordMod
         /\ WriteAt(p) \in Word /\ Pos(WriteAt(p)) = Begin(p) + written[p]
         /\ pblock[p] \in OnList /\ pblock[p] \in Block /\ First(pblock[p]) = Base(Begin(p) + written[p])
         /\ Reaches(Finish(p) - 1)
<1> USE DEF Going, Shape
<1>1. /\ idx[p] \in Word /\ written[p] \in Nat /\ count[p] \in Nat
      /\ Begin(p) \in Nat /\ Finish(p) = Begin(p) + count[p]
      /\ Turn \in Nat /\ Skipped \in Nat
      /\ ppc[p] = "wake" => Ahead(p) = Begin(p) + written[p] + 1
      /\ ppc[p] # "wake" => Ahead(p) = Begin(p) + written[p]
  BY Types, Origin
<1>2. /\ written[p] < count[p] /\ (Finish(p) <= cut \/ cut < Begin(p)) /\ Begin(p) < cut
      /\ Ahead(p) < Finish(p) => Turn <= Ahead(p)
  <2>1. PostOK(cut, p) BY DEF Posts
  <2>2. ppc[p] \notin Stopping BY DEF Stopping
  <2> QED BY <2>1, <2>2 DEF PostOK
<1>3. Skipped <= Turn /\ cut <= Skipped + MaxTicket /\ 2 * cut < WordMod BY Bounds DEF Cutoff
<1>4. Begin(p) + written[p] < Finish(p) /\ Finish(p) <= cut BY <1>1, <1>2
<1>5. Turn <= Begin(p) + written[p]
  <2>1. CASE ppc[p] = "wake"
    <3>1. Begin(p) + written[p] = Turn BY <2>1 DEF Rousing
    <3> QED BY <1>1, <3>1
  <2>2. CASE ppc[p] # "wake" BY <1>1, <1>2, <1>4, <2>2
  <2> QED BY <2>1, <2>2
<1>6. WriteAt(p) \in Word /\ Pos(WriteAt(p)) = Begin(p) + written[p]
  <2>1. Begin(p) + written[p] < WordMod BY <1>1, <1>3, <1>4, Sizes
  <2> QED BY <1>1, <2>1, PosPlus DEF WriteAt, Begin
<1>7. pblock[p] \in OnList /\ First(pblock[p]) = Base(Begin(p) + written[p]) /\ Reaches(Finish(p) - 1)
  BY DEF Cursor, Place, Writing
<1>8. pblock[p] \in Block BY <1>7, Types
<1> QED BY <1>1, <1>2, <1>3, <1>4, <1>5, <1>6, <1>7, <1>8

\* The call goes on or ends.
LEMMA Continues ==
  ASSUME NEW p \in Producers, NEW cut \in Nat, Going(cut), count[p] > 0, ppc[p] \in {"write", "wake"},
         Continue(p), UNCHANGED <<list, unlinked, write_offset, read_offset>>,
         NEW t \in Nat, t = Begin(p) + written[p]
  PROVE  /\ \A q \in Producers : q # p =>
               /\ ppc'[q] = ppc[q] /\ idx'[q] = idx[q] /\ count'[q] = count[q] /\ written'[q] = written[q]
               /\ observed'[q] = observed[q] /\ walk'[q] = walk[q] /\ pblock'[q] = pblock[q]
         /\ ppc' \in [Producers -> {"idle", "check_closed", "spin", "load_hint", "load_write_block", "seek",
                              "reserve", "write", "cross", "wake", "draw_cutoff", "set_cutoff",
                              "sentinel", "gone"}]
         /\ idx' \in [Producers -> Word] /\ count' \in [Producers -> 0 .. MaxBulk]
         /\ written' \in [Producers -> 0 .. MaxBulk]
         /\ {observed', walk', pblock'} \subseteq [Producers -> Block \cup {Null}]
         /\ ppc'[p] \in {"idle", "write", "cross"}
         /\ CloserOK(cut, p)' /\ ~Closer(p)' /\ PostOK(cut, p)'
         /\ count'[p] = 0 \/ (count'[p] = count[p] /\ idx'[p] = idx[p])
         /\ Search(p)' /\ Place(p)'
         /\ \A m \in Nat : (Ahead(p)' <= m /\ m < Finish(p)') <=> (t + 1 <= m /\ m < Finish(p))
<1>0. TypeOK BY DEF Going
<1>1. /\ idx[p] \in Word /\ written[p] \in Nat /\ count[p] \in Nat /\ written[p] < count[p]
      /\ Begin(p) \in Nat /\ Finish(p) = Begin(p) + count[p]
      /\ t < Finish(p) /\ Finish(p) <= cut /\ Turn <= t
      /\ Turn \in Nat /\ 2 * cut < WordMod
      /\ WriteAt(p) \in Word /\ Pos(WriteAt(p)) = t
      /\ pblock[p] \in OnList /\ pblock[p] \in Block /\ First(pblock[p]) = Base(t)
      /\ Reaches(Finish(p) - 1)
  BY Writer
<1>2. CASE written[p] + 1 = count[p]
  <2>1. Return(p)
    <3>1. ~(written[p] + 1 < count[p]) BY <1>1, <1>2
    <3> QED BY <1>2, <3>1, Zenon DEF Continue
  <2>2. /\ ppc'[p] = "idle" /\ idx'[p] = 0 /\ count'[p] = 0 /\ written'[p] = 0 /\ pblock'[p] = Null
        /\ \A q \in Producers : q # p =>
               /\ ppc'[q] = ppc[q] /\ idx'[q] = idx[q] /\ count'[q] = count[q] /\ written'[q] = written[q]
               /\ observed'[q] = observed[q] /\ walk'[q] = walk[q] /\ pblock'[q] = pblock[q]
        /\ ppc' \in [Producers -> {"idle", "check_closed", "spin", "load_hint", "load_write_block", "seek",
                              "reserve", "write", "cross", "wake", "draw_cutoff", "set_cutoff",
                              "sentinel", "gone"}]
        /\ idx' \in [Producers -> Word] /\ count' \in [Producers -> 0 .. MaxBulk]
        /\ written' \in [Producers -> 0 .. MaxBulk]
        /\ {observed', walk', pblock'} \subseteq [Producers -> Block \cup {Null}]
    BY <1>0, <2>1, Returns
  <2>3. CloserOK(cut, p)' /\ ~Closer(p)' /\ PostOK(cut, p)' BY <2>2 DEF CloserOK, Closer, PostOK
  <2>4. Search(p)' /\ Place(p)' BY <2>2 DEF Search, Place, Writing
  <2>5. \A m \in Nat : (Ahead(p)' <= m /\ m < Finish(p)') <=> (t + 1 <= m /\ m < Finish(p))
    <3>1. Pos(0) \in Nat BY PosIs, Sizes DEF Word
    <3>2. Ahead(p)' = Pos(0) /\ Finish(p)' = Pos(0) BY <2>2, <3>1 DEF Ahead, Finish, Begin
    <3>3. Finish(p) = t + 1 BY <1>1, <1>2
    <3> QED BY <1>1, <3>1, <3>2, <3>3
  <2> QED BY <2>2, <2>3, <2>4, <2>5
<1>3. CASE written[p] + 1 # count[p]
  <2>0. written[p] + 1 < count[p] BY <1>1, <1>3
  <2>1. PICK s : s = IF StartsBlock(Plus(WriteAt(p), 1)) THEN "cross" ELSE "write" OBVIOUS
  <2>2. /\ ppc' = [ppc EXCEPT ![p] = s] /\ written' = [written EXCEPT ![p] = @ + 1]
        /\ UNCHANGED <<idx, count, observed, walk, pblock>>
    BY <1>3, <2>0, <2>1 DEF Continue, GoTo
  <2>3. ppc'[p] = s /\ \A q \in Producers : q # p => ppc'[q] = ppc[q] BY <1>0, <2>2, GoesTo
  <2>4. /\ written'[p] = written[p] + 1 /\ \A q \in Producers : q # p => written'[q] = written[q]
        /\ written' \in [Producers -> 0 .. MaxBulk]
    <3>1. written \in [Producers -> 0 .. MaxBulk] /\ count \in [Producers -> 0 .. MaxBulk]
      BY <1>0 DEF TypeOK
    <3>2. count[p] \in 0 .. MaxBulk /\ MaxBulk \in Nat BY <3>1, Sizes
    <3>3. written[p] + 1 \in 0 .. MaxBulk BY <1>1, <2>0, <3>2
    <3> QED BY <2>2, <3>1, <3>3
  <2>5. s \in {"write", "cross"} BY <2>1
  <2>6. ppc' \in [Producers -> {"idle", "check_closed", "spin", "load_hint", "load_write_block", "seek",
                              "reserve", "write", "cross", "wake", "draw_cutoff", "set_cutoff",
                              "sentinel", "gone"}]
        /\ idx' \in [Producers -> Word] /\ count' \in [Producers -> 0 .. MaxBulk]
        /\ {observed', walk', pblock'} \subseteq [Producers -> Block \cup {Null}]
    BY <1>0, <2>2, <2>5 DEF TypeOK
  <2>7. Begin(p)' = Begin(p) /\ Finish(p)' = Finish(p) /\ Ahead(p)' = t + 1 /\ Begin(p)' + written'[p] = t + 1
    BY <1>1, <2>2, <2>3, <2>4, <2>5 DEF Begin, Finish, Ahead
  <2>8. CloserOK(cut, p)' /\ ~Closer(p)' BY <1>1, <2>2, <2>4 DEF CloserOK, Closer
  <2>9. PostOK(cut, p)'
    <3>1. PostOK(cut, p) /\ Sold' = Sold /\ Turn' = Turn BY DEF Going, Shape, Posts, Sold, Turn
    <3>2. ppc'[p] \in Posting /\ ppc'[p] \in Writing BY <2>3, <2>5 DEF Posting, Writing
    <3>3. Begin(p) < cut /\ Turn <= t + 1 BY <1>1
    <3> QED BY <2>0, <2>2, <2>4, <2>7, <3>1, <3>2, <3>3 DEF PostOK
  <2>10. PICK n : n = Finish(p) - 1 OBVIOUS
  <2>11. /\ OnList' = OnList /\ (\A x : First(x)' = First(x))
         /\ Reaches(n)' <=> Reaches(n)
    BY ListStays
  <2>12. Reaches(Finish(p) - 1)' BY <1>1, <2>7, <2>10, <2>11
  <2>13. /\ Base(t) \in Starts /\ Base(t) \in Nat /\ Base(t) <= t /\ t < Base(t) + BlockSize
         /\ Base(t + 1) \in Starts /\ Base(t + 1) \in Nat /\ Base(t + 1) <= t + 1
         /\ Base(t) <= t + 1 => Base(t) <= Base(t + 1)
         /\ Base(t + 1) <= t => Base(t + 1) <= Base(t)
    <3>1. t + 1 \in Nat OBVIOUS
    <3> QED BY <3>1, BaseOf
  <2>14. StartsBlock(Plus(WriteAt(p), 1)) <=> Base(t + 1) = t + 1
    <3>1. Plus(WriteAt(p), 1) \in Word /\ Pos(Plus(WriteAt(p), 1)) = t + 1
      <4>1. t + 1 < WordMod BY <1>1, Sizes
      <4> QED BY <1>1, <4>1, PosPlus
    <3> QED BY <3>1, PlaceOf
  <2>15. s = "cross" => First(pblock[p]) + BlockSize = t + 1
    <3>1. CASE Base(t + 1) = t + 1
      <4>1. Base(t) + BlockSize <= t + 1 BY <2>13, <3>1, StartsApart
      <4> QED BY <1>1, <2>13, <4>1, Sizes
    <3> QED BY <2>1, <2>14, <3>1
  <2>16. s = "write" => First(pblock[p]) = Base(t + 1)
    <3>1. CASE Base(t + 1) # t + 1 BY <1>1, <2>13, <3>1
    <3> QED BY <2>1, <2>14, <3>1
  <2>17. Search(p)' /\ Place(p)'
    <3>1. Search(p)' BY <2>3, <2>5 DEF Search
    <3>2. pblock'[p] = pblock[p] /\ pblock[p] \in OnList' /\ Pos(offset'[pblock[p]]) = First(pblock[p])
      BY <1>1, <2>2, <2>11 DEF First
    <3>3. ppc'[p] \notin Starting \cup Stopping \cup Drawing \cup {"idle", "sentinel", "wake"}
      BY <2>3, <2>5 DEF Starting, Stopping, Drawing
    <3>4. ppc'[p] = "write" => Pos(offset'[pblock'[p]]) = Base(Begin(p)' + written'[p])
      BY <2>3, <2>7, <2>16, <3>2
    <3>5. ppc'[p] = "cross" => Pos(offset'[pblock'[p]]) + BlockSize = Begin(p)' + written'[p]
      BY <2>3, <2>7, <2>15, <3>2
    <3>6. Place(p)' BY <2>12, <3>2, <3>3, <3>4, <3>5 DEF Place, First
    <3> QED BY <3>1, <3>6
  <2>18. \A m \in Nat : (Ahead(p)' <= m /\ m < Finish(p)') <=> (t + 1 <= m /\ m < Finish(p))
    BY <2>7
  <2> QED BY <2>2, <2>3, <2>4, <2>5, <2>6, <2>8, <2>9, <2>17, <2>18
<1> QED BY <1>2, <1>3

\* The next ticket of a post is what has been published.
LEMMA OneMore ==
  ASSUME NEW cut \in Nat, Going(cut), NEW p \in Producers, NEW t \in Nat, t < cut,
         count[p] > 0, Ahead(p) = t, Begin(p) <= t, t < Finish(p),
         \A q \in Producers : q # p =>
             ppc'[q] = ppc[q] /\ idx'[q] = idx[q] /\ count'[q] = count[q] /\ written'[q] = written[q],
         \A m \in Nat : (Ahead(p)' <= m /\ m < Finish(p)') <=> (t + 1 <= m /\ m < Finish(p))
  PROVE  Done(cut, t)' /\ ~Done(cut, t) /\ \A m \in Nat : m # t => (Done(cut, m)' <=> Done(cut, m))
<1>1. \A q \in Producers : q # p => Ahead(q)' = Ahead(q) /\ Finish(q)' = Finish(q)
  BY DEF Ahead, Finish, Begin
<1>2. ASSUME NEW q \in Producers
      PROVE  ~(Ahead(q)' <= t /\ t < Finish(q)')
  <2>1. CASE q = p
    <3>1. ~(t + 1 <= t) OBVIOUS
    <3> QED BY <2>1, <3>1
  <2>2. CASE q # p
    <3> SUFFICES ASSUME Ahead(q) <= t, t < Finish(q)
                 PROVE  FALSE
      BY <1>1, <2>2
    <3>1. Begin(q) <= t
      <4>1. Begin(q) \in Nat /\ Ahead(q) \in Nat /\ written[q] \in Nat
            /\ (Ahead(q) = Begin(q) + written[q] + 1 \/ Ahead(q) = Begin(q) + written[q])
        BY Types DEF Going
      <4> QED BY <4>1
    <3> QED BY <2>2, <3>1, OneOwner DEF Going, Shape
  <2> QED BY <2>1, <2>2
<1>3. Done(cut, t)' BY <1>2 DEF Done
<1>4. ~Done(cut, t)
  <2>1. Ahead(p) <= t /\ t < Finish(p) OBVIOUS
  <2> QED BY <2>1 DEF Done
<1>5. ASSUME NEW m \in Nat, m # t
      PROVE  Done(cut, m)' <=> Done(cut, m)
  <2>1. \A q \in Producers : (Ahead(q)' <= m /\ m < Finish(q)') <=> (Ahead(q) <= m /\ m < Finish(q))
    BY <1>1, <1>5
  <2> QED BY <2>1, Zenon DEF Done
<1> QED BY <1>3, <1>4, <1>5

LEMMA WriteElementKeeps ==
  ASSUME NEW p \in Producers, NEW cut \in Nat, Going(cut), WriteElement(p)
  PROVE  Going(cut)'
<1> USE DEF Going, Shape
<1>1. PICK b, i, f, v : /\ b = pblock[p] /\ i = IndexOf(WriteAt(p))
                        /\ f = flags[b][i] /\ v = ValueAt(WriteAt(p))
  OBVIOUS
<1>2. /\ ppc[p] = "write"
      /\ stored' = [stored EXCEPT ![b][i] = v]
      /\ flags' = [flags EXCEPT ![b][i] = "data"]
      /\ IF Waiter(f) THEN ppc' = [ppc EXCEPT ![p] = "wake"] /\ UNCHANGED locals ELSE Continue(p)
      /\ UNCHANGED <<list, write_offset, heads, cutoff, consumer, elem, can_suspend>>
  BY <1>1 DEF WriteElement, GoTo
<1>3. PICK t \in Nat : t = Begin(p) + written[p] BY Types
<1>4. /\ count[p] > 0 /\ written[p] < count[p] /\ t < Finish(p) /\ Finish(p) <= cut /\ Turn <= t
      /\ Turn \in Nat /\ Skipped \in Nat /\ Skipped <= Turn /\ cut <= Skipped + MaxTicket
      /\ WriteAt(p) \in Word /\ Pos(WriteAt(p)) = t /\ b \in OnList /\ b \in Block
      /\ First(b) = Base(t) /\ Reaches(Finish(p) - 1)
      /\ Begin(p) \in Nat /\ Begin(p) <= t /\ Finish(p) = Begin(p) + count[p] /\ written[p] \in Nat
      /\ count[p] \in Nat
  <2>1. count[p] > 0 BY <1>2, Doing
  <2>2. ppc[p] \in {"write", "wake"} BY <1>2
  <2>3. /\ written[p] < count[p] /\ t < Finish(p) /\ Finish(p) <= cut /\ Turn <= t
      /\ Turn \in Nat /\ Skipped \in Nat /\ Skipped <= Turn /\ cut <= Skipped + MaxTicket
      /\ WriteAt(p) \in Word /\ Pos(WriteAt(p)) = t /\ b \in OnList /\ b \in Block
      /\ First(b) = Base(t) /\ Reaches(Finish(p) - 1)
      /\ Begin(p) \in Nat /\ Finish(p) = Begin(p) + count[p] /\ written[p] \in Nat
      /\ count[p] \in Nat
    BY <1>1, <1>3, <2>1, <2>2, Writer
  <2> QED BY <1>3, <2>1, <2>3
<1>5. /\ i \in Index /\ First(b) + i = t BY <1>1, <1>4, ElementOf
<1>6. v = t - Skipped + 1 /\ v \in Value
  <2>1. v = (t - Skipped) + 1 BY <1>1, <1>4, Count DEF ValueAt
  <2> QED BY <1>3, <1>4, <2>1, Sizes DEF Value
<1>7. Ahead(p) = t /\ ~Done(cut, t) /\ ~AtEnd(cut, t)
  <2>1. Ahead(p) = t BY <1>2, <1>3, Types
  <2>2. ~Done(cut, t)
    <3>1. Ahead(p) <= t BY <1>3, <2>1
    <3> QED BY <1>4, <3>1 DEF Done
  <2>3. t < cut BY <1>3, <1>4
  <2> QED BY <1>3, <2>1, <2>2, <2>3 DEF AtEnd
<1>8. f = IF t = Turn /\ Asleep THEN "cons" ELSE "empty"
  <2>1. CellOK(cut, t, f, stored[b][i])
    <3>1. ~(First(b) + i < Turn) BY <1>3, <1>4, <1>5
    <3>2. CellOK(cut, First(b) + i, flags[b][i], stored[b][i]) BY <1>4, <1>5, <3>1 DEF Cells
    <3> QED BY <1>1, <1>5, <3>2
  <2> QED BY <1>7, <2>1 DEF CellOK, Mark
<1>9. Waiter(f) <=> t = Turn /\ Asleep
  <2>1. Asleep => can_suspend BY DEF Rousing, Asleep
  <2> QED BY <1>8, <2>1 DEF Waiter
<1>10. /\ UNCHANGED <<unlinked, head_block, oldHead, tail_block, tailBlock, pending, read_offset, taken>>
       /\ UNCHANGED <<write_block, write_block_hint, closed, closed_ready, call, outcome>> /\ cpc' = cpc
       /\ Turn' = Turn /\ Sold' = Sold
  BY <1>2 DEF consumer, reading, reclaim, heads, cutoff, Turn, Sold
<1>11. PICK n : n = Finish(p) - 1 OBVIOUS
<1>12. /\ Grows /\ OnList' = OnList /\ (\A x : First(x)' = First(x))
       /\ Reaches(n)' <=> Reaches(n)
  BY <1>2, <1>10, ListStays
<1>13. /\ \A q \in Producers : q # p =>
               /\ ppc'[q] = ppc[q] /\ idx'[q] = idx[q] /\ count'[q] = count[q] /\ written'[q] = written[q]
               /\ observed'[q] = observed[q] /\ walk'[q] = walk[q] /\ pblock'[q] = pblock[q]
       /\ ppc' \in [Producers -> {"idle", "check_closed", "spin", "load_hint", "load_write_block", "seek",
                              "reserve", "write", "cross", "wake", "draw_cutoff", "set_cutoff",
                              "sentinel", "gone"}]
       /\ idx' \in [Producers -> Word] /\ count' \in [Producers -> 0 .. MaxBulk]
       /\ written' \in [Producers -> 0 .. MaxBulk]
       /\ {observed', walk', pblock'} \subseteq [Producers -> Block \cup {Null}]
       /\ ppc'[p] \in (IF Waiter(f) THEN {"wake"} ELSE {"idle", "write", "cross"})
       /\ CloserOK(cut, p)' /\ ~Closer(p)' /\ PostOK(cut, p)'
       /\ count'[p] = 0 \/ (count'[p] = count[p] /\ idx'[p] = idx[p])
       /\ Search(p)' /\ Place(p)'
       /\ \A m \in Nat : (Ahead(p)' <= m /\ m < Finish(p)') <=> (t + 1 <= m /\ m < Finish(p))
       /\ Waiter(f) => Begin(p)' + written'[p] = t
  <2>1. CASE ~Waiter(f)
    <3>1. Continue(p) BY <1>2, <2>1
    <3>2. ppc[p] \in {"write", "wake"} /\ UNCHANGED <<list, unlinked, write_offset, read_offset>>
      BY <1>2, <1>10
    <3>3. ppc'[p] \in {"idle", "write", "cross"} BY <1>3, <1>4, <3>1, <3>2, Continues
    <3> QED BY <1>3, <1>4, <2>1, <3>1, <3>2, <3>3, Continues
  <2>2. CASE Waiter(f)
    <3>1. ppc' = [ppc EXCEPT ![p] = "wake"] /\ UNCHANGED <<idx, count, written, observed, walk, pblock>>
      BY <1>2, <2>2 DEF locals
    <3>2. ppc'[p] = "wake" /\ \A q \in Producers : q # p => ppc'[q] = ppc[q] BY <3>1, GoesTo
    <3>3. /\ ppc' \in [Producers -> {"idle", "check_closed", "spin", "load_hint", "load_write_block", "seek",
                              "reserve", "write", "cross", "wake", "draw_cutoff", "set_cutoff",
                              "sentinel", "gone"}]
          /\ idx' \in [Producers -> Word] /\ count' \in [Producers -> 0 .. MaxBulk]
          /\ written' \in [Producers -> 0 .. MaxBulk]
          /\ {observed', walk', pblock'} \subseteq [Producers -> Block \cup {Null}]
      BY <3>1 DEF TypeOK
    <3>4. Begin(p)' = Begin(p) /\ Finish(p)' = Finish(p) /\ Ahead(p)' = t + 1 /\ Begin(p)' + written'[p] = t
      BY <1>3, <1>4, <3>1, <3>2 DEF Begin, Finish, Ahead
    <3>5. CloserOK(cut, p)' /\ ~Closer(p)' BY <1>4, <3>1 DEF CloserOK, Closer
    <3>6. PostOK(cut, p)'
      <4>1. PostOK(cut, p) BY DEF Posts
      <4>2. ppc'[p] \in Posting /\ ppc'[p] \in Writing /\ Begin(p) < cut /\ Turn <= t + 1
        BY <1>3, <1>4, <3>2 DEF Posting, Writing
      <4> QED BY <1>10, <3>1, <3>4, <4>1, <4>2 DEF PostOK
    <3>7. Search(p)' /\ Place(p)'
      <4>1. Search(p)' BY <3>2 DEF Search
      <4>2. Reaches(Finish(p) - 1)' BY <1>4, <1>11, <1>12, <3>4
      <4>3. pblock'[p] \in OnList' /\ Pos(offset'[pblock'[p]]) = Base(Begin(p)' + written'[p])
        BY <1>1, <1>4, <1>12, <3>1, <3>4 DEF First
      <4>4. Place(p)' BY <3>2, <4>2, <4>3 DEF Place, First, Starting, Stopping, Drawing
      <4> QED BY <4>1, <4>4
    <3>8. \A m \in Nat : (Ahead(p)' <= m /\ m < Finish(p)') <=> (t + 1 <= m /\ m < Finish(p))
      BY <3>4
    <3> QED BY <2>2, <3>1, <3>2, <3>3, <3>4, <3>5, <3>6, <3>7, <3>8
  <2> QED BY <2>1, <2>2
<1>14. /\ flags' \in [Block -> [Index -> Flag]] /\ flags'[b][i] = "data"
       /\ \A x \in Block, j \in Index : x # b \/ j # i => flags'[x][j] = flags[x][j]
       /\ \A x \in Block : x # b => flags'[x] = flags[x]
  <2>1. "data" \in Flag BY DEF Flag
  <2>2. TypeOK /\ b \in Block /\ i \in Index /\ flags' = [flags EXCEPT ![b][i] = "data"]
    BY <1>2, <1>4, <1>5
  <2> HIDE DEF Going, Shape
  <2> QED BY <2>1, <2>2, EditFlags
<1>15. /\ stored' \in [Block -> [Index -> Value \cup {NoValue}]] /\ stored'[b][i] = v
       /\ \A x \in Block, j \in Index : x # b \/ j # i => stored'[x][j] = stored[x][j]
  <2>1. (v \in Value \/ v = NoValue) /\ stored' = [stored EXCEPT ![b][i] = v] BY <1>2, <1>6
  <2>2. b \in Block /\ i \in Index /\ TypeOK BY <1>4, <1>5
  <2> HIDE DEF Going, Shape
  <2>3. stored \in [Block -> [Index -> Value \cup {NoValue}]] BY <2>2 DEF TypeOK
  <2> QED BY ONLY <2>1, <2>2, <2>3
<1>16. TypeOK'
  BY <1>2, <1>13, <1>14, <1>15 DEF TypeOK, list, heads, cutoff, consumer, reading, reclaim, pending, Function
<1>17. Cutoff(cut)' /\ Closers(cut)' /\ Posts(cut)' /\ Cursor' /\ Alive'
  <2>1. ppc[p] \notin Drawing /\ ppc'[p] # "gone" /\ cpc' # "gone"
    <3>1. ppc'[p] # "gone" BY <1>13
    <3> QED BY <1>2, <1>10, <3>1 DEF Drawing, Alive
  <2> QED BY <1>2, <1>10, <1>13, <2>1, StepParts
<1>18. Linked' /\ Moving' /\ Heads'
  <2>1. Sold <= Sold' BY <1>10, Types
  <2> QED BY <1>2, <1>10, <1>12, <1>16, <2>1, LinkedStays, MovingStays, HeadsStay
<1>19. Done(cut, t)' /\ \A m \in Nat : m # t => (Done(cut, m)' <=> Done(cut, m))
  <2>1. t < cut BY <1>3, <1>4
  <2> QED BY <1>4, <1>7, <1>13, <2>1, OneMore
<1>20. \A m \in Nat : AtEnd(cut, m)' <=> AtEnd(cut, m)
  <2>1. ~(count'[p] = 0 /\ ppc'[p] \in Placing) /\ ~(count[p] = 0 /\ ppc[p] \in Placing)
    <3>1. ppc'[p] = "idle" \/ count'[p] # 0 BY <1>13 DEF Closer
    <3> QED BY <1>4, <3>1 DEF Placing, Starting
  <2>2. \A q \in Producers : (count'[q] = 0 /\ ppc'[q] \in Placing) <=> (count[q] = 0 /\ ppc[q] \in Placing)
    BY <1>13, <2>1
  <2>3. Placed' <=> Placed BY <1>10, <2>2, Zenon DEF Placed
  <2> QED BY <2>3 DEF AtEnd
<1>21. Asleep' <=> Asleep /\ ~Waiter(f)
  <2>1. Waiter(f) => ppc'[p] = "wake" BY <1>13
  <2>2. ~Waiter(f) => \A q \in Producers : ppc'[q] = "wake" <=> ppc[q] = "wake" BY <1>2, <1>13
  <2> QED BY <1>10, <2>1, <2>2 DEF Asleep
<1>22. Cells(cut)' /\ Clean'
  <2>1. CellOK(cut, t, flags[b][i], stored[b][i])' BY <1>6, <1>14, <1>15, <1>19 DEF CellOK
  <2>2. t = Turn \/ ((Asleep' <=> Asleep) /\ (cpc' = "restore" <=> cpc = "restore") /\ (cpc = "holding" => cpc' = "holding"))
    BY <1>9, <1>10, <1>21
  <2> QED BY <1>2, <1>4, <1>5, <1>10, <1>14, <1>15, <1>19, <1>20, <2>1, <2>2, CellsChange
<1>23. Rousing(cut)'
  <2>1. /\ \A q, r \in Producers : ppc'[q] = "wake" /\ ppc'[r] = "wake" => q = r
        /\ \A q \in Producers : ppc'[q] = "wake" =>
              cpc' = "parked" /\ (count'[q] > 0 => Begin(q)' + written'[q] = Turn')
    <3>1. CASE Waiter(f)
      <4>1. Asleep /\ t = Turn BY <1>9, <3>1
      <4>2. \A q \in Producers : ppc'[q] = "wake" => q = p BY <1>13, <4>1 DEF Asleep
      <4>3. cpc' = "parked" /\ Begin(p)' + written'[p] = Turn'
        BY <1>10, <1>13, <3>1, <4>1 DEF Asleep
      <4> QED BY <4>2, <4>3
    <3>2. CASE ~Waiter(f)
      <4>1. \A q \in Producers : ppc'[q] = "wake" => q # p /\ ppc[q] = "wake" BY <1>13, <3>2
      <4>2. \A q \in Producers : ppc[q] = "wake" =>
              cpc = "parked" /\ (count[q] > 0 => Begin(q) + written[q] = Turn)
        BY DEF Rousing
      <4>3. \A q, r \in Producers : ppc[q] = "wake" /\ ppc[r] = "wake" => q = r BY DEF Rousing
      <4>4. \A q \in Producers : q # p => Begin(q)' = Begin(q) BY <1>13 DEF Begin
      <4>5. \A q \in Producers : q # p => count'[q] = count[q] /\ written'[q] = written[q]
        BY <1>13
      <4> QED BY <1>10, <4>1, <4>2, <4>3, <4>4, <4>5
    <3> QED BY <3>1, <3>2
  <2>2. PICK u \in Nat : u = Turn BY <1>4
  <2>3. /\ Asleep => elem /\ ~Done(cut, u) /\ ~AtEnd(cut, u)
        /\ (cpc = "parked" /\ ~Asleep) \/ cpc = "resume" => IF elem THEN Done(cut, u) ELSE AtEnd(cut, u)
        /\ cpc = "restore" \/ outcome = "CLOSED" => AtEnd(cut, u)
        /\ cpc = "holding" => Done(cut, u)
        /\ call = "pull" \/ cpc \in {"suspend", "restore", "parked", "resume"} => can_suspend
    BY <2>2 DEF Rousing
  <2>4. (Done(cut, u) => Done(cut, u)') /\ (u # t => (Done(cut, u)' <=> Done(cut, u)))
        /\ (AtEnd(cut, u)' <=> AtEnd(cut, u))
    BY <1>19, <1>20
  <2>5. Asleep => cpc = "parked" BY DEF Asleep
  <2>6. /\ Asleep' => elem' /\ ~Done(cut, u)' /\ ~AtEnd(cut, u)'
        /\ (cpc' = "parked" /\ ~Asleep') \/ cpc' = "resume" => IF elem' THEN Done(cut, u)' ELSE AtEnd(cut, u)'
        /\ cpc' = "restore" \/ outcome' = "CLOSED" => AtEnd(cut, u)'
        /\ cpc' = "holding" => Done(cut, u)'
        /\ call' = "pull" \/ cpc' \in {"suspend", "restore", "parked", "resume"} => can_suspend'
    <3>1. CASE Waiter(f)
      <4>1. Asleep /\ t = u /\ ~Asleep' /\ Done(cut, u)' BY <1>9, <1>19, <1>21, <2>2, <3>1
      <4>2. cpc = "parked" /\ elem BY <2>3, <2>5, <4>1
      <4> QED BY <1>2, <1>10, <2>3, <2>4, <4>1, <4>2
    <3>2. CASE ~Waiter(f)
      <4>1. (Asleep' <=> Asleep) /\ (Asleep => t # u) BY <1>9, <1>21, <2>2, <3>2
      <4> QED BY <1>2, <1>10, <2>3, <2>4, <4>1
    <3> QED BY <3>1, <3>2
  <2>7. Turn' = u BY <1>10, <2>2
  <2> QED BY <2>1, <2>6, <2>7, Zenon DEF Rousing
<1> QED BY <1>16, <1>17, <1>18, <1>22, <1>23

\* The consumer is resumed by whoever found it.
LEMMA NotifyConsumerKeeps ==
  ASSUME NEW p \in Producers, NEW cut \in Nat, Going(cut), NotifyConsumer(p)
  PROVE  Going(cut)'
<1> USE DEF Going, Shape
<1>1. /\ ppc[p] = "wake" /\ cpc' = "resume"
      /\ IF Closing(p) THEN Return(p) ELSE Continue(p)
      /\ UNCHANGED <<list, elements, write_offset, heads, cutoff, reading, reclaim, pending, elem,
                     can_suspend>>
  BY DEF NotifyConsumer
<1>2. /\ cpc = "parked" /\ ~Asleep /\ ~Asleep'
      /\ \A q \in Producers : ppc[q] = "wake" => q = p
      /\ count[p] > 0 => Begin(p) + written[p] = Turn
  BY <1>1 DEF Rousing, Asleep
<1>3. PICK t \in Nat : t = Begin(p) + written[p] BY Types
<1>4. /\ count[p] \in Nat /\ Begin(p) \in Nat /\ Ahead(p) = t + 1 /\ Finish(p) = Begin(p) + count[p]
      /\ written[p] \in Nat /\ Begin(p) <= t
  BY <1>1, <1>3, Types
<1>5. /\ UNCHANGED <<unlinked, head_block, oldHead, tail_block, tailBlock, pending, read_offset, taken>>
      /\ UNCHANGED <<write_block, write_block_hint, read_block, rblock, closed, closed_ready, call, outcome>>
      /\ Turn' = Turn /\ Sold' = Sold
  BY <1>1 DEF reading, reclaim, heads, cutoff, Turn, Sold
<1>6. /\ \A q \in Producers : q # p =>
               /\ ppc'[q] = ppc[q] /\ idx'[q] = idx[q] /\ count'[q] = count[q] /\ written'[q] = written[q]
               /\ observed'[q] = observed[q] /\ walk'[q] = walk[q] /\ pblock'[q] = pblock[q]
      /\ ppc' \in [Producers -> {"idle", "check_closed", "spin", "load_hint", "load_write_block", "seek",
                              "reserve", "write", "cross", "wake", "draw_cutoff", "set_cutoff",
                              "sentinel", "gone"}]
      /\ idx' \in [Producers -> Word] /\ count' \in [Producers -> 0 .. MaxBulk]
      /\ written' \in [Producers -> 0 .. MaxBulk]
      /\ {observed', walk', pblock'} \subseteq [Producers -> Block \cup {Null}]
      /\ ppc'[p] \in {"idle", "write", "cross"}
      /\ CloserOK(cut, p)' /\ ~Closer(p)' /\ PostOK(cut, p)'
      /\ count'[p] = 0 \/ (count'[p] = count[p] /\ idx'[p] = idx[p])
      /\ Search(p)' /\ Place(p)'
      /\ \A m \in Nat : (Ahead(p)' <= m /\ m < Finish(p)') <=> (Ahead(p) <= m /\ m < Finish(p))
  <2>1. CASE count[p] > 0
    <3>1. Continue(p) BY <1>1, <2>1 DEF Closing
    <3>2. ppc[p] \in {"write", "wake"} BY <1>1
    <3> QED BY <1>1, <1>3, <1>4, <1>5, <2>1, <3>1, <3>2, Continues
  <2>2. CASE count[p] = 0
    <3>1. Return(p) BY <1>1, <2>2 DEF Closing
    <3>2. /\ ppc'[p] = "idle" /\ idx'[p] = 0 /\ count'[p] = 0 /\ written'[p] = 0 /\ pblock'[p] = Null
          /\ \A q \in Producers : q # p =>
               /\ ppc'[q] = ppc[q] /\ idx'[q] = idx[q] /\ count'[q] = count[q] /\ written'[q] = written[q]
               /\ observed'[q] = observed[q] /\ walk'[q] = walk[q] /\ pblock'[q] = pblock[q]
          /\ ppc' \in [Producers -> {"idle", "check_closed", "spin", "load_hint", "load_write_block", "seek",
                              "reserve", "write", "cross", "wake", "draw_cutoff", "set_cutoff",
                              "sentinel", "gone"}]
          /\ idx' \in [Producers -> Word] /\ count' \in [Producers -> 0 .. MaxBulk]
          /\ written' \in [Producers -> 0 .. MaxBulk]
          /\ {observed', walk', pblock'} \subseteq [Producers -> Block \cup {Null}]
      BY <3>1, Returns
    <3>3. CloserOK(cut, p)' /\ ~Closer(p)' /\ PostOK(cut, p)'
      BY <3>2 DEF CloserOK, Closer, PostOK
    <3>4. Search(p)' /\ Place(p)' BY <3>2 DEF Search, Place, Writing
    <3>5. \A m \in Nat : (Ahead(p)' <= m /\ m < Finish(p)') <=> (Ahead(p) <= m /\ m < Finish(p))
      <4>1. Pos(0) \in Nat BY PosIs, Sizes DEF Word
      <4>2. Ahead(p)' = Pos(0) /\ Finish(p)' = Pos(0) BY <3>2, <4>1 DEF Ahead, Finish, Begin
      <4> QED BY <1>3, <1>4, <2>2, <4>1, <4>2
    <3> QED BY <3>2, <3>3, <3>4, <3>5
  <2> QED BY <1>4, <2>1, <2>2
<1>7. TypeOK'
  BY <1>1, <1>6 DEF TypeOK, list, elements, heads, cutoff, reading, reclaim, pending, Function
<1>8. Cutoff(cut)' /\ Closers(cut)' /\ Posts(cut)' /\ Cursor' /\ Alive'
  <2>1. ppc[p] \notin Drawing /\ ppc'[p] # "gone" /\ cpc' # "gone"
    <3>1. ppc'[p] # "gone" BY <1>6
    <3> QED BY <1>1, <3>1 DEF Drawing
  <2> QED BY <1>1, <1>5, <1>6, <2>1, StepParts
<1>9. Linked' /\ Moving' /\ Clean'
  <2>1. {cpc, cpc'} \cap Reclaiming = {} BY <1>1, <1>2 DEF Reclaiming
  <2>2. Linked' /\ Moving' BY <1>1, <1>5, <2>1, LinkedStays, MovingStays
  <2>3. Clean' BY <1>1, <1>5, CleanStays
  <2> QED BY <2>2, <2>3
<1>10. Heads'
  <2>1. rblock \in OnList /\ First(rblock) = Base(Turn) /\ First(write_block) <= First(write_block_hint)
    BY <1>2 DEF Heads, AtElement
  <2>2. cpc' \notin {"move_hint", "read_cutoff", "seek"} \cup Tidying
    BY <1>1 DEF Tidying, Reclaiming
  <2> QED BY <1>1, <1>5, <2>1, <2>2, HeadsGo DEF First
<1>11. Stable(cut, cut)
  <2>1. (count'[p] = 0 /\ ppc'[p] \in Placing) <=> (count[p] = 0 /\ ppc[p] \in Placing)
    <3>1. ppc'[p] = "idle" \/ count'[p] # 0 BY <1>6 DEF Closer
    <3> QED BY <1>1, <3>1 DEF Placing, Starting
  <2> QED BY <1>5, <1>6, <2>1, IsStableWhen
<1>12. Cells(cut)'
  <2>1. (Asleep' <=> Asleep) /\ (cpc' = "restore" <=> cpc = "restore") /\ (cpc = "holding" => cpc' = "holding")
    BY <1>1, <1>2
  <2> QED BY <1>1, <1>5, <1>11, <2>1, CellsStay
<1>13. Rousing(cut)'
  <2>1. \A q \in Producers : ppc'[q] # "wake" BY <1>2, <1>6
  <2>2. PICK u \in Nat : u = Turn BY Types
  <2>3. IF elem THEN Done(cut, u) ELSE AtEnd(cut, u) BY <1>2, <2>2 DEF Rousing
  <2>4. outcome = "CLOSED" => AtEnd(cut, u) BY <2>2 DEF Rousing
  <2>5. can_suspend BY <1>2 DEF Rousing
  <2>6. (Done(cut, u)' <=> Done(cut, u)) /\ (AtEnd(cut, u)' <=> AtEnd(cut, u)) /\ Turn' = u
    BY <1>5, <1>11, <2>2 DEF Stable
  <2>7. IF elem' THEN Done(cut, u)' ELSE AtEnd(cut, u)' BY <1>1, <2>3, <2>6
  <2>8. (outcome' = "CLOSED" => AtEnd(cut, u)') /\ can_suspend' BY <1>1, <1>5, <2>4, <2>5, <2>6
  <2> QED BY <1>1, <1>2, <2>1, <2>6, <2>7, <2>8 DEF Rousing
<1> QED BY <1>7, <1>8, <1>9, <1>10, <1>12, <1>13

\* close() leaves its sentinel.
LEMMA PlaceSentinelKeeps ==
  ASSUME NEW p \in Producers, NEW cut \in Nat, Going(cut), PlaceSentinel(p)
  PROVE  Going(cut)'
<1> USE DEF Going, Shape
<1>1. PICK b, i, f, found : /\ b = pblock[p] /\ i = IndexOf(idx[p])
                            /\ f = flags[b][i] /\ found = (flags[b][i] = "cons")
  OBVIOUS
<1>2. /\ ppc[p] = "sentinel"
      /\ flags' = [flags EXCEPT ![b][i] = "closed"]
      /\ elem' = (elem /\ ~(f = "cons"))
      /\ IF f = "cons" THEN ppc' = [ppc EXCEPT ![p] = "wake"] /\ UNCHANGED locals ELSE Return(p)
      /\ UNCHANGED <<list, stored, write_offset, heads, cutoff, consumer, can_suspend>>
  BY <1>1 DEF PlaceSentinel, GoTo
<1>3. /\ count[p] = 0 /\ written[p] = 0 /\ Closer(p) /\ closed /\ closed_ready /\ Begin(p) = cut /\ cut < Sold
      /\ CloserOK(cut, p)
  BY <1>2, Doing DEF Closer, CloserOK, Drawing
<1>4. \A q \in Producers : q # p => ~Closer(q) BY <1>3 DEF Closers
<1>5. /\ idx[p] \in Word /\ Begin(p) \in Nat /\ Finish(p) = cut /\ Ahead(p) = cut
      /\ Turn \in Nat /\ Turn <= cut /\ b \in OnList /\ b \in Block /\ First(b) = Base(cut)
  <2>1. b \in OnList /\ First(b) = Base(Begin(p) + written[p]) BY <1>1, <1>2 DEF Cursor, Place
  <2>2. Begin(p) + written[p] = cut /\ Finish(p) = cut /\ Ahead(p) = cut
    BY <1>2, <1>3 DEF Finish, Ahead
  <2>3. b \in Block BY <2>1, Types
  <2> QED BY <2>1, <2>2, <2>3, Types, Bounds
<1>6. i \in Index /\ First(b) + i = cut BY <1>1, <1>3, <1>5, ElementOf DEF Begin
<1>7. ~Placed /\ \A m \in Nat : ~AtEnd(cut, m) BY <1>2, <1>3 DEF Placed, Placing, AtEnd
<1>8. stored[b][i] = NoValue /\ f = IF cut = Turn /\ Asleep THEN "cons" ELSE "empty"
  <2>1. CellOK(cut, cut, f, stored[b][i])
    <3>1. ~(First(b) + i < Turn) BY <1>5, <1>6
    <3>2. CellOK(cut, First(b) + i, flags[b][i], stored[b][i]) BY <1>5, <1>6, <3>1 DEF Cells
    <3> QED BY <1>1, <1>6, <3>2
  <2> QED BY <1>7, <2>1 DEF CellOK, Mark, Done
<1>9. f = "cons" <=> cut = Turn /\ Asleep BY <1>8
<1>10. /\ UNCHANGED <<unlinked, head_block, oldHead, tail_block, tailBlock, pending, read_offset, taken>>
       /\ UNCHANGED <<write_block, write_block_hint, closed, closed_ready, call, outcome>> /\ cpc' = cpc
       /\ Turn' = Turn /\ Sold' = Sold
  BY <1>2 DEF consumer, reading, reclaim, heads, cutoff, Turn, Sold
<1>11. Grows /\ OnList' = OnList /\ (\A x : First(x)' = First(x)) BY <1>2, <1>10, ListStays
<1>12. /\ \A q \in Producers : q # p =>
               /\ ppc'[q] = ppc[q] /\ idx'[q] = idx[q] /\ count'[q] = count[q] /\ written'[q] = written[q]
               /\ observed'[q] = observed[q] /\ walk'[q] = walk[q] /\ pblock'[q] = pblock[q]
       /\ ppc' \in [Producers -> {"idle", "check_closed", "spin", "load_hint", "load_write_block", "seek",
                              "reserve", "write", "cross", "wake", "draw_cutoff", "set_cutoff",
                              "sentinel", "gone"}]
       /\ idx' \in [Producers -> Word] /\ count' \in [Producers -> 0 .. MaxBulk]
       /\ written' \in [Producers -> 0 .. MaxBulk]
       /\ {observed', walk', pblock'} \subseteq [Producers -> Block \cup {Null}]
       /\ ppc'[p] = IF f = "cons" THEN "wake" ELSE "idle"
       /\ count'[p] = 0 /\ written'[p] = 0
       /\ f = "cons" => idx'[p] = idx[p]
  <2>1. CASE f = "cons"
    <3>1. ppc' = [ppc EXCEPT ![p] = "wake"] /\ UNCHANGED <<idx, count, written, observed, walk, pblock>>
      BY <1>2, <2>1 DEF locals
    <3>2. ppc'[p] = "wake" /\ \A q \in Producers : q # p => ppc'[q] = ppc[q] BY <3>1, GoesTo
    <3> QED BY <1>3, <2>1, <3>1, <3>2 DEF TypeOK
  <2>2. CASE f # "cons"
    <3>1. Return(p) BY <1>2, <2>2
    <3> QED BY <2>2, <3>1, Returns
  <2> QED BY <2>1, <2>2
<1>13. /\ flags' \in [Block -> [Index -> Flag]] /\ flags'[b][i] = "closed"
       /\ \A x \in Block, j \in Index : x # b \/ j # i => flags'[x][j] = flags[x][j]
       /\ \A x \in Block : x # b => flags'[x] = flags[x]
  <2>1. "closed" \in Flag BY DEF Flag
  <2> QED BY <1>2, <1>5, <1>6, <2>1, EditFlags
<1>14. TypeOK'
  <2>1. elem' \in BOOLEAN BY <1>2
  <2> QED
    BY <1>2, <1>12, <1>13, <2>1 DEF TypeOK, list, heads, cutoff, consumer, reading, reclaim, pending, Function
<1>15. Cutoff(cut)' /\ Closers(cut)' /\ Posts(cut)' /\ Cursor' /\ Alive'
  <2>1. ppc[p] \notin Drawing /\ ppc'[p] # "gone" /\ cpc' # "gone"
    BY <1>2, <1>10, <1>12 DEF Drawing, Alive
  <2>2. Closer(p)' => Closer(p) BY <1>3
  <2>3. CloserOK(cut, p)'
    <3>1. f = "cons" => Begin(p)' = Begin(p) BY <1>12 DEF Begin
    <3> QED BY <1>3, <1>10, <1>12, <3>1 DEF CloserOK, Closer, Drawing
  <2>4. PostOK(cut, p)' BY <1>12 DEF PostOK
  <2>5. Search(p)' BY <1>12 DEF Search
  <2>6. Place(p)'
    <3>1. f # "cons" => pblock'[p] = Null BY <1>2, Returns
    <3> QED BY <1>12, <3>1 DEF Place, Starting, Stopping, Drawing
  <2> QED BY <1>2, <1>10, <1>12, <2>1, <2>2, <2>3, <2>4, <2>5, <2>6, StepParts
<1>16. Linked' /\ Moving' /\ Heads'
  <2>1. Sold <= Sold' BY <1>10, Types
  <2> QED BY <1>2, <1>10, <1>11, <1>14, <2>1, LinkedStays, MovingStays, HeadsStay
<1>17. \A m \in Nat : Done(cut, m)' <=> Done(cut, m)
  <2>2. \A m \in Nat : ~(Ahead(p)' <= m /\ m < Finish(p)')
    <3>1. idx'[p] \in Word BY <1>12
    <3>2. PICK x \in Word : x = idx'[p] BY <3>1
    <3>3. Pos(x) \in Nat BY PosIs
    <3>4. Finish(p)' = Pos(x) /\ (Ahead(p)' = Pos(x) \/ Ahead(p)' = Pos(x) + 1)
      BY <1>12, <3>2, <3>3 DEF Ahead, Finish, Begin
    <3> QED BY <3>3, <3>4
  <2>3. \A m \in Nat : ~(Ahead(p) <= m /\ m < Finish(p)) BY <1>5
  <2>4. \A q \in Producers : q # p => Ahead(q)' = Ahead(q) /\ Finish(q)' = Finish(q)
    BY <1>12 DEF Ahead, Finish, Begin
  <2>5. \A m \in Nat : \A q \in Producers :
           (Ahead(q)' <= m /\ m < Finish(q)') <=> (Ahead(q) <= m /\ m < Finish(q))
    BY <2>2, <2>3, <2>4
  <2> QED BY <2>5, Zenon DEF Done
<1>18. Placed' /\ \A m \in Nat : AtEnd(cut, m)' <=> m = cut
  <2>1. ASSUME NEW q \in Producers
        PROVE  ~(count'[q] = 0 /\ ppc'[q] \in Placing)
    <3>1. CASE q = p BY <1>12, <3>1 DEF Placing, Starting
    <3>2. CASE q # p BY <1>4, <1>12, <3>2 DEF Closer, Placing, Starting
    <3> QED BY <3>1, <3>2
  <2>2. Placed' BY <1>3, <1>10, <2>1 DEF Placed
  <2> QED BY <2>2 DEF AtEnd
<1>19. Asleep' <=> Asleep /\ ~(cut = Turn)
  <2>1. f = "cons" => ppc'[p] = "wake" BY <1>12
  <2>2. f # "cons" => \A q \in Producers : ppc'[q] = "wake" <=> ppc[q] = "wake" BY <1>2, <1>12
  <2> QED BY <1>9, <1>10, <2>1, <2>2 DEF Asleep
<1>20. cpc # "restore" /\ outcome # "CLOSED"
  <2>1. PICK u \in Nat : u = Turn BY <1>5
  <2> QED BY <1>7, <2>1 DEF Rousing
<1>21. Cells(cut)' /\ Clean'
  <2>1. CellOK(cut, cut, flags[b][i], stored[b][i])'
    <3>1. ~Done(cut, cut)' BY DEF Done
    <3>2. flags'[b][i] = "closed" /\ stored'[b][i] = NoValue BY <1>2, <1>8, <1>13
    <3>3. Mark(cut, cut)' = "closed" BY <1>10, <1>18, <1>20 DEF Mark
    <3> QED BY <3>1, <3>2, <3>3 DEF CellOK
  <2>2. \A m \in Nat : m # cut => (Done(cut, m)' <=> Done(cut, m)) /\ (AtEnd(cut, m)' <=> AtEnd(cut, m))
    BY <1>7, <1>17, <1>18
  <2>3. cut = Turn \/ ((Asleep' <=> Asleep) /\ (cpc' = "restore" <=> cpc = "restore") /\ (cpc = "holding" => cpc' = "holding"))
    BY <1>10, <1>19
  <2>4. \A x \in Block, j \in Index : x # b \/ j # i =>
             flags'[x][j] = flags[x][j] /\ stored'[x][j] = stored[x][j]
    BY <1>2, <1>13
  <2> QED BY <1>2, <1>5, <1>6, <1>10, <1>13, <2>1, <2>2, <2>3, <2>4, CellsChange
<1>22. Rousing(cut)'
  <2>1. /\ \A q, r \in Producers : ppc'[q] = "wake" /\ ppc'[r] = "wake" => q = r
        /\ \A q \in Producers : ppc'[q] = "wake" =>
              cpc' = "parked" /\ (count'[q] > 0 => Begin(q)' + written'[q] = Turn')
    <3>1. CASE f = "cons"
      <4>1. Asleep BY <1>9, <3>1
      <4>2. \A q \in Producers : ppc'[q] = "wake" => q = p BY <1>12, <4>1 DEF Asleep
      <4>3. cpc' = "parked" /\ ~(count'[p] > 0) BY <1>10, <1>12, <4>1 DEF Asleep
      <4> QED BY <4>2, <4>3
    <3>2. CASE f # "cons"
      <4>1. \A q \in Producers : ppc'[q] = "wake" => q # p /\ ppc[q] = "wake" BY <1>12, <3>2
      <4>2. \A q \in Producers : ppc[q] = "wake" =>
              cpc = "parked" /\ (count[q] > 0 => Begin(q) + written[q] = Turn)
        BY DEF Rousing
      <4>3. \A q, r \in Producers : ppc[q] = "wake" /\ ppc[r] = "wake" => q = r BY DEF Rousing
      <4>4. \A q \in Producers : q # p => Begin(q)' = Begin(q) BY <1>12 DEF Begin
      <4>5. \A q \in Producers : q # p => count'[q] = count[q] /\ written'[q] = written[q]
        BY <1>12
      <4> QED BY <1>10, <4>1, <4>2, <4>3, <4>4, <4>5
    <3> QED BY <3>1, <3>2
  <2>2. PICK u \in Nat : u = Turn BY <1>5
  <2>3. /\ Asleep => elem /\ ~Done(cut, u)
        /\ (cpc = "parked" /\ ~Asleep) \/ cpc = "resume" => elem /\ Done(cut, u)
        /\ cpc = "holding" => Done(cut, u)
        /\ call = "pull" \/ cpc \in {"suspend", "restore", "parked", "resume"} => can_suspend
    BY <1>7, <2>2 DEF Rousing
  <2>4. /\ (Done(cut, u)' <=> Done(cut, u)) /\ (AtEnd(cut, u)' <=> u = cut)
        /\ (u = cut => ~Done(cut, u))
    BY <1>17, <1>18 DEF Done
  <2>5. Asleep => cpc = "parked" BY DEF Asleep
  <2>6. (f = "cons" <=> u = cut /\ Asleep) /\ (Asleep' <=> Asleep /\ u # cut) /\ elem' = (elem /\ ~(f = "cons"))
    BY <1>2, <1>9, <1>19, <2>2
  <2>7. /\ Asleep' => elem' /\ ~Done(cut, u)' /\ ~AtEnd(cut, u)'
        /\ (cpc' = "parked" /\ ~Asleep') \/ cpc' = "resume" => IF elem' THEN Done(cut, u)' ELSE AtEnd(cut, u)'
        /\ cpc' = "restore" \/ outcome' = "CLOSED" => AtEnd(cut, u)'
        /\ cpc' = "holding" => Done(cut, u)'
        /\ call' = "pull" \/ cpc' \in {"suspend", "restore", "parked", "resume"} => can_suspend'
    <3>1. CASE Asleep BY <1>2, <1>10, <1>20, <2>3, <2>4, <2>5, <2>6, <3>1
    <3>2. CASE ~Asleep BY <1>2, <1>10, <1>20, <2>3, <2>4, <2>5, <2>6, <3>2
    <3> QED BY <3>1, <3>2
  <2>8. Turn' = u BY <1>10, <2>2
  <2> QED BY <2>1, <2>7, <2>8, Zenon DEF Rousing
<1> QED BY <1>14, <1>15, <1>16, <1>21, <1>22

\* The consumer
\* The producers do not notice.
LEMMA ConsumerKeeps ==
  ASSUME NEW cut \in Nat, Going(cut), TypeOK', UNCHANGED <<producer, write_offset, cutoff, read_offset, taken>>,
         cpc' # "gone", Linked', Moving', Heads', Cursor', Cells(cut)', Clean', Rousing(cut)'
  PROVE  Going(cut)'
<1> USE DEF Going, Shape
<1>1. /\ Closers(cut)'
      /\ \A q \in Producers : /\ Begin(q)' = Begin(q) /\ Finish(q)' = Finish(q) /\ Ahead(q)' = Ahead(q)
                              /\ ppc'[q] = ppc[q] /\ count'[q] = count[q]
  BY ProducersStay
<1>2. Cutoff(cut)'
  <2>1. \A q \in Producers : ppc[q] \in Drawing => ppc'[q] = ppc[q] BY <1>1
  <2> QED BY <2>1, CutoffStays
<1>3. Posts(cut)'
  <2>1. Sold' = Sold /\ Turn' = Turn /\ written' = written BY DEF Sold, Turn, producer, locals
  <2> QED BY <1>1, <2>1 DEF Posts, PostOK
<1>4. Alive' BY <1>1 DEF Alive
<1> QED BY <1>1, <1>2, <1>3, <1>4

\* It goes on without suspending.
LEMMA RousingGo ==
  ASSUME TypeOK, NEW cut, Rousing(cut), UNCHANGED <<producer, cutoff, read_offset, can_suspend>>,
         cpc # "parked", cpc' \notin {"parked", "resume"},
         cpc' = "restore" \/ outcome' = "CLOSED" => AtEnd(cut, Turn),
         cpc' = "holding" => Done(cut, Turn),
         call' = "pull" \/ cpc' \in {"suspend", "restore"} => can_suspend
  PROVE  Rousing(cut)' /\ ~Asleep /\ ~Asleep' /\ (Asleep' <=> Asleep)
<1>1. \A q \in Producers : ppc[q] # "wake" BY DEF Rousing
<1>2. \A q \in Producers : ppc'[q] # "wake" BY <1>1 DEF producer
<1>3. ~Asleep /\ ~Asleep' BY DEF Asleep
<1>4. PICK u \in Nat : u = Turn BY Types
<1>5. Turn' = u /\ (Done(cut, u)' <=> Done(cut, u)) /\ (AtEnd(cut, u)' <=> AtEnd(cut, u))
  BY <1>4, ProducersStable DEF Stable, Turn
<1>6. /\ cpc' = "restore" \/ outcome' = "CLOSED" => AtEnd(cut, u)'
      /\ cpc' = "holding" => Done(cut, u)'
  BY <1>4, <1>5
<1>7. /\ cpc' = "restore" \/ outcome' = "CLOSED" => AtEnd(cut, Turn)'
      /\ cpc' = "holding" => Done(cut, Turn)'
  BY <1>5, <1>6
<1>8. call' = "pull" \/ cpc' \in {"suspend", "restore", "parked", "resume"} => can_suspend'
  OBVIOUS
<1> QED BY <1>2, <1>3, <1>7, <1>8 DEF Rousing

\* Nor does it touch the list or an element.
LEMMA GoOn ==
  ASSUME NEW cut \in Nat, Going(cut), TypeOK',
         UNCHANGED <<list, elements, producer, write_offset, heads, cutoff, read_offset, read_block, taken,
                     head_block, tail_block, oldHead, unlinked, tailBlock, pending, can_suspend>>,
         {cpc, cpc'} \cap Reclaiming = {}, cpc' \notin {"gone", "parked", "resume", "move_hint", "read_cutoff", "restore"},
         cpc \notin {"parked", "restore", "move_hint", "holding"},
         cpc' \in Tidying => rblock' = read_block,
         cpc' = "seek" => /\ rblock' \in OnList
                          /\ First(read_block) <= Pos(offset[rblock']) /\ Pos(offset[rblock']) <= Turn,
         cpc' \in AtElement => rblock' \in OnList /\ Pos(offset[rblock']) = Base(Turn),
         outcome' = "CLOSED" => AtEnd(cut, Turn),
         cpc' = "holding" => Done(cut, Turn),
         call' = "pull" \/ cpc' = "suspend" => can_suspend
  PROVE  Going(cut)'
<1> USE DEF Going, Shape
<1>1. Linked' /\ Moving' BY LinkedStays, MovingStays
<1>2. Clean'
  <2>1. cpc' \notin {"find_tail", "unlink", "relink"} BY DEF Reclaiming
  <2> QED BY <2>1, CleanStays
<1>3. Heads'
  <2>1. First(write_block) <= First(write_block_hint) BY DEF Heads
  <2> QED BY <2>1, HeadsGo DEF heads
<1>4. Rousing(cut)' /\ (Asleep' <=> Asleep) BY RousingGo
<1>5. Cells(cut)'
  <2>1. Stable(cut, cut) BY ProducersStable
  <2> QED BY <1>4, <2>1, CellsStay
<1>6. Cursor'
  <2>1. Grows BY ListStays
  <2> QED BY <2>1, CursorsStay
<1> QED BY <1>1, <1>2, <1>3, <1>4, <1>5, <1>6, ConsumerKeeps

LEMMA CallKeeps ==
  ASSUME NEW cut \in Nat, Going(cut), NEW f \in Function, Call(f)
  PROVE  Going(cut)'
<1> USE DEF Going, Shape
<1>1. /\ cpc = "idle" /\ cpc' = "seek" /\ call' = f /\ rblock' = read_block
      /\ UNCHANGED <<list, elements, write_offset, heads, cutoff, producer, read_offset,
                     read_block, outcome, taken, reclaim, pending, elem, can_suspend>>
  BY DEF Call
<1>2. read_block \in OnList /\ read_block \in Block /\ First(read_block) <= Turn /\ First(read_block) \in Nat
  BY HeadNumbers
<1>3. TypeOK'
  BY <1>1, <1>2 DEF TypeOK, list, elements, heads, cutoff, producer, locals, reclaim, pending, Function
<1>4. UNCHANGED <<head_block, tail_block, oldHead, unlinked, tailBlock>> BY <1>1 DEF reclaim
<1>5. {cpc, cpc'} \cap Reclaiming = {} /\ cpc' \notin Tidying \cup AtElement
  BY <1>1 DEF Tidying, Reclaiming, AtElement
<1>6. outcome' = "CLOSED" => AtEnd(cut, Turn) BY <1>1 DEF Rousing
<1>7. f = "pull" => can_suspend BY DEF Function
<1>8. First(read_block) <= Pos(offset[rblock']) /\ Pos(offset[rblock']) <= Turn
  BY <1>1, <1>2 DEF First
<1> QED BY <1>1, <1>2, <1>3, <1>4, <1>5, <1>6, <1>7, <1>8, GoOn

\* The element of the consumer's next ticket.
LEMMA NextElement ==
  ASSUME NEW cut \in Nat, Going(cut), rblock \in OnList, First(rblock) = Base(Turn)
  PROVE  /\ rblock \in Block /\ IndexOf(read_offset) \in Index /\ First(rblock) + IndexOf(read_offset) = Turn
         /\ CellOK(cut, Turn, ReadFlag, stored[rblock][IndexOf(read_offset)])
         /\ ~(Done(cut, Turn) /\ AtEnd(cut, Turn))
         /\ cpc \in {"seek", "suspend"} =>
               /\ Done(cut, Turn) => ReadFlag = "data"
               /\ AtEnd(cut, Turn) => ReadFlag = "closed"
               /\ ~Done(cut, Turn) /\ ~AtEnd(cut, Turn) => ReadFlag = "empty"
<1>1. rblock \in Block /\ read_offset \in Word /\ Turn \in Nat BY Types DEF Going
<1>2. IndexOf(read_offset) \in Index /\ First(rblock) + IndexOf(read_offset) = Turn
  BY <1>1, ElementOf DEF Going, Turn
<1>3. CellOK(cut, Turn, ReadFlag, stored[rblock][IndexOf(read_offset)])
  <2>1. ~(Turn < Turn) BY <1>1
  <2>2. CellOK(cut, First(rblock) + IndexOf(read_offset), flags[rblock][IndexOf(read_offset)], stored[rblock][IndexOf(read_offset)])
    BY <1>2, <2>1 DEF Going, Shape, Cells
  <2> QED BY <1>2, <2>2 DEF ReadFlag
<1>4. ~(Done(cut, Turn) /\ AtEnd(cut, Turn)) BY <1>1 DEF Done, AtEnd
<1> QED BY <1>1, <1>2, <1>3, <1>4 DEF CellOK, Mark, Asleep

LEMMA PollKeeps ==
  ASSUME NEW cut \in Nat, Going(cut), Poll
  PROVE  Going(cut)'
<1> USE DEF Going, Shape
<1>1. /\ cpc = "seek" /\ offset[rblock] = StartOf(read_offset)
      /\ UNCHANGED <<list, elements, write_offset, heads, cutoff, producer, read_offset,
                     read_block, taken, reclaim, pending, elem, can_suspend>>
  BY DEF Poll
<1>2. rblock \in OnList /\ First(rblock) = Base(Turn) /\ rblock \in Block
  <2>1. rblock \in OnList /\ rblock \in Block /\ read_offset \in Word BY <1>1, Types DEF Heads
  <2> QED BY <1>1, <2>1, SameBlock DEF Turn
<1>3. /\ Done(cut, Turn) => ReadFlag = "data"
      /\ AtEnd(cut, Turn) => ReadFlag = "closed"
      /\ ~Done(cut, Turn) /\ ~AtEnd(cut, Turn) => ReadFlag = "empty"
  BY <1>1, <1>2, NextElement
<1>4. /\ outcome = "CLOSED" => AtEnd(cut, Turn)
      /\ call = "pull" => can_suspend
  BY DEF Rousing
<1>5. \/ cpc' = "holding" /\ outcome' = "OK" /\ UNCHANGED <<call, rblock>> /\ ReadFlag = "data"
      \/ cpc' = "suspend" /\ call = "pull" /\ UNCHANGED <<call, rblock, outcome>>
      \/ /\ cpc' = "idle" /\ call' = "none" /\ rblock' = Null
         /\ outcome' = outcome \/ (outcome' = "EMPTY") \/ (outcome' = "CLOSED" /\ ReadFlag = "closed")
  BY DEF Poll, Leave, StatusOf
<1>6. TypeOK'
  <2>1. cpc' \in {"holding", "suspend", "idle"} /\ outcome' \in {"none", "OK", "EMPTY", "CLOSED"}
        /\ (call' = call \/ call' = "none") /\ (rblock' = rblock \/ rblock' = Null)
    BY <1>5 DEF TypeOK
  <2>2. call' \in Function \cup {"none"} /\ rblock' \in Block \cup {Null}
    BY <1>2, <2>1 DEF TypeOK
  <2> QED
    BY <1>1, <2>1, <2>2 DEF TypeOK, list, elements, heads, cutoff, producer, locals, reclaim, pending, Function
<1>7. UNCHANGED <<head_block, tail_block, oldHead, unlinked, tailBlock>> BY <1>1 DEF reclaim
<1>8. {cpc, cpc'} \cap Reclaiming = {} /\ cpc' \notin Tidying
      /\ cpc' \notin {"gone", "parked", "resume", "move_hint", "read_cutoff", "restore", "seek"}
  BY <1>1, <1>5 DEF Tidying, Reclaiming
<1>9. outcome' = "CLOSED" => AtEnd(cut, Turn) BY <1>3, <1>4, <1>5
<1>10. cpc' = "holding" => Done(cut, Turn) BY <1>3, <1>5
<1>11. cpc' \in AtElement => rblock' \in OnList /\ Pos(offset[rblock']) = Base(Turn)
  BY <1>2, <1>5 DEF AtElement, First
<1>12. call' = "pull" \/ cpc' = "suspend" => can_suspend BY <1>4, <1>5
<1> QED BY <1>1, <1>6, <1>7, <1>8, <1>9, <1>10, <1>11, <1>12, GoOn

LEMMA PullResumeKeeps ==
  ASSUME NEW cut \in Nat, Going(cut), PullResume
  PROVE  Going(cut)'
<1> USE DEF Going, Shape
<1>1. /\ cpc = "resume" /\ elem' = FALSE
      /\ UNCHANGED <<list, elements, write_offset, heads, cutoff, producer, read_offset,
                     read_block, taken, reclaim, pending, can_suspend>>
      /\ \/ elem /\ cpc' = "holding" /\ outcome' = "OK" /\ UNCHANGED <<call, rblock>>
         \/ ~elem /\ cpc' = "idle" /\ call' = "none" /\ rblock' = Null /\ outcome' = "CLOSED"
  BY DEF PullResume, Leave
<1>2. rblock \in OnList /\ First(rblock) = Base(Turn) BY <1>1 DEF Heads, AtElement
<1>3. /\ IF elem THEN Done(cut, Turn) ELSE AtEnd(cut, Turn)
      /\ can_suspend
  BY <1>1 DEF Rousing
<1>4. TypeOK'
  <2>1. cpc' \in {"holding", "idle"} /\ outcome' \in {"none", "OK", "EMPTY", "CLOSED"} /\ elem' \in BOOLEAN
        /\ (call' = call \/ call' = "none") /\ (rblock' = rblock \/ rblock' = Null)
    BY <1>1
  <2>2. call' \in Function \cup {"none"} /\ rblock' \in Block \cup {Null} BY <2>1 DEF TypeOK
  <2> QED
    BY <1>1, <2>1, <2>2 DEF TypeOK, list, elements, heads, cutoff, producer, locals, reclaim, pending, Function
<1>5. UNCHANGED <<head_block, tail_block, oldHead, unlinked, tailBlock>> BY <1>1 DEF reclaim
<1>6. {cpc, cpc'} \cap Reclaiming = {} /\ cpc' \notin Tidying
      /\ cpc' \notin {"gone", "parked", "resume", "move_hint", "read_cutoff", "restore", "seek"}
  BY <1>1 DEF Tidying, Reclaiming
<1>7. cpc' \in AtElement => rblock' \in OnList /\ Pos(offset[rblock']) = Base(Turn)
  BY <1>1, <1>2 DEF AtElement, First
<1> QED BY <1>1, <1>3, <1>4, <1>5, <1>6, <1>7, GoOn

\* It appends the block that its next ticket is in, or walks on towards it.
LEMMA SeekReadKeeps ==
  ASSUME NEW cut \in Nat, Going(cut), SeekRead
  PROVE  Going(cut)'
<1> USE DEF Going, Shape
<1>1. /\ cpc = "seek" /\ cpc' = "seek" /\ offset[rblock] # StartOf(read_offset)
      /\ UNCHANGED <<stored, write_offset, heads, cutoff, producer, read_offset, read_block, call,
                     outcome, taken, reclaim, pending, elem, can_suspend>>
  BY DEF SeekRead
<1>2. PICK c \in Block : Advance(rblock, c) /\ rblock' = c BY DEF SeekRead
<1>3. PICK b : b = rblock OBVIOUS
<1>4. /\ b \in OnList /\ b \in Block /\ First(b) \in Nat /\ First(b) \in Starts
      /\ First(read_block) <= First(b) /\ First(b) <= Turn
  <2>1. b \in OnList /\ First(read_block) <= First(b) /\ First(b) <= Turn
    BY <1>1, <1>3 DEF Heads
  <2> QED BY <2>1, Types DEF Linked
<1>5. read_offset \in Word /\ Turn \in Nat /\ Turn <= Top /\ Top \in Nat
  BY Types, Bounds, PosOfFirst DEF Cutoff
<1>6. First(b) + BlockSize <= Turn
  <2>1. First(b) # Base(Turn) BY <1>1, <1>3, <1>4, <1>5, SameBlock DEF Turn
  <2>2. First(b) <= Base(Turn) /\ Base(Turn) <= Turn /\ Base(Turn) \in Nat /\ Base(Turn) \in Starts
    BY <1>4, <1>5, BaseOf
  <2>3. First(b) + BlockSize <= Base(Turn) BY <1>4, <2>1, <2>2, StartsApart
  <2> QED BY <1>4, <1>5, <2>2, <2>3, Sizes
<1>7. First(b) + BlockSize <= Top BY <1>4, <1>5, <1>6, Sizes
<1>8. UNCHANGED <<head_block, tail_block, oldHead, unlinked, tailBlock, pending_old_head, pending_new_head,
                  pending_cutoff, write_block, write_block_hint>> /\ Turn' = Turn /\ Sold' = Sold
  BY <1>1 DEF reclaim, pending, heads, Turn, Sold
<1>9. Rousing(cut)' /\ ~Asleep /\ ~Asleep' /\ (Asleep' <=> Asleep)
  <2>1. /\ outcome = "CLOSED" => AtEnd(cut, Turn)
        /\ call = "pull" => can_suspend
    BY DEF Rousing
  <2> QED BY <1>1, <2>1, RousingGo
<1>10. /\ Grows /\ c \in OnList' /\ Pos(offset'[c]) = First(b) + BlockSize
       /\ Linked' /\ Moving' /\ Cells(cut)' /\ Clean'
       /\ blocks' \subseteq Block /\ next' \in [Block -> Block \cup {Null}]
       /\ offset' \in [Block -> Word] /\ flags' \in [Block -> [Index -> Flag]]
  <2>1. Stable(cut, cut) BY <1>1, ProducersStable
  <2>2. Advance(b, c) BY <1>2, <1>3
  <2> QED BY <1>1, <1>4, <1>7, <1>8, <1>9, <2>1, <2>2, Extend
<1>11. TypeOK'
  <2>1. rblock' \in Block \cup {Null} BY <1>2
  <2> QED BY <1>1, <1>10, <2>1 DEF TypeOK, heads, cutoff, producer, locals, reclaim, pending, Function
<1>12. Cursor' BY <1>1, <1>8, <1>10, CursorsStay
<1>13. Heads'
  <2>1. \A x \in OnList : x \in OnList' /\ Pos(offset'[x]) = First(x)
    BY <1>10, GrowsAt DEF First
  <2>2. {head_block, write_block, write_block_hint, read_block, Lowest} \subseteq OnList
    BY HeadNumbers
  <2>3. Lowest' = Lowest BY <1>8 DEF Lowest
  <2>4. cpc' \notin Tidying \cup AtElement \cup {"move_hint", "read_cutoff"}
    BY <1>1 DEF Tidying, Reclaiming, AtElement
  <2>5. Pos(offset'[c]) <= Turn' /\ First(read_block) <= Pos(offset'[c])
    <3>1. First(read_block) \in Nat BY HeadNumbers
    <3> QED BY <1>4, <1>6, <1>8, <1>10, <3>1, Sizes
  <2>6. /\ First(Lowest) <= First(head_block) /\ First(head_block) <= First(write_block)
        /\ First(head_block) <= First(write_block_hint)
        /\ First(write_block) <= First(write_block_hint)
        /\ First(write_block) <= First(read_block)
        /\ First(write_block_hint) <= Sold
        /\ First(read_block) < Turn \/ First(read_block) = 0
        /\ pending_old_head # Null =>
              /\ pending_old_head = head_block /\ pending_new_head = write_block
              /\ Pos(pending_cutoff) <= Sold
    BY <1>1 DEF Heads
  <2>7. /\ Pos(offset'[Lowest']) = First(Lowest) /\ Pos(offset'[head_block']) = First(head_block)
        /\ Pos(offset'[write_block']) = First(write_block)
        /\ Pos(offset'[write_block_hint']) = First(write_block_hint)
        /\ Pos(offset'[read_block']) = First(read_block)
        /\ {write_block', write_block_hint', read_block'} \subseteq OnList'
    BY <1>1, <1>8, <2>1, <2>2, <2>3
  <2> QED BY <1>1, <1>2, <1>8, <1>10, <2>4, <2>5, <2>6, <2>7 DEF Heads, First
<1>14. cpc' # "gone" BY <1>1
<1> QED BY <1>1, <1>9, <1>10, <1>11, <1>12, <1>13, <1>14, ConsumerKeeps

\* Its flag says that the consumer waits there.
LEMMA SuspendKeeps ==
  ASSUME NEW cut \in Nat, Going(cut), Suspend
  PROVE  Going(cut)'
<1> USE DEF Going, Shape
<1>1. PICK b, i, f : b = rblock /\ i = IndexOf(read_offset) /\ f = ReadFlag OBVIOUS
<1>2. /\ cpc = "suspend" /\ flags' = [flags EXCEPT ![b][i] = "cons"]
      /\ \/ f = "empty" /\ cpc' = "parked" /\ elem' = TRUE /\ UNCHANGED outcome
         \/ f = "closed" /\ cpc' = "restore" /\ UNCHANGED <<elem, outcome>>
         \/ f \notin {"empty", "closed"} /\ cpc' = "holding" /\ outcome' = "OK" /\ UNCHANGED elem
      /\ UNCHANGED <<list, stored, write_offset, heads, cutoff, producer, read_offset, read_block,
                     call, rblock, taken, reclaim, pending, can_suspend>>
  BY <1>1 DEF Suspend
<1>3. b \in OnList /\ First(b) = Base(Turn) BY <1>1, <1>2 DEF Heads, AtElement
<1>4. PICK u \in Nat : u = Turn BY Types
<1>5. /\ b \in Block /\ i \in Index /\ First(b) + i = u
      /\ CellOK(cut, u, f, stored[b][i])
      /\ ~(Done(cut, u) /\ AtEnd(cut, u))
      /\ Done(cut, u) => f = "data"
      /\ AtEnd(cut, u) => f = "closed"
      /\ ~Done(cut, u) /\ ~AtEnd(cut, u) => f = "empty"
  BY <1>1, <1>2, <1>3, <1>4, NextElement
<1>6. UNCHANGED <<head_block, tail_block, oldHead, unlinked, tailBlock, write_block, write_block_hint>> /\ Turn' = Turn
  BY <1>2 DEF reclaim, heads, Turn
<1>7. /\ flags' \in [Block -> [Index -> Flag]] /\ flags'[b][i] = "cons"
      /\ \A x \in Block, j \in Index : x # b \/ j # i => flags'[x][j] = flags[x][j]
      /\ \A x \in Block : x # b => flags'[x] = flags[x]
  <2>1. "cons" \in Flag BY DEF Flag
  <2> QED BY <1>2, <1>5, <2>1, EditFlags
<1>8. TypeOK'
  <2>1. cpc' \in {"parked", "restore", "holding"} /\ outcome' \in {"none", "OK", "EMPTY", "CLOSED"} /\ elem' \in BOOLEAN
    BY <1>2 DEF TypeOK
  <2> QED BY <1>2, <1>7, <2>1 DEF TypeOK, list, heads, cutoff, producer, locals, reclaim, pending, Function
<1>9. {cpc, cpc'} \cap Reclaiming = {} /\ cpc' \notin Tidying \cup {"gone", "move_hint", "read_cutoff", "find_tail", "unlink", "relink", "seek"}
  BY <1>2 DEF Tidying, Reclaiming
<1>10. Linked' /\ Moving' BY <1>2, <1>6, <1>9, LinkedStays, MovingStays
<1>11. Heads'
  <2>1. First(write_block) <= First(write_block_hint) BY <1>2 DEF Heads
  <2>2. rblock' \in OnList /\ Pos(offset[rblock']) = Base(Turn) BY <1>1, <1>2, <1>3 DEF First
  <2> QED BY <1>2, <1>6, <1>9, <2>1, <2>2, HeadsGo
<1>12. Cursor'
  <2>1. Grows BY <1>2, <1>6, ListStays
  <2> QED BY <1>2, <1>6, <2>1, CursorsStay
<1>13. /\ \A m \in Nat : (Done(cut, m)' <=> Done(cut, m)) /\ (AtEnd(cut, m)' <=> AtEnd(cut, m))
  BY <1>2, ProducersStable DEF Stable
<1>14. \A q \in Producers : ppc[q] # "wake" /\ ppc'[q] # "wake"
  <2>1. \A q \in Producers : ppc[q] # "wake" BY <1>2 DEF Rousing
  <2> QED BY <1>2, <2>1 DEF producer
<1>15. ~Asleep /\ (Asleep' <=> cpc' = "parked") BY <1>2, <1>14 DEF Asleep
<1>16. can_suspend /\ (outcome = "CLOSED" => AtEnd(cut, u)) BY <1>2, <1>4 DEF Rousing
<1>17. /\ cpc' = "parked" => ~Done(cut, u) /\ ~AtEnd(cut, u)
       /\ cpc' = "restore" => AtEnd(cut, u)
       /\ cpc' = "holding" => Done(cut, u)
  BY <1>2, <1>5
<1>18. Rousing(cut)'
  <2>1. /\ Asleep' => elem' /\ ~Done(cut, u)' /\ ~AtEnd(cut, u)'
        /\ ~(cpc' = "parked" /\ ~Asleep') /\ cpc' # "resume"
        /\ cpc' = "restore" \/ outcome' = "CLOSED" => AtEnd(cut, u)'
        /\ cpc' = "holding" => Done(cut, u)'
        /\ can_suspend'
    BY <1>2, <1>13, <1>15, <1>16, <1>17
  <2>2. Turn' = u BY <1>4, <1>6
  <2> QED BY <1>14, <2>1, <2>2, Zenon DEF Rousing
<1>19. Cells(cut)' /\ Clean'
  <2>1. CellOK(cut, u, flags[b][i], stored[b][i])'
    <3>1. PICK v : v = stored[b][i] OBVIOUS
    <3>2. flags'[b][i] = "cons" /\ stored'[b][i] = v /\ Turn' = u
      BY <1>2, <1>4, <1>6, <1>7, <3>1
    <3>3. /\ Done(cut, u) => v = u - Skipped + 1 /\ cpc' = "holding"
          /\ ~Done(cut, u) => v = NoValue
      BY <1>2, <1>5, <3>1 DEF CellOK
    <3>4. ~Done(cut, u) => Mark(cut, u)' = "cons"
      <4>1. ASSUME ~Done(cut, u)
            PROVE  IF AtEnd(cut, u) THEN cpc' = "restore" ELSE Asleep'
        BY <1>2, <1>5, <1>15, <4>1
      <4> QED BY <1>13, <3>2, <4>1 DEF Mark
    <3> QED BY <1>13, <3>2, <3>3, <3>4 DEF CellOK
  <2>2. Turn <= u BY <1>4
  <2>3. \A x \in Block, j \in Index : x # b \/ j # i =>
             flags'[x][j] = flags[x][j] /\ stored'[x][j] = stored[x][j]
    BY <1>2, <1>7
  <2>4. u = First(b) + i /\ u = Turn BY <1>4, <1>5
  <2> QED BY <1>2, <1>3, <1>5, <1>6, <1>7, <1>9, <1>13, <2>1, <2>2, <2>3, <2>4, CellsChange
<1>20. cpc' # "gone" BY <1>9
<1> QED BY <1>2, <1>8, <1>10, <1>11, <1>12, <1>18, <1>19, <1>20, ConsumerKeeps

\* And the sentinel is put back.
LEMMA RestoreKeeps ==
  ASSUME NEW cut \in Nat, Going(cut), Restore
  PROVE  Going(cut)'
<1> USE DEF Going, Shape
<1>1. PICK b, i : b = rblock /\ i = IndexOf(read_offset) OBVIOUS
<1>2. /\ cpc = "restore" /\ flags' = [flags EXCEPT ![b][i] = "closed"]
      /\ cpc' = "idle" /\ call' = "none" /\ rblock' = Null /\ outcome' = "CLOSED"
      /\ UNCHANGED <<list, stored, write_offset, heads, cutoff, producer, read_offset, read_block,
                     taken, reclaim, pending, elem, can_suspend>>
  BY <1>1 DEF Restore, Leave
<1>3. b \in OnList /\ First(b) = Base(Turn) BY <1>1, <1>2 DEF Heads, AtElement
<1>4. PICK u \in Nat : u = Turn BY Types
<1>5. /\ b \in Block /\ i \in Index /\ First(b) + i = u
      /\ CellOK(cut, u, ReadFlag, stored[b][i])
      /\ AtEnd(cut, u) /\ ~Done(cut, u)
  <2>1. AtEnd(cut, u) BY <1>2, <1>4 DEF Rousing
  <2> QED BY <1>1, <1>3, <1>4, <2>1, NextElement
<1>6. UNCHANGED <<head_block, tail_block, oldHead, unlinked, tailBlock, write_block, write_block_hint>> /\ Turn' = Turn
  BY <1>2 DEF reclaim, heads, Turn
<1>7. /\ flags' \in [Block -> [Index -> Flag]] /\ flags'[b][i] = "closed"
      /\ \A x \in Block, j \in Index : x # b \/ j # i => flags'[x][j] = flags[x][j]
      /\ \A x \in Block : x # b => flags'[x] = flags[x]
  <2>1. "closed" \in Flag BY DEF Flag
  <2> QED BY <1>2, <1>5, <2>1, EditFlags
<1>8. TypeOK'
  BY <1>2, <1>7 DEF TypeOK, list, heads, cutoff, producer, locals, reclaim, pending, Function
<1>9. {cpc, cpc'} \cap Reclaiming = {} /\ cpc' \notin Tidying \cup AtElement
  BY <1>2 DEF Tidying, Reclaiming, AtElement
<1>10. Linked' /\ Moving' BY <1>2, <1>6, <1>9, LinkedStays, MovingStays
<1>11. Heads'
  <2>1. First(write_block) <= First(write_block_hint) BY <1>2 DEF Heads
  <2> QED BY <1>2, <1>6, <1>9, <2>1, HeadsGo
<1>12. Cursor'
  <2>1. Grows BY <1>2, <1>6, ListStays
  <2> QED BY <1>2, <1>6, <2>1, CursorsStay
<1>13. /\ \A m \in Nat : (Done(cut, m)' <=> Done(cut, m)) /\ (AtEnd(cut, m)' <=> AtEnd(cut, m))
  BY <1>2, ProducersStable DEF Stable
<1>14. Rousing(cut)' BY <1>2, <1>4, <1>5, RousingGo
<1>15. Cells(cut)' /\ Clean'
  <2>1. CellOK(cut, u, flags[b][i], stored[b][i])'
    <3>1. flags'[b][i] = "closed" /\ stored'[b][i] = NoValue BY <1>2, <1>5, <1>7 DEF CellOK
    <3>2. Mark(cut, u)' = "closed" BY <1>2, <1>5, <1>13 DEF Mark
    <3> QED BY <1>5, <1>13, <3>1, <3>2 DEF CellOK
  <2>2. Turn <= u BY <1>4
  <2>3. \A x \in Block, j \in Index : x # b \/ j # i =>
             flags'[x][j] = flags[x][j] /\ stored'[x][j] = stored[x][j]
    BY <1>2, <1>7
  <2>4. u = First(b) + i /\ u = Turn BY <1>4, <1>5
  <2>5. cpc' \notin {"find_tail", "unlink", "relink"} BY <1>2
  <2> QED BY <1>2, <1>3, <1>5, <1>6, <1>7, <1>13, <2>1, <2>2, <2>3, <2>4, <2>5, CellsChange
<1>16. cpc' # "gone" BY <1>2
<1> QED BY <1>2, <1>8, <1>10, <1>11, <1>12, <1>14, <1>15, <1>16, ConsumerKeeps

\* A value is taken, and the consumer comes to the next ticket.
LEMMA FinishReadKeeps ==
  ASSUME NEW cut \in Nat, Going(cut), FinishRead
  PROVE  Going(cut)'
<1> USE DEF Going, Shape
<1>1. PICK b, i : b = rblock /\ i = IndexOf(read_offset) OBVIOUS
<1>2. /\ cpc = "holding" /\ stored' = [stored EXCEPT ![b][i] = NoValue]
      /\ read_offset' = Plus(read_offset, 1) /\ taken' = taken + 1
      /\ \/ /\ StartsBlock(read_offset) /\ read_block' = b /\ started' = FALSE /\ cpc' = "try_finish"
            /\ UNCHANGED <<call, rblock>>
         \/ /\ cpc' = "idle" /\ call' = "none" /\ rblock' = Null
            /\ UNCHANGED <<read_block, started>>
      /\ UNCHANGED <<list, flags, write_offset, heads, cutoff, producer, outcome, head_block,
                     tail_block, oldHead, unlinked, tailBlock, pending, elem, can_suspend>>
  BY <1>1 DEF FinishRead, Leave
<1>3. b \in OnList /\ First(b) = Base(Turn) BY <1>1, <1>2 DEF Heads, AtElement
<1>4. PICK u \in Nat : u = Turn BY Types
<1>5. b \in Block /\ i \in Index /\ First(b) + i = u /\ First(b) \in Nat /\ i \in Nat
  <2>1. b \in Block /\ i \in Index /\ First(b) + i = u BY <1>1, <1>3, <1>4, NextElement
  <2> QED BY <2>1, Types DEF Index
<1>6. Done(cut, u) /\ u < cut /\ ~AtEnd(cut, u)
  <2>1. Done(cut, u) BY <1>2, <1>4 DEF Rousing
  <2> QED BY <2>1 DEF Done, AtEnd
<1>7. /\ Skipped \in Nat /\ Skipped <= u /\ cut <= Sold /\ Sold <= Top /\ 2 * cut < WordMod
      /\ cut <= Skipped + MaxTicket /\ taken = u - Skipped /\ WordMod \in Nat /\ MaxTicket \in Nat
  BY <1>4, Bounds, Sizes, Origin DEF Cutoff
<1>8. read_offset' \in Word /\ Turn' = u + 1
  <2>1. read_offset \in Word /\ Pos(read_offset) = u BY <1>4, Types DEF Turn
  <2>2. Plus(read_offset, 1) \in Word /\ (Pos(read_offset) + 1 < WordMod => Pos(Plus(read_offset, 1)) = Pos(read_offset) + 1)
    BY <2>1, PosPlus
  <2>3. u + 1 < WordMod BY <1>6, <1>7
  <2> QED BY <1>2, <2>1, <2>2, <2>3 DEF Turn
<1>9. /\ stored' \in [Block -> [Index -> Value \cup {NoValue}]] /\ stored'[b][i] = NoValue
      /\ \A x \in Block, j \in Index : x # b \/ j # i => stored'[x][j] = stored[x][j]
      /\ \A x \in Block : x # b => stored'[x] = stored[x]
  <2>1. PICK v : v = NoValue OBVIOUS
  <2> QED BY <1>2, <1>5, <2>1, EditStored
<1>10. /\ cpc' \in {"idle", "try_finish"} /\ {cpc, cpc'} \cap Reclaiming = {}
       /\ cpc' \notin AtElement \cup {"move_hint", "read_cutoff", "seek"}
  BY <1>2 DEF Reclaiming, AtElement
<1>11. TypeOK'
  <2>1. taken' \in 0 .. MaxTicket BY <1>2, <1>6, <1>7
  <2>2. call' \in Function \cup {"none"} /\ rblock' \in Block \cup {Null} /\ read_block' \in Block /\ started' \in BOOLEAN
    BY <1>2, <1>5 DEF TypeOK
  <2> QED
    BY <1>2, <1>8, <1>9, <1>10, <2>1, <2>2 DEF TypeOK, list, heads, cutoff, producer, locals, pending, Function
<1>12. Linked' /\ Moving' BY <1>2, <1>10, LinkedStays, MovingStays
<1>13. Grows /\ OnList' = OnList /\ Unlinked' = Unlinked /\ (\A x : First(x)' = First(x)) /\ (\A m : Reaches(m)' <=> Reaches(m))
  BY <1>2, ListStays
<1>14. Heads'
  <2>1. First(read_block) <= First(b)
    <3>1. First(read_block) <= Turn /\ read_block \in OnList BY HeadNumbers
    <3>2. First(read_block) \in Starts BY <3>1 DEF Linked
    <3> QED BY <1>3, <1>4, <3>1, <3>2, BaseOf
  <2>2. /\ read_block' \in OnList
        /\ First(read_block) <= Pos(offset[read_block'])
        /\ Pos(offset[read_block']) < u + 1 \/ Pos(offset[read_block']) = 0
    <3>1. CASE read_block' = b BY <1>3, <1>5, <2>1, <3>1 DEF First
    <3>2. CASE read_block' = read_block
      <4>1. (First(read_block) < Turn \/ First(read_block) = 0) /\ First(read_block) \in Nat /\ read_block \in OnList
        BY HeadNumbers DEF Heads
      <4> QED BY <1>4, <3>2, <4>1 DEF First
    <3> QED BY <1>2, <3>1, <3>2
  <2>3. cpc' \in Tidying => rblock' = read_block' BY <1>1, <1>2 DEF Tidying, Reclaiming
  <2>4. /\ UNCHANGED <<write_block, write_block_hint, pending_old_head, pending_new_head, pending_cutoff>>
        /\ Lowest' = Lowest /\ Sold' = Sold
    BY <1>2 DEF heads, pending, Lowest, Sold
  <2>5. /\ {write_block, write_block_hint} \subseteq OnList
        /\ First(Lowest) <= First(head_block) /\ First(head_block) <= First(write_block)
        /\ First(head_block) <= First(write_block_hint)
        /\ First(write_block) <= First(write_block_hint)
        /\ First(write_block_hint) <= Sold
        /\ pending_old_head # Null =>
              /\ pending_old_head = head_block /\ pending_new_head = write_block
              /\ Pos(pending_cutoff) <= Sold
    BY <1>2 DEF Heads
  <2>6. First(write_block) <= Pos(offset[read_block'])
    <3>1. First(write_block) <= First(read_block) /\ First(write_block) \in Nat /\ First(read_block) \in Nat
      BY HeadNumbers
    <3>2. Pos(offset[read_block']) \in Nat BY <2>2, Types DEF First
    <3> QED BY <2>2, <3>1, <3>2
  <2>7. offset' = offset BY <1>2 DEF list
  <2> QED BY <1>2, <1>8, <1>10, <1>13, <2>2, <2>3, <2>4, <2>5, <2>6, <2>7 DEF Heads, First
<1>15. Cutoff(cut)'
  <2>1. Sold' = Sold /\ closed' = closed /\ closed_ready' = closed_ready /\ write_closed_at' = write_closed_at
        /\ ppc' = ppc
    BY <1>2 DEF Sold, cutoff, producer
  <2>2. Skipped <= u + 1 /\ u + 1 <= cut /\ taken' = u + 1 - Skipped BY <1>2, <1>6, <1>7
  <2>3. /\ cut <= Sold /\ cut <= Skipped + MaxTicket /\ Sold <= Top
        /\ closed_ready => closed /\ cut = Pos(write_closed_at) /\ cut < Sold
        /\ ~closed_ready => cut = Sold \/ \E p \in Producers : ppc[p] = "set_cutoff"
        /\ closed /\ ~closed_ready => \E p \in Producers : ppc[p] \in Drawing
    BY DEF Cutoff
  <2>4. /\ cut <= Sold' /\ Sold' <= Top
        /\ closed_ready' => closed' /\ cut = Pos(write_closed_at') /\ cut < Sold'
        /\ ~closed_ready' => cut = Sold' \/ \E p \in Producers : ppc'[p] = "set_cutoff"
        /\ closed' /\ ~closed_ready' => \E p \in Producers : ppc'[p] \in Drawing
    BY <2>1, <2>3
  <2>5. Skipped <= Turn' /\ Turn' <= cut /\ taken' = Turn' - Skipped BY <1>6, <1>7, <1>8, <2>2
  <2> QED BY <2>3, <2>4, <2>5 DEF Cutoff
<1>16. /\ Closers(cut)'
       /\ \A q \in Producers : /\ Begin(q)' = Begin(q) /\ Finish(q)' = Finish(q) /\ Ahead(q)' = Ahead(q)
                               /\ ppc'[q] = ppc[q] /\ count'[q] = count[q]
  BY <1>2, ProducersStay
<1>17. Posts(cut)'
  <2>1. Sold' = Sold /\ written' = written BY <1>2 DEF Sold, producer, locals
  <2>2. \A q \in Producers : count[q] > 0 /\ Ahead(q) < Finish(q) => u + 1 <= Ahead(q)
    <3>1. TAKE q \in Producers
    <3>2. HAVE count[q] > 0 /\ Ahead(q) < Finish(q)
    <3>3. u <= Ahead(q) /\ Ahead(q) \in Nat /\ Finish(q) \in Nat
      BY <1>4, <3>2, Types DEF Posts, PostOK
    <3>4. ~(Ahead(q) <= u /\ u < Finish(q)) BY <1>6 DEF Done
    <3> QED BY <3>2, <3>3, <3>4
  <2> QED BY <1>8, <1>16, <2>1, <2>2 DEF Posts, PostOK
<1>18. Cursor' BY <1>2, <1>13, CursorsStay
<1>19. \A m \in Nat : (Done(cut, m)' <=> Done(cut, m)) /\ (AtEnd(cut, m)' <=> AtEnd(cut, m))
  BY <1>2, ProducersStable DEF Stable
<1>20. ~Asleep /\ ~Asleep' BY <1>10, <1>2 DEF Asleep
<1>21. Cells(cut)'
  <2>1. ASSUME NEW x \in OnList, NEW j \in Index
        PROVE  IF First(x)' + j < Turn' THEN stored'[x][j] = NoValue
               ELSE CellOK(cut, First(x) + j, flags[x][j], stored[x][j])'
    <3>1. First(x) + j \in Nat /\ x \in Block
      <4>1. x \in Block /\ First(x) \in Nat BY Types
      <4>2. j \in Nat BY Sizes DEF Index
      <4> QED BY <4>1, <4>2
    <3>2. PICK m \in Nat : m = First(x) + j BY <3>1
    <3>3. PICK f, v : f = flags[x][j] /\ v = stored[x][j] OBVIOUS
    <3>4. First(x)' + j = m /\ flags'[x][j] = f BY <1>2, <1>13, <3>2, <3>3
    <3>5. CASE m < u
      <4>1. v = NoValue BY <1>4, <3>2, <3>3, <3>5 DEF Cells
      <4>2. stored'[x][j] = NoValue BY <1>9, <3>1, <3>3, <4>1
      <4> QED BY <1>4, <1>8, <3>4, <3>5, <4>2
    <3>6. CASE m = u
      <4>1. x = b /\ j = i BY <1>3, <1>5, <3>2, <3>6, OneCell
      <4> QED BY <1>8, <1>9, <3>4, <3>6, <4>1
    <3>7. CASE m > u
      <4>1. ~(m < u + 1) /\ ~(m < u) /\ m # u BY <3>7
      <4>2. x # b \/ j # i BY <1>5, <3>2, <4>1
      <4>3. stored'[x][j] = v BY <1>9, <3>1, <3>3, <4>2
      <4>4. CellOK(cut, m, f, v) BY <1>4, <3>2, <3>3, <4>1 DEF Cells
      <4>5. Mark(cut, m)' = Mark(cut, m) BY <1>2, <1>4, <1>10, <1>19, <1>20, <4>1 DEF Mark
      <4>6. CellOK(cut, m, f, v)' BY <1>4, <1>19, <4>1, <4>4, <4>5 DEF CellOK
      <4> QED BY <1>8, <3>4, <4>1, <4>3, <4>6
    <3> QED BY <3>5, <3>6, <3>7
  <2>2. \A m \in Nat : Turn' <= m /\ (Done(cut, m)' \/ AtEnd(cut, m)') => Reaches(m)'
    <3>1. \A m \in Nat : u + 1 <= m => Turn <= m BY <1>4
    <3>2. \A m \in Nat : Turn <= m /\ (Done(cut, m) \/ AtEnd(cut, m)) => Reaches(m) BY DEF Cells
    <3> QED BY <1>8, <1>13, <1>19, <3>1, <3>2
  <2> QED BY <1>13, <2>1, <2>2 DEF Cells
<1>22. Clean'
  <2>1. \A x \in Block \ OnList, j \in Index : stored'[x][j] = NoValue BY <1>3, <1>9 DEF Clean
  <2>2. cpc' \notin {"find_tail", "unlink", "relink"} BY <1>10
  <2> QED BY <1>13, <2>1, <2>2 DEF Clean
<1>23. Rousing(cut)'
  <2>1. \A q \in Producers : ppc[q] # "wake" BY <1>2 DEF Rousing
  <2>2. \A q \in Producers : ppc'[q] # "wake" BY <1>16, <2>1
  <2>3. outcome # "CLOSED" BY <1>4, <1>6 DEF Rousing
  <2>4. call' = "pull" => can_suspend BY <1>2 DEF Rousing
  <2> QED BY <1>2, <1>10, <1>20, <2>2, <2>3, <2>4 DEF Rousing
<1>24. Alive' BY <1>10, <1>16 DEF Alive
<1> QED BY <1>11, <1>12, <1>14, <1>15, <1>16, <1>17, <1>18, <1>21, <1>22, <1>23, <1>24

\* Reclamation
\* The blocks stay where they are, and so do the elements.
LEMMA TidyKeeps ==
  ASSUME NEW cut \in Nat, Going(cut), TypeOK', cpc \in Tidying, cpc' \in Tidying \cup {"idle"},
         UNCHANGED <<list, elements, unlinked, producer, write_offset, cutoff, read_offset, taken, outcome, can_suspend>>,
         call' = call \/ call' = "none", cpc' = cpc \/ cpc' \notin {"find_tail", "unlink", "relink"},
         Linked', Moving', Heads', Cursor'
  PROVE  Going(cut)'
<1> USE DEF Going, Shape
<1>1. /\ cpc \notin {"parked", "restore", "holding"}
      /\ cpc' \notin {"parked", "resume", "restore", "suspend", "holding", "gone"}
  BY DEF Tidying, Reclaiming
<1>2. /\ outcome = "CLOSED" => AtEnd(cut, Turn)
      /\ call = "pull" => can_suspend
  BY DEF Rousing
<1>3. Rousing(cut)' /\ (Asleep' <=> Asleep) BY <1>1, <1>2, RousingGo
<1>4. Cells(cut)'
  <2>1. Stable(cut, cut) BY ProducersStable
  <2> QED BY <1>1, <1>3, <2>1, CellsStay
<1>5. Clean' BY CleanStays
<1> QED BY <1>1, <1>3, <1>4, <1>5, ConsumerKeeps

LEMMA AfterTryGoes ==
  ASSUME TypeOK, AfterTry
  PROVE  /\ cpc' \in {"idle", "try_start"} /\ (call' = call \/ call' = "none")
         /\ call' \in Function \cup {"none"} /\ rblock' \in Block \cup {Null}
         /\ cpc' = "try_start" => rblock' = rblock
  BY DEF AfterTry, Leave, TypeOK

\* The heads move up when the consumer is past every ticket there was.
LEMMA TryFinishKeeps ==
  ASSUME NEW cut \in Nat, Going(cut), TryFinish
  PROVE  Going(cut)'
<1> USE DEF Going, Shape
<1>1. /\ cpc = "try_finish"
      /\ UNCHANGED <<list, elements, write_offset, heads, cutoff, producer, read_offset,
                     read_block, outcome, taken, tail_block, started, unlinked, tailBlock, elem,
                     can_suspend>>
  BY DEF TryFinish
<1>2. rblock = read_block /\ cpc \in Tidying /\ cpc \notin Reclaiming
  <2>1. cpc \in Tidying /\ cpc \notin Reclaiming BY <1>1 DEF Tidying, Reclaiming
  <2> QED BY <2>1 DEF Heads
<1>3. CASE pending_old_head # Null /\ CutoffPassed
  <2>1. /\ head_block' = pending_new_head /\ oldHead' = pending_old_head
        /\ pending_old_head' = Null /\ pending_new_head' = Null /\ pending_cutoff' = 0
        /\ cpc' = "collect" /\ UNCHANGED <<call, rblock>>
    BY <1>3 DEF TryFinish
  <2>2. pending_old_head = head_block /\ pending_new_head = write_block /\ Pos(pending_cutoff) <= Sold
    BY <1>3 DEF Heads
  <2>3. Pos(pending_cutoff) <= Turn
    <3>1. read_offset \in Word /\ pending_cutoff \in Word /\ Pos(read_offset) \in Nat /\ Pos(pending_cutoff) \in Nat
          /\ Sold \in Nat
      BY Types, PosIs
    <3>2. 2 * Pos(read_offset) < WordMod /\ 2 * Sold < WordMod BY Bounds DEF Turn
    <3>3. 2 * Pos(pending_cutoff) < WordMod BY <2>2, <3>1, <3>2, Sizes
    <3>4. ~(Pos(read_offset) < Pos(pending_cutoff))
      BY <1>3, <3>1, <3>2, <3>3, PosLess DEF CutoffPassed
    <3> QED BY <3>1, <3>4 DEF Turn
  <2>4. oldHead = Null /\ unlinked = <<>> /\ Lowest = head_block BY <1>2 DEF Moving, Lowest
  <2>5. head_block \in OnList /\ write_block \in OnList /\ head_block \in Block /\ write_block \in Block
        /\ First(head_block) <= First(write_block) /\ First(write_block) <= First(write_block_hint)
    BY <1>1, HeadNumbers DEF Heads
  <2>6. Lowest' = Lowest /\ head_block' = write_block /\ oldHead' = head_block
    BY <2>1, <2>2, <2>4, <2>5, Types DEF Lowest
  <2>7. OnList' = OnList /\ (\A x : First(x)' = First(x)) /\ (\A m : Reaches(m)' <=> Reaches(m)) /\ Grows
    BY <1>1, ListStays
  <2>8. TypeOK'
    <3>1. Null \in Block \cup {Null} /\ 0 \in Word BY Sizes DEF Word
    <3> QED
      BY <1>1, <2>1, <2>5, <2>6, <3>1 DEF TypeOK, list, elements, heads, cutoff, producer, locals, Function
  <2>9. Linked'
    <3>1. next' = next BY <1>1 DEF list
    <3>2. PICK l : l = Lowest OBVIOUS
    <3>3. Lowest' = l BY <2>6, <3>2
    <3>5. /\ {l, head_block'} \subseteq OnList
          /\ \A b \in OnList : First(b) \in Starts /\ First(l) <= First(b)
          /\ \A b, c \in OnList : First(b) = First(c) => b = c
          /\ \A b \in OnList : next[b] # Null =>
                next[b] \in OnList /\ First(next[b]) = First(b) + BlockSize
          /\ \A b, c \in OnList : next[b] = Null => First(c) <= First(b)
          /\ \A b \in OnList : First(b) + BlockSize * Len(unlinked) <= Top + First(l)
      BY <2>5, <2>6, <3>2, Zenon DEF Linked
    <3>7. \A x : Pos(offset'[x]) = First(x) BY <2>7 DEF First
    <3> QED BY <1>1, <2>7, <3>1, <3>3, <3>5, <3>7 DEF Linked, First
  <2>10. Moving'
    <3>1. unlinked' = <<>> /\ Len(unlinked') = 0 /\ Unlinked' = {} BY <1>1, <2>4 DEF Unlinked
    <3>2. oldHead' # Null BY <2>5, <2>6, Types
    <3>3. tail_block' \in blocks' BY <1>1 DEF Moving, list
    <3>4. BlockSize * Len(unlinked') = 0 /\ 0 <= First(Lowest)'
      <4>1. Lowest \in Block /\ First(Lowest) \in Nat BY <2>4, <2>5, Types
      <4>2. PICK l : l = Lowest OBVIOUS
      <4>3. First(Lowest)' = First(l) BY <2>6, <2>7, <4>2 DEF First
      <4> QED BY <3>1, <4>1, <4>2, <4>3, Sizes
    <3>5. cpc' \in Reclaiming /\ cpc' \notin {"find_tail", "unlink", "relink"} /\ cpc' \notin Reclaiming \ {"collect"}
      BY <2>1 DEF Reclaiming
    <3> QED BY <3>1, <3>2, <3>3, <3>4, <3>5 DEF Moving
  <2>11. Heads'
    <3>1. /\ UNCHANGED <<write_block, write_block_hint, read_block>> /\ Sold' = Sold /\ Turn' = Turn
      BY <1>1 DEF heads, Sold, Turn
    <3>2. cpc' \in Tidying /\ cpc' \notin AtElement \cup {"move_hint", "read_cutoff", "seek"}
      BY <2>1 DEF Tidying, Reclaiming, AtElement
    <3>3. /\ {write_block, write_block_hint, read_block} \subseteq OnList
          /\ First(write_block) <= First(read_block)
          /\ First(write_block_hint) <= Sold
          /\ First(read_block) < Turn \/ First(read_block) = 0
      BY DEF Heads
    <3>4. PICK l : l = Lowest OBVIOUS
    <3>5. Lowest' = l /\ First(l) <= First(write_block) BY <2>4, <2>5, <2>6, <3>4
    <3>6. \A x : Pos(offset'[x]) = First(x) BY <2>7 DEF First
    <3>7. First(write_block) <= First(write_block) BY <2>5, Types
    <3> QED BY <1>1, <1>2, <2>1, <2>5, <2>6, <2>7, <3>1, <3>2, <3>3, <3>5, <3>6, <3>7 DEF Heads, First
  <2>12. Cursor'
    <3>1. ASSUME NEW p \in Producers
          PROVE  Search(p)'
      <4>1. UNCHANGED <<ppc, idx, count, written, observed, walk, pblock>> /\ offset' = offset
        BY <1>1 DEF producer, locals, list
      <4>2. Begin(p)' = Begin(p) /\ Finish(p)' = Finish(p) BY <4>1 DEF Begin, Finish
      <4>3. ppc[p] \in {"seek", "reserve"} => First(write_block) <= First(observed[p])
        <5>1. HAVE ppc[p] \in {"seek", "reserve"}
        <5>2. Turn <= Begin(p) /\ Begin(p) \in Nat BY <5>1, Searching
        <5>3. Begin(p) < Pos(pending_cutoff) \/ First(pending_new_head) <= First(observed[p])
          BY <1>3, <5>1 DEF Cursor, Search
        <5>4. ~(Begin(p) < Pos(pending_cutoff)) BY <2>3, <5>2, Types
        <5> QED BY <2>2, <5>3, <5>4
      <4>4. Search(p) BY DEF Cursor
      <4> QED BY <2>1, <2>6, <2>7, <4>1, <4>2, <4>3, <4>4 DEF Search, First
    <3>2. ASSUME NEW p \in Producers
          PROVE  Place(p)'
      <4>1. UNCHANGED <<ppc, idx, count, written, observed, walk, pblock>> /\ offset' = offset
        BY <1>1 DEF producer, locals, list
      <4>2. Begin(p)' = Begin(p) /\ Finish(p)' = Finish(p) BY <4>1 DEF Begin, Finish
      <4>3. Place(p) BY DEF Cursor
      <4>4. PICK m : m = Finish(p) - 1 OBVIOUS
      <4>5. Reaches(Finish(p) - 1)' <=> Reaches(Finish(p) - 1) BY <2>7, <4>2, <4>4
      <4> QED BY <2>7, <4>1, <4>2, <4>3, <4>5 DEF Place, First
    <3> QED BY <3>1, <3>2 DEF Cursor
  <2>13. cpc' \in Tidying /\ cpc' \notin {"find_tail", "unlink", "relink"}
    BY <2>1 DEF Tidying, Reclaiming
  <2> QED BY <1>1, <1>2, <2>1, <2>8, <2>9, <2>10, <2>11, <2>12, <2>13, TidyKeeps
<1>4. CASE ~(pending_old_head # Null /\ CutoffPassed)
  <2>1. AfterTry /\ UNCHANGED <<head_block, oldHead, pending>> BY <1>4 DEF TryFinish
  <2>2. /\ cpc' \in {"idle", "try_start"} /\ (call' = call \/ call' = "none")
        /\ call' \in Function \cup {"none"} /\ rblock' \in Block \cup {Null}
        /\ cpc' = "try_start" => rblock' = rblock
    BY <2>1, AfterTryGoes
  <2>3. TypeOK'
    BY <1>1, <2>1, <2>2 DEF TypeOK, list, elements, heads, cutoff, producer, locals, pending, Function
  <2>4. {cpc, cpc'} \cap Reclaiming = {} /\ cpc' \notin AtElement \cup {"move_hint", "read_cutoff", "seek"}
        /\ cpc' \in Tidying \cup {"idle"} /\ (cpc' \in Tidying => cpc' = "try_start")
    BY <1>1, <2>2 DEF Tidying, Reclaiming, AtElement
  <2>5. Linked' /\ Moving' BY <1>1, <2>1, <2>4, LinkedStays, MovingStays
  <2>6. Heads'
    <3>1. First(write_block) <= First(write_block_hint) BY <1>1 DEF Heads
    <3>2. UNCHANGED <<write_block, write_block_hint>> BY <1>1 DEF heads
    <3> QED BY <1>1, <1>2, <2>1, <2>2, <2>4, <3>1, <3>2, HeadsGo
  <2>7. Cursor'
    <3>1. Grows BY <1>1, ListStays
    <3> QED BY <1>1, <2>1, <3>1, CursorsStay
  <2> QED BY <1>1, <1>2, <2>2, <2>3, <2>4, <2>5, <2>6, <2>7, TidyKeeps
<1> QED BY <1>3, <1>4

\* The block that the consumer has come to is where producers start.
LEMMA TryStartKeeps ==
  ASSUME NEW cut \in Nat, Going(cut), TryStart
  PROVE  Going(cut)'
<1> USE DEF Going, Shape
<1>1. /\ cpc = "try_start" /\ started' = TRUE
      /\ \/ pending_old_head = Null /\ write_block' = rblock /\ cpc' = "move_hint"
         \/ cpc' = "try_finish" /\ UNCHANGED write_block
      /\ UNCHANGED <<list, elements, write_offset, write_block_hint, cutoff, producer, reading,
                     head_block, tail_block, oldHead, unlinked, tailBlock, pending, elem,
                     can_suspend>>
  BY DEF TryStart
<1>2. /\ UNCHANGED <<read_offset, read_block, call, rblock, outcome, taken, pending_old_head, pending_new_head, pending_cutoff>>
      /\ Turn' = Turn /\ Sold' = Sold /\ Lowest' = Lowest
  BY <1>1 DEF reading, pending, Turn, Sold, Lowest
<1>3. /\ cpc \in Tidying /\ cpc' \in Tidying /\ {cpc, cpc'} \cap Reclaiming = {}
      /\ cpc' \notin AtElement \cup {"find_tail", "unlink", "relink", "seek", "read_cutoff"}
  BY <1>1 DEF Tidying, Reclaiming, AtElement
<1>4. rblock = read_block BY <1>3 DEF Heads
<1>5. OnList' = OnList /\ (\A x : First(x)' = First(x)) /\ Grows BY <1>1, ListStays
<1>6. /\ {head_block, write_block, write_block_hint, read_block, Lowest} \subseteq OnList /\ read_block \in Block
      /\ First(Lowest) <= First(head_block)
      /\ First(head_block) <= First(write_block) /\ First(write_block) <= First(read_block)
      /\ First(head_block) <= First(write_block_hint) /\ First(write_block_hint) <= Sold
      /\ {First(head_block), First(write_block), First(read_block)} \subseteq Nat
      /\ First(head_block) <= First(read_block)
      /\ First(read_block) < Turn \/ First(read_block) = 0
      /\ First(write_block) <= First(write_block_hint)
      /\ pending_old_head # Null =>
          /\ pending_old_head = head_block /\ pending_new_head = write_block
          /\ Pos(pending_cutoff) <= Sold
  <2>1. /\ {head_block, write_block, write_block_hint, read_block, Lowest} \subseteq OnList /\ read_block \in Block
        /\ First(Lowest) <= First(head_block)
        /\ First(head_block) <= First(write_block) /\ First(write_block) <= First(read_block)
        /\ First(head_block) <= First(write_block_hint) /\ First(write_block_hint) <= Sold
        /\ {First(head_block), First(write_block), First(read_block)} \subseteq Nat
    BY HeadNumbers
  <2>2. First(head_block) <= First(read_block) BY <2>1
  <2> QED BY <1>1, <2>1, <2>2 DEF Heads
<1>7. TypeOK'
  BY <1>1, <1>2, <1>4, <1>6 DEF TypeOK, list, elements, cutoff, producer, locals, Function
<1>8. Linked' /\ Moving' BY <1>1, <1>3, LinkedStays, MovingStays
<1>9. Cursor' BY <1>1, <1>5, CursorsStay
<1>10. Heads'
  <2>1. \A x : Pos(offset'[x]) = First(x) BY <1>5 DEF First
  <2>2. First(read_block) <= First(read_block) BY <1>6
  <2>3. CASE cpc' = "move_hint"
    BY <1>1, <1>2, <1>3, <1>4, <1>5, <1>6, <2>1, <2>2, <2>3 DEF Heads, First
  <2>4. CASE cpc' = "try_finish"
    BY <1>1, <1>2, <1>3, <1>4, <1>5, <1>6, <2>1, <2>4 DEF Heads, First
  <2> QED BY <1>1, <2>3, <2>4
<1> QED BY <1>1, <1>2, <1>3, <1>7, <1>8, <1>9, <1>10, TidyKeeps

\* And the hint does not stay behind it.
LEMMA MoveHintKeeps ==
  ASSUME NEW cut \in Nat, Going(cut), MoveHint
  PROVE  Going(cut)'
<1> USE DEF Going, Shape
<1>1. /\ cpc = "move_hint" /\ cpc' = "read_cutoff"
      /\ write_block_hint' = IF BlockBefore(write_block_hint, rblock) THEN rblock ELSE write_block_hint
      /\ UNCHANGED <<list, elements, write_offset, write_block, cutoff, producer, reading, reclaim,
                     pending, elem, can_suspend>>
  BY DEF MoveHint
<1>2. /\ UNCHANGED <<read_offset, read_block, call, rblock, outcome, taken, head_block, tail_block, oldHead, unlinked, tailBlock,
                     started, pending_old_head, pending_new_head, pending_cutoff>>
      /\ Turn' = Turn /\ Sold' = Sold /\ Lowest' = Lowest
  BY <1>1 DEF reading, reclaim, pending, Turn, Sold, Lowest
<1>3. /\ cpc \in Tidying /\ cpc' \in Tidying /\ {cpc, cpc'} \cap Reclaiming = {}
      /\ cpc' \notin AtElement \cup {"find_tail", "unlink", "relink", "seek", "move_hint"}
  BY <1>1 DEF Tidying, Reclaiming, AtElement
<1>4. rblock = read_block /\ write_block = rblock /\ pending_old_head = Null
  BY <1>1, <1>3 DEF Heads
<1>5. OnList' = OnList /\ (\A x : First(x)' = First(x)) /\ Grows BY <1>1, <1>2, ListStays
<1>6. /\ {head_block, write_block, write_block_hint, read_block, Lowest} \subseteq OnList
      /\ {write_block_hint, read_block} \subseteq Block
      /\ First(Lowest) <= First(head_block)
      /\ First(head_block) <= First(write_block) /\ First(write_block) <= First(read_block)
      /\ First(head_block) <= First(write_block_hint) /\ First(write_block_hint) <= Sold
      /\ First(read_block) <= Sold
      /\ {First(head_block), First(write_block_hint), First(read_block)} \subseteq Nat
      /\ First(read_block) < Turn \/ First(read_block) = 0
  <2>1. /\ {head_block, write_block, write_block_hint, read_block, Lowest} \subseteq OnList
        /\ {write_block_hint, read_block} \subseteq Block
        /\ First(Lowest) <= First(head_block)
        /\ First(head_block) <= First(write_block) /\ First(write_block) <= First(read_block)
        /\ First(head_block) <= First(write_block_hint) /\ First(write_block_hint) <= Sold
        /\ First(read_block) <= Turn
        /\ {First(head_block), First(write_block_hint), First(read_block), Turn, Sold} \subseteq Nat
    BY HeadNumbers
  <2>2. Turn <= Sold BY Bounds, Types
  <2> QED BY <2>1, <2>2 DEF Heads
<1>7. BlockBefore(write_block_hint, rblock) <=> First(write_block_hint) < First(read_block)
  <2>1. offset[write_block_hint] \in Word /\ offset[read_block] \in Word BY <1>6, Types
  <2>2. 2 * First(write_block_hint) < WordMod /\ 2 * First(read_block) < WordMod
    <3>1. 2 * Sold < WordMod /\ Sold \in Nat BY Bounds, Types
    <3> QED BY <1>6, <3>1, Sizes
  <2> QED BY <1>4, <2>1, <2>2, PosLess DEF BlockBefore, First
<1>8. /\ write_block_hint' \in OnList /\ write_block_hint' \in Block
      /\ First(head_block) <= Pos(offset[write_block_hint'])
      /\ First(write_block) <= Pos(offset[write_block_hint'])
      /\ Pos(offset[write_block_hint']) <= Sold
  <2>1. CASE BlockBefore(write_block_hint, rblock) BY <1>1, <1>4, <1>6, <2>1 DEF First
  <2>2. CASE ~BlockBefore(write_block_hint, rblock) BY <1>1, <1>4, <1>6, <1>7, <2>2 DEF First
  <2> QED BY <2>1, <2>2
<1>9. TypeOK' BY <1>1, <1>2, <1>8 DEF TypeOK, list, elements, cutoff, producer, locals, Function
<1>10. Linked' /\ Moving' BY <1>1, <1>2, <1>3, LinkedStays, MovingStays
<1>11. Cursor' BY <1>1, <1>2, <1>5, CursorsStay
<1>12. Heads'
  <2>1. (\A x : Pos(offset'[x]) = First(x)) /\ offset' = offset BY <1>1, <1>5 DEF First, list
  <2> QED BY <1>1, <1>2, <1>3, <1>4, <1>5, <1>6, <1>8, <2>1 DEF Heads, First
<1> QED BY <1>1, <1>2, <1>3, <1>9, <1>10, <1>11, <1>12, TidyKeeps

\* Every search that may have begun before is for a ticket drawn before now.
LEMMA ReadCutoffKeeps ==
  ASSUME NEW cut \in Nat, Going(cut), ReadCutoff
  PROVE  Going(cut)'
<1> USE DEF Going, Shape
<1>1. /\ cpc = "read_cutoff" /\ cpc' = "try_finish"
      /\ pending_cutoff' = write_offset /\ pending_old_head' = head_block /\ pending_new_head' = rblock
      /\ UNCHANGED <<list, elements, write_offset, heads, cutoff, producer, reading, reclaim, elem,
                     can_suspend>>
  BY DEF ReadCutoff
<1>2. /\ UNCHANGED <<read_offset, read_block, call, rblock, outcome, taken, head_block, tail_block, oldHead, unlinked, tailBlock,
                     started, write_block, write_block_hint>>
      /\ Turn' = Turn /\ Sold' = Sold /\ Lowest' = Lowest
  BY <1>1 DEF reading, reclaim, heads, Turn, Sold, Lowest
<1>3. /\ cpc \in Tidying /\ cpc' \in Tidying /\ {cpc, cpc'} \cap Reclaiming = {}
      /\ cpc' \notin AtElement \cup {"find_tail", "unlink", "relink", "seek", "move_hint", "read_cutoff"}
  BY <1>1 DEF Tidying, Reclaiming, AtElement
<1>4. rblock = read_block /\ write_block = rblock BY <1>1, <1>3 DEF Heads
<1>5. OnList' = OnList /\ (\A x : First(x)' = First(x)) /\ (\A m : Reaches(m)' <=> Reaches(m))
  BY <1>1, <1>2, ListStays
<1>6. head_block \in Block /\ read_block \in Block /\ write_offset \in Word /\ Sold \in Nat
  BY HeadNumbers, Types
<1>7. TypeOK'
  BY <1>1, <1>2, <1>4, <1>6 DEF TypeOK, list, elements, cutoff, heads, producer, locals, Function
<1>8. Linked' /\ Moving' BY <1>1, <1>2, <1>3, LinkedStays, MovingStays
<1>9. Cursor'
  <2>1. UNCHANGED <<ppc, idx, count, written, observed, walk, pblock>> /\ offset' = offset
    BY <1>1 DEF producer, locals, list
  <2>2. ASSUME NEW p \in Producers
        PROVE  Search(p)' /\ Place(p)'
    <3>1. Begin(p)' = Begin(p) /\ Finish(p)' = Finish(p) BY <2>1 DEF Begin, Finish
    <3>2. ppc[p] \in {"seek", "reserve"} => Begin(p) < Pos(pending_cutoff')
      BY <1>1, Searching DEF Sold
    <3>3. Search(p) /\ Place(p) BY DEF Cursor
    <3>4. Search(p)' BY <1>2, <1>5, <2>1, <3>1, <3>2, <3>3 DEF Search, First
    <3>5. Reaches(Finish(p) - 1)' <=> Reaches(Finish(p) - 1)
      <4>1. PICK m : m = Finish(p) - 1 OBVIOUS
      <4> QED BY <1>5, <3>1, <4>1
    <3>6. Place(p)' BY <1>5, <2>1, <3>1, <3>3, <3>5 DEF Place, First
    <3> QED BY <3>4, <3>6
  <2> QED BY <2>2 DEF Cursor
<1>10. Heads'
  <2>1. \A x : Pos(offset'[x]) = First(x) BY <1>5 DEF First
  <2>2. Pos(pending_cutoff') <= Sold BY <1>1, <1>6 DEF Sold
  <2>3. /\ {write_block, write_block_hint, read_block} \subseteq OnList
        /\ First(Lowest) <= First(head_block)
        /\ First(head_block) <= First(write_block)
        /\ First(head_block) <= First(write_block_hint)
        /\ First(write_block) <= First(write_block_hint)
        /\ First(write_block) <= First(read_block)
        /\ First(write_block_hint) <= Sold
        /\ First(read_block) < Turn \/ First(read_block) = 0
    BY <1>1 DEF Heads
  <2> QED BY <1>1, <1>2, <1>3, <1>4, <1>5, <2>1, <2>2, <2>3 DEF Heads, First
<1> QED BY <1>1, <1>2, <1>3, <1>7, <1>8, <1>9, <1>10, TidyKeeps

\* Blocks leave the list or come back to it.
LEMMA RecycleKeeps ==
  ASSUME NEW cut \in Nat, Going(cut), TypeOK', cpc \in Tidying, cpc' \in Tidying \cup {"idle"},
         UNCHANGED <<producer, write_offset, cutoff, read_offset, taken, outcome, can_suspend>>,
         call' = call \/ call' = "none",
         Linked', Moving', Heads', Cursor', Cells(cut)', Clean'
  PROVE  Going(cut)'
<1> USE DEF Going, Shape
<1>1. /\ cpc \notin {"parked", "restore", "holding"}
      /\ cpc' \notin {"parked", "resume", "restore", "suspend", "holding", "gone"}
  BY DEF Tidying, Reclaiming
<1>2. /\ outcome = "CLOSED" => AtEnd(cut, Turn)
      /\ call = "pull" => can_suspend
  BY DEF Rousing
<1>3. Rousing(cut)' BY <1>1, <1>2, RousingGo
<1> QED BY <1>1, <1>3, ConsumerKeeps

\* A block stays on the list as it was, or comes to it clean, after all the others.
LEMMA CellsTidy ==
  ASSUME TypeOK, NEW cut, Cells(cut), UNCHANGED <<producer, cutoff, read_offset>>,
         cpc \in Tidying, cpc' \in Tidying \cup {"idle"},
         \A b \in OnList' :
            \/ b \in OnList /\ Pos(offset'[b]) = First(b) /\ flags'[b] = flags[b] /\ stored'[b] = stored[b]
            \/ \A i \in Index :
                  /\ flags'[b][i] = "empty" /\ stored'[b][i] = NoValue
                  /\ Pos(offset'[b]) + i \in Nat /\ ~Reaches(Pos(offset'[b]) + i),
         \A m \in Nat : Turn <= m /\ Reaches(m) => Reaches(m)'
  PROVE  Cells(cut)'
<1>1. /\ cpc \notin {"parked", "restore", "holding"}
      /\ cpc' \notin {"parked", "restore", "holding"}
  BY DEF Tidying, Reclaiming
<1>2. \A m \in Nat : (Done(cut, m)' <=> Done(cut, m)) /\ (AtEnd(cut, m)' <=> AtEnd(cut, m))
  BY ProducersStable DEF Stable
<1>3. ~Asleep /\ ~Asleep' /\ Turn' = Turn BY <1>1 DEF Asleep, Turn
<1>4. \A m \in Nat : Mark(cut, m)' = Mark(cut, m)
                     /\ (~AtEnd(cut, m) => Mark(cut, m) = "empty")
  BY <1>1, <1>2, <1>3 DEF Mark
<1>5. ASSUME NEW m \in Nat, NEW f, NEW v, CellOK(cut, m, f, v)
      PROVE  CellOK(cut, m, f, v)'
  BY <1>1, <1>2, <1>4, <1>5 DEF CellOK
<1>6. ASSUME NEW x \in OnList', NEW j \in Index
      PROVE  IF First(x)' + j < Turn' THEN stored'[x][j] = NoValue
             ELSE CellOK(cut, First(x) + j, flags[x][j], stored[x][j])'
  <2>1. CASE x \in OnList /\ Pos(offset'[x]) = First(x) /\ flags'[x] = flags[x] /\ stored'[x] = stored[x]
    <3>1. First(x) + j \in Nat
      <4>1. x \in Block /\ First(x) \in Nat BY <2>1, Types
      <4>2. j \in Nat BY Sizes DEF Index
      <4> QED BY <4>1, <4>2
    <3>2. PICK m \in Nat : m = First(x) + j BY <3>1
    <3>3. PICK f, v : f = flags[x][j] /\ v = stored[x][j] OBVIOUS
    <3>4. IF m < Turn THEN v = NoValue ELSE CellOK(cut, m, f, v) BY <2>1, <3>2, <3>3 DEF Cells
    <3>5. IF m < Turn THEN v = NoValue ELSE CellOK(cut, m, f, v)' BY <1>5, <3>4
    <3>6. First(x)' + j = m /\ flags'[x][j] = f /\ stored'[x][j] = v
      BY <2>1, <3>2, <3>3 DEF First
    <3> QED BY <1>3, <3>5, <3>6
  <2>2. CASE \A i \in Index :
                  /\ flags'[x][i] = "empty" /\ stored'[x][i] = NoValue
                  /\ Pos(offset'[x]) + i \in Nat /\ ~Reaches(Pos(offset'[x]) + i)
    <3>1. flags'[x][j] = "empty" /\ stored'[x][j] = NoValue
          /\ Pos(offset'[x]) + j \in Nat /\ ~Reaches(Pos(offset'[x]) + j)
      BY <2>2
    <3>2. PICK m \in Nat : m = Pos(offset'[x]) + j BY <3>1
    <3>3. ~Reaches(m) /\ First(x)' + j = m BY <3>1, <3>2 DEF First
    <3>4. Turn <= m => ~Done(cut, m) /\ ~AtEnd(cut, m) BY <3>3 DEF Cells
    <3>5. Turn <= m => CellOK(cut, m, "empty", NoValue) BY <1>4, <3>4 DEF CellOK
    <3>6. ~(m < Turn) => CellOK(cut, m, "empty", NoValue)'
      <4>1. Turn \in Nat BY Types
      <4> QED BY <1>5, <3>5, <4>1
    <3> QED BY <1>3, <3>1, <3>3, <3>6
  <2> QED BY <2>1, <2>2
<1>7. \A m \in Nat : Turn' <= m /\ (Done(cut, m)' \/ AtEnd(cut, m)') => Reaches(m)'
  <2>1. \A m \in Nat : Turn <= m /\ (Done(cut, m) \/ AtEnd(cut, m)) => Reaches(m) BY DEF Cells
  <2> QED BY <1>2, <1>3, <2>1
<1> QED BY <1>6, <1>7 DEF Cells

\* While the consumer tidies up nobody is behind the head.
LEMMA CursorsAhead ==
  ASSUME NEW cut \in Nat, Going(cut), cpc \in Tidying
  PROVE  /\ First(head_block) <= Turn
         /\ \A p \in Producers :
               /\ ppc[p] # "wake"
               /\ ppc[p] = "reserve" => First(head_block) <= First(pblock[p])
               /\ ppc[p] \in {"write", "sentinel", "cross"} => First(head_block) <= First(pblock[p])
<1> USE DEF Going, Shape
<1>1. /\ {head_block, read_block} \subseteq OnList /\ First(head_block) <= First(read_block) /\ First(read_block) <= Turn
      /\ First(head_block) <= Turn
      /\ {First(head_block), First(read_block), Turn} \subseteq Nat
      /\ {First(head_block), First(read_block)} \subseteq Starts
  <2>1. /\ {head_block, read_block} \subseteq OnList /\ First(head_block) <= First(write_block)
        /\ First(write_block) <= First(read_block) /\ First(read_block) <= Turn
        /\ {First(head_block), First(write_block), First(read_block), Turn} \subseteq Nat
    BY HeadNumbers
  <2>2. First(head_block) <= First(read_block) /\ First(head_block) <= Turn BY <2>1
  <2> QED BY <2>1, <2>2 DEF Linked
<1>2. ASSUME NEW p \in Producers
      PROVE  ppc[p] # "wake"
  <2>1. cpc # "parked" BY DEF Tidying, Reclaiming
  <2> QED BY <2>1 DEF Rousing
<1>3. ASSUME NEW m \in Nat, Turn <= m
      PROVE  First(head_block) <= Base(m)
  <2>1. First(head_block) <= m BY <1>1, <1>3
  <2> QED BY <1>1, <2>1, BaseOf
<1>4. ASSUME NEW p \in Producers, ppc[p] = "reserve"
      PROVE  First(head_block) <= First(pblock[p])
  <2>1. Turn <= Begin(p) /\ Begin(p) \in Nat BY <1>4, Searching
  <2>2. First(pblock[p]) = Base(Begin(p)) BY <1>4 DEF Cursor, Search
  <2> QED BY <1>3, <2>1, <2>2
<1>5. ASSUME NEW p \in Producers, ppc[p] = "sentinel"
      PROVE  First(head_block) <= First(pblock[p])
  <2>1. Turn <= Begin(p) /\ Begin(p) \in Nat /\ written[p] = 0 BY <1>5, Searching
  <2>2. First(pblock[p]) = Base(Begin(p) + written[p]) BY <1>5 DEF Cursor, Place
  <2> QED BY <1>3, <2>1, <2>2
<1>6. ASSUME NEW p \in Producers, ppc[p] \in {"write", "cross"}
      PROVE  /\ Turn <= Begin(p) + written[p] /\ Begin(p) + written[p] \in Nat
  <2>1. count[p] > 0 /\ PostOK(cut, p) BY <1>6, Doing
  <2>2. /\ {Begin(p), Finish(p), Ahead(p), written[p], count[p]} \subseteq Nat
        /\ Ahead(p) = Begin(p) + written[p] /\ Finish(p) = Begin(p) + count[p]
    BY <1>6, Types
  <2>3. written[p] < count[p] BY <2>1 DEF PostOK
  <2>4. Ahead(p) < Finish(p) BY <2>2, <2>3
  <2>5. Turn <= Ahead(p) BY <2>1, <2>4 DEF PostOK
  <2> QED BY <2>2, <2>5
<1>7. ASSUME NEW p \in Producers, ppc[p] = "write"
      PROVE  First(head_block) <= First(pblock[p])
  <2>1. First(pblock[p]) = Base(Begin(p) + written[p]) BY <1>7 DEF Cursor, Place
  <2> QED BY <1>3, <1>6, <1>7, <2>1
<1>8. ASSUME NEW p \in Producers, ppc[p] = "cross"
      PROVE  First(head_block) <= First(pblock[p])
  <2>1. pblock[p] \in OnList /\ First(pblock[p]) + BlockSize = Begin(p) + written[p]
    BY <1>8 DEF Cursor, Place
  <2>2. First(pblock[p]) \in Starts /\ First(pblock[p]) \in Nat BY <2>1, Types DEF Linked
  <2>3. First(pblock[p]) + BlockSize \in Starts BY <2>2, StartsApart
  <2>4. Turn <= First(pblock[p]) + BlockSize BY <1>6, <1>8, <2>1
  <2>5. First(read_block) < Turn \/ First(read_block) = 0 BY DEF Heads
  <2>6. First(read_block) < First(pblock[p]) + BlockSize BY <1>1, <2>2, <2>4, <2>5, Sizes
  <2>7. First(read_block) + BlockSize <= First(pblock[p]) + BlockSize
    BY <1>1, <2>3, <2>6, StartsApart
  <2> QED BY <1>1, <2>2, <2>7, Sizes
<1> QED BY <1>1, <1>2, <1>4, <1>5, <1>7, <1>8

\* The heads and the searches when the list stays as it is.
LEMMA PlacesStay ==
  ASSUME NEW cut \in Nat, Going(cut), cpc \in Reclaiming, cpc' \in Reclaiming,
         UNCHANGED <<blocks, offset, unlinked, oldHead, heads, producer, write_offset, reading, pending, head_block>>
  PROVE  /\ Heads' /\ Cursor' /\ OnList' = OnList /\ Lowest' = Lowest
         /\ (\A x : First(x)' = First(x)) /\ \A m : Reaches(m)' <=> Reaches(m)
<1> USE DEF Going, Shape
<1>1. OnList' = OnList /\ Lowest' = Lowest /\ \A x : First(x)' = First(x)
  BY DEF OnList, Unlinked, Lowest, First
<1>2. \A m : Reaches(m)' <=> Reaches(m) BY <1>1 DEF Reaches
<1>3. Grows BY <1>1 DEF Grows
<1>4. Cursor' BY <1>3, CursorsStay
<1>5. Heads'
  <2>1. /\ UNCHANGED <<read_offset, read_block, rblock, write_block, write_block_hint, pending_old_head,
                       pending_new_head, pending_cutoff>>
        /\ Turn' = Turn /\ Sold' = Sold
    BY DEF reading, heads, pending, Turn, Sold
  <2>2. /\ cpc' \notin AtElement \cup {"seek", "move_hint", "read_cutoff"}
    BY DEF Reclaiming, AtElement
  <2>3. \A x : Pos(offset'[x]) = First(x) BY <1>1 DEF First
  <2>4. First(write_block) <= First(write_block_hint)
    <3>1. cpc # "move_hint" /\ cpc \in Tidying BY DEF Tidying, Reclaiming
    <3> QED BY <3>1 DEF Heads
  <2>5. rblock = read_block BY DEF Heads, Tidying
  <2> QED BY <1>1, <2>1, <2>2, <2>3, <2>4, <2>5 DEF Heads, First
<1> QED BY <1>1, <1>2, <1>4, <1>5

\* The group is cleared.
LEMMA ResetValuesKeeps ==
  ASSUME NEW cut \in Nat, Going(cut), ResetValues
  PROVE  Going(cut)'
<1> USE DEF Going, Shape
<1>1. /\ cpc = "reset" /\ cpc' = "find_tail" /\ tailBlock' = tail_block
      /\ flags' = [b \in Block |-> AfterReset(b)]
      /\ UNCHANGED <<list, stored, write_offset, heads, cutoff, producer, reading, pending,
                     head_block, tail_block, started, oldHead, unlinked, elem, can_suspend>>
  BY DEF ResetValues
<1>2. /\ cpc \in Tidying /\ cpc' \in Tidying /\ cpc \in Reclaiming /\ cpc' \in Reclaiming
      /\ cpc' \in Reclaiming \ {"collect"} /\ cpc \in Reclaiming \ {"collect"}
  BY <1>1 DEF Tidying, Reclaiming
<1>3. UNCHANGED <<blocks, next, offset, read_offset, taken, outcome, call>>
  BY <1>1 DEF list, reading
<1>4. /\ Heads' /\ Cursor' /\ OnList' = OnList /\ Lowest' = Lowest
      /\ (\A x : First(x)' = First(x)) /\ \A m : Reaches(m)' <=> Reaches(m)
  BY <1>1, <1>2, <1>3, PlacesStay
<1>5. Fresh \in [Index -> Flag] /\ \A i \in Index : Fresh[i] = "empty" BY DEF Fresh, Flag
<1>6. /\ flags' \in [Block -> [Index -> Flag]]
      /\ \A b \in Block : b \notin Unlinked => flags'[b] = flags[b]
      /\ \A b \in Block : b \in Unlinked => flags'[b] = Fresh
  BY <1>1, <1>5 DEF AfterReset, TypeOK
<1>7. Unlinked' = Unlinked /\ unlinked' = unlinked /\ Unlinked \subseteq Block /\ OnList \subseteq Block
  BY <1>1, Types DEF Unlinked, Moving
<1>8. TypeOK'
  BY <1>1, <1>6 DEF TypeOK, list, heads, cutoff, producer, locals, reading, pending, Function
<1>9. Linked' BY <1>1, LinkedStays
<1>10. Moving'
  <2>1. BlockSize * Len(unlinked') = BlockSize * Len(unlinked) /\ First(Lowest)' = First(Lowest)
    BY <1>3, <1>4, <1>7 DEF First
  <2> QED BY <1>1, <1>2, <1>3, <1>7, <2>1 DEF Moving
<1>11. Cells(cut)'
  <2>1. \A b \in OnList' : b \in OnList /\ Pos(offset'[b]) = First(b) /\ flags'[b] = flags[b] /\ stored'[b] = stored[b]
    BY <1>1, <1>4, <1>6, <1>7 DEF OnList, First
  <2>2. UNCHANGED <<producer, cutoff, read_offset>> BY <1>1, <1>3
  <2> QED BY <1>2, <1>4, <2>1, <2>2, CellsTidy
<1>12. Clean' BY <1>1, <1>4, <1>6, <1>7 DEF Clean
<1> QED BY <1>1, <1>2, <1>3, <1>4, <1>8, <1>9, <1>10, <1>11, <1>12, RecycleKeeps

\* The next block, of one on the list or in the group, is not deleted.
LEMMA NextOf ==
  ASSUME TypeOK, Linked, Moving, cpc \in Reclaiming, cpc # "relink", NEW b \in blocks
  PROVE  /\ next[b] # Null => next[b] \in blocks
         /\ next[b] = Null => b \in OnList
<1>1. CASE b \in OnList BY <1>1 DEF Linked, OnList
<1>2. CASE b \notin OnList
  <2>1. PICK i \in 1 .. Len(unlinked) : b = unlinked[i] BY <1>2 DEF OnList, Unlinked
  <2>2. next[b] = IF i < Len(unlinked) THEN unlinked[i + 1] ELSE oldHead BY <2>1 DEF Moving
  <2>3. CASE i < Len(unlinked)
    <3>1. i + 1 \in 1 .. Len(unlinked) BY <2>3, Types
    <3>2. unlinked[i + 1] \in blocks BY <3>1 DEF Moving, Unlinked
    <3>3. unlinked[i + 1] # Null BY <3>2, Types
    <3> QED BY <2>2, <2>3, <3>2, <3>3
  <2>4. CASE ~(i < Len(unlinked))
    <3>1. oldHead # Null BY DEF Moving
    <3>2. oldHead \in blocks BY <3>1 DEF Linked, Lowest, OnList
    <3> QED BY <2>2, <2>4, <3>1, <3>2
  <2> QED BY <2>3, <2>4
<1> QED BY <1>1, <1>2

LEMMA FindTailKeeps ==
  ASSUME NEW cut \in Nat, Going(cut), FindTail
  PROVE  Going(cut)'
<1> USE DEF Going, Shape
<1>1. /\ cpc = "find_tail"
      /\ \/ next[tailBlock] # Null /\ tailBlock' = next[tailBlock] /\ cpc' = cpc
         \/ next[tailBlock] = Null /\ cpc' = "unlink" /\ tailBlock' = tailBlock
      /\ UNCHANGED <<list, elements, write_offset, heads, cutoff, producer, reading, pending,
                     head_block, tail_block, started, oldHead, unlinked, elem, can_suspend>>
  BY DEF FindTail
<1>2. /\ cpc \in Tidying /\ cpc' \in Tidying /\ cpc \in Reclaiming /\ cpc' \in Reclaiming
      /\ cpc' \in Reclaiming \ {"collect"} /\ cpc \in Reclaiming \ {"collect"}
      /\ cpc # "relink" /\ cpc' # "relink"
  BY <1>1 DEF Tidying, Reclaiming
<1>3. UNCHANGED <<blocks, next, offset, flags, stored, read_offset, taken, outcome, call>>
  BY <1>1 DEF list, elements, reading
<1>4. /\ Heads' /\ Cursor' /\ OnList' = OnList /\ Lowest' = Lowest
      /\ (\A x : First(x)' = First(x)) /\ \A m : Reaches(m)' <=> Reaches(m)
  BY <1>1, <1>2, <1>3, PlacesStay
<1>5. tailBlock \in blocks BY <1>1 DEF Moving
<1>6. /\ tailBlock' \in blocks
      /\ cpc' = "unlink" => tailBlock' \in OnList
  BY <1>1, <1>2, <1>5, NextOf
<1>7. Unlinked' = Unlinked /\ unlinked' = unlinked BY <1>1 DEF Unlinked
<1>8. TypeOK'
  <2>1. tailBlock' \in Block \cup {Null} /\ cpc' \in {"find_tail", "unlink"}
    BY <1>1, <1>6, Types
  <2> QED
    BY <1>1, <2>1 DEF TypeOK, list, elements, heads, cutoff, producer, locals, reading, pending, Function
<1>9. Linked' BY <1>1, LinkedStays
<1>10. Moving'
  <2>1. BlockSize * Len(unlinked') = BlockSize * Len(unlinked) /\ First(Lowest)' = First(Lowest)
    BY <1>3, <1>4, <1>7 DEF First
  <2> QED BY <1>1, <1>2, <1>3, <1>4, <1>6, <1>7, <2>1 DEF Moving
<1>11. Cells(cut)'
  <2>1. \A b \in OnList' : b \in OnList /\ Pos(offset'[b]) = First(b) /\ flags'[b] = flags[b] /\ stored'[b] = stored[b]
    BY <1>3, <1>4 DEF First
  <2>2. UNCHANGED <<producer, cutoff, read_offset>> BY <1>1, <1>3
  <2> QED BY <1>2, <1>4, <2>1, <2>2, CellsTidy
<1>12. Clean' BY <1>1, <1>3, <1>4, <1>7 DEF Clean
<1> QED BY <1>1, <1>2, <1>3, <1>4, <1>8, <1>9, <1>10, <1>11, <1>12, RecycleKeeps

\* The group no longer leads to the list.
LEMMA UnlinkKeeps ==
  ASSUME NEW cut \in Nat, Going(cut), Unlink
  PROVE  Going(cut)'
<1> USE DEF Going, Shape
<1>1. /\ cpc = "unlink" /\ cpc' = "relink"
      /\ next' = [next EXCEPT ![unlinked[Len(unlinked)]] = Null]
      /\ UNCHANGED <<blocks, offset, elements, write_offset, heads, cutoff, producer, reading,
                     reclaim, pending, elem, can_suspend>>
  BY DEF Unlink
<1>2. /\ cpc \in Tidying /\ cpc' \in Tidying /\ cpc \in Reclaiming /\ cpc' \in Reclaiming
      /\ cpc' \in Reclaiming \ {"collect"} /\ cpc \in Reclaiming \ {"collect"}
      /\ cpc # "relink" /\ cpc' \notin {"find_tail"}
  BY <1>1 DEF Tidying, Reclaiming
<1>3. UNCHANGED <<flags, stored, read_offset, taken, outcome, call, unlinked, oldHead, head_block, tail_block, tailBlock, started>>
  BY <1>1 DEF elements, reading, reclaim
<1>4. /\ Heads' /\ Cursor' /\ OnList' = OnList /\ Lowest' = Lowest
      /\ (\A x : First(x)' = First(x)) /\ \A m : Reaches(m)' <=> Reaches(m)
  BY <1>1, <1>2, <1>3, PlacesStay
<1>5. PICK n, z : n = Len(unlinked) /\ z = unlinked[n] OBVIOUS
<1>6. n \in 1 .. Len(unlinked) /\ z \in Unlinked /\ z \in Block /\ z \notin OnList /\ n \in Nat
  <2>1. unlinked # <<>> /\ unlinked \in Seq(Block) BY <1>2, Types DEF Moving
  <2>2. n \in 1 .. Len(unlinked) BY <1>5, <2>1
  <2>3. z \in Block BY <1>5, <2>1, <2>2, ElementOfSeq
  <2> QED BY <1>5, <2>2, <2>3 DEF Unlinked, OnList
<1>7. next \in [Block -> Block \cup {Null}] BY DEF TypeOK
<1>8. /\ next' \in [Block -> Block \cup {Null}] /\ next'[z] = Null
      /\ \A x \in Block : x # z => next'[x] = next[x]
  BY <1>1, <1>5, <1>6, <1>7
<1>9. Unlinked' = Unlinked BY <1>3 DEF Unlinked
<1>10. TypeOK'
  BY <1>1, <1>8 DEF TypeOK, elements, heads, cutoff, producer, locals, reading, reclaim, pending, Function
<1>11. Linked'
  <2>1. \A b \in OnList : next'[b] = next[b] BY <1>6, <1>8, Types
  <2>2. PICK l : l = Lowest OBVIOUS
  <2>3. Lowest' = l /\ offset' = offset BY <1>1, <1>4, <2>2
  <2> QED BY <1>3, <1>4, <2>1, <2>2, <2>3 DEF Linked, First
<1>12. Moving'
  <2>1. BlockSize * Len(unlinked') = BlockSize * Len(unlinked) /\ First(Lowest)' = First(Lowest)
    BY <1>1, <1>3, <1>4 DEF First
  <2>2. ASSUME NEW i \in 1 .. Len(unlinked)
        PROVE  next'[unlinked[i]] = IF i < Len(unlinked) THEN unlinked[i + 1] ELSE Null
    <3>1. i \in Nat /\ i <= n BY <1>5, <1>6
    <3>2. CASE i = n BY <1>5, <1>8, <3>1, <3>2
    <3>3. CASE i # n
      <4>1. i < Len(unlinked) BY <1>5, <3>1, <3>3, <1>6
      <4>2. unlinked[i] # z BY <1>5, <1>6, <3>3 DEF Moving
      <4>3. unlinked[i] \in Block BY Types, ElementOfSeq
      <4>4. next[unlinked[i]] = unlinked[i + 1] BY <4>1 DEF Moving
      <4> QED BY <1>8, <4>1, <4>2, <4>3, <4>4
    <3> QED BY <3>2, <3>3
  <2>3. tailBlock \in OnList BY <1>1 DEF Moving
  <2> QED BY <1>1, <1>2, <1>3, <1>4, <1>9, <2>1, <2>2, <2>3 DEF Moving
<1>13. Cells(cut)'
  <2>1. \A b \in OnList' : b \in OnList /\ Pos(offset'[b]) = First(b) /\ flags'[b] = flags[b] /\ stored'[b] = stored[b]
    BY <1>3, <1>4 DEF First
  <2>2. UNCHANGED <<producer, cutoff, read_offset>> BY <1>1, <1>3
  <2> QED BY <1>2, <1>4, <2>1, <2>2, CellsTidy
<1>14. Clean' BY <1>1, <1>3, <1>4, <1>9 DEF Clean
<1> QED BY <1>1, <1>2, <1>3, <1>4, <1>10, <1>11, <1>12, <1>13, <1>14, RecycleKeeps

\* The lowest block leaves the list for the group.
LEMMA CollectOne ==
  ASSUME NEW cut \in Nat, Going(cut), Collect, oldHead # head_block, Len(unlinked) < GroupSize
  PROVE  Going(cut)'
<1> USE DEF Going, Shape
<1>1. /\ cpc = "collect" /\ cpc' = "collect"
      /\ unlinked' = Append(unlinked, oldHead) /\ oldHead' = next[oldHead]
      /\ UNCHANGED <<call, rblock>>
      /\ UNCHANGED <<list, elements, write_offset, heads, cutoff, producer, read_offset,
                     read_block, outcome, taken, head_block, tail_block, started, tailBlock,
                     pending, elem, can_suspend>>
  BY DEF Collect
<1>2. /\ cpc \in Tidying /\ cpc' \in Tidying /\ cpc \in Reclaiming /\ cpc' \in Reclaiming
      /\ cpc' \notin Reclaiming \ {"collect"} /\ cpc' \notin AtElement \cup {"seek", "move_hint", "read_cutoff"}
  BY <1>1 DEF Tidying, Reclaiming, AtElement
<1>3. /\ UNCHANGED <<blocks, next, offset, flags, stored, write_block, write_block_hint, pending_old_head,
                     pending_new_head, pending_cutoff>>
      /\ Turn' = Turn /\ Sold' = Sold /\ \A x : First(x)' = First(x)
  BY <1>1 DEF list, elements, heads, pending, Turn, Sold, First
<1>4. PICK o, n : o = oldHead /\ n = next[oldHead] OBVIOUS
<1>5. o # Null /\ Lowest = o /\ o \in OnList /\ o \in Block /\ First(o) \in Nat /\ First(o) \in Starts
  <2>1. o # Null /\ Lowest = o BY <1>2, <1>4 DEF Moving, Lowest
  <2>2. o \in OnList BY <2>1 DEF Linked
  <2> QED BY <2>1, <2>2, Types DEF Linked
<1>6. head_block \in OnList /\ First(o) < First(head_block) /\ First(head_block) \in Nat /\ First(head_block) \in Starts
  <2>1. head_block \in OnList /\ First(o) <= First(head_block) /\ First(head_block) \in Nat
    BY <1>5, HeadNumbers
  <2>2. First(o) # First(head_block) BY <1>4, <1>5, <2>1 DEF Linked
  <2> QED BY <1>5, <2>1, <2>2 DEF Linked
<1>7. n # Null /\ n \in OnList /\ n \in Block /\ First(n) = First(o) + BlockSize /\ First(n) \in Nat /\ First(n) <= First(head_block)
  <2>1. n # Null
    <3>1. n = Null => First(head_block) <= First(o) BY <1>4, <1>5, <1>6 DEF Linked
    <3> QED BY <1>5, <1>6, <3>1
  <2>2. n \in OnList /\ First(n) = First(o) + BlockSize BY <1>4, <1>5, <2>1 DEF Linked
  <2>3. First(o) + BlockSize <= First(head_block) BY <1>5, <1>6, StartsApart
  <2> QED BY <2>1, <2>2, <2>3, Types
<1>8. PICK k : k = Len(unlinked) OBVIOUS
<1>9. k \in Nat /\ unlinked \in Seq(Block) /\ k < GroupSize BY <1>8, Types
<1>10. /\ unlinked' \in Seq(Block) /\ Len(unlinked') = k + 1 /\ unlinked'[k + 1] = o
       /\ \A i \in 1 .. k : unlinked'[i] = unlinked[i]
  BY <1>1, <1>4, <1>5, <1>8, <1>9
<1>11. Unlinked' = Unlinked \cup {o}
  <2>1. ASSUME NEW x \in Unlinked'
        PROVE  x \in Unlinked \cup {o}
    <3>1. PICK i \in 1 .. k + 1 : x = unlinked'[i] BY <1>10, <2>1 DEF Unlinked
    <3>2. CASE i = k + 1 BY <1>10, <3>1, <3>2
    <3>3. CASE i # k + 1
      <4>1. i \in 1 .. k BY <1>9, <3>3
      <4> QED BY <1>8, <1>10, <3>1, <4>1 DEF Unlinked
    <3> QED BY <3>2, <3>3
  <2>2. ASSUME NEW x \in Unlinked \cup {o}
        PROVE  x \in Unlinked'
    <3>1. CASE x = o
      <4>1. k + 1 \in 1 .. Len(unlinked') BY <1>9, <1>10
      <4> QED BY <1>10, <3>1, <4>1 DEF Unlinked
    <3>2. CASE x \in Unlinked
      <4>1. PICK i \in 1 .. k : x = unlinked[i] BY <1>8, <3>2 DEF Unlinked
      <4>2. i \in 1 .. Len(unlinked') /\ x = unlinked'[i] BY <1>9, <1>10, <4>1
      <4> QED BY <4>2 DEF Unlinked
    <3> QED BY <2>2, <3>1, <3>2
  <2> QED BY <2>1, <2>2
<1>12. OnList' = OnList \ {o} BY <1>3, <1>11 DEF OnList
<1>13. Lowest' = n BY <1>1, <1>4, <1>7 DEF Lowest
<1>14. /\ \A b \in OnList : b \in Block /\ First(b) \in Nat /\ First(b) \in Starts
       /\ \A b \in OnList : First(o) < First(b) => b # o
       /\ \A b \in OnList : b # o => First(n) <= First(b)
  <2>1. \A b \in OnList : b \in Block /\ First(b) \in Nat /\ First(b) \in Starts
    BY Types DEF Linked
  <2>2. ASSUME NEW b \in OnList, b # o
        PROVE  First(n) <= First(b)
    <3>1. First(o) <= First(b) BY <1>5 DEF Linked
    <3>2. First(o) # First(b) BY <1>5, <2>2 DEF Linked
    <3>3. First(o) < First(b) BY <1>5, <2>1, <3>1, <3>2
    <3> QED BY <1>5, <1>7, <2>1, <3>3, StartsApart
  <2> QED BY <1>5, <2>1, <2>2
<1>15. n # o /\ head_block # o BY <1>5, <1>6, <1>7, Sizes
<1>17. \A m \in Nat : Reaches(m) => Reaches(m)'
  <2>1. TAKE m \in Nat
  <2>2. HAVE Reaches(m)
  <2>3. PICK b \in OnList : m < First(b) + BlockSize BY <2>2 DEF Reaches
  <2>4. CASE b # o
    <3>1. b \in OnList' /\ First(b)' = First(b) BY <1>3, <1>12, <2>4
    <3> QED BY <2>3, <3>1 DEF Reaches
  <2>5. CASE b = o
    <3>1. m < First(head_block) + BlockSize BY <1>5, <1>6, <2>3, <2>5, Sizes
    <3>2. PICK h : h = head_block OBVIOUS
    <3>3. h \in OnList' /\ First(h)' = First(h) /\ m < First(h) + BlockSize
      BY <1>3, <1>6, <1>12, <1>15, <3>1, <3>2
    <3> QED BY <3>3 DEF Reaches
  <2> QED BY <2>4, <2>5
<1>18. TypeOK'
  <2>1. oldHead' \in Block \cup {Null} /\ Len(unlinked') <= GroupSize
    BY <1>1, <1>4, <1>7, <1>9, <1>10 DEF GroupSize
  <2> QED BY <1>1, <1>10, <2>1 DEF TypeOK, list, elements, heads, cutoff, producer, locals, pending, Function
<1>19. Linked'
  <2>1. {n, head_block} \subseteq OnList' BY <1>6, <1>7, <1>12, <1>15
  <2>2. \A b \in OnList : next[b] # Null =>
          next[b] \in OnList /\ First(next[b]) = First(b) + BlockSize /\ next[b] # o
    <3>1. TAKE b \in OnList
    <3>2. HAVE next[b] # Null
    <3>3. next[b] \in OnList /\ First(next[b]) = First(b) + BlockSize BY <3>2 DEF Linked
    <3>4. First(o) <= First(b) BY <1>5 DEF Linked
    <3>5. First(o) < First(next[b]) BY <1>5, <1>14, <3>3, <3>4, Sizes
    <3> QED BY <1>14, <3>3, <3>5
  <2>3. \A b \in OnList : b # o => First(b) + BlockSize * (k + 1) <= Top + First(n)
    <3>1. TAKE b \in OnList
    <3>2. First(b) + BlockSize * k <= Top + First(o) BY <1>5, <1>8 DEF Linked
    <3>3. BlockSize * (k + 1) = BlockSize * k + BlockSize /\ BlockSize * k \in Nat
      BY <1>9, Sizes
    <3>4. PICK s \in Nat : s = BlockSize * k BY <3>3
    <3>5. PICK x, y \in Nat : x = First(b) /\ y = First(o) /\ First(n) = y + BlockSize
      BY <1>5, <1>7, <1>14
    <3>6. x + (s + BlockSize) <= Top + (y + BlockSize)
      <4>1. x + s <= Top + y BY <3>2, <3>4, <3>5
      <4>2. Top \in Nat /\ BlockSize \in Nat BY Sizes, PosOfFirst
      <4> QED BY <4>1, <4>2
    <3>7. BlockSize * (k + 1) = s + BlockSize BY <3>3, <3>4
    <3> QED BY <3>5, <3>6, <3>7
  <2>4. /\ \A b, c \in OnList : First(b) = First(c) => b = c
        /\ \A b, c \in OnList : next[b] = Null => First(c) <= First(b)
    BY DEF Linked
  <2>5. \A x : Pos(offset'[x]) = First(x) BY <1>3 DEF First
  <2> QED BY <1>1, <1>3, <1>10, <1>12, <1>13, <1>14, <2>1, <2>2, <2>3, <2>4, <2>5 DEF Linked, First
<1>20. Moving'
  <2>1. Unlinked' \subseteq blocks' BY <1>3, <1>5, <1>11 DEF Moving, OnList
  <2>2. \A i \in 1 .. k : unlinked[i] # o BY <1>5, <1>8 DEF OnList, Unlinked
  <2>3. \A i, j \in 1 .. k + 1 : unlinked'[i] = unlinked'[j] => i = j
    <3>1. \A i, j \in 1 .. k : unlinked[i] = unlinked[j] => i = j BY <1>8 DEF Moving
    <3>2. \A i \in 1 .. k + 1 : i \in 1 .. k \/ i = k + 1 BY <1>9
    <3> QED BY <1>10, <2>2, <3>1, <3>2
  <2>4. BlockSize * Len(unlinked') <= First(Lowest)'
    <3>1. BlockSize * k <= First(o) BY <1>5, <1>8 DEF Moving
    <3>2. BlockSize * (k + 1) = BlockSize * k + BlockSize /\ BlockSize * k \in Nat
      BY <1>9, Sizes
    <3>3. BlockSize * (k + 1) <= First(n) BY <1>5, <1>7, <3>1, <3>2, Sizes
    <3>4. First(Lowest)' = First(n) BY <1>3, <1>13 DEF First
    <3> QED BY <1>10, <3>3, <3>4
  <2>5. ASSUME NEW i \in 1 .. k + 1
        PROVE  next'[unlinked'[i]] = IF i < k + 1 THEN unlinked'[i + 1] ELSE n
    <3>1. CASE i = k + 1 BY <1>3, <1>4, <1>9, <1>10, <3>1
    <3>2. CASE i = k
      <4>1. i \in 1 .. k /\ i < k + 1 /\ ~(i < k) BY <1>9, <3>2
      <4>2. next[unlinked[i]] = oldHead BY <1>1, <1>8, <4>1 DEF Moving
      <4> QED BY <1>3, <1>4, <1>10, <3>2, <4>1, <4>2
    <3>3. CASE i # k /\ i # k + 1
      <4>1. i \in 1 .. k /\ i < k + 1 /\ i < k /\ i + 1 \in 1 .. k BY <1>9, <3>3
      <4>2. next[unlinked[i]] = unlinked[i + 1] BY <1>8, <4>1 DEF Moving
      <4> QED BY <1>3, <1>10, <4>1, <4>2
    <3> QED BY <3>1, <3>2, <3>3
  <2>6. oldHead' = n /\ cpc' \notin {"relink", "find_tail", "unlink"} BY <1>1, <1>4
  <2>7. tail_block' \in blocks' BY <1>1, <1>3 DEF Moving
  <2> QED BY <1>2, <1>7, <1>10, <2>1, <2>3, <2>4, <2>5, <2>6, <2>7 DEF Moving
<1>21. Heads'
  <2>1. /\ {write_block, write_block_hint, read_block} \subseteq OnList
        /\ First(head_block) <= First(write_block)
        /\ First(head_block) <= First(write_block_hint)
        /\ First(write_block) <= First(write_block_hint)
        /\ First(write_block) <= First(read_block)
        /\ First(write_block_hint) <= Sold
        /\ First(read_block) < Turn \/ First(read_block) = 0
        /\ pending_old_head # Null =>
              /\ pending_old_head = head_block /\ pending_new_head = write_block
              /\ Pos(pending_cutoff) <= Sold
        /\ rblock = read_block
    BY <1>1, <1>2 DEF Heads
  <2>2. {write_block, write_block_hint, read_block} \subseteq OnList'
    <3>1. First(o) < First(write_block) /\ First(o) < First(write_block_hint) /\ First(o) < First(read_block)
      BY <1>5, <1>6, <1>14, <2>1
    <3> QED BY <1>12, <1>14, <2>1, <3>1
  <2>3. \A x : Pos(offset'[x]) = First(x) BY <1>3 DEF First
  <2> QED BY <1>1, <1>2, <1>3, <1>7, <1>13, <2>1, <2>2, <2>3 DEF Heads, First
<1>22. Cursor'
  <2>1. ASSUME NEW p \in Producers
        PROVE  Search(p)' /\ Place(p)'
    <3>1. UNCHANGED <<ppc, idx, count, written, observed, walk, pblock>>
      BY <1>1 DEF producer, locals
    <3>2. Begin(p)' = Begin(p) /\ Finish(p)' = Finish(p) BY <3>1 DEF Begin, Finish
    <3>3. Search(p) /\ Place(p) BY DEF Cursor
    <3>4. /\ ppc[p] # "wake"
          /\ ppc[p] = "reserve" => First(head_block) <= First(pblock[p])
          /\ ppc[p] \in {"write", "sentinel", "cross"} => First(head_block) <= First(pblock[p])
      BY <1>2, CursorsAhead
    <3>5. \A x \in OnList : First(head_block) <= First(x) => x \in OnList'
      BY <1>5, <1>6, <1>12, <1>14
    <3>6. ppc[p] \in {"seek", "reserve"} => {observed[p], walk[p]} \subseteq OnList'
      <4>1. HAVE ppc[p] \in {"seek", "reserve"}
      <4>2. /\ {observed[p], walk[p]} \subseteq OnList
            /\ First(head_block) <= First(observed[p]) /\ First(observed[p]) <= First(walk[p])
        BY <3>3, <4>1 DEF Search
      <4>3. First(head_block) <= First(walk[p]) BY <1>6, <1>14, <4>2
      <4> QED BY <3>5, <4>2, <4>3
    <3>7. \A x : Pos(offset'[x]) = First(x) BY <1>3 DEF First
    <3>8. ppc[p] = "reserve" => pblock[p] \in OnList' BY <3>3, <3>4, <3>5 DEF Search
    <3>9. Search(p)' BY <1>1, <1>3, <3>1, <3>2, <3>3, <3>6, <3>7, <3>8 DEF Search, First
    <3>10. ppc[p] \in {"write", "sentinel", "cross"} => pblock[p] \in OnList'
      BY <3>3, <3>4, <3>5 DEF Place
    <3>11. ppc[p] \in Writing /\ count[p] > 0 => Reaches(Finish(p) - 1)'
      <4>1. HAVE ppc[p] \in Writing /\ count[p] > 0
      <4>2. PICK m \in Nat : m = Finish(p) - 1 BY <4>1, Types
      <4>3. Reaches(m) BY <3>3, <4>1, <4>2 DEF Place
      <4>4. Reaches(m)' BY <1>17, <4>3
      <4>5. Finish(p)' - 1 = m BY <3>2, <4>2
      <4> QED BY <4>4, <4>5 DEF Reaches
    <3>12. Place(p)' BY <1>3, <3>1, <3>2, <3>3, <3>4, <3>7, <3>10, <3>11 DEF Place, First
    <3> QED BY <3>9, <3>12
  <2> QED BY <2>1 DEF Cursor
<1>23. Cells(cut)'
  <2>1. \A b \in OnList' : b \in OnList /\ Pos(offset'[b]) = First(b) /\ flags'[b] = flags[b] /\ stored'[b] = stored[b]
    BY <1>3, <1>12 DEF First
  <2>2. UNCHANGED <<producer, cutoff, read_offset>> BY <1>1
  <2> QED BY <1>2, <1>17, <2>1, <2>2, CellsTidy
<1>24. Clean'
  <2>1. \A i \in Index : stored[o][i] = NoValue
    <3>1. TAKE i \in Index
    <3>2. First(head_block) <= Turn /\ Turn \in Nat BY <1>2, CursorsAhead, Types
    <3>3. First(o) + i < Turn
      <4>1. i \in Nat /\ i < BlockSize BY Sizes DEF Index
      <4> QED BY <1>5, <1>6, <1>7, <3>2, <4>1, Sizes
    <3> QED BY <1>5, <3>3 DEF Cells
  <2> QED BY <1>1, <1>3, <1>12, <2>1 DEF Clean
<1> QED BY <1>1, <1>2, <1>18, <1>19, <1>20, <1>21, <1>22, <1>23, <1>24, RecycleKeeps

\* The group is full, or there is no more to move.
LEMMA CollectKeeps ==
  ASSUME NEW cut \in Nat, Going(cut), Collect
  PROVE  Going(cut)'
<1> USE DEF Going, Shape
<1>1. CASE oldHead # head_block /\ Len(unlinked) < GroupSize BY <1>1, CollectOne
<1>2. CASE ~(oldHead # head_block /\ Len(unlinked) < GroupSize)
  <2>1. /\ cpc = "collect" /\ unlinked' = unlinked
        /\ \/ unlinked = <<>> /\ AfterTry /\ oldHead' = Null
           \/ unlinked # <<>> /\ cpc' = "reset" /\ UNCHANGED <<call, rblock, oldHead>>
        /\ UNCHANGED <<list, elements, write_offset, heads, cutoff, producer, read_offset,
                       read_block, outcome, taken, head_block, tail_block, started, tailBlock,
                       pending, elem, can_suspend>>
    BY <1>2 DEF Collect
  <2>2. /\ UNCHANGED <<blocks, next, offset, flags, stored, write_block, write_block_hint, pending_old_head,
                       pending_new_head, pending_cutoff>>
        /\ Turn' = Turn /\ Sold' = Sold
    BY <2>1 DEF list, elements, heads, pending, Turn, Sold
  <2>3. OnList' = OnList /\ Unlinked' = Unlinked /\ (\A x : First(x)' = First(x)) /\ (\A m : Reaches(m)' <=> Reaches(m)) /\ Grows
    BY <2>1, ListStays
  <2>4. Cursor' BY <2>1, <2>3, CursorsStay
  <2>5. cpc \in Tidying /\ cpc \in Reclaiming BY <2>1 DEF Tidying, Reclaiming
  <2>6. cpc' \in Tidying \cup {"idle"} => Cells(cut)'
    <3>1. HAVE cpc' \in Tidying \cup {"idle"}
    <3>2. \A b \in OnList' : b \in OnList /\ Pos(offset'[b]) = First(b) /\ flags'[b] = flags[b] /\ stored'[b] = stored[b]
      BY <2>2, <2>3 DEF First
    <3>3. UNCHANGED <<producer, cutoff, read_offset>> BY <2>1
    <3> QED BY <2>3, <2>5, <3>1, <3>2, <3>3, CellsTidy
  <2>7. cpc' \notin {"find_tail", "unlink", "relink"} => Clean' BY <2>2, <2>3 DEF Clean
  <2>8. \A x : Pos(offset'[x]) = First(x) BY <2>3 DEF First
  <2>9. CASE unlinked = <<>>
    <3>1. AfterTry /\ oldHead' = Null BY <2>1, <2>9
    <3>2. /\ cpc' \in {"idle", "try_start"} /\ (call' = call \/ call' = "none")
          /\ call' \in Function \cup {"none"} /\ rblock' \in Block \cup {Null}
          /\ cpc' = "try_start" => rblock' = rblock
      BY <3>1, AfterTryGoes
    <3>3. PICK h : h = head_block OBVIOUS
    <3>4. oldHead = h /\ oldHead # Null /\ Lowest = h
      <4>1. Len(unlinked) = 0 /\ 0 < GroupSize BY <2>9 DEF GroupSize
      <4>2. oldHead = h BY <1>2, <3>3, <4>1
      <4>3. oldHead # Null BY <2>5 DEF Moving
      <4> QED BY <4>2, <4>3 DEF Lowest
    <3>5. Lowest' = h /\ head_block' = h BY <2>1, <3>1, <3>3 DEF Lowest
    <3>6. /\ cpc' \notin Reclaiming \cup AtElement \cup {"seek", "move_hint", "read_cutoff"}
          /\ cpc' \in Tidying \cup {"idle"}
          /\ cpc' \in Tidying => cpc' = "try_start"
      BY <3>2 DEF Tidying, Reclaiming, AtElement
    <3>7. TypeOK'
      BY <2>1, <3>1, <3>2 DEF TypeOK, list, elements, heads, cutoff, producer, locals, pending, Function
    <3>8. Linked'
      <4>1. /\ {h, head_block} \subseteq OnList
            /\ \A b \in OnList : First(b) \in Starts /\ First(h) <= First(b)
            /\ \A b, c \in OnList : First(b) = First(c) => b = c
            /\ \A b \in OnList : next[b] # Null =>
                  next[b] \in OnList /\ First(next[b]) = First(b) + BlockSize
            /\ \A b, c \in OnList : next[b] = Null => First(c) <= First(b)
            /\ \A b \in OnList : First(b) + BlockSize * Len(unlinked) <= Top + First(h)
        BY <3>4, Zenon DEF Linked
      <4> QED BY <2>1, <2>2, <2>3, <2>8, <3>5, <4>1 DEF Linked, First
    <3>9. Moving'
      <4>1. unlinked' = <<>> /\ Len(unlinked') = 0 /\ Unlinked' = {} /\ oldHead' = Null
        BY <2>1, <2>9, <3>1 DEF Unlinked
      <4>2. tail_block' \in blocks' BY <2>1, <2>2 DEF Moving
      <4>3. BlockSize * Len(unlinked') = 0 /\ 0 <= First(Lowest)'
        <5>1. First(h) \in Nat BY <3>3, HeadNumbers
        <5>2. First(Lowest)' = First(h) BY <2>8, <3>5 DEF First
        <5> QED BY <4>1, <5>1, <5>2, Sizes
      <4>4. cpc' \notin Reclaiming /\ cpc' \notin {"find_tail", "unlink", "relink"}
        BY <3>2 DEF Reclaiming
      <4> QED BY <4>1, <4>2, <4>3, <4>4 DEF Moving
    <3>10. Heads'
      <4>1. /\ {write_block, write_block_hint, read_block} \subseteq OnList
            /\ First(h) <= First(h)
            /\ First(head_block) <= First(write_block)
            /\ First(head_block) <= First(write_block_hint)
            /\ First(write_block) <= First(write_block_hint)
            /\ First(write_block) <= First(read_block)
            /\ First(write_block_hint) <= Sold
            /\ First(read_block) < Turn \/ First(read_block) = 0
            /\ pending_old_head # Null =>
                  /\ pending_old_head = head_block /\ pending_new_head = write_block
                  /\ Pos(pending_cutoff) <= Sold
            /\ rblock = read_block
        BY <2>1, <2>5, <3>3, <3>4 DEF Heads
      <4> QED BY <2>1, <2>2, <2>3, <2>8, <3>2, <3>3, <3>5, <3>6, <4>1 DEF Heads, First
    <3>11. Cells(cut)' /\ Clean'
      <4>1. cpc' \notin {"find_tail", "unlink", "relink"} BY <3>2
      <4> QED BY <2>6, <2>7, <3>6, <4>1
    <3> QED BY <2>1, <2>4, <2>5, <3>2, <3>6, <3>7, <3>8, <3>9, <3>10, <3>11, RecycleKeeps
  <2>10. CASE unlinked # <<>>
    <3>1. cpc' = "reset" /\ UNCHANGED <<call, rblock, oldHead>> BY <2>1, <2>10
    <3>2. cpc' \in Tidying /\ cpc' \in Reclaiming /\ cpc' \in Reclaiming \ {"collect"}
      BY <3>1 DEF Tidying, Reclaiming
    <3>3. Heads' /\ Lowest' = Lowest
      <4>1. UNCHANGED reading BY <2>1, <3>1 DEF reading
      <4> QED BY <2>1, <2>2, <2>5, <3>1, <3>2, <4>1, PlacesStay
    <3>4. TypeOK'
      BY <2>1, <3>1 DEF TypeOK, list, elements, heads, cutoff, producer, locals, pending, Function
    <3>5. Linked' BY <2>1, <3>1, LinkedStays
    <3>6. Moving'
      <4>1. BlockSize * Len(unlinked') = BlockSize * Len(unlinked) /\ First(Lowest)' = First(Lowest)
        BY <2>1, <2>2, <3>3 DEF First
      <4> QED BY <2>1, <2>2, <2>3, <2>5, <2>10, <3>1, <3>2, <4>1 DEF Moving
    <3>7. Cells(cut)' /\ Clean' BY <2>6, <2>7, <3>1, <3>2
    <3> QED BY <2>1, <2>4, <2>5, <3>1, <3>2, <3>3, <3>4, <3>5, <3>6, <3>7, RecycleKeeps
  <2> QED BY <2>9, <2>10
<1> QED BY <1>1, <1>2

\* The start of a block some blocks on.
LEMMA StartsOn ==
  ASSUME NEW a \in Starts, NEW k \in Nat
  PROVE  a + k * BlockSize \in Starts
<1> DEFINE q == a \div BlockSize
<1>1. a \in Nat /\ BlockSize \in Nat /\ BlockSize > 0 /\ a % BlockSize = 0 BY Sizes DEF Starts
<1>2. q \in Nat /\ a = BlockSize * q + (a % BlockSize) BY <1>1, DivMod
<1>3. a = BlockSize * q BY <1>1, <1>2
<1> HIDE DEF q
<1>4. PICK r \in Nat : r = q + k BY <1>2
<1>5. a + k * BlockSize = BlockSize * r + 0 /\ a + k * BlockSize \in Nat
  BY <1>1, <1>2, <1>3, <1>4
<1>6. (BlockSize * r + 0) % BlockSize = 0
  <2>1. 0 \in 0 .. BlockSize - 1 BY <1>1
  <2> QED BY <1>1, <1>4, <2>1, ModUnique
<1> QED BY <1>5, <1>6 DEF Starts

\* The group comes after the last block.
LEMMA AppendGroup ==
  ASSUME NEW cut \in Nat, Going(cut), Relink, next[tailBlock] = Null
  PROVE  Going(cut)'
<1> USE DEF Going, Shape
<1>1. /\ cpc = "relink" /\ cpc' = "collect"
      /\ next' = [next EXCEPT ![tailBlock] = unlinked[1]]
      /\ offset' = [b \in Block |->
            IF b \in Unlinked
               THEN Stamped(tailBlock, CHOOSE k \in 1 .. Len(unlinked) : unlinked[k] = b)
               ELSE offset[b]]
      /\ tail_block' = unlinked[Len(unlinked)]
      /\ unlinked' = <<>> /\ tailBlock' = Null
      /\ UNCHANGED <<blocks, elements, write_offset, heads, cutoff, producer, reading, pending,
                     head_block, started, oldHead, elem, can_suspend>>
  BY DEF Relink
<1>2. /\ cpc \in Tidying /\ cpc' \in Tidying /\ cpc \in Reclaiming /\ cpc' \in Reclaiming
      /\ cpc \in Reclaiming \ {"collect"} /\ cpc' \notin Reclaiming \ {"collect"}
      /\ cpc' \notin AtElement \cup {"seek", "move_hint", "read_cutoff", "find_tail", "unlink", "relink"}
  BY <1>1 DEF Tidying, Reclaiming, AtElement
<1>3. /\ UNCHANGED <<flags, stored, read_offset, read_block, call, rblock, outcome, taken, write_block, write_block_hint,
                     pending_old_head, pending_new_head, pending_cutoff>>
      /\ Turn' = Turn /\ Sold' = Sold /\ Lowest' = Lowest
  BY <1>1 DEF elements, reading, heads, pending, Turn, Sold, Lowest
<1>4. PICK t, n, l : t = tailBlock /\ n = Len(unlinked) /\ l = Lowest OBVIOUS
<1>5. /\ t \in OnList /\ t \in Block /\ First(t) \in Nat /\ First(t) \in Starts /\ next[t] = Null
      /\ \A c \in OnList : First(c) <= First(t)
      /\ l \in OnList /\ l \in Block /\ First(l) \in Nat
  <2>1. t \in OnList BY <1>1, <1>4 DEF Moving
  <2>2. next[t] = Null BY <1>4
  <2>3. l \in OnList BY <1>4 DEF Linked
  <2> QED BY <2>1, <2>2, <2>3, Types DEF Linked
<1>6. n \in Nat /\ n >= 1 /\ unlinked \in Seq(Block) /\ \A k \in 1 .. n : unlinked[k] \in Block /\ unlinked[k] \in Unlinked
  <2>1. unlinked # <<>> /\ unlinked \in Seq(Block) BY <1>2, Types DEF Moving
  <2>2. n \in Nat /\ n >= 1 BY <1>4, <2>1
  <2>3. ASSUME NEW k \in 1 .. n
        PROVE  unlinked[k] \in Block /\ unlinked[k] \in Unlinked
    BY <1>4, <2>1, ElementOfSeq DEF Unlinked
  <2> QED BY <2>1, <2>2, <2>3
<1>7. PICK g : g = [k \in 0 .. n |-> First(t) + k * BlockSize] OBVIOUS
<1>8. \A k \in 0 .. n : g[k] \in Starts /\ g[k] \in Nat /\ g[k] = First(t) + k * BlockSize
  <2>1. TAKE k \in 0 .. n
  <2>2. k \in Nat /\ g[k] = First(t) + k * BlockSize BY <1>6, <1>7
  <2>3. First(t) + k * BlockSize \in Starts BY <1>5, <2>2, StartsOn
  <2> QED BY <2>2, <2>3, StartsApart
<1>9. /\ g[0] = First(t)
      /\ \A k \in 0 .. n - 1 : g[k + 1] = g[k] + BlockSize
  <2>1. 0 \in 0 .. n /\ 0 * BlockSize = 0 BY <1>6, Sizes
  <2>2. ASSUME NEW k \in 0 .. n - 1
        PROVE  g[k + 1] = g[k] + BlockSize
    <3>1. k \in 0 .. n /\ k + 1 \in 0 .. n /\ k \in Nat BY <1>6
    <3>2. (k + 1) * BlockSize = k * BlockSize + BlockSize /\ k * BlockSize \in Nat
      BY <3>1, Sizes
    <3>3. g[k] = First(t) + k * BlockSize /\ g[k + 1] = First(t) + (k + 1) * BlockSize
      BY <1>8, <3>1
    <3>4. PICK x, s \in Nat : x = First(t) /\ s = k * BlockSize BY <1>5, <3>2
    <3> QED BY <3>2, <3>3, <3>4, Sizes
  <2> QED BY <1>5, <1>8, <2>1, <2>2
<1>10. \A j, k \in 0 .. n : j < k => g[j] + BlockSize <= g[k]
  <2>1. TAKE j, k \in 0 .. n
  <2>2. HAVE j < k
  <2>3. j \in Nat /\ k \in Nat /\ BlockSize \in Nat BY <1>6, Sizes
  <2>4. BlockSize * j + BlockSize <= BlockSize * k BY <2>2, <2>3, MulMono
  <2>5. BlockSize * j = j * BlockSize /\ BlockSize * k = k * BlockSize /\ j * BlockSize \in Nat /\ k * BlockSize \in Nat
    BY <2>3
  <2>6. PICK x, s, r \in Nat : x = First(t) /\ s = j * BlockSize /\ r = k * BlockSize
    BY <1>5, <2>5
  <2>7. g[j] = x + s /\ g[k] = x + r /\ s + BlockSize <= r BY <1>8, <2>4, <2>5, <2>6
  <2> QED BY <2>3, <2>6, <2>7
<1>11. g[n] <= Top + First(l) /\ g[n] < WordMod
  <2>1. First(t) + BlockSize * n <= Top + First(l) BY <1>4, <1>5 DEF Linked
  <2>2. g[n] = First(t) + n * BlockSize /\ g[n] \in Nat /\ BlockSize * n = n * BlockSize
    BY <1>6, <1>8, Sizes
  <2>3. g[n] <= Top + First(l) BY <2>1, <2>2
  <2>4. First(l) <= Turn /\ 2 * Turn < WordMod /\ Turn \in Nat BY <1>4, Bounds, Types
  <2>5. 2 * Top < WordMod /\ Top \in Nat /\ WordMod \in Nat BY Sizes, PosOfFirst
  <2> QED BY <1>5, <2>2, <2>3, <2>4, <2>5
<1>12. \A k \in 0 .. n : g[k] <= g[n]
  <2>1. TAKE k \in 0 .. n
  <2>2. n \in 0 .. n /\ (k = n \/ k < n) BY <1>6
  <2> QED BY <1>8, <1>10, <2>1, <2>2, Sizes
<1>13. \A k \in 1 .. n : Stamped(t, k) \in Word /\ Pos(Stamped(t, k)) = g[k]
  <2>1. TAKE k \in 1 .. n
  <2>2. k \in 0 .. n /\ k \in Nat /\ k * BlockSize \in Nat BY <1>6, Sizes
  <2>3. g[k] = First(t) + k * BlockSize /\ g[k] \in Nat /\ g[n] \in Nat BY <1>6, <1>8, <2>2
  <2>4. g[k] < WordMod BY <1>11, <1>12, <2>2, <2>3, Sizes
  <2>5. offset[t] \in Word /\ Pos(offset[t]) = First(t) BY <1>5, Types DEF First
  <2>6. PICK x, s \in Nat : x = First(t) /\ s = k * BlockSize BY <1>5, <2>2
  <2>7. Plus(offset[t], s) \in Word /\ (Pos(offset[t]) + s < WordMod => Pos(Plus(offset[t], s)) = Pos(offset[t]) + s)
    BY <2>5, PosPlus
  <2>8. Stamped(t, k) = Plus(offset[t], s) BY <2>6 DEF Stamped
  <2> QED BY <2>3, <2>4, <2>5, <2>6, <2>7, <2>8
<1>14. \A k \in 1 .. n : offset'[unlinked[k]] = Stamped(t, k)
  <2>1. TAKE k \in 1 .. n
  <2>2. \A j \in 1 .. n : unlinked[j] = unlinked[k] => j = k BY <1>4 DEF Moving
  <2>3. (CHOOSE j \in 1 .. n : unlinked[j] = unlinked[k]) = k BY <2>2
  <2>4. unlinked[k] \in Block /\ unlinked[k] \in Unlinked BY <1>6
  <2> QED BY <1>1, <1>4, <2>3, <2>4
<1>15. /\ \A b \in Block : b \notin Unlinked => offset'[b] = offset[b]
       /\ offset' \in [Block -> Word]
  <2>1. \A b \in Block : b \notin Unlinked => offset'[b] = offset[b] BY <1>1
  <2>2. offset' = [b \in Block |-> offset'[b]] BY <1>1
  <2>3. ASSUME NEW b \in Block
        PROVE  offset'[b] \in Word
    <3>1. CASE b \notin Unlinked BY <2>1, <3>1, Types
    <3>2. CASE b \in Unlinked
      <4>1. PICK k \in 1 .. n : b = unlinked[k] BY <1>4, <3>2 DEF Unlinked
      <4> QED BY <1>13, <1>14, <4>1
    <3> QED BY <3>1, <3>2
  <2> QED BY <2>1, <2>2, <2>3
<1>16. Unlinked' = {} /\ OnList' = blocks /\ OnList \subseteq blocks /\ blocks = OnList \cup Unlinked /\ Unlinked \subseteq blocks
  <2>1. Unlinked' = {} BY <1>1 DEF Unlinked
  <2>2. Unlinked \subseteq blocks BY DEF Moving
  <2> QED BY <1>1, <2>1, <2>2 DEF OnList
<1>17. \A b \in OnList : b \in OnList' /\ Pos(offset'[b]) = First(b) /\ b \in Block /\ First(b) \in Nat
  <2>1. TAKE b \in OnList
  <2>2. b \in Block /\ b \notin Unlinked /\ First(b) \in Nat BY Types DEF OnList
  <2> QED BY <1>15, <1>16, <2>2 DEF First
<1>18. \A k \in 1 .. n : unlinked[k] \in OnList' /\ Pos(offset'[unlinked[k]]) = g[k] /\ unlinked[k] \notin OnList
  BY <1>6, <1>13, <1>14, <1>16 DEF OnList
<1>19. \A b \in OnList' : b \in OnList \/ \E k \in 1 .. n : b = unlinked[k]
  BY <1>4, <1>16 DEF Unlinked
<1>20. Grows BY <1>17 DEF Grows, First
<1>21. next \in [Block -> Block \cup {Null}] BY DEF TypeOK
<1>22. 1 \in 1 .. n /\ n \in 1 .. n BY <1>6
<1>23. /\ next' \in [Block -> Block \cup {Null}] /\ next'[t] = unlinked[1]
       /\ \A x \in Block : x # t => next'[x] = next[x]
  BY <1>1, <1>4, <1>5, <1>6, <1>21, <1>22
<1>24. \A k \in 1 .. n : next'[unlinked[k]] = IF k < n THEN unlinked[k + 1] ELSE Null
  <2>1. TAKE k \in 1 .. n
  <2>2. unlinked[k] # t /\ unlinked[k] \in Block BY <1>5, <1>6, <1>18
  <2>3. next[unlinked[k]] = IF k < n THEN unlinked[k + 1] ELSE Null BY <1>1, <1>4 DEF Moving
  <2> QED BY <1>23, <2>2, <2>3
<1>25. TypeOK'
  <2>1. tail_block' \in Block /\ tailBlock' \in Block \cup {Null} /\ unlinked' \in Seq(Block) /\ Len(unlinked') <= GroupSize
    BY <1>1, <1>4, <1>6, <1>22 DEF GroupSize
  <2> QED
    BY <1>1, <1>15, <1>23, <2>1 DEF TypeOK, elements, heads, cutoff, producer, locals, reading, pending, Function
<1>26. /\ {l, head_block} \subseteq OnList
       /\ \A b \in OnList : First(b) \in Starts /\ First(l) <= First(b)
       /\ \A b, c \in OnList : First(b) = First(c) => b = c
       /\ \A b \in OnList : next[b] # Null =>
             next[b] \in OnList /\ First(next[b]) = First(b) + BlockSize
       /\ \A b, c \in OnList : next[b] = Null => First(c) <= First(b)
  BY <1>4, Zenon DEF Linked
\* Where a block is after the step.
<1>27. PICK f : f = [b \in OnList' |-> Pos(offset'[b])] OBVIOUS
<1>28. /\ \A b \in OnList : f[b] = First(b) /\ f[b] \in Nat /\ f[b] <= g[0]
       /\ \A k \in 1 .. n : f[unlinked[k]] = g[k] /\ g[0] + BlockSize <= g[k]
  <2>1. \A b \in OnList : f[b] = First(b) /\ f[b] \in Nat BY <1>17, <1>27
  <2>2. \A k \in 1 .. n : f[unlinked[k]] = g[k] BY <1>18, <1>27
  <2>3. \A k \in 1 .. n : 0 \in 0 .. n /\ k \in 0 .. n /\ 0 < k BY <1>6
  <2> QED BY <1>5, <1>9, <1>10, <2>1, <2>2, <2>3
<1>30. /\ {l, head_block} \subseteq OnList'
       /\ \A b \in OnList' : f[b] \in Starts /\ f[l] <= f[b]
  <2>1. {l, head_block} \subseteq OnList' BY <1>17, <1>26
  <2>2. ASSUME NEW b \in OnList'
        PROVE  f[b] \in Starts /\ f[l] <= f[b]
    <3>1. CASE b \in OnList BY <1>5, <1>26, <1>28, <3>1
    <3>2. CASE b \notin OnList
      <4>1. PICK k \in 1 .. n : b = unlinked[k] BY <1>19, <3>2
      <4>2. k \in 0 .. n /\ 0 \in 0 .. n BY <1>6
      <4>3. f[b] = g[k] /\ g[0] + BlockSize <= g[k] /\ g[k] \in Nat /\ g[k] \in Starts /\ g[0] \in Nat
        BY <1>8, <1>28, <4>1, <4>2
      <4>4. f[l] <= g[0] /\ f[l] \in Nat BY <1>5, <1>28
      <4> QED BY <4>3, <4>4, Sizes
    <3> QED BY <3>1, <3>2
  <2> QED BY <2>1, <2>2
<1>31. ASSUME NEW b \in OnList', NEW c \in OnList', f[b] = f[c]
       PROVE  b = c
  <2>1. CASE b \in OnList /\ c \in OnList BY <1>26, <1>28, <1>31, <2>1
  <2>2. CASE b \in OnList /\ c \notin OnList
    <3>1. PICK k \in 1 .. n : c = unlinked[k] BY <1>19, <2>2
    <3>2. f[b] \in Nat /\ f[b] <= g[0] /\ f[c] = g[k] /\ g[0] + BlockSize <= g[k]
      BY <1>28, <2>2, <3>1
    <3>3. k \in 0 .. n /\ 0 \in 0 .. n BY <1>6
    <3> QED BY <1>8, <1>31, <3>2, <3>3, Sizes
  <2>3. CASE b \notin OnList /\ c \in OnList
    <3>1. PICK k \in 1 .. n : b = unlinked[k] BY <1>19, <2>3
    <3>2. f[c] \in Nat /\ f[c] <= g[0] /\ f[b] = g[k] /\ g[0] + BlockSize <= g[k]
      BY <1>28, <2>3, <3>1
    <3>3. k \in 0 .. n /\ 0 \in 0 .. n BY <1>6
    <3> QED BY <1>8, <1>31, <3>2, <3>3, Sizes
  <2>4. CASE b \notin OnList /\ c \notin OnList
    <3>1. PICK j \in 1 .. n : b = unlinked[j] BY <1>19, <2>4
    <3>2. PICK k \in 1 .. n : c = unlinked[k] BY <1>19, <2>4
    <3>3. j \in 0 .. n /\ k \in 0 .. n /\ j \in Nat /\ k \in Nat BY <1>6
    <3>4. g[j] = g[k] /\ g[j] \in Nat /\ g[k] \in Nat BY <1>8, <1>28, <1>31, <3>1, <3>2, <3>3
    <3>5. ~(j < k) /\ ~(k < j) BY <1>10, <3>3, <3>4, Sizes
    <3>6. j = k BY <3>3, <3>5
    <3> QED BY <3>1, <3>2, <3>6
  <2> QED BY <2>1, <2>2, <2>3, <2>4
<1>32. ASSUME NEW b \in OnList', next'[b] # Null
       PROVE  next'[b] \in OnList' /\ f[next'[b]] = f[b] + BlockSize
  <2>1. CASE b = t
    <3>1. next'[b] = unlinked[1] /\ f[b] = g[0] /\ f[unlinked[1]] = g[1]
      BY <1>5, <1>9, <1>22, <1>23, <1>28, <2>1
    <3>2. 0 \in 0 .. n - 1 /\ 0 + 1 = 1 BY <1>6
    <3>3. g[1] = g[0] + BlockSize BY <1>9, <3>2
    <3> QED BY <1>18, <1>22, <3>1, <3>3
  <2>2. CASE b \in OnList /\ b # t
    <3>1. next'[b] = next[b] /\ b \in Block BY <1>17, <1>23, <2>2
    <3>2. next[b] \in OnList /\ First(next[b]) = First(b) + BlockSize
      BY <1>26, <1>32, <2>2, <3>1
    <3> QED BY <1>17, <1>28, <2>2, <3>1, <3>2
  <2>3. CASE b \notin OnList
    <3>1. PICK k \in 1 .. n : b = unlinked[k] BY <1>19, <2>3
    <3>2. k < n /\ next'[b] = unlinked[k + 1] BY <1>24, <1>32, <3>1
    <3>3. k + 1 \in 1 .. n /\ k \in 0 .. n - 1 BY <1>6, <3>2
    <3>4. f[b] = g[k] /\ f[unlinked[k + 1]] = g[k + 1] /\ g[k + 1] = g[k] + BlockSize
      BY <1>9, <1>28, <3>1, <3>3
    <3> QED BY <1>18, <3>2, <3>3, <3>4
  <2> QED BY <2>1, <2>2, <2>3
<1>33. \A c \in OnList' : f[c] <= g[n]
  <2>1. TAKE c \in OnList'
  <2>2. 0 \in 0 .. n /\ n \in 0 .. n BY <1>6
  <2>3. g[0] <= g[n] /\ g[0] \in Nat /\ g[n] \in Nat BY <1>8, <1>12, <2>2
  <2>4. CASE c \in OnList BY <1>28, <2>3, <2>4
  <2>5. CASE c \notin OnList
    <3>1. PICK k \in 1 .. n : c = unlinked[k] BY <1>19, <2>5
    <3>2. k \in 0 .. n BY <1>6
    <3> QED BY <1>12, <1>28, <3>1, <3>2
  <2> QED BY <2>4, <2>5
<1>34. ASSUME NEW b \in OnList', next'[b] = Null
       PROVE  f[b] = g[n]
  <2>1. b # t
    <3>1. unlinked[1] # Null BY <1>6, <1>22, Types
    <3> QED BY <1>23, <1>34, <3>1
  <2>2. CASE b \in OnList
    <3>1. next[b] = Null /\ b \in Block BY <1>17, <1>23, <1>34, <2>1, <2>2
    <3>2. First(t) <= First(b) /\ First(b) <= First(t) BY <1>5, <1>26, <2>2, <3>1
    <3>3. First(b) = First(t) BY <1>5, <1>17, <2>2, <3>2
    <3> QED BY <1>5, <1>26, <2>1, <2>2, <3>3
  <2>3. CASE b \notin OnList
    <3>1. PICK k \in 1 .. n : b = unlinked[k] BY <1>19, <2>3
    <3>2. ~(k < n)
      <4>1. k < n => k + 1 \in 1 .. n BY <1>6
      <4>2. k < n => unlinked[k + 1] # Null BY <1>6, <4>1, Types
      <4> QED BY <1>24, <1>34, <3>1, <4>2
    <3>3. k = n BY <1>6, <3>2
    <3> QED BY <1>28, <3>1, <3>3
  <2> QED BY <2>2, <2>3
<1>35. Linked'
  <2>1. \A b, c \in OnList' : next'[b] = Null => f[c] <= f[b] BY <1>33, <1>34
  <2>2. \A b \in OnList' : f[b] + BlockSize * Len(unlinked') <= Top + f[l]
    <3>1. TAKE b \in OnList'
    <3>2. Len(unlinked') = 0 /\ BlockSize * Len(unlinked') = 0 BY <1>1, Sizes
    <3>3. f[l] = First(l) /\ f[b] <= g[n] /\ g[n] <= Top + First(l) BY <1>5, <1>11, <1>28, <1>33
    <3>4. f[b] \in Nat /\ g[n] \in Nat /\ Top \in Nat /\ First(l) \in Nat
      <4>1. f[b] \in Nat BY <1>30, StartsApart
      <4>2. n \in 0 .. n BY <1>6
      <4> QED BY <1>5, <1>8, <4>1, <4>2, PosOfFirst
    <3> QED BY <3>2, <3>3, <3>4
  <2>3. Lowest' = l /\ head_block' = head_block BY <1>1, <1>3, <1>4
  <2>4. \A b \in OnList' : Pos(offset'[b]) = f[b] BY <1>27
  <2>5. \A b, c \in OnList' : f[b] = f[c] => b = c BY <1>31
  <2>6. \A b \in OnList' : next'[b] # Null => next'[b] \in OnList' /\ f[next'[b]] = f[b] + BlockSize
    BY <1>32
  <2> QED BY <1>30, <2>1, <2>2, <2>3, <2>4, <2>5, <2>6 DEF Linked, First
<1>36. Moving'
  <2>1. Len(unlinked') = 0 /\ BlockSize * Len(unlinked') = 0 BY <1>1, Sizes
  <2>2. 0 <= First(Lowest)'
    <3>1. First(Lowest)' = First(l) BY <1>3, <1>4, <1>5, <1>17 DEF First
    <3> QED BY <1>5, <3>1
  <2>3. oldHead # Null /\ oldHead' = oldHead BY <1>1, <1>2 DEF Moving
  <2>4. tail_block' \in blocks' BY <1>1, <1>4, <1>16, <1>18, <1>22
  <2> QED BY <1>1, <1>2, <1>16, <2>1, <2>2, <2>3, <2>4 DEF Moving
<1>37. Heads'
  <2>1. /\ {write_block, write_block_hint, read_block, l, head_block} \subseteq OnList
        /\ First(l) <= First(head_block)
        /\ First(head_block) <= First(write_block)
        /\ First(head_block) <= First(write_block_hint)
        /\ First(write_block) <= First(write_block_hint)
        /\ First(write_block) <= First(read_block)
        /\ First(write_block_hint) <= Sold
        /\ First(read_block) < Turn \/ First(read_block) = 0
        /\ pending_old_head # Null =>
              /\ pending_old_head = head_block /\ pending_new_head = write_block
              /\ Pos(pending_cutoff) <= Sold
        /\ rblock = read_block
    BY <1>1, <1>2, <1>4, <1>26 DEF Heads
  <2>2. /\ {write_block, write_block_hint, read_block} \subseteq OnList'
        /\ Pos(offset'[l]) = First(l) /\ Pos(offset'[head_block]) = First(head_block)
        /\ Pos(offset'[write_block]) = First(write_block)
        /\ Pos(offset'[write_block_hint]) = First(write_block_hint)
        /\ Pos(offset'[read_block]) = First(read_block)
    BY <1>17, <2>1
  <2>3. Lowest' = l BY <1>3, <1>4
  <2> QED BY <1>1, <1>2, <1>3, <2>1, <2>2, <2>3 DEF Heads, First
<1>38. Cursor' BY <1>1, <1>20, CursorsStay
<1>39. Cells(cut)'
  <2>1. ASSUME NEW b \in OnList'
        PROVE  \/ b \in OnList /\ Pos(offset'[b]) = First(b) /\ flags'[b] = flags[b] /\ stored'[b] = stored[b]
               \/ \A i \in Index :
                     /\ flags'[b][i] = "empty" /\ stored'[b][i] = NoValue
                     /\ Pos(offset'[b]) + i \in Nat /\ ~Reaches(Pos(offset'[b]) + i)
    <3>1. CASE b \in OnList BY <1>3, <1>17, <3>1
    <3>2. CASE b \notin OnList
      <4>1. PICK k \in 1 .. n : b = unlinked[k] BY <1>19, <3>2
      <4>2. b \in Unlinked /\ b \in Block BY <1>6, <4>1
      <4>3. flags[b] = Fresh /\ \A i \in Index : stored[b][i] = NoValue
        BY <1>1, <3>2, <4>2 DEF Clean
      <4>4. Pos(offset'[b]) = g[k] /\ g[k] \in Nat /\ First(t) + BlockSize <= g[k]
        <5>1. k \in 0 .. n BY <1>6
        <5> QED BY <1>8, <1>9, <1>18, <1>28, <4>1, <5>1
      <4>5. ASSUME NEW i \in Index
            PROVE  g[k] + i \in Nat /\ ~Reaches(g[k] + i)
        <5>1. i \in Nat BY Sizes DEF Index
        <5>2. ASSUME NEW c \in OnList
              PROVE  ~(g[k] + i < First(c) + BlockSize)
          <6>1. First(c) <= First(t) /\ First(c) \in Nat BY <1>5, <1>17
          <6> QED BY <1>5, <4>4, <5>1, <6>1, Sizes
        <5> QED BY <4>4, <5>1, <5>2 DEF Reaches
      <4> QED BY <1>3, <4>3, <4>4, <4>5 DEF Fresh
    <3> QED BY <3>1, <3>2
  <2>2. \A m \in Nat : Turn <= m /\ Reaches(m) => Reaches(m)' BY <1>20, ReachesMore
  <2>3. UNCHANGED <<producer, cutoff, read_offset>> BY <1>1, <1>3
  <2> QED BY <1>2, <2>1, <2>2, <2>3, CellsTidy
<1>40. Clean' BY <1>2, <1>3, <1>17 DEF Clean
<1> QED BY <1>1, <1>2, <1>3, <1>25, <1>35, <1>36, <1>37, <1>38, <1>39, <1>40, RecycleKeeps

LEMMA RelinkKeeps ==
  ASSUME NEW cut \in Nat, Going(cut), Relink
  PROVE  Going(cut)'
<1> USE DEF Going, Shape
<1>1. CASE next[tailBlock] = Null BY <1>1, AppendGroup
<1>2. CASE next[tailBlock] # Null
  <2>1. /\ cpc = "relink" /\ tailBlock' = next[tailBlock]
        /\ UNCHANGED <<next, offset, tail_block, unlinked, cpc>>
        /\ UNCHANGED <<blocks, elements, write_offset, heads, cutoff, producer, reading, pending,
                       head_block, started, oldHead, elem, can_suspend>>
    BY <1>2 DEF Relink
  <2>2. cpc \in Tidying /\ cpc' \in Tidying /\ cpc \in Reclaiming /\ cpc' \in Reclaiming /\ cpc' = "relink"
    BY <2>1 DEF Tidying, Reclaiming
  <2>3. UNCHANGED <<list, flags, stored, read_offset, taken, outcome, call>>
    BY <2>1 DEF list, elements, reading
  <2>4. /\ Heads' /\ Cursor' /\ OnList' = OnList /\ Lowest' = Lowest
        /\ (\A x : First(x)' = First(x)) /\ \A m : Reaches(m)' <=> Reaches(m)
    BY <2>1, <2>2, PlacesStay
  <2>5. tailBlock' \in OnList /\ tailBlock' \in Block
    <3>1. tailBlock \in OnList BY <2>1 DEF Moving
    <3>2. next[tailBlock] \in OnList BY <1>2, <3>1 DEF Linked
    <3> QED BY <2>1, <3>2, Types
  <2>6. Unlinked' = Unlinked BY <2>1 DEF Unlinked
  <2>7. TypeOK'
    BY <2>1, <2>5 DEF TypeOK, elements, heads, cutoff, producer, locals, reading, pending, Function
  <2>8. Linked' BY <2>1, <2>3, LinkedStays
  <2>9. Moving'
    <3>1. BlockSize * Len(unlinked') = BlockSize * Len(unlinked) /\ First(Lowest)' = First(Lowest)
      BY <2>1, <2>4 DEF First
    <3> QED BY <2>1, <2>2, <2>4, <2>5, <2>6, <3>1 DEF Moving
  <2>10. Cells(cut)'
    <3>1. \A b \in OnList' : b \in OnList /\ Pos(offset'[b]) = First(b) /\ flags'[b] = flags[b] /\ stored'[b] = stored[b]
      BY <2>3, <2>4 DEF First
    <3>2. UNCHANGED <<producer, cutoff, read_offset>> BY <2>1, <2>3
    <3> QED BY <2>2, <2>4, <3>1, <3>2, CellsTidy
  <2>11. Clean' BY <2>1, <2>3, <2>4, <2>6 DEF Clean
  <2> QED BY <2>1, <2>2, <2>3, <2>4, <2>7, <2>8, <2>9, <2>10, <2>11, RecycleKeeps
<1> QED BY <1>1, <1>2

\* The invariant holds at first, and until the queue is destroyed
LEMMA InitHolds ==
  ASSUME Init
  PROVE  Going(Skipped)
<1> DEFINE cut == Skipped
<1>1. /\ blocks = {1} /\ unlinked = <<>> /\ oldHead = Null /\ head_block = 1
      /\ write_block = 1 /\ write_block_hint = 1 /\ read_block = 1 /\ tail_block = 1
      /\ next = [b \in Block |-> Null] /\ offset = [b \in Block |-> StartOf(FirstTicket)]
      /\ flags = [b \in Block |->
            [i \in Index |-> IF b = 1 /\ i < IndexOf(FirstTicket) THEN "data" ELSE "empty"]]
      /\ stored = [b \in Block |-> [i \in Index |-> NoValue]]
      /\ write_offset = FirstTicket /\ read_offset = FirstTicket
      /\ closed = FALSE /\ closed_ready = FALSE /\ write_closed_at = 0
      /\ ppc = [p \in Producers |-> "idle"] /\ count = [p \in Producers |-> 0]
      /\ idx = [p \in Producers |-> 0] /\ written = [p \in Producers |-> 0]
      /\ pblock = [p \in Producers |-> Null]
      /\ pending_old_head = Null /\ pending_cutoff = 0 /\ cpc = "idle" /\ call = "none" /\ rblock = Null
      /\ outcome = "none" /\ taken = 0
  BY DEF Init
<1>2. /\ Skipped \in Nat /\ Skipped < BlockSize /\ FirstTicket \in Word /\ Pos(FirstTicket) = Skipped
      /\ StartOf(FirstTicket) \in Word /\ Pos(StartOf(FirstTicket)) = 0
      /\ Top \in Nat /\ Top = Skipped + MaxTicket + 1 /\ MaxTicket \in Nat
      /\ 0 \in Starts /\ 1 \in Block /\ 0 \in Word
  <2>1. 1 \in Block BY Sizes DEF Block
  <2>2. 0 \in Word BY Sizes DEF Word
  <2> QED BY <2>1, <2>2, Origin, PosOfFirst, StartsApart, Sizes
<1>3. TypeOK
  <2>1. flags \in [Block -> [Index -> Flag]] /\ stored \in [Block -> [Index -> Value \cup {NoValue}]]
    BY <1>1 DEF Flag
  <2>2. next \in [Block -> Block \cup {Null}] /\ offset \in [Block -> Word] BY <1>1, <1>2
  <2>3. /\ idx \in [Producers -> Word] /\ count \in [Producers -> 0 .. MaxBulk] /\ written \in [Producers -> 0 .. MaxBulk]
        /\ {observed, walk, pblock} \subseteq [Producers -> Block \cup {Null}]
        /\ ppc \in [Producers -> {"idle", "check_closed", "spin", "load_hint", "load_write_block", "seek",
                              "reserve", "write", "cross", "wake", "draw_cutoff", "set_cutoff",
                              "sentinel", "gone"}]
    <3>1. 0 \in 0 .. MaxBulk BY Sizes
    <3> QED BY <1>2, <3>1 DEF Init
  <2>4. unlinked \in Seq(Block) /\ Len(unlinked) <= GroupSize BY <1>1 DEF GroupSize
  <2>5. blocks \subseteq Block /\ taken \in 0 .. MaxTicket BY <1>1, <1>2
  <2>6. {closed, closed_ready, elem, started} \subseteq BOOLEAN BY DEF Init
  <2>7. {pending_old_head, pending_new_head, rblock, oldHead, tailBlock} \subseteq Block \cup {Null}
    BY DEF Init
  <2>8. {write_block_hint, write_block, read_block, head_block, tail_block} \subseteq Block
    BY <1>1, <1>2
  <2>9. {write_offset, write_closed_at, read_offset, pending_cutoff} \subseteq Word
    BY <1>1, <1>2
  <2> QED BY <1>1, <2>1, <2>2, <2>3, <2>4, <2>5, <2>6, <2>7, <2>8, <2>9 DEF TypeOK
<1>4. /\ Sold = Skipped /\ Turn = Skipped /\ Unlinked = {} /\ OnList = {1} /\ Lowest = 1 /\ First(1) = 0
      /\ next[1] = Null /\ Len(unlinked) = 0 /\ BlockSize * Len(unlinked) = 0
  <2>1. Unlinked = {} /\ Len(unlinked) = 0 BY <1>1 DEF Unlinked
  <2>2. First(1) = 0 BY <1>1, <1>2 DEF First
  <2> QED BY <1>1, <1>2, <2>1, <2>2, Sizes DEF Sold, Turn, OnList, Lowest
<1>5. Alive BY <1>1 DEF Alive
<1>6. Linked BY <1>1, <1>2, <1>4 DEF Linked
<1>7. Moving
  <2>1. cpc \notin Reclaiming BY <1>1 DEF Reclaiming
  <2> QED BY <1>1, <1>4, <2>1 DEF Moving
<1>8. Heads
  <2>1. cpc \notin Tidying \cup AtElement \cup {"seek", "move_hint", "read_cutoff"}
    BY <1>1 DEF Tidying, Reclaiming, AtElement
  <2> QED BY <1>1, <1>2, <1>4, <2>1 DEF Heads
<1>9. Cutoff(cut) /\ Closers(cut) /\ Posts(cut)
  <2>1. Cutoff(cut) BY <1>1, <1>2, <1>4 DEF Cutoff
  <2>2. \A p \in Producers : ppc[p] = "idle" /\ count[p] = 0 /\ written[p] = 0 BY <1>1
  <2>3. Closers(cut) BY <2>2 DEF Closers, CloserOK, Closer
  <2>4. Posts(cut) BY <2>2 DEF Posts, PostOK
  <2> QED BY <2>1, <2>3, <2>4
<1>10. Cursor
  <2>1. \A p \in Producers : ppc[p] = "idle" /\ count[p] = 0 /\ pblock[p] = Null BY <1>1
  <2> QED BY <2>1 DEF Cursor, Search, Place, Writing
<1>11. ~Asleep /\ ~Placed BY <1>1 DEF Asleep, Placed
<1>12. Cells(cut)
  <2>1. \A m \in Nat : Turn <= m => ~Done(cut, m) /\ ~AtEnd(cut, m)
    BY <1>2, <1>4, <1>11 DEF Done, AtEnd
  <2>2. ASSUME NEW i \in Index
        PROVE  IF First(1) + i < Turn THEN stored[1][i] = NoValue
               ELSE CellOK(cut, First(1) + i, flags[1][i], stored[1][i])
    <3>1. i \in Nat /\ First(1) + i = i BY <1>4, Sizes DEF Index
    <3>2. stored[1][i] = NoValue BY <1>1, <1>2
    <3>3. ASSUME ~(i < Turn)
          PROVE  CellOK(cut, i, flags[1][i], stored[1][i])
      <4>1. flags[1][i] = "empty" BY <1>1, <1>2, <1>4, <3>3 DEF Skipped
      <4>2. ~Done(cut, i) /\ ~AtEnd(cut, i) BY <1>2, <1>4, <2>1, <3>1, <3>3
      <4> QED BY <1>11, <3>2, <4>1, <4>2 DEF CellOK, Mark
    <3> QED BY <3>1, <3>2, <3>3
  <2> QED BY <1>4, <2>1, <2>2 DEF Cells
<1>13. Clean BY <1>1 DEF Clean
<1>14. Rousing(cut) BY <1>1, <1>11 DEF Rousing
<1> QED BY <1>3, <1>5, <1>6, <1>7, <1>8, <1>9, <1>10, <1>12, <1>13, <1>14 DEF Going, Shape

LEMMA StutterKeeps ==
  ASSUME NEW cut \in Nat, Going(cut), UNCHANGED vars
  PROVE  Going(cut)'
<1> USE DEF Going, Shape
<1>1. /\ UNCHANGED <<list, elements, write_offset, heads, cutoff, producer, reading, reclaim, pending, cpc, elem, can_suspend>>
  BY DEF vars, consumer
<1>2. /\ UNCHANGED <<read_offset, read_block, call, rblock, outcome, taken, head_block, tail_block, started,
                     oldHead, unlinked, tailBlock, write_block, write_block_hint>>
      /\ UNCHANGED consumer
  BY <1>1 DEF reading, reclaim, heads, consumer
<1>3. TypeOK'
  BY <1>1, <1>2 DEF TypeOK, list, elements, cutoff, producer, locals, pending, Function
<1>4. Linked' /\ Moving' BY <1>1, <1>2, LinkedStays, MovingStays
<1>5. Grows BY <1>1, <1>2, ListStays
<1>6. Cursor' BY <1>1, <1>2, <1>5, CursorsStay
<1>7. Heads'
  <2>1. Sold <= Sold' BY <1>1, Types DEF Sold
  <2> QED BY <1>1, <1>2, <1>3, <1>5, <2>1, HeadsStay
<1>8. Stable(cut, cut) BY <1>1, ProducersStable
<1>9. Rousing(cut)' /\ (Asleep' <=> Asleep)
  <2>1. \A q \in Producers : /\ ppc'[q] = "wake" <=> ppc[q] = "wake"
                             /\ idx'[q] = idx[q] /\ count'[q] = count[q] /\ written'[q] = written[q]
    BY <1>1 DEF producer, locals
  <2> QED BY <1>1, <1>2, <1>8, <2>1, RousingStays
<1>10. Cells(cut)' /\ Clean' BY <1>1, <1>2, <1>8, <1>9, CellsStay, CleanStays
<1>11. cpc' # "gone" BY <1>1 DEF Alive
<1> QED BY <1>1, <1>2, <1>3, <1>4, <1>6, <1>7, <1>9, <1>10, <1>11, ConsumerKeeps

\* The destructor finds every value that is left, and every block.
LEMMA DestructDestroys ==
  ASSUME NEW cut \in Nat, Going(cut), Destruct
  PROVE  TypeOK' /\ Destroyed' /\ cpc' = "gone"
<1> USE DEF Going, Shape
<1>1. PICK end, all : end = (IF closed THEN write_closed_at ELSE write_offset) /\ all = ReachableFrom(head_block)
  OBVIOUS
<1>2. /\ \A p \in Producers : ppc[p] = "idle"
      /\ cpc = "idle" /\ cpc' = "gone" /\ ppc' = [p \in Producers |-> "gone"]
      /\ closed' = TRUE /\ write_closed_at' = end /\ closed_ready' = TRUE
      /\ stored' = [b \in Block |-> [i \in Index |->
            IF b \in all /\ flags[b][i] = "data" /\ Plus(offset[b], i) \in Leftover(end) THEN NoValue ELSE stored[b][i]]]
      /\ blocks' = blocks \ all
      /\ UNCHANGED <<next, offset, flags, write_offset, heads, locals, reading, reclaim, pending,
                     elem, can_suspend>>
  BY <1>1, Zenon DEF Destruct
<1>3. all = blocks /\ OnList = blocks /\ blocks \subseteq Block
  <2>1. oldHead = Null /\ unlinked = <<>> BY <1>2 DEF Moving, Reclaiming
  <2>2. OnList = blocks /\ Lowest = head_block BY <2>1 DEF OnList, Unlinked, Lowest
  <2>3. head_block \in OnList /\ \A b \in OnList : First(head_block) <= First(b)
    BY <2>2 DEF Linked
  <2> QED BY <1>1, <2>2, <2>3, Chain, Types
<1>4. end \in Word /\ Pos(end) = cut /\ (closed_ready => end = write_closed_at)
  <2>1. write_closed_at \in Word /\ write_offset \in Word BY Types
  <2>2. CASE closed_ready BY <1>1, <2>1, <2>2 DEF Cutoff
  <2>3. CASE ~closed_ready
    <3>1. \A p \in Producers : ppc[p] # "set_cutoff" /\ ppc[p] \notin Drawing
      BY <1>2 DEF Drawing
    <3>2. ~closed /\ cut = Sold BY <2>3, <3>1 DEF Cutoff
    <3> QED BY <1>1, <2>1, <2>3, <3>2 DEF Sold
  <2> QED BY <2>2, <2>3
<1>5. ASSUME NEW b \in Block, NEW i \in Index
      PROVE  stored'[b][i] = NoValue
  <2>1. CASE b \notin OnList BY <1>2, <2>1 DEF Clean
  <2>2. CASE b \in OnList /\ stored[b][i] = NoValue BY <1>2, <2>2
  <2>3. CASE b \in OnList /\ stored[b][i] # NoValue
    <3>1. First(b) \in Nat /\ i \in Nat /\ offset[b] \in Word /\ read_offset \in Word /\ Turn \in Nat
          /\ WordMod \in Nat
      BY Types, Sizes DEF Index
    <3>2. PICK m \in Nat : m = First(b) + i BY <3>1
    <3>3. ~(m < Turn) /\ CellOK(cut, m, flags[b][i], stored[b][i]) BY <2>3, <3>2 DEF Cells
    <3>4. Done(cut, m) /\ flags[b][i] = "data" /\ m < cut BY <1>2, <2>3, <3>3 DEF CellOK, Done
    <3>5. 2 * cut < WordMod BY Bounds
    <3>6. Plus(offset[b], i) \in Word /\ Pos(Plus(offset[b], i)) = m
      <4>1. Pos(offset[b]) + i < WordMod BY <3>1, <3>2, <3>4, <3>5 DEF First
      <4> QED BY <3>1, <3>2, <4>1, PosPlus DEF First
    <3>7. PICK k \in Nat : k = m - Turn BY <3>1, <3>3
    <3>8. ASSUME NEW j \in 0 .. k
          PROVE  /\ Plus(read_offset, j) \in Word /\ Pos(Plus(read_offset, j)) = Turn + j
                 /\ CircularLess(Plus(read_offset, j), end)
      <4>1. j \in Nat /\ Turn + j <= m BY <3>1, <3>7
      <4>2. Pos(read_offset) + j < WordMod BY <3>1, <3>4, <3>5, <4>1 DEF Turn
      <4>3. Plus(read_offset, j) \in Word /\ Pos(Plus(read_offset, j)) = Turn + j
        BY <3>1, <4>1, <4>2, PosPlus DEF Turn
      <4>4. PICK x \in Word : x = Plus(read_offset, j) BY <4>3
      <4>5. Pos(x) = Turn + j /\ Pos(x) < Pos(end) /\ 2 * Pos(x) < WordMod /\ 2 * Pos(end) < WordMod
        BY <1>4, <3>1, <3>4, <3>5, <4>1, <4>3, <4>4
      <4>6. CircularLess(x, end) BY <1>4, <4>5, PosLess
      <4> QED BY <4>3, <4>4, <4>6
    <3>9. Plus(read_offset, k) = Plus(offset[b], i)
      <4>1. k \in 0 .. k /\ Turn + k = m BY <3>1, <3>7
      <4> QED BY <3>6, <3>8, <4>1, PosTells
    <3>10. k \in Word BY <3>1, <3>4, <3>5, <3>7 DEF Word
    <3>11. Plus(offset[b], i) \in Leftover(end) BY <3>8, <3>9, <3>10 DEF Leftover
    <3> QED BY <1>2, <1>3, <2>3, <3>4, <3>11
  <2> QED BY <2>1, <2>2, <2>3
<1>6. TypeOK'
  <2>1. stored' \in [Block -> [Index -> Value \cup {NoValue}]]
    <3>1. stored' = [b \in Block |-> [i \in Index |-> NoValue]] BY <1>2, <1>5
    <3> QED BY <3>1
  <2>2. blocks' \subseteq Block BY <1>2, <1>3
  <2>3. UNCHANGED <<read_offset, read_block, call, rblock, outcome, taken, head_block, tail_block, started,
                     oldHead, unlinked, tailBlock, write_block, write_block_hint>>
    BY <1>2 DEF reading, reclaim, heads
  <2>4. ppc' \in [Producers -> {"idle", "check_closed", "spin", "load_hint", "load_write_block", "seek",
                              "reserve", "write", "cross", "wake", "draw_cutoff", "set_cutoff",
                              "sentinel", "gone"}]
    BY <1>2
  <2> QED BY <1>2, <1>4, <2>1, <2>2, <2>3, <2>4 DEF TypeOK, locals, pending, Function
<1>7. Destroyed'
  <2>1. outcome' = "CLOSED" => closed_ready' /\ read_offset' = write_closed_at'
    <3>1. outcome' = outcome /\ read_offset' = read_offset BY <1>2 DEF reading
    <3>2. outcome = "CLOSED" => AtEnd(cut, Turn) BY DEF Rousing
    <3>3. AtEnd(cut, Turn) => Pos(read_offset) = cut BY DEF AtEnd, Turn
    <3>4. read_offset \in Word BY Types
    <3> QED BY <1>2, <1>4, <3>1, <3>2, <3>3, <3>4, PosTells
  <2>2. blocks' = {} BY <1>2, <1>3
  <2>3. \A p \in Producers : ppc'[p] = "gone" BY <1>2
  <2> QED BY <1>5, <2>1, <2>2, <2>3 DEF Destroyed
<1> QED BY <1>2, <1>6, <1>7

\* Every step keeps the invariant
LEMMA ProducerKeeps ==
  ASSUME NEW cut \in Nat, Going(cut), NEW p \in Producers, ProducerStep(p)
  PROVE  Going(cut)'
<1>1. CASE CheckClosed(p) BY <1>1, CheckClosedKeeps
<1>2. CASE CompareCutoff(p) BY <1>2, CompareCutoffKeeps
<1>3. CASE DrawCutoff(p) BY <1>3, DrawCutoffKeeps
<1>4. CASE SetCutoff(p) BY <1>4, SetCutoffKeeps
<1>5. CASE LoadHint(p) BY <1>5, LoadHintKeeps
<1>6. CASE LoadWriteBlock(p) BY <1>6, LoadWriteBlockKeeps
<1>7. CASE Seek(p) BY <1>7, SeekKeeps
<1>8. CASE Reserve(p) BY <1>8, ReserveKeeps
<1>9. CASE WriteElement(p) BY <1>9, WriteElementKeeps
<1>10. CASE Cross(p) BY <1>10, CrossKeeps
<1>11. CASE PlaceSentinel(p) BY <1>11, PlaceSentinelKeeps
<1>12. CASE NotifyConsumer(p) BY <1>12, NotifyConsumerKeeps
<1> QED BY <1>1, <1>2, <1>3, <1>4, <1>5, <1>6, <1>7, <1>8, <1>9, <1>10, <1>11, <1>12, Zenon DEF ProducerStep

LEMMA ConsumerStepKeeps ==
  ASSUME NEW cut \in Nat, Going(cut), ConsumerStep
  PROVE  Going(cut)'
<1>1. CASE SeekRead BY <1>1, SeekReadKeeps
<1>2. CASE Poll BY <1>2, PollKeeps
<1>3. CASE Suspend BY <1>3, SuspendKeeps
<1>4. CASE Restore BY <1>4, RestoreKeeps
<1>5. CASE PullResume BY <1>5, PullResumeKeeps
<1>6. CASE FinishRead BY <1>6, FinishReadKeeps
<1>7. CASE TryFinish BY <1>7, TryFinishKeeps
<1>8. CASE TryStart BY <1>8, TryStartKeeps
<1>9. CASE MoveHint BY <1>9, MoveHintKeeps
<1>10. CASE ReadCutoff BY <1>10, ReadCutoffKeeps
<1>11. CASE Collect BY <1>11, CollectKeeps
<1>12. CASE ResetValues BY <1>12, ResetValuesKeeps
<1>13. CASE FindTail BY <1>13, FindTailKeeps
<1>14. CASE Unlink BY <1>14, UnlinkKeeps
<1>15. CASE Relink BY <1>15, RelinkKeeps
<1> QED
  BY <1>1, <1>2, <1>3, <1>4, <1>5, <1>6, <1>7, <1>8, <1>9, <1>10, <1>11, <1>12, <1>13, <1>14, <1>15, Zenon
     DEF ConsumerStep, ReclaimStep

\* When the queue is gone, nothing happens any more.
LEMMA GoneStays ==
  ASSUME IInv, cpc = "gone", [Next]_vars
  PROVE  UNCHANGED vars
<1>1. \A p \in Producers : ppc[p] = "gone" BY DEF IInv, Destroyed
<1>2. ASSUME NEW p \in Producers
      PROVE  /\ ~Close(p) /\ ~ProducerStep(p)
             /\ \A n \in 1 .. MaxBulk : ~TakeTicket(p, n)
  <2>1. ppc[p] = "gone" BY <1>1
  <2>2. ~Close(p) /\ \A n \in 1 .. MaxBulk : ~TakeTicket(p, n) BY <2>1 DEF Close, TakeTicket
  <2>3. ~CheckClosed(p) /\ ~CompareCutoff(p) /\ ~DrawCutoff(p) /\ ~SetCutoff(p)
    BY <2>1 DEF CheckClosed, CompareCutoff, DrawCutoff, SetCutoff
  <2>4. ~LoadHint(p) /\ ~LoadWriteBlock(p) /\ ~Seek(p) /\ ~Reserve(p)
    BY <2>1 DEF LoadHint, LoadWriteBlock, Seek, Reserve
  <2>5. ~WriteElement(p) /\ ~Cross(p) /\ ~PlaceSentinel(p) /\ ~NotifyConsumer(p)
    BY <2>1 DEF WriteElement, Cross, PlaceSentinel, NotifyConsumer
  <2> QED BY <2>2, <2>3, <2>4, <2>5 DEF ProducerStep
<1>3. ~ConsumerStep
  <2>1. ~SeekRead /\ ~Poll /\ ~Suspend /\ ~Restore /\ ~PullResume /\ ~FinishRead
    BY DEF SeekRead, Poll, Suspend, Restore, PullResume, FinishRead
  <2>2. ~TryFinish /\ ~TryStart /\ ~MoveHint /\ ~ReadCutoff
    BY DEF TryFinish, TryStart, MoveHint, ReadCutoff
  <2>3. ~Collect /\ ~ResetValues /\ ~FindTail /\ ~Unlink /\ ~Relink
    BY DEF Collect, ResetValues, FindTail, Unlink, Relink
  <2> QED BY <2>1, <2>2, <2>3 DEF ConsumerStep, ReclaimStep
<1>4. ~Destruct /\ \A f \in Function : ~Call(f) BY DEF Destruct, Call
<1> QED BY <1>2, <1>3, <1>4, Zenon DEF Next, Gone

LEMMA DestroyedStays ==
  ASSUME TypeOK, Destroyed, cpc = "gone", UNCHANGED vars
  PROVE  TypeOK' /\ Destroyed' /\ cpc' = "gone"
<1>1. /\ UNCHANGED <<list, elements, write_offset, heads, cutoff, producer, reading, reclaim, pending, cpc, elem, can_suspend>>
  BY DEF vars, consumer
<1>2. UNCHANGED <<read_offset, read_block, call, rblock, outcome, taken, head_block, tail_block, started,
                  oldHead, unlinked, tailBlock, write_block, write_block_hint>>
  BY <1>1 DEF reading, reclaim, heads
<1>3. TypeOK'
  BY <1>1, <1>2 DEF TypeOK, list, elements, cutoff, producer, locals, pending, Function
<1>4. ppc' = ppc /\ blocks' = blocks /\ stored' = stored /\ closed_ready' = closed_ready /\ write_closed_at' = write_closed_at
  BY <1>1 DEF list, elements, cutoff, producer
<1> QED BY <1>1, <1>2, <1>3, <1>4 DEF Destroyed

LEMMA StepKeeps ==
  ASSUME IInv, [Next]_vars
  PROVE  IInv'
<1>1. CASE cpc = "gone" BY <1>1, GoneStays, DestroyedStays DEF IInv
<1>2. CASE cpc # "gone"
  <2>1. PICK cut \in Nat : Going(cut) BY <1>2 DEF IInv, Running, Going
  <2>2. (\E c \in Nat : Going(c)') => IInv'
    <3>1. SUFFICES ASSUME NEW c \in Nat, Going(c)'
                   PROVE  IInv'
      OBVIOUS
    <3> QED BY <3>1 DEF IInv, Running, Going, Alive
  <2>3. CASE UNCHANGED vars BY <2>1, <2>2, <2>3, StutterKeeps
  <2>4. ASSUME NEW p \in Producers, NEW n \in 1 .. MaxBulk, TakeTicket(p, n)
        PROVE  IInv'
    BY <2>1, <2>2, <2>4, TakeTicketKeeps
  <2>5. ASSUME NEW p \in Producers, Close(p)
        PROVE  IInv'
    BY <2>1, <2>2, <2>5, CloseKeeps
  <2>6. ASSUME NEW p \in Producers, ProducerStep(p)
        PROVE  IInv'
    BY <2>1, <2>2, <2>6, ProducerKeeps
  <2>7. ASSUME NEW f \in Function, Call(f)
        PROVE  IInv'
    BY <2>1, <2>2, <2>7, CallKeeps
  <2>8. CASE ConsumerStep BY <2>1, <2>2, <2>8, ConsumerStepKeeps
  <2>9. CASE Destruct BY <2>1, <2>9, DestructDestroys DEF IInv
  <2>10. ~Gone BY <1>2 DEF Gone
  <2> QED BY <2>3, <2>4, <2>5, <2>6, <2>7, <2>8, <2>9, <2>10, Zenon DEF Next
<1> QED BY <1>1, <1>2

\* The invariant holds in every state that the queue gets to.
THEOREM Invariance == Spec => []IInv
<1>1. Init => IInv
  <2>1. SUFFICES ASSUME Init
                 PROVE  IInv
    OBVIOUS
  <2>2. Skipped \in Nat BY Origin
  <2> QED BY <2>1, <2>2, InitHolds DEF IInv, Running, Going, Alive
<1>2. IInv /\ [Next]_vars => IInv' BY StepKeeps
<1> QED BY <1>1, <1>2, PTL DEF Spec

\* What follows from the invariant
\* Until it is destroyed, the queue is as Going() says.
LEMMA Alternatives ==
  ASSUME IInv
  PROVE  \/ cpc = "gone" /\ Destroyed
         \/ \E cut \in Nat : Going(cut)
  BY DEF IInv, Running, Going

\* What is reached from a block on the list is on the list.
LEMMA ReachedIsOnList ==
  ASSUME NEW cut \in Nat, Going(cut), NEW b \in OnList
  PROVE  ReachableFrom(b) = { c \in OnList : First(b) <= First(c) }
  BY Chain DEF Going, Shape

LEMMA OffsetOfNext ==
  ASSUME NEW cut \in Nat, Going(cut), NEW b \in OnList, next[b] # Null
  PROVE  offset[next[b]] = Plus(offset[b], BlockSize)
<1> USE DEF Going, Shape
<1>1. PICK c : c = next[b] OBVIOUS
<1>2. c \in OnList /\ First(c) = First(b) + BlockSize BY <1>1 DEF Linked
<1>3. /\ b \in Block /\ c \in Block /\ offset[b] \in Word /\ offset[c] \in Word
      /\ First(b) \in Nat /\ First(c) \in Nat /\ First(c) < WordMod /\ WordMod \in Nat /\ BlockSize \in Nat
  BY <1>2, Types, Sizes
<1>4. Pos(offset[b]) + BlockSize < WordMod BY <1>2, <1>3 DEF First
<1>5. Plus(offset[b], BlockSize) \in Word /\ Pos(Plus(offset[b], BlockSize)) = First(c)
  BY <1>2, <1>3, <1>4, PosPlus DEF First
<1> QED BY <1>1, <1>3, <1>5, PosTells DEF First

LEMMA InOrder ==
  ASSUME NEW cut \in Nat, Going(cut)
  PROVE  ListInOrder
<1> USE DEF Going, Shape
<1>1. /\ {head_block, write_block, write_block_hint, read_block} \subseteq OnList
      /\ First(head_block) <= First(write_block)
      /\ First(write_block) <= First(read_block)
      /\ cpc # "move_hint" => First(write_block) <= First(write_block_hint)
  BY DEF Linked, Heads
<1>2. ReachableFrom(head_block) = { c \in OnList : First(head_block) <= First(c) }
  BY <1>1, ReachedIsOnList
<1>3. ReachableFrom(write_block) = { c \in OnList : First(write_block) <= First(c) }
  BY <1>1, ReachedIsOnList
<1>4. write_block \in ReachableFrom(head_block) BY <1>1, <1>2
<1>5. cpc # "move_hint" => write_block_hint \in ReachableFrom(write_block) BY <1>1, <1>3
<1>6. read_block \in ReachableFrom(write_block) BY <1>1, <1>3
<1>7. \A b \in ReachableFrom(head_block) : next[b] # Null => offset[next[b]] = Plus(offset[b], BlockSize)
  BY <1>2, OffsetOfNext
<1> QED BY <1>4, <1>5, <1>6, <1>7, Zenon DEF ListInOrder

LEMMA NoneLost ==
  ASSUME NEW cut \in Nat, Going(cut)
  PROVE  NoBlockLost
<1> USE DEF Going, Shape
<1>1. /\ {head_block, Lowest} \subseteq OnList
      /\ \A b \in OnList : First(Lowest) <= First(b)
      /\ Unlinked \subseteq blocks
      /\ blocks = OnList \cup Unlinked /\ OnList \cap Unlinked = {}
  BY DEF Linked, Moving, OnList
<1>2. ReachableFrom(Lowest) = OnList BY <1>1, ReachedIsOnList
<1>3. ReachableFrom(head_block) \subseteq OnList BY <1>1, ReachedIsOnList
<1>4. CASE oldHead = Null
  <2>1. ReachableFrom(head_block) = OnList BY <1>2, <1>4 DEF Lowest
  <2> QED BY <1>1, <1>4, <2>1 DEF NoBlockLost, Alive
<1>5. CASE oldHead # Null
  <2>1. ReachableFrom(oldHead) = OnList BY <1>2, <1>5 DEF Lowest
  <2> QED BY <1>1, <1>3, <1>5, <2>1 DEF NoBlockLost, Alive
<1> QED BY <1>4, <1>5

\* The storage is sound: the blocks are in order with the heads among them, no
\* block is lost while the producers and the consumer append, and the
\* destructor leaves no value behind.
THEOREM Storage == Spec => []StorageIsSound
<1>1. IInv => StorageIsSound
  <2>1. SUFFICES ASSUME IInv
                 PROVE  StorageIsSound
    OBVIOUS
  <2>2. TypeOK BY <2>1 DEF IInv
  <2>3. CASE cpc = "gone" /\ Destroyed
    BY <2>2, <2>3 DEF StorageIsSound, ListInOrder, NoBlockLost, DestructorLeavesNothing, Destroyed
  <2>4. ASSUME NEW cut \in Nat, Going(cut)
        PROVE  StorageIsSound
    <3>1. ListInOrder /\ NoBlockLost BY <2>4, InOrder, NoneLost
    <3>2. cpc # "gone" BY <2>4 DEF Going, Alive
    <3> QED BY <2>2, <3>1, <3>2 DEF StorageIsSound, DestructorLeavesNothing
  <2> QED BY <2>1, <2>3, <2>4, Alternatives
<1> QED BY <1>1, Invariance, PTL

\* The cursors of a call that is under way are on the list.
LEMMA CursorsOnList ==
  ASSUME NEW cut \in Nat, Going(cut), cpc \in Tidying, NEW p \in Producers
  PROVE  Cursors(p) \subseteq OnList
<1> USE DEF Going, Shape
<1>1. Search(p) /\ Place(p) /\ ppc[p] # "wake" BY CursorsAhead DEF Cursor
<1>2. CASE ppc[p] = "seek"
  <2>1. Cursors(p) = {observed[p], walk[p], pblock[p]} \ {Null} BY <1>2 DEF Cursors
  <2>2. {observed[p], walk[p]} \subseteq OnList /\ pblock[p] = Null BY <1>1, <1>2 DEF Search
  <2> QED BY <2>1, <2>2
<1>3. CASE ppc[p] = "reserve"
  <2>1. Cursors(p) = {observed[p], walk[p], pblock[p]} \ {Null} BY <1>3 DEF Cursors
  <2>2. {observed[p], walk[p]} \subseteq OnList /\ pblock[p] \in OnList BY <1>1, <1>3 DEF Search
  <2> QED BY <2>1, <2>2
<1>4. CASE ppc[p] \in {"write", "cross", "sentinel"}
  <2>1. Cursors(p) = {pblock[p]} BY <1>4 DEF Cursors
  <2>2. pblock[p] \in OnList BY <1>1, <1>4 DEF Place
  <2> QED BY <2>1, <2>2
<1>5. CASE ppc[p] \notin {"seek", "reserve", "write", "cross", "sentinel"}
  BY <1>1, <1>5 DEF Cursors
<1> QED BY <1>2, <1>3, <1>4, <1>5

\* When blocks are reset and moved to the tail, no producer gets to them, from
\* a head or from where a call under way has started.
THEOREM Reclamation == Spec => []ReclaimedIsUnreached
<1>1. IInv => ReclaimedIsUnreached
  <2>1. SUFFICES ASSUME IInv, cpc \in {"reset", "find_tail", "unlink", "relink"}
                 PROVE  \A b \in {write_block_hint, write_block} \cup UNION { Cursors(p) : p \in Producers } :
                            Unlinked \cap ReachableFrom(b) = {}
    BY DEF ReclaimedIsUnreached
  <2>2. PICK cut \in Nat : Going(cut) BY <2>1, Alternatives
  <2>3. cpc \in Tidying BY <2>1 DEF Tidying, Reclaiming
  <2>4. ASSUME NEW b \in OnList
        PROVE  Unlinked \cap ReachableFrom(b) = {}
    <3>1. ReachableFrom(b) \subseteq OnList BY <2>2, ReachedIsOnList
    <3> QED BY <3>1 DEF OnList
  <2>5. {write_block_hint, write_block} \subseteq OnList BY <2>2 DEF Going, Shape, Heads
  <2>6. UNION { Cursors(p) : p \in Producers } \subseteq OnList BY <2>2, <2>3, CursorsOnList
  <2> QED BY <2>4, <2>5, <2>6
<1> QED BY <1>1, Invariance, PTL

\* A block that starts no later is told as such.
LEMMA IsAtOrBefore ==
  ASSUME TypeOK, NEW b \in Block, NEW x \in Word, First(b) <= Pos(x), Pos(x) < Top
  PROVE  AtOrBefore(b, x)
<1>1. /\ Top \in Nat /\ 2 * Top < WordMod /\ Pos(x) \in Nat /\ First(b) \in Nat /\ offset[b] \in Word
      /\ WordMod \in Nat
  BY PosOfFirst, PosIs, Types, Sizes
<1>2. Plus(x, 1) \in Word /\ Pos(Plus(x, 1)) = Pos(x) + 1
  <2>1. Pos(x) + 1 < WordMod BY <1>1
  <2> QED BY <2>1, PosPlus
<1>3. PICK y \in Word : y = Plus(x, 1) BY <1>2
<1>4. CircularLess(offset[b], y) <=> Pos(offset[b]) < Pos(y)
  <2>1. 2 * Pos(offset[b]) < WordMod /\ 2 * Pos(y) < WordMod BY <1>1, <1>2, <1>3 DEF First
  <2> QED BY <1>1, <2>1, PosLess
<1>5. Pos(offset[b]) < Pos(y) BY <1>1, <1>2, <1>3 DEF First
<1> QED BY <1>3, <1>4, <1>5 DEF AtOrBefore

LEMMA SearchesStartRight ==
  ASSUME NEW cut \in Nat, Going(cut)
  PROVE  StartsAtOrBefore
<1> USE DEF Going, Shape
<1>1. ASSUME NEW p \in Producers, ppc[p] \in Starting
      PROVE  AtOrBefore(write_block, idx[p])
  <2>1. idx[p] \in Word /\ Begin(p) \in Nat /\ Turn <= Begin(p) /\ Begin(p) < Top
    BY <1>1, Searching
  <2>2. write_block \in Block /\ First(write_block) <= Turn
    <3>1. /\ write_block \in Block /\ First(write_block) <= First(read_block) /\ First(read_block) <= Turn
          /\ {First(write_block), First(read_block), Turn} \subseteq Nat
      BY HeadNumbers
    <3> QED BY <3>1
  <2>3. First(write_block) <= Pos(idx[p])
    <3>1. First(write_block) \in Nat /\ Turn \in Nat BY HeadNumbers
    <3> QED BY <2>1, <2>2, <3>1 DEF Begin
  <2> QED BY <2>1, <2>2, <2>3, IsAtOrBefore DEF Begin
<1>2. ASSUME NEW p \in Producers, ppc[p] = "seek"
      PROVE  AtOrBefore(observed[p], idx[p]) /\ AtOrBefore(walk[p], idx[p])
  <2>1. idx[p] \in Word /\ Begin(p) \in Nat /\ Begin(p) < Top BY <1>2, Searching
  <2>2. /\ {observed[p], walk[p]} \subseteq OnList
        /\ First(observed[p]) <= First(walk[p]) /\ First(walk[p]) <= Begin(p)
    BY <1>2 DEF Cursor, Search
  <2>3. /\ {observed[p], walk[p]} \subseteq Block /\ {First(observed[p]), First(walk[p])} \subseteq Nat
    BY <2>2, Types
  <2>4. First(observed[p]) <= Begin(p) BY <2>1, <2>2, <2>3
  <2> QED BY <2>1, <2>2, <2>3, <2>4, IsAtOrBefore DEF Begin
<1>3. AtOrBefore(read_block, read_offset)
  <2>1. read_block \in Block /\ First(read_block) <= Turn BY HeadNumbers
  <2>2. Turn < Top /\ read_offset \in Word
    <3>1. Turn <= cut /\ cut <= Skipped + MaxTicket BY DEF Cutoff
    <3>2. Turn \in Nat /\ read_offset \in Word /\ Skipped \in Nat /\ MaxTicket \in Nat
      BY Types, Origin, Sizes
    <3>3. Top = Skipped + MaxTicket + 1 BY PosOfFirst
    <3> QED BY <3>1, <3>2, <3>3
  <2> QED BY <2>1, <2>2, IsAtOrBefore DEF Turn
<1> QED BY <1>1, <1>2, <1>3, Zenon DEF StartsAtOrBefore, Starting

LEMMA PostsWriteClear ==
  ASSUME NEW cut \in Nat, Going(cut)
  PROVE  PostOverwritesNothing
<1> USE DEF Going, Shape
\* What is at a position of the list where nothing is published.
<1>1. ASSUME NEW b \in OnList, NEW x \in Word, First(b) = Base(Pos(x)), Turn <= Pos(x),
             ~Done(cut, Pos(x)), ~AtEnd(cut, Pos(x))
      PROVE  /\ offset[b] = StartOf(x) /\ flags[b][IndexOf(x)] \in {"empty", "cons"}
             /\ stored[b][IndexOf(x)] = NoValue
  <2>1. b \in Block BY Types
  <2>2. PICK i : i = IndexOf(x) OBVIOUS
  <2>3. i \in Index /\ First(b) + i = Pos(x) /\ offset[b] = StartOf(x)
    BY <1>1, <2>1, <2>2, ElementOf
  <2>4. CellOK(cut, Pos(x), flags[b][i], stored[b][i])
    <3>1. Turn \in Nat /\ Pos(x) \in Nat BY Types, PosIs
    <3>2. ~(First(b) + i < Turn) BY <1>1, <2>3, <3>1
    <3>3. CellOK(cut, First(b) + i, flags[b][i], stored[b][i]) BY <2>3, <3>2 DEF Cells
    <3> QED BY <2>3, <3>3
  <2>5. flags[b][i] \in {"empty", "cons"} /\ stored[b][i] = NoValue
    BY <1>1, <2>4 DEF CellOK, Mark
  <2> QED BY <2>2, <2>3, <2>5
<1>2. ASSUME NEW p \in Producers, ppc[p] = "write"
      PROVE  /\ offset[pblock[p]] = StartOf(WriteAt(p))
             /\ flags[pblock[p]][IndexOf(WriteAt(p))] \in {"empty", "cons"}
             /\ stored[pblock[p]][IndexOf(WriteAt(p))] = NoValue
  <2>1. count[p] > 0 BY <1>2, Doing
  <2>2. /\ Begin(p) + written[p] < Finish(p) /\ Finish(p) <= cut /\ Turn <= Begin(p) + written[p]
        /\ WriteAt(p) \in Word /\ Pos(WriteAt(p)) = Begin(p) + written[p]
        /\ pblock[p] \in OnList /\ First(pblock[p]) = Base(Begin(p) + written[p])
        /\ Begin(p) \in Nat /\ written[p] \in Nat /\ Finish(p) \in Nat
    BY <1>2, <2>1, Writer, Types
  <2>3. PICK b, x : b = pblock[p] /\ x = WriteAt(p) OBVIOUS
  <2>4. ~Done(cut, Pos(x))
    <3>1. Ahead(p) <= Pos(x) /\ Pos(x) < Finish(p) BY <1>2, <2>2, <2>3, Types
    <3> QED BY <3>1 DEF Done
  <2>5. ~AtEnd(cut, Pos(x)) BY <2>2, <2>3 DEF AtEnd
  <2>6. b \in OnList /\ x \in Word /\ First(b) = Base(Pos(x)) /\ Turn <= Pos(x) BY <2>2, <2>3
  <2> QED BY <1>1, <2>3, <2>4, <2>5, <2>6
<1>3. ASSUME NEW p \in Producers, ppc[p] = "sentinel"
      PROVE  /\ offset[pblock[p]] = StartOf(WriteAt(p))
             /\ flags[pblock[p]][IndexOf(WriteAt(p))] \in {"empty", "cons"}
             /\ stored[pblock[p]][IndexOf(WriteAt(p))] = NoValue
  <2>1. idx[p] \in Word /\ Begin(p) \in Nat /\ written[p] = 0 /\ count[p] = 0 /\ Begin(p) = cut
    <3>1. count[p] = 0 BY <1>3, Doing
    <3> QED BY <1>3, <3>1, Searching
  <2>2. PICK b, x : b = pblock[p] /\ x = WriteAt(p) OBVIOUS
  <2>3. x \in Word /\ Pos(x) = cut
    <3>1. Pos(idx[p]) + 0 < WordMod BY <2>1, PosIs, Sizes
    <3>2. Plus(idx[p], 0) \in Word /\ Pos(Plus(idx[p], 0)) = Pos(idx[p]) + 0
      BY <2>1, <3>1, PosPlus
    <3>3. Pos(idx[p]) + 0 = cut BY <2>1 DEF Begin
    <3> QED BY <2>1, <2>2, <3>2, <3>3 DEF WriteAt
  <2>4. b \in OnList /\ First(b) = Base(Pos(x))
    <3>1. pblock[p] \in OnList /\ First(pblock[p]) = Base(Begin(p) + written[p])
      BY <1>3 DEF Cursor, Place
    <3>2. Begin(p) + written[p] = Pos(x) BY <2>1, <2>3
    <3> QED BY <2>2, <3>1, <3>2
  <2>5. ~Done(cut, Pos(x)) BY <2>3 DEF Done
  <2>6. ~AtEnd(cut, Pos(x)) BY <1>3, <2>1 DEF AtEnd, Placed, Placing
  <2>7. Turn <= Pos(x) BY <2>3 DEF Cutoff
  <2> QED BY <1>1, <2>2, <2>3, <2>4, <2>5, <2>6, <2>7
<1>4. ASSUME NEW p \in Producers, ppc[p] = "cross"
      PROVE  next[pblock[p]] # Null
  <2>1. count[p] > 0 /\ PostOK(cut, p) BY <1>4, Doing
  <2>2. PICK b : b = pblock[p] OBVIOUS
  <2>3. b \in OnList /\ First(b) + BlockSize = Begin(p) + written[p] /\ Reaches(Finish(p) - 1)
    BY <1>4, <2>1, <2>2 DEF Cursor, Place, Writing
  <2>4. PICK d \in OnList : Finish(p) - 1 < First(d) + BlockSize BY <2>3 DEF Reaches
  <2>5. First(b) < First(d)
    <3>1. /\ First(b) \in Nat /\ First(d) \in Nat /\ BlockSize \in Nat /\ Begin(p) \in Nat /\ written[p] \in Nat
          /\ count[p] \in Nat /\ Finish(p) = Begin(p) + count[p]
      BY <2>3, Types, Sizes
    <3>2. written[p] < count[p] BY <2>1 DEF PostOK
    <3> QED BY <2>3, <2>4, <3>1, <3>2
  <2>6. First(b) \in Nat /\ First(d) \in Nat BY <2>3, Types
  <2> QED BY <2>2, <2>3, <2>5, <2>6 DEF Linked
<1> QED BY <1>2, <1>3, <1>4, Zenon DEF PostOverwritesNothing

\* A post gets to the element of its ticket, from the hint or from write_block,
\* and finds it clear; neither a stale hint nor a recycled block misleads it.
THEOREM WriteSafety == Spec => []WritesAreSafe
<1>1. IInv => WritesAreSafe
  <2>1. SUFFICES ASSUME IInv
                 PROVE  WritesAreSafe
    OBVIOUS
  <2>2. CASE cpc = "gone" /\ Destroyed
    <3>1. \A p \in Producers : ppc[p] = "gone" BY <2>2 DEF Destroyed
    <3> QED BY <2>2, <3>1 DEF WritesAreSafe, StartsAtOrBefore, PostOverwritesNothing
  <2>3. ASSUME NEW cut \in Nat, Going(cut)
        PROVE  WritesAreSafe
    BY <2>3, SearchesStartRight, PostsWriteClear DEF WritesAreSafe
  <2> QED BY <2>1, <2>2, <2>3, Alternatives
<1> QED BY <1>1, Invariance, PTL

LEMMA DeliversInOrder ==
  ASSUME NEW cut \in Nat, Going(cut)
  PROVE  FifoDelivery
<1> USE DEF Going, Shape
<1> SUFFICES ASSUME cpc = "holding"
             PROVE  /\ stored[rblock][IndexOf(read_offset)] = taken + 1
                    /\ taken < Tickets
                    /\ closed_ready => read_offset # write_closed_at
  BY DEF FifoDelivery
<1>1. /\ {Turn, Sold, Skipped} \subseteq Nat /\ write_offset \in Word
      /\ Turn <= cut /\ cut <= Sold /\ Skipped <= Turn /\ taken = Turn - Skipped
      /\ closed_ready => cut = Pos(write_closed_at)
  BY Types, Origin DEF Cutoff
<1>2. Done(cut, Turn) /\ Turn < cut BY DEF Rousing, Done
<1>3. rblock \in OnList /\ First(rblock) = Base(Turn) BY DEF Heads, AtElement
<1>4. stored[rblock][IndexOf(read_offset)] = Turn - Skipped + 1
  <2>1. CellOK(cut, Turn, ReadFlag, stored[rblock][IndexOf(read_offset)]) BY <1>3, NextElement
  <2> QED BY <1>2, <2>1 DEF CellOK
<1>5. Tickets = Sold - Skipped
  <2>1. Skipped <= Pos(write_offset) BY <1>1 DEF Sold
  <2> QED BY <1>1, <2>1, Count DEF Tickets, Sold
<1>6. closed_ready => read_offset # write_closed_at BY <1>1, <1>2 DEF Turn
<1> QED BY <1>1, <1>2, <1>4, <1>5, <1>6

LEMMA ClosedIsDrained ==
  ASSUME NEW cut \in Nat, Going(cut)
  PROVE  ClosedMeansDrained
<1> USE DEF Going, Shape
<1> SUFFICES ASSUME outcome = "CLOSED"
             PROVE  /\ closed_ready /\ read_offset = write_closed_at
                    /\ \A p \in Producers : ppc[p] \notin {"idle", "gone"} /\ ~Closing(p) =>
                          ~CircularLess(idx[p], write_closed_at)
  BY DEF ClosedMeansDrained
<1>1. Turn = cut /\ closed_ready BY DEF Rousing, AtEnd, Placed
<1>2. Pos(write_closed_at) = cut /\ write_closed_at \in Word /\ read_offset \in Word
  BY <1>1, Types DEF Cutoff
<1>3. read_offset = write_closed_at BY <1>1, <1>2, PosTells DEF Turn
<1>4. ASSUME NEW p \in Producers, count[p] # 0
      PROVE  ~CircularLess(idx[p], write_closed_at)
  <2>1. /\ count[p] \in Nat /\ written[p] \in Nat /\ idx[p] \in Word
        /\ Begin(p) \in Nat /\ Finish(p) = Begin(p) + count[p]
        /\ ppc[p] = "wake" => Ahead(p) = Begin(p) + written[p] + 1
        /\ ppc[p] # "wake" => Ahead(p) = Begin(p) + written[p]
    BY Types
  <2>2. count[p] > 0 /\ PostOK(cut, p) BY <1>4, <2>1, Doing
  <2>3. /\ written[p] < count[p] /\ (Finish(p) <= cut \/ cut < Begin(p))
        /\ Ahead(p) < Finish(p) => Turn <= Ahead(p)
    BY <2>2 DEF PostOK
  <2>4. ~(Finish(p) <= cut)
    <3>1. SUFFICES ASSUME Finish(p) <= cut
                   PROVE  FALSE
      OBVIOUS
    <3>2. Begin(p) + written[p] < Finish(p) BY <2>1, <2>2 DEF PostOK
    <3>3. CASE ppc[p] = "wake"
      <4>1. Begin(p) + written[p] = Turn BY <2>2, <3>3 DEF Rousing
      <4> QED BY <1>1, <2>1, <3>1, <3>2, <4>1
    <3>4. CASE ppc[p] # "wake" BY <1>1, <2>1, <2>3, <3>1, <3>2, <3>4
    <3> QED BY <3>3, <3>4
  <2>5. cut < Begin(p) BY <2>2, <2>4 DEF PostOK
  <2>6. 2 * Begin(p) < WordMod /\ 2 * cut < WordMod
    <3>1. Begin(p) < Finish(p) /\ Finish(p) <= Sold /\ 2 * Sold < WordMod /\ 2 * cut < WordMod
      BY <2>2, Bounds
    <3>2. Sold \in Nat /\ Finish(p) \in Nat /\ WordMod \in Nat BY Types, Sizes
    <3> QED BY <2>1, <3>1, <3>2
  <2>7. CircularLess(idx[p], write_closed_at) <=> Pos(idx[p]) < Pos(write_closed_at)
    BY <1>2, <2>1, <2>6, PosLess DEF Begin
  <2> QED BY <1>2, <2>1, <2>5, <2>7 DEF Begin
<1> QED BY <1>1, <1>3, <1>4 DEF Closing

\* What the consumer is told is right: values come out in the order of their
\* tickets, each once and none left out, and CLOSED is told when no more will
\* come.
THEOREM Delivery == Spec => []DeliversRight
<1>1. IInv => DeliversRight
  <2>1. SUFFICES ASSUME IInv
                 PROVE  DeliversRight
    OBVIOUS
  <2>2. CASE cpc = "gone" /\ Destroyed
    BY <2>2 DEF DeliversRight, FifoDelivery, ClosedMeansDrained, Destroyed
  <2>3. ASSUME NEW cut \in Nat, Going(cut)
        PROVE  DeliversRight
    BY <2>3, DeliversInOrder, ClosedIsDrained DEF DeliversRight
  <2> QED BY <2>1, <2>2, <2>3, Alternatives
<1> QED BY <1>1, Invariance, PTL

\* Who the consumer waits for, when it sleeps.
LEMMA AwaitsOwner ==
  ASSUME NEW cut \in Nat, Going(cut), ~Done(cut, Turn), ~AtEnd(cut, Turn)
  PROVE  read_offset = write_offset \/ \E p \in Producers : Owner(p)
<1> USE DEF Going, Shape
<1>1. /\ {Turn, Sold} \subseteq Nat /\ Turn <= cut /\ cut <= Sold
      /\ read_offset \in Word /\ write_offset \in Word
  BY Types DEF Cutoff
\* The owner of a ticket that stands for the consumer's position.
<1>2. ASSUME NEW p \in Producers, NEW k \in Nat, idx[p] \in Word, Begin(p) + k = Turn,
             written[p] <= k, k <= (IF count[p] = 0 THEN 0 ELSE count[p] - 1),
             count[p] \in Nat, written[p] \in Nat,
             ppc[p] \notin {"idle", "draw_cutoff", "gone"}
      PROVE  Owner(p)
  <2>1. Plus(idx[p], k) \in Word /\ Pos(Plus(idx[p], k)) = Turn
    <3>1. Pos(idx[p]) + k < WordMod BY <1>1, <1>2, PosIs DEF Begin, Turn
    <3> QED BY <1>2, <3>1, PosPlus DEF Begin
  <2>2. Plus(idx[p], k) = read_offset BY <1>1, <2>1, PosTells DEF Turn
  <2>3. k \in written[p] .. (IF Closing(p) THEN 0 ELSE count[p] - 1) BY <1>2 DEF Closing
  <2> QED BY <1>2, <2>2, <2>3 DEF Owner
\* The closer owns the cutoff.
<1>3. ASSUME NEW p \in Producers, Turn = cut, count[p] = 0, ppc[p] \in Placing \cup {"set_cutoff"}
      PROVE  Owner(p)
  <2>1. ppc[p] \notin {"idle", "draw_cutoff", "gone"} BY <1>3 DEF Placing, Starting
  <2>2. Begin(p) = cut /\ written[p] = 0 BY <1>3, <2>1, Doing
  <2>3. idx[p] \in Word /\ Begin(p) \in Nat BY Types
  <2>4. Begin(p) + 0 = Turn /\ 0 \in Nat BY <1>3, <2>2, <2>3
  <2> QED BY <1>2, <1>3, <2>1, <2>2, <2>3, <2>4
<1>4. CASE Turn < cut
  <2>1. PICK p \in Producers : Ahead(p) <= Turn /\ Turn < Finish(p) BY <1>4 DEF Done
  <2>2. /\ idx[p] \in Word /\ count[p] \in Nat /\ written[p] \in Nat
        /\ Begin(p) \in Nat /\ Finish(p) = Begin(p) + count[p]
        /\ Ahead(p) \in Nat /\ Begin(p) + written[p] <= Ahead(p)
    <3>1. /\ idx[p] \in Word /\ count[p] \in Nat /\ written[p] \in Nat
          /\ Begin(p) \in Nat /\ Finish(p) = Begin(p) + count[p] /\ Ahead(p) \in Nat
      BY Types
    <3>2. CASE ppc[p] = "wake"
      <4>1. Ahead(p) = Begin(p) + written[p] + 1 BY <3>2, Types
      <4> QED BY <3>1, <4>1
    <3>3. CASE ppc[p] # "wake"
      <4>1. Ahead(p) = Begin(p) + written[p] BY <3>3, Types
      <4> QED BY <3>1, <4>1
    <3> QED BY <3>2, <3>3
  <2>3. count[p] > 0 BY <1>1, <2>1, <2>2
  <2>4. ppc[p] \notin {"idle", "draw_cutoff", "gone"}
    <3>1. ppc[p] \in Posting BY <2>3 DEF Posts, PostOK
    <3> QED BY <3>1 DEF Posting, Stopping, Starting, Writing
  <2>5. PICK k \in Nat : k = Turn - Begin(p)
    <3>1. Begin(p) <= Turn BY <1>1, <2>1, <2>2
    <3> QED BY <1>1, <2>2, <3>1
  <2>6. Begin(p) + k = Turn /\ written[p] <= k /\ k <= count[p] - 1 BY <1>1, <2>1, <2>2, <2>5
  <2> QED BY <1>2, <2>2, <2>3, <2>4, <2>6
<1>5. CASE Turn = cut
  <2>1. ~Placed BY <1>5 DEF AtEnd
  <2>2. CASE closed_ready
    <3>1. PICK p \in Producers : count[p] = 0 /\ ppc[p] \in Placing BY <2>1, <2>2 DEF Placed
    <3> QED BY <1>3, <1>5, <3>1
  <2>3. CASE ~closed_ready
    <3>1. CASE cut = Sold BY <1>1, <1>5, <3>1, PosTells DEF Turn, Sold
    <3>2. ASSUME NEW p \in Producers, ppc[p] = "set_cutoff"
          PROVE  Owner(p)
      <4>1. count[p] = 0 BY <3>2, Doing DEF Drawing
      <4> QED BY <1>3, <1>5, <3>2, <4>1
    <3> QED BY <2>3, <3>1, <3>2 DEF Cutoff
  <2> QED BY <2>2, <2>3
<1> QED BY <1>1, <1>4, <1>5

LEMMA ConsumerIsKnown ==
  ASSUME NEW cut \in Nat, Going(cut)
  PROVE  NoConsumerForgotten
<1> USE DEF Going, Shape
<1>1. ASSUME cpc = "parked"
      PROVE  CellOK(cut, Turn, ReadFlag, stored[rblock][IndexOf(read_offset)])
  <2>1. rblock \in OnList /\ First(rblock) = Base(Turn) BY <1>1 DEF Heads, AtElement
  <2> QED BY <2>1, NextElement
<1>2. \A p, q \in Producers : ppc[p] = "wake" /\ ppc[q] = "wake" => p = q BY DEF Rousing
<1>3. ASSUME NEW p \in Producers, ppc[p] = "wake"
      PROVE  cpc = "parked" /\ ReadFlag # "cons"
  <2>1. cpc = "parked" /\ ~Asleep BY <1>3 DEF Rousing, Asleep
  <2>2. Done(cut, Turn) \/ AtEnd(cut, Turn) BY <2>1, Zenon DEF Rousing
  <2>3. ReadFlag # "cons" BY <1>1, <2>1, <2>2 DEF CellOK, Mark
  <2> QED BY <2>1, <2>3
<1>4. ASSUME cpc = "parked", \A p \in Producers : ppc[p] # "wake"
      PROVE  ReadFlag = "cons" /\ (read_offset = write_offset \/ \E p \in Producers : Owner(p))
  <2>1. Asleep /\ ~Done(cut, Turn) /\ ~AtEnd(cut, Turn) BY <1>4 DEF Rousing, Asleep
  <2>2. ReadFlag = "cons" BY <1>1, <1>4, <2>1 DEF CellOK, Mark
  <2> QED BY <2>1, <2>2, AwaitsOwner
<1> QED
  <2>1. PICK wakers : wakers = { p \in Producers : ppc[p] = "wake" } OBVIOUS
  <2>2. \A p, q \in wakers : p = q BY <1>2, <2>1
  <2>3. wakers # {} => cpc = "parked" /\ ReadFlag # "cons" BY <1>3, <2>1
  <2>4. wakers = {} => \A p \in Producers : ppc[p] # "wake" BY <2>1
  <2> QED BY <1>4, <2>1, <2>2, <2>3, <2>4 DEF NoConsumerForgotten

\* A suspended consumer waits for a ticket that is not drawn yet or whose owner
\* is on its way, or one caller alone is about to resume it.
THEOREM Wakeup == Spec => []NoConsumerForgotten
<1>1. IInv => NoConsumerForgotten
  <2>1. SUFFICES ASSUME IInv
                 PROVE  NoConsumerForgotten
    OBVIOUS
  <2>2. CASE cpc = "gone" /\ Destroyed
    <3>1. { p \in Producers : ppc[p] = "wake" } = {} BY <2>2 DEF Destroyed
    <3> QED BY <2>2, <3>1 DEF NoConsumerForgotten
  <2>3. ASSUME NEW cut \in Nat, Going(cut)
        PROVE  NoConsumerForgotten
    BY <2>3, ConsumerIsKnown
  <2> QED BY <2>1, <2>2, <2>3, Alternatives
<1> QED BY <1>1, Invariance, PTL

\* The MPSC list of blocks implements the abstract queue, for any number
\* of producers and any size of blocks, words and bulks.  The queue is
\* what has been published from the consumer's ticket up to the first one
\* that is still out: the edge, that only a write to its element moves.
\* What is found by its offset
\* The blocks that the abstraction searches, and the words that it looks for.
LEMMA LookedFor ==
  ASSUME NEW cut \in Nat, Going(cut), NEW k \in Nat, k <= MaxTicket + 1,
         NEW m \in Nat, m = Turn + k
  PROVE  /\ Turn \in Nat /\ Turn <= m
         /\ IndexOf(Plus(read_offset, k)) = m - Base(m) /\ IndexOf(Plus(read_offset, k)) \in Index
         /\ ReachableFrom(head_block) = { b \in OnList : First(head_block) <= First(b) }
         /\ \A b \in OnList : offset[b] = StartOf(Plus(read_offset, k)) <=> First(b) = Base(m)
         /\ \A b \in OnList : b \in Block /\ First(b) \in Nat
<1>1. /\ TypeOK /\ Turn \in Nat /\ Turn <= Skipped + MaxTicket /\ 2 * Top < WordMod
      /\ Top = Skipped + MaxTicket + 1 /\ read_offset \in Word /\ {Skipped, MaxTicket, WordMod, cut} \subseteq Nat
      /\ Linked /\ Heads
  BY Types, Sizes, Origin, PosOfFirst DEF Going, Shape, Cutoff
<1>2. m < WordMod /\ Turn <= m BY <1>1
<1>3. PICK x \in Word : x = Plus(read_offset, k) /\ Pos(x) = m BY <1>1, <1>2, PosPlus DEF Turn
<1>4. IndexOf(x) = m - Base(m) /\ IndexOf(x) \in Index /\ StartOf(x) \in Word /\ Pos(StartOf(x)) = Base(m)
  BY <1>3, PlaceOf
<1>5. \A b \in OnList : b \in Block /\ First(b) \in Nat /\ offset[b] \in Word BY <1>1, Types
<1>6. \A b \in OnList : offset[b] = StartOf(x) <=> First(b) = Base(m)
  BY <1>4, <1>5, PosTells DEF First
<1>7. ReachableFrom(head_block) = { b \in OnList : First(head_block) <= First(b) }
  BY <1>1, ReachedIsOnList DEF Linked
<1> QED BY <1>1, <1>2, <1>3, <1>4, <1>5, <1>6, <1>7

\* The block of a published value is found, and there is no other.
LEMMA Found ==
  ASSUME NEW cut \in Nat, Going(cut), NEW m \in Nat, Turn <= m, Done(cut, m)
  PROVE  \E b \in OnList : First(b) = Base(m) /\ First(head_block) <= First(b)
<1>1. /\ TypeOK /\ Linked /\ head_block \in OnList /\ Reaches(m)
  BY DEF Going, Shape, Linked, Cells
<1>2. /\ Turn \in Nat /\ First(head_block) \in Nat /\ First(head_block) \in Starts
      /\ First(head_block) <= Turn
  <2>1. /\ {First(head_block), First(write_block), First(read_block), Turn} \subseteq Nat
        /\ {head_block, write_block, read_block} \subseteq OnList
    BY <1>1, Types DEF Going, Shape, Heads
  <2>2. First(head_block) <= First(write_block) /\ First(write_block) <= First(read_block)
        /\ (First(read_block) < Turn \/ First(read_block) = 0)
    BY DEF Going, Shape, Heads
  <2> QED BY <1>1, <2>1, <2>2 DEF Linked
<1>3. PICK b \in OnList : First(b) = Base(m)
  <2>1. First(head_block) <= m BY <1>2
  <2> QED BY <1>1, <2>1, HasBlock
<1>4. First(head_block) <= Base(m) BY <1>2, BaseOf
<1> QED BY <1>3, <1>4

\* What the abstraction takes for a value that waits is one that is published.
LEMMA WaitingIsDone ==
  ASSUME NEW cut \in Nat, Going(cut), NEW k \in Nat, k <= MaxTicket + 1,
         cpc = "holding" => k > 0, NEW m \in Nat, m = Turn + k
  PROVE  Waiting(Plus(read_offset, k)) <=> Done(cut, m)
<1>1. PICK i \in Index : i = IndexOf(Plus(read_offset, k)) /\ i = m - Base(m) BY LookedFor
<1>2. /\ Turn \in Nat /\ Turn <= m /\ Base(m) \in Nat /\ Base(m) + i = m
      /\ ReachableFrom(head_block) = { b \in OnList : First(head_block) <= First(b) }
      /\ \A b \in OnList : offset[b] = StartOf(Plus(read_offset, k)) <=> First(b) = Base(m)
  BY <1>1, LookedFor, BaseOf
<1>3. ASSUME NEW b \in OnList, First(b) = Base(m)
      PROVE  flags[b][i] = "data" <=> Done(cut, m)
  <2>1. CellOK(cut, m, flags[b][i], stored[b][i]) BY <1>1, <1>2, <1>3 DEF Going, Shape, Cells
  <2>2. Done(cut, m) => flags[b][i] = "data" BY <2>1, <1>2 DEF CellOK
  <2>3. Mark(cut, m) # "data" BY DEF Mark
  <2> QED BY <2>1, <2>2, <2>3 DEF CellOK
<1>4. Done(cut, m) => \E b \in OnList : First(b) = Base(m) /\ First(head_block) <= First(b)
  BY <1>2, Found
<1> QED BY <1>1, <1>2, <1>3, <1>4 DEF Waiting

\* And the value that is found is that of the ticket.
LEMMA StoredIsNext ==
  ASSUME NEW cut \in Nat, Going(cut), NEW k \in Nat, k <= MaxTicket + 1,
         NEW m \in Nat, m = Turn + k, Done(cut, m)
  PROVE  StoredAt(k) = m - Skipped + 1
<1>1. PICK i \in Index : i = IndexOf(Plus(read_offset, k)) /\ i = m - Base(m) BY LookedFor
<1>2. /\ Turn \in Nat /\ Turn <= m /\ Base(m) \in Nat /\ Base(m) + i = m
      /\ ReachableFrom(head_block) = { b \in OnList : First(head_block) <= First(b) }
      /\ \A b \in OnList : offset[b] = StartOf(Plus(read_offset, k)) <=> First(b) = Base(m)
  BY <1>1, LookedFor, BaseOf
<1>3. PICK b \in OnList : First(b) = Base(m) /\ First(head_block) <= First(b) BY <1>2, Found
<1>4. \A c \in OnList : First(c) = Base(m) => c = b BY <1>3 DEF Going, Shape, Linked
<1>5. (CHOOSE c \in ReachableFrom(head_block) : offset[c] = StartOf(Plus(read_offset, k))) = b
  BY <1>2, <1>3, <1>4
<1>6. StoredAt(k) = stored[b][i] BY <1>1, <1>5 DEF StoredAt
<1>7. CellOK(cut, m, flags[b][i], stored[b][i]) BY <1>1, <1>2, <1>3 DEF Going, Shape, Cells
<1> QED BY <1>6, <1>7 DEF CellOK

\* The abstract state
\* How many values came before the first one of the queue.
Before == taken + InHand

\* The first value that is not published is the one after n others.
Edge(cut, n) ==
    /\ Before <= n
    /\ \A k \in Nat : Before <= k /\ k < n => Done(cut, Skipped + k)
    /\ ~Done(cut, Skipped + n)

Reflects(cut, n) ==
    /\ taken \in Nat /\ InHand \in {0, 1} /\ n <= MaxTicket
    /\ Edge(cut, n)
    /\ Queue = Run(Before, n - Before)
    /\ Held = IF cpc = "holding" THEN <<taken + 1>> ELSE <<>>
    /\ Told => closed /\ Before = n

LEMMA HasEdge ==
  ASSUME NEW cut \in Nat, Going(cut)
  PROVE  /\ {Skipped, Turn, MaxTicket, taken} \subseteq Nat /\ Turn = Skipped + taken /\ InHand \in {0, 1}
         /\ cpc = "holding" => Done(cut, Turn)
         /\ \E n \in Nat : Edge(cut, n) /\ n <= MaxTicket
<1>1. /\ {Skipped, Turn, MaxTicket, taken} \subseteq Nat /\ Turn = Skipped + taken /\ Turn <= cut
      /\ cut <= Skipped + MaxTicket
  <2>1. {Skipped, Turn, MaxTicket} \subseteq Nat BY Types, Sizes, Origin DEF Going
  <2>2. Skipped <= Turn /\ taken = Turn - Skipped /\ Turn <= cut /\ cut <= Skipped + MaxTicket
    BY DEF Going, Shape, Cutoff
  <2> QED BY <2>1, <2>2
<1>2. cpc = "holding" => Done(cut, Turn) BY DEF Going, Shape, Rousing
<1>3. InHand \in {0, 1} /\ Skipped + Before <= cut /\ Before \in Nat
  BY <1>1, <1>2 DEF InHand, Before, Done
<1> DEFINE T == { k \in Nat : Before <= k /\ ~Done(cut, Skipped + k) }
<1>4. PICK c \in Nat : c = cut - Skipped BY <1>1
<1>5. c \in T /\ c <= MaxTicket BY <1>1, <1>3, <1>4 DEF Done
<1>6. PICK n \in T : \A k \in T : n <= k BY <1>5, LeastOf
<1>7. Edge(cut, n) /\ n <= MaxTicket /\ n \in Nat
  <2>1. ASSUME NEW k \in Nat, Before <= k, k < n
        PROVE  Done(cut, Skipped + k)
    BY <1>6, <2>1
  <2> QED BY <1>1, <1>4, <1>5, <1>6, <2>1 DEF Edge
<1> QED BY <1>1, <1>2, <1>3, <1>7

\* The abstraction counts up to the edge.
LEMMA LengthIs ==
  ASSUME NEW cut \in Nat, Going(cut), NEW n \in Nat, Edge(cut, n), n <= MaxTicket
  PROVE  Before \in Nat /\ n - Before \in Nat /\ Length = n - Before
<1>1. /\ {Skipped, Turn, MaxTicket, taken} \subseteq Nat /\ Turn = Skipped + taken /\ InHand \in {0, 1}
  BY HasEdge
<1>2. Before \in Nat /\ Before = taken + InHand /\ Before <= n BY <1>1 DEF Before, Edge
<1>3. PICK len \in Nat : len = n - Before BY <1>2
<1>4. len <= MaxTicket BY <1>1, <1>2, <1>3
<1>5. ASSUME NEW k \in 0 .. len
      PROVE  Waiting(Plus(read_offset, k + InHand)) <=> Done(cut, Skipped + (Before + k))
  <2>1. PICK m \in Nat : m = Turn + (k + InHand) BY <1>1
  <2>2. k + InHand \in Nat /\ k + InHand <= MaxTicket + 1 BY <1>1, <1>4
  <2>3. cpc = "holding" => k + InHand > 0 BY DEF InHand
  <2>4. m = Skipped + (Before + k) BY <1>1, <1>2, <2>1
  <2> QED BY <2>1, <2>2, <2>3, <2>4, WaitingIsDone
<1>6. ASSUME NEW k \in 0 .. len
      PROVE  Waiting(Plus(read_offset, k + InHand)) <=> k # len
  <2>1. CASE k = len
    <3>1. Before + k = n BY <1>2, <1>3, <2>1
    <3> QED BY <1>5, <2>1, <3>1 DEF Edge
  <2>2. CASE k # len
    <3>1. Before + k \in Nat /\ Before <= Before + k /\ Before + k < n BY <1>2, <1>3, <2>2
    <3> QED BY <1>5, <2>2, <3>1 DEF Edge
  <2> QED BY <2>1, <2>2
<1>7. Visible = 0 .. len
  <2>1. ASSUME NEW j \in 0 .. MaxTicket, \A k \in 0 .. j - 1 : Waiting(Plus(read_offset, k + InHand))
        PROVE  j <= len
    <3>1. ~(len \in 0 .. j - 1) BY <1>3, <1>6, <2>1
    <3> QED BY <1>3, <3>1
  <2>2. ASSUME NEW j \in 0 .. len
        PROVE  j \in 0 .. MaxTicket /\ \A k \in 0 .. j - 1 : Waiting(Plus(read_offset, k + InHand))
    <3>1. \A k \in 0 .. j - 1 : k \in 0 .. len /\ k # len BY <1>3
    <3> QED BY <1>1, <1>4, <1>6, <3>1
  <2> QED BY <1>1, <2>1, <2>2 DEF Visible
<1>8. Length = len
  <2>1. len \in 0 .. len /\ \A j \in 0 .. len : j <= len BY <1>3
  <2>2. \A j \in 0 .. len : (\A i \in 0 .. len : i <= j) => j = len BY <1>3
  <2> QED BY <1>7, <2>1, <2>2 DEF Length
<1> QED BY <1>2, <1>3, <1>8

\* The abstract state is the run up to the edge.
LEMMA StateAbstracts ==
  ASSUME NEW cut \in Nat, Going(cut)
  PROVE  \E n \in Nat : Reflects(cut, n)
<1>1. PICK n \in Nat : Edge(cut, n) /\ n <= MaxTicket BY HasEdge
<1>2. /\ {Skipped, Turn, MaxTicket, taken} \subseteq Nat /\ Turn = Skipped + taken /\ InHand \in {0, 1}
      /\ cpc = "holding" => Done(cut, Turn)
  BY HasEdge
<1>3. Before \in Nat /\ Before = taken + InHand /\ Before <= n /\ n - Before \in Nat /\ Length = n - Before
  BY <1>1, LengthIs DEF Before, Edge
<1>4. ASSUME NEW j \in Nat, taken + j < n, j = 0 => cpc = "holding" \/ Before = taken
      PROVE  StoredAt(j) = taken + j + 1
  <2>1. PICK m \in Nat : m = Turn + j BY <1>2
  <2>2. j <= MaxTicket + 1 BY <1>1, <1>2, <1>4
  <2>3. Done(cut, m)
    <3>1. CASE Before <= taken + j
      <4>1. taken + j \in Nat /\ m = Skipped + (taken + j) BY <1>2, <2>1
      <4> QED BY <1>1, <1>4, <3>1, <4>1 DEF Edge
    <3>2. CASE ~(Before <= taken + j)
      <4>1. j = 0 /\ InHand = 1 /\ m = Turn BY <1>2, <1>3, <2>1, <3>2
      <4> QED BY <1>2, <4>1 DEF InHand
    <3> QED BY <3>1, <3>2
  <2>4. StoredAt(j) = m - Skipped + 1 BY <2>1, <2>2, <2>3, StoredIsNext
  <2> QED BY <1>2, <2>1, <2>4
<1>5. Queue = Run(Before, n - Before)
  <2>1. cpc # "gone" BY DEF Going, Alive
  <2>2. ASSUME NEW k \in 1 .. n - Before
        PROVE  StoredAt(k - 1 + InHand) = Before + k
    <3>1. k - 1 + InHand \in Nat /\ taken + (k - 1 + InHand) < n BY <1>2, <1>3
    <3>2. k - 1 + InHand = 0 => Before = taken BY <1>2, <1>3
    <3>3. StoredAt(k - 1 + InHand) = taken + (k - 1 + InHand) + 1 BY <1>4, <3>1, <3>2
    <3> QED BY <1>2, <1>3, <3>3
  <2>3. Queue = [k \in 1 .. n - Before |-> StoredAt(k - 1 + InHand)] BY <1>3, <2>1 DEF Queue
  <2> QED BY <2>2, <2>3 DEF Run
<1>6. Held = IF cpc = "holding" THEN <<taken + 1>> ELSE <<>>
  <2>1. ASSUME cpc = "holding" PROVE StoredAt(0) = taken + 1
    <3>1. 0 \in Nat /\ taken + 0 < n /\ taken + 0 + 1 = taken + 1 BY <1>2, <1>3, <2>1 DEF InHand
    <3> QED BY <1>4, <2>1, <3>1
  <2> QED BY <2>1 DEF Held
<1>7. Told => closed /\ Before = n
  <2>1. SUFFICES ASSUME Told
                 PROVE  closed /\ Before = n
    OBVIOUS
  <2>2. Turn = cut /\ closed_ready BY <2>1 DEF Told, Going, Shape, Rousing, AtEnd, Placed
  <2>3. ~Done(cut, Turn) /\ closed BY <1>2, <2>2 DEF Done, Going, Shape, Cutoff
  <2>4. Before = taken BY <1>2, <1>3, <2>3 DEF InHand
  <2>5. ~(Before < n) BY <1>1, <1>2, <2>3, <2>4 DEF Edge
  <2> QED BY <1>3, <2>3, <2>5
<1> QED BY <1>1, <1>2, <1>5, <1>6, <1>7 DEF Reflects

\* What a step publishes
\* Nothing, or no less than before.
Same(cut, cut2) == \A m \in Nat : Done(cut2, m)' <=> Done(cut, m)
More(cut, cut2) == \A m \in Nat : Done(cut, m) => Done(cut2, m)'

\* Nothing below the cutoff changes hands.
LEMMA SameWhen ==
  ASSUME NEW cut \in Nat, NEW p \in Producers,
         \A q \in Producers : q # p =>
            ppc'[q] = ppc[q] /\ idx'[q] = idx[q] /\ count'[q] = count[q] /\ written'[q] = written[q],
         \A m \in Nat : m < cut =>
            ((Ahead(p)' <= m /\ m < Finish(p)') <=> (Ahead(p) <= m /\ m < Finish(p)))
  PROVE  Same(cut, cut)
<1>1. \A q \in Producers : q # p => Ahead(q)' = Ahead(q) /\ Finish(q)' = Finish(q)
  BY DEF Ahead, Finish, Begin
<1>2. ASSUME NEW m \in Nat
      PROVE  Done(cut, m)' <=> Done(cut, m)
  <2>1. CASE m < cut
    <3>1. \A q \in Producers : (Ahead(q)' <= m /\ m < Finish(q)') <=> (Ahead(q) <= m /\ m < Finish(q))
      BY <1>1, <2>1
    <3> QED BY <3>1, Zenon DEF Done
  <2>2. CASE ~(m < cut) BY <2>2 DEF Done
  <2> QED BY <2>1, <2>2
<1> QED BY <1>2 DEF Same

\* The call goes on with the same tickets.
LEMMA SameTickets ==
  ASSUME TypeOK, NEW cut \in Nat, NEW p \in Producers, NEW s, ppc' = [ppc EXCEPT ![p] = s],
         ppc[p] # "wake", s # "wake", UNCHANGED <<idx, count, written>>
  PROVE  Same(cut, cut)
<1>1. ppc'[p] = s /\ \A q \in Producers : q # p => ppc'[q] = ppc[q] BY GoesTo
<1>2. Ahead(p)' = Ahead(p) /\ Finish(p)' = Finish(p) BY <1>1 DEF Ahead, Finish, Begin
<1> QED BY <1>1, <1>2, SameWhen

\* The call ends, with every ticket of it published or after the cutoff.
LEMMA SameAtReturn ==
  ASSUME TypeOK, NEW cut \in Nat, NEW p \in Producers, Return(p),
         Finish(p) <= Ahead(p) \/ cut <= Ahead(p)
  PROVE  Same(cut, cut)
<1>1. /\ ppc'[p] = "idle" /\ idx'[p] = 0 /\ count'[p] = 0 /\ written'[p] = 0
      /\ \A q \in Producers : q # p =>
            ppc'[q] = ppc[q] /\ idx'[q] = idx[q] /\ count'[q] = count[q] /\ written'[q] = written[q]
  BY Returns
<1>2. Pos(0) \in Nat BY PosIs, Sizes DEF Word
<1>3. Ahead(p)' = Pos(0) + 0 + 0 /\ Finish(p)' = Pos(0) + 0 BY <1>1 DEF Ahead, Finish, Begin
<1>4. Ahead(p) \in Nat /\ Finish(p) \in Nat BY Types
<1>5. \A m \in Nat : m < cut =>
         ((Ahead(p)' <= m /\ m < Finish(p)') <=> (Ahead(p) <= m /\ m < Finish(p)))
  BY <1>2, <1>3, <1>4
<1> QED BY <1>1, <1>5, SameWhen

\* Only a write publishes, one value.
LEMMA ProducerPublishes ==
  ASSUME NEW cut \in Nat, Going(cut), NEW p \in Producers, ProducerStep(p)
  PROVE  IF WriteElement(p) THEN More(cut, cut) ELSE Same(cut, cut)
<1>0. TypeOK BY DEF Going
<1>1. /\ {Begin(p), Finish(p), Ahead(p), count[p], written[p]} \subseteq Nat
      /\ Finish(p) = Begin(p) + count[p]
      /\ ppc[p] = "wake" => Ahead(p) = Begin(p) + written[p] + 1
      /\ ppc[p] # "wake" => Ahead(p) = Begin(p) + written[p]
  BY <1>0, Types
<1>2. CASE CheckClosed(p) \/ SetCutoff(p) \/ LoadHint(p) \/ LoadWriteBlock(p) \/ Cross(p)
  <2>1. PICK s \in {"spin", "load_hint", "seek", "load_write_block", "write"} :
           ppc' = [ppc EXCEPT ![p] = s] /\ ppc[p] # "wake" /\ UNCHANGED <<idx, count, written>>
    BY <1>2 DEF CheckClosed, SetCutoff, LoadHint, LoadWriteBlock, Cross, GoTo, StartFrom, locals
  <2>2. ~WriteElement(p)
    BY <1>2 DEF CheckClosed, SetCutoff, LoadHint, LoadWriteBlock, Cross, WriteElement
  <2> QED BY <1>0, <2>1, <2>2, SameTickets
<1>3. CASE Seek(p) \/ Reserve(p)
  <2>1. /\ ppc[p] \in {"seek", "reserve"} /\ UNCHANGED <<idx, count, written>>
        /\ ppc' = ppc \/ \E s \in {"sentinel", "reserve", "write"} : ppc' = [ppc EXCEPT ![p] = s]
    BY <1>3 DEF Seek, Reserve, GoTo
  <2>2. CASE ppc' = ppc
    <3>1. Ahead(p)' = Ahead(p) /\ Finish(p)' = Finish(p) BY <2>1, <2>2 DEF Ahead, Finish, Begin
    <3> QED BY <2>1, <2>2, <3>1, SameWhen DEF WriteElement
  <2>3. CASE \E s \in {"sentinel", "reserve", "write"} : ppc' = [ppc EXCEPT ![p] = s]
    <3>1. PICK s \in {"sentinel", "reserve", "write"} : ppc' = [ppc EXCEPT ![p] = s] BY <2>3
    <3> QED BY <1>0, <2>1, <3>1, SameTickets DEF WriteElement
  <2> QED BY <2>1, <2>2, <2>3
<1>4. CASE CompareCutoff(p)
  <2>1. ppc[p] = "spin" /\ closed_ready /\ ~WriteElement(p)
    BY <1>4 DEF CompareCutoff, WriteElement
  <2>2. count[p] > 0 BY <2>1, Doing DEF Stopping
  <2>3. CASE TurnedAway(p)
    <3>1. Return(p) BY <1>4, <2>3 DEF CompareCutoff
    <3>2. cut <= Ahead(p)
      <4>1. cut < Begin(p) BY <2>1, <2>2, <2>3, CutoffTells
      <4> QED BY <1>1, <2>1, <4>1
    <3> QED BY <1>0, <2>1, <3>1, <3>2, SameAtReturn
  <2>4. CASE ~TurnedAway(p)
    <3>1. ppc' = [ppc EXCEPT ![p] = "load_hint"] /\ UNCHANGED <<idx, count, written>>
      BY <1>4, <2>4 DEF CompareCutoff, GoTo, locals
    <3> QED BY <1>0, <2>1, <3>1, SameTickets
  <2> QED BY <2>3, <2>4
<1>5. CASE DrawCutoff(p)
  <2>1. /\ ppc[p] = "draw_cutoff" /\ ppc' = [ppc EXCEPT ![p] = "set_cutoff"]
        /\ idx' = [idx EXCEPT ![p] = write_offset] /\ UNCHANGED <<count, written>> /\ ~WriteElement(p)
    BY <1>5 DEF DrawCutoff, WriteElement, GoTo
  <2>2. ppc'[p] = "set_cutoff" /\ \A q \in Producers : q # p => ppc'[q] = ppc[q]
    BY <1>0, <2>1, GoesTo
  <2>3. idx'[p] = write_offset /\ \A q \in Producers : q # p => idx'[q] = idx[q]
    BY <1>0, <2>1 DEF TypeOK
  <2>4. count[p] = 0 /\ written[p] = 0 /\ Sold \in Nat BY <1>0, <2>1, Doing, Types DEF Drawing
  <2>5. Ahead(p)' = Sold + 0 + 0 /\ Finish(p)' = Sold + 0
    BY <2>1, <2>2, <2>3, <2>4 DEF Ahead, Finish, Begin, Sold
  <2>6. \A m \in Nat : m < cut =>
           ((Ahead(p)' <= m /\ m < Finish(p)') <=> (Ahead(p) <= m /\ m < Finish(p)))
    BY <1>1, <2>1, <2>4, <2>5
  <2> QED BY <2>1, <2>2, <2>3, <2>6, SameWhen
<1>6. CASE PlaceSentinel(p)
  <2>1. ppc[p] = "sentinel" /\ ~WriteElement(p) BY <1>6 DEF PlaceSentinel, WriteElement
  <2>2. count[p] = 0 /\ written[p] = 0 BY <2>1, Doing
  <2>3. CASE Return(p) BY <1>0, <1>1, <2>1, <2>2, <2>3, SameAtReturn
  <2>4. CASE ~Return(p)
    <3>1. ppc' = [ppc EXCEPT ![p] = "wake"] /\ UNCHANGED <<idx, count, written>>
      BY <1>6, <2>4 DEF PlaceSentinel, GoTo, locals
    <3>2. ppc'[p] = "wake" /\ \A q \in Producers : q # p => ppc'[q] = ppc[q]
      BY <1>0, <3>1, GoesTo
    <3>3. Ahead(p)' = Begin(p) + 0 + 1 /\ Finish(p)' = Begin(p) + 0
      BY <2>2, <3>1, <3>2 DEF Ahead, Finish, Begin
    <3>4. \A m \in Nat : m < cut =>
             ((Ahead(p)' <= m /\ m < Finish(p)') <=> (Ahead(p) <= m /\ m < Finish(p)))
      BY <1>1, <2>1, <2>2, <3>3
    <3> QED BY <2>1, <3>1, <3>2, <3>4, SameWhen
  <2> QED BY <2>3, <2>4
<1>7. CASE NotifyConsumer(p)
  <2>1. /\ ppc[p] = "wake" /\ ~WriteElement(p) /\ (IF Closing(p) THEN Return(p) ELSE Continue(p))
        /\ UNCHANGED <<list, unlinked, write_offset, read_offset>>
    BY <1>7 DEF NotifyConsumer, WriteElement, reading, reclaim
  <2>2. CASE count[p] = 0
    <3>1. Return(p) /\ Finish(p) <= Ahead(p) BY <1>1, <2>1, <2>2 DEF Closing
    <3> QED BY <1>0, <2>1, <3>1, SameAtReturn
  <2>3. CASE count[p] # 0
    <3>1. Continue(p) /\ count[p] > 0 BY <1>1, <2>1, <2>3 DEF Closing
    <3>2. PICK t \in Nat : t = Begin(p) + written[p] BY <1>1
    <3>3. /\ \A q \in Producers : q # p =>
               ppc'[q] = ppc[q] /\ idx'[q] = idx[q] /\ count'[q] = count[q] /\ written'[q] = written[q]
          /\ \A m \in Nat : (Ahead(p)' <= m /\ m < Finish(p)') <=> (t + 1 <= m /\ m < Finish(p))
      BY <2>1, <3>1, <3>2, Continues
    <3>4. Ahead(p) = t + 1 BY <1>1, <2>1, <3>2
    <3> QED BY <2>1, <3>3, <3>4, SameWhen
  <2> QED BY <2>2, <2>3
<1>8. CASE WriteElement(p)
  <2>1. /\ ppc[p] = "write"
        /\ (Continue(p) \/ (ppc' = [ppc EXCEPT ![p] = "wake"] /\ UNCHANGED <<idx, count, written>>))
        /\ UNCHANGED <<list, unlinked, write_offset, read_offset>>
    BY <1>8 DEF WriteElement, GoTo, locals, consumer, reading, reclaim
  <2>2. count[p] > 0 BY <2>1, Doing
  <2>3. PICK t \in Nat : t = Begin(p) + written[p] BY <1>1
  <2>4. Ahead(p) = t /\ Begin(p) <= t /\ t < Finish(p) /\ t < cut
    <3>1. t < Finish(p) /\ Finish(p) <= cut BY <2>1, <2>2, <2>3, Writer
    <3> QED BY <1>1, <2>1, <2>3, <3>1
  <2>5. /\ \A q \in Producers : q # p =>
              ppc'[q] = ppc[q] /\ idx'[q] = idx[q] /\ count'[q] = count[q] /\ written'[q] = written[q]
        /\ \A m \in Nat : (Ahead(p)' <= m /\ m < Finish(p)') <=> (t + 1 <= m /\ m < Finish(p))
    <3>1. CASE Continue(p) BY <2>1, <2>2, <2>3, <3>1, Continues
    <3>2. CASE ppc' = [ppc EXCEPT ![p] = "wake"] /\ UNCHANGED <<idx, count, written>>
      <4>1. ppc'[p] = "wake" /\ \A q \in Producers : q # p => ppc'[q] = ppc[q]
        BY <1>0, <3>2, GoesTo
      <4>2. Ahead(p)' = Begin(p) + written[p] + 1 /\ Finish(p)' = Finish(p)
        BY <3>2, <4>1 DEF Ahead, Finish, Begin
      <4> QED BY <2>3, <3>2, <4>1, <4>2
    <3> QED BY <2>1, <3>1, <3>2
  <2>6. Done(cut, t)' /\ ~Done(cut, t) /\ \A m \in Nat : m # t => (Done(cut, m)' <=> Done(cut, m))
    BY <2>2, <2>4, <2>5, OneMore
  <2> QED BY <1>8, <2>6 DEF More
<1> QED BY <1>2, <1>3, <1>4, <1>5, <1>6, <1>7, <1>8, Zenon DEF ProducerStep

\* The edge stays where it is, unless something is published.
LEMMA SameEdge ==
  ASSUME NEW cut \in Nat, NEW cut2 \in Nat, NEW n \in Nat, NEW n2 \in Nat, Same(cut, cut2),
         Edge(cut, n), Edge(cut2, n2)', Skipped \in Nat, Before \in Nat, Before' \in Nat,
         Before <= Before', Before' <= n
  PROVE  n2 = n
<1>1. ~(n2 < n)
  <2>1. SUFFICES ASSUME n2 < n
                 PROVE  FALSE
    OBVIOUS
  <2>2. Before' <= n2 /\ ~Done(cut2, Skipped + n2)' BY DEF Edge
  <2>3. Done(cut, Skipped + n2) /\ Skipped + n2 \in Nat BY <2>1, <2>2 DEF Edge
  <2> QED BY <2>2, <2>3 DEF Same
<1>2. ~(n < n2)
  <2>1. SUFFICES ASSUME n < n2
                 PROVE  FALSE
    OBVIOUS
  <2>2. Done(cut2, Skipped + n)' /\ Skipped + n \in Nat BY <2>1 DEF Edge
  <2> QED BY <2>2 DEF Edge, Same
<1> QED BY <1>1, <1>2

LEMMA LaterEdge ==
  ASSUME NEW cut \in Nat, NEW cut2 \in Nat, NEW n \in Nat, NEW n2 \in Nat, More(cut, cut2),
         Edge(cut, n), Edge(cut2, n2)', Skipped \in Nat, Before \in Nat, Before' = Before
  PROVE  n <= n2
<1>1. SUFFICES ASSUME n2 < n
               PROVE  FALSE
  OBVIOUS
<1>2. Before <= n2 /\ ~Done(cut2, Skipped + n2)' BY DEF Edge
<1>3. Done(cut, Skipped + n2) /\ Skipped + n2 \in Nat BY <1>1, <1>2 DEF Edge
<1> QED BY <1>2, <1>3 DEF More

\* Steps
\* A step that publishes nothing, takes nothing and ends no scope leaves the
\* abstract queue and the consumer's hand alone.
LEMMA KeepsValues ==
  ASSUME NEW cut \in Nat, NEW cut2 \in Nat, NEW n \in Nat, NEW n2 \in Nat, Same(cut, cut2),
         Reflects(cut, n), Reflects(cut2, n2)', taken' = taken,
         cpc' = cpc \/ {cpc, cpc'} \cap {"holding"} = {}
  PROVE  Queue' = Queue /\ Held' = Held /\ Before' = Before /\ n2 = n
<1>1. InHand' = InHand /\ Before' = Before BY DEF Before, InHand
<1>2. Before \in Nat /\ Before <= n /\ Skipped \in Nat BY Origin DEF Reflects, Before, Edge
<1>3. n2 = n BY <1>1, <1>2, SameEdge DEF Reflects
<1> QED BY <1>1, <1>3 DEF Reflects

\* The other steps of a call show nothing.
LEMMA Quiet ==
  ASSUME NEW cut \in Nat, NEW cut2 \in Nat, NEW n \in Nat, NEW n2 \in Nat, Same(cut, cut2),
         Reflects(cut, n), Reflects(cut2, n2)', taken' = taken,
         cpc' = cpc \/ {cpc, cpc'} \cap {"holding"} = {}, closed' = closed, outcome' = outcome
  PROVE  UNCHANGED Abstract!vars
<1>1. Queue' = Queue /\ Held' = Held BY KeepsValues
<1> QED BY <1>1 DEF Abstract!vars, Told

\* The write of a value puts it into the queue, with the values after it that
\* were published before it; or adds nothing yet.
LEMMA Publishes ==
  ASSUME NEW cut \in Nat, NEW n \in Nat, NEW n2 \in Nat, More(cut, cut),
         Reflects(cut, n), Reflects(cut, n2)',
         UNCHANGED <<taken, cpc, closed, outcome>>
  PROVE  [Abstract!Enqueue]_(Abstract!vars)
<1>1. Before' = Before /\ Held' = Held /\ Told' = Told /\ InHand' = InHand
  <2>1. Before' = Before /\ InHand' = InHand BY DEF Before, InHand
  <2> QED BY <2>1 DEF Reflects, Told
<1>2. /\ {taken, InHand, Before, Skipped, MaxTicket} \subseteq Nat /\ Before = taken + InHand /\ InHand \in {0, 1}
      /\ Before <= n /\ n2 <= MaxTicket
  BY Origin, Sizes DEF Reflects, Before, Edge
<1>3. n <= n2 BY <1>1, <1>2, LaterEdge DEF Reflects
<1>4. PICK a \in Nat, l \in Nat, l2 \in Nat : a = Before /\ l = n - Before /\ l2 = n2 - Before
  BY <1>2, <1>3
<1>5. Queue = Run(a, l) /\ Queue' = Run(a, l2) /\ l <= l2 /\ a + l2 <= MaxTicket /\ a + l2 = n2
  BY <1>1, <1>2, <1>3, <1>4 DEF Reflects
<1>6. CASE l = l2 BY <1>1, <1>5, <1>6 DEF Abstract!vars
<1>7. CASE l < l2
  <2>1. Len(Queue) = l /\ Len(Queue') = l2 /\ SubSeq(Queue', 1, Len(Queue)) = Queue /\ Queue' \in Seq(Value)
    <3>1. Len(Run(a, l)) = l /\ Len(Run(a, l2)) = l2 BY RunIsSeq
    <3>2. Run(a, l2) \in Seq(Value) BY <1>2, <1>5, RunInRange DEF Value
    <3>3. SubSeq(Run(a, l2), 1, l) = Run(a, l) BY <1>5, RunPrefix
    <3> QED BY <1>5, <3>1, <3>2, <3>3
  <2>2. Len(Held) = InHand
    <3>1. Len(Held) = IF cpc = "holding" THEN 1 ELSE 0 BY DEF Reflects
    <3> QED BY <3>1 DEF InHand
  <2>3. Told = FALSE /\ Told' = FALSE
    <3>1. Before # n2 BY <1>2, <1>4, <1>5, <1>7
    <3>2. Told' => Before' = n2 BY DEF Reflects
    <3> QED BY <1>1, <3>1, <3>2 DEF Told
  <2>4. l2 + InHand <= MaxTicket BY <1>2, <1>4, <1>5
  <2>5. Len(Queue') > Len(Queue) /\ Len(Queue') + Len(Held) <= MaxTicket
    BY <1>7, <2>1, <2>2, <2>4
  <2>6. SubSeq(Queue', 1, Len(Queue)) = Queue BY <2>1
  <2> QED BY <1>1, <2>1, <2>3, <2>5, <2>6 DEF Abstract!Enqueue
<1> QED BY <1>5, <1>6, <1>7

\* A pull that finds a value takes it from the queue.
LEMMA Takes ==
  ASSUME NEW cut \in Nat, Going(cut), Going(cut)', NEW n \in Nat, NEW n2 \in Nat, Same(cut, cut),
         Reflects(cut, n), Reflects(cut, n2)', UNCHANGED <<taken, read_offset, closed>>,
         outcome' = "OK", cpc # "holding", cpc' = "holding"
  PROVE  Abstract!Dequeue
<1>1. /\ {taken, Turn, Skipped, MaxTicket} \subseteq Nat /\ Turn = Skipped + taken BY HasEdge
<1>2. Before = taken /\ Before' = taken + 1 /\ taken <= n
  BY <1>1 DEF Before, InHand, Reflects, Edge
<1>3. Done(cut, Turn)
  <2>1. PICK u \in Nat : u = Turn BY <1>1
  <2>2. u = Turn' BY <2>1 DEF Turn
  <2>3. Done(cut, u)' BY <2>2 DEF Going, Shape, Rousing
  <2> QED BY <2>1, <2>3 DEF Same
<1>4. taken < n
  <2>1. n # taken BY <1>1, <1>3 DEF Reflects, Edge
  <2> QED BY <1>1, <1>2, <2>1
<1>5. n2 = n BY <1>1, <1>2, <1>4, SameEdge DEF Reflects
<1>6. PICK a \in Nat, l \in Nat : a = taken /\ l = n - taken BY <1>1, <1>4
<1>7. Queue = Run(a, l) /\ Queue' = Run(a + 1, l - 1) /\ l > 0
  <2>1. n - (taken + 1) = l - 1 BY <1>1, <1>6
  <2> QED BY <1>1, <1>2, <1>4, <1>5, <1>6, <2>1 DEF Reflects
<1>8. Head(Queue) = taken + 1 /\ Queue' = Tail(Queue) /\ Queue # <<>>
  <2>1. Head(Run(a, l)) = a + 1 /\ Tail(Run(a, l)) = Run(a + 1, l - 1) BY <1>7, RunTail
  <2>2. Run(a, l) # <<>> BY <1>7, RunIsSeq
  <2> QED BY <1>6, <1>7, <2>1, <2>2
<1>9. Held = <<>> /\ Held' = <<taken + 1>> BY DEF Reflects
<1>10. Told = FALSE /\ Told' = FALSE
  <2>1. ~Told BY <1>1, <1>2, <1>4 DEF Reflects
  <2> QED BY <2>1 DEF Told
<1> QED BY <1>8, <1>9, <1>10 DEF Abstract!Dequeue

\* A pull says CLOSED only when there is nothing left, after close().
LEMMA Says ==
  ASSUME NEW cut \in Nat, NEW n \in Nat, NEW n2 \in Nat, Same(cut, cut),
         Reflects(cut, n), Reflects(cut, n2)', UNCHANGED <<taken, closed>>,
         outcome' = "CLOSED", cpc # "holding", cpc' = "idle"
  PROVE  Abstract!SayClosed
<1>1. Queue' = Queue /\ Held' = Held /\ Before' = Before /\ n2 = n BY KeepsValues
<1>2. Told' = TRUE /\ closed /\ Before = n
  <2>1. Told' = TRUE BY DEF Told
  <2> QED BY <1>1, <2>1 DEF Reflects
<1>3. Queue = <<>>
  <2>1. Before \in Nat /\ n - Before = 0 BY <1>2 DEF Reflects, Before
  <2>2. Queue = Run(Before, 0) BY <2>1 DEF Reflects
  <2> QED BY <2>1, <2>2, RunIsSeq
<1>4. Held = <<>> BY DEF Reflects
<1> QED BY <1>1, <1>2, <1>3, <1>4 DEF Abstract!SayClosed

\* The consumer's scope ends when the value is destroyed.
LEMMA Releases ==
  ASSUME NEW cut \in Nat, NEW n \in Nat, NEW n2 \in Nat, Same(cut, cut),
         Reflects(cut, n), Reflects(cut, n2)', FinishRead
  PROVE  Abstract!Release
<1>1. /\ cpc = "holding" /\ cpc' # "holding" /\ taken' = taken + 1
      /\ closed' = closed /\ outcome' = outcome
  BY DEF FinishRead, cutoff, Leave
<1>2. Before' = Before /\ Before \in Nat /\ Skipped \in Nat /\ Before <= n
  <2>1. InHand = 1 /\ InHand' = 0 /\ taken \in Nat BY <1>1 DEF InHand, Reflects
  <2> QED BY <1>1, <2>1, Origin DEF Before, Reflects, Edge
<1>3. n2 = n BY <1>2, SameEdge DEF Reflects
<1>4. Queue' = Queue BY <1>2, <1>3 DEF Reflects
<1>5. Held # <<>> /\ Held' = <<>> BY <1>1 DEF Held
<1> QED BY <1>1, <1>4, <1>5 DEF Abstract!Release, Told

\* close() of the list is close() of the queue: the cutoff, and the sentinel,
\* come later.
LEMMA Closes ==
  ASSUME NEW cut \in Nat, NEW n \in Nat, NEW n2 \in Nat, Same(cut, cut),
         Reflects(cut, n), Reflects(cut, n2)', NEW p \in Producers, Close(p)
  PROVE  Abstract!Close
<1>1. taken' = taken /\ cpc' = cpc /\ closed' = TRUE /\ outcome' = outcome
  BY DEF Close, consumer, reading
<1>2. Queue' = Queue /\ Held' = Held BY <1>1, KeepsValues
<1> QED BY <1>1, <1>2 DEF Abstract!Close, Told

\* The destructor empties the queue.
LEMMA Discards ==
  ASSUME Destruct
  PROVE  Abstract!Discard
<1>1. /\ cpc = "idle" /\ cpc' = "gone" /\ closed' = TRUE /\ outcome' = outcome
  BY DEF Destruct, reading
<1>2. Held = <<>> /\ Held' = <<>> /\ Queue' = <<>> /\ Told' = Told BY <1>1 DEF Held, Queue, Told
<1> QED BY <1>1, <1>2 DEF Abstract!Discard

\* Every step of a post, or of close() after its first.
LEMMA ProducerImplements ==
  ASSUME NEW cut \in Nat, Going(cut), NEW n \in Nat, NEW n2 \in Nat,
         Reflects(cut, n), Reflects(cut, n2)', NEW p \in Producers, ProducerStep(p)
  PROVE  [Abstract!Next]_(Abstract!vars)
<1>1. UNCHANGED <<taken, closed, outcome>>
  BY DEF ProducerStep, CheckClosed, CompareCutoff, DrawCutoff, SetCutoff, LoadHint, LoadWriteBlock,
     Seek, Reserve, WriteElement, Cross, PlaceSentinel, NotifyConsumer, cutoff, consumer, reading
<1>2. CASE WriteElement(p)
  <2>1. cpc' = cpc BY <1>2 DEF WriteElement, consumer
  <2>2. More(cut, cut) BY <1>2, ProducerPublishes
  <2> QED BY <1>1, <2>1, <2>2, Publishes DEF Abstract!Next
<1>3. CASE ~WriteElement(p)
  <2>1. Same(cut, cut) BY <1>3, ProducerPublishes
  <2>2. cpc' = cpc \/ (cpc = "parked" /\ cpc' = "resume")
    <3>1. CASE NotifyConsumer(p) BY <3>1 DEF NotifyConsumer, Going, Shape, Rousing
    <3>2. CASE ~NotifyConsumer(p)
      BY <1>3, <3>2 DEF ProducerStep, CheckClosed, CompareCutoff, DrawCutoff, SetCutoff, LoadHint,
         LoadWriteBlock, Seek, Reserve, Cross, PlaceSentinel, consumer
    <3> QED BY <3>1, <3>2
  <2> QED BY <1>1, <2>1, <2>2, Quiet
<1> QED BY <1>2, <1>3

\* A consumer that was told CLOSED is told so again.
LEMMA ToldAgain ==
  ASSUME NEW cut \in Nat, Going(cut), Told, cpc = "seek", offset[rblock] = StartOf(read_offset)
  PROVE  ReadFlag = "closed"
<1>1. AtEnd(cut, Turn) BY DEF Told, Going, Shape, Rousing
<1>2. TypeOK /\ rblock \in OnList /\ read_offset \in Word BY Types DEF Going, Shape, Heads
<1>3. First(rblock) = Base(Turn) BY <1>2, PlaceOf DEF First, Turn
<1> QED BY <1>1, <1>2, <1>3, NextElement

\* Every step of a pull, of empty(), and of the reclamation.
LEMMA ConsumerImplements ==
  ASSUME NEW cut \in Nat, Going(cut), Going(cut)', NEW n \in Nat, NEW n2 \in Nat,
         Reflects(cut, n), Reflects(cut, n2)', ConsumerStep
  PROVE  [Abstract!Next]_(Abstract!vars)
<1>1. UNCHANGED <<producer, cutoff>> /\ closed' = closed
  BY DEF ConsumerStep, ReclaimStep, SeekRead, Poll, Suspend, Restore, PullResume, FinishRead,
     TryFinish, TryStart, MoveHint, ReadCutoff, Collect, ResetValues, FindTail, Unlink, Relink, cutoff
<1>2. Same(cut, cut) BY <1>1, ProducersStable DEF Stable, Same
<1>3. CASE SeekRead \/ ReclaimStep
  <2>1. UNCHANGED <<taken, outcome>> /\ cpc # "holding" /\ cpc' # "holding"
    BY <1>3 DEF SeekRead, ReclaimStep, TryFinish, TryStart, MoveHint, ReadCutoff, Collect,
       ResetValues, FindTail, Unlink, Relink, AfterTry, Leave, reading
  <2> QED BY <1>1, <1>2, <2>1, Quiet
<1>4. CASE Poll
  <2>1. UNCHANGED <<taken, read_offset>> /\ cpc = "seek" /\ offset[rblock] = StartOf(read_offset)
    BY <1>4 DEF Poll
  <2>2. CASE outcome' = "OK" /\ cpc' = "holding"
    BY <1>1, <1>2, <2>1, <2>2, Takes DEF Abstract!Next
  <2>3. CASE outcome' = outcome /\ cpc' \in {"suspend", "idle"} BY <1>1, <1>2, <2>1, <2>3, Quiet
  <2>4. CASE outcome' = "CLOSED" /\ cpc' = "idle"
    BY <1>1, <1>2, <2>1, <2>4, Says DEF Abstract!Next
  <2>5. CASE outcome' = "EMPTY" /\ cpc' = "idle" /\ ReadFlag # "closed"
    <3>1. Queue' = Queue /\ Held' = Held BY <1>1, <1>2, <2>1, <2>5, KeepsValues
    <3>2. Told = FALSE /\ Told' = FALSE BY <2>1, <2>5, ToldAgain DEF Told
    <3> QED BY <1>1, <3>1, <3>2 DEF Abstract!vars
  <2> QED BY <1>4, <2>2, <2>3, <2>4, <2>5 DEF Poll, Leave, StatusOf
<1>5. CASE Suspend
  <2>1. UNCHANGED <<taken, read_offset>> /\ cpc = "suspend" BY <1>5 DEF Suspend
  <2>2. CASE outcome' = outcome /\ cpc' \in {"parked", "restore"}
    BY <1>1, <1>2, <2>1, <2>2, Quiet
  <2>3. CASE outcome' = "OK" /\ cpc' = "holding"
    BY <1>1, <1>2, <2>1, <2>3, Takes DEF Abstract!Next
  <2> QED BY <1>5, <2>2, <2>3 DEF Suspend
<1>6. CASE Restore
  <2>1. taken' = taken /\ cpc = "restore" /\ cpc' = "idle" /\ outcome' = "CLOSED"
    BY <1>6 DEF Restore, Leave
  <2> QED BY <1>1, <1>2, <2>1, Says DEF Abstract!Next
<1>7. CASE PullResume
  <2>1. /\ UNCHANGED <<taken, read_offset>> /\ cpc = "resume"
        /\ \/ outcome' = "OK" /\ cpc' = "holding"
           \/ outcome' = "CLOSED" /\ cpc' = "idle"
    BY <1>7 DEF PullResume, Leave
  <2> QED BY <1>1, <1>2, <2>1, Takes, Says DEF Abstract!Next
<1>8. CASE FinishRead BY <1>2, <1>8, Releases DEF Abstract!Next
<1> QED BY <1>3, <1>4, <1>5, <1>6, <1>7, <1>8 DEF ConsumerStep

\* Until the destructor has run, the abstract state is what it should be.
Mapped == IInv /\ \A cut \in Nat : Going(cut) => \E n \in Nat : Reflects(cut, n)

\* Every step of the list is a step of the queue, or shows nothing.
LEMMA StepImplements ==
  ASSUME Mapped, Mapped', [Next]_vars
  PROVE  [Abstract!Next]_(Abstract!vars)
<1>1. CASE UNCHANGED vars
  <2>1. /\ UNCHANGED <<stored, flags, read_offset, head_block, blocks, next, offset>>
        /\ UNCHANGED <<taken, cpc, closed, outcome>>
    BY <1>1 DEF vars, list, elements, cutoff, consumer, reading, reclaim
  <2>2. InHand' = InHand /\ ReachableFrom(head_block)' = ReachableFrom(head_block)
    BY <2>1 DEF InHand, ReachableFrom
  <2>3. Queue' = Queue /\ Held' = Held /\ Told' = Told
    BY <2>1, <2>2 DEF Queue, Held, Told, StoredAt, Length, Visible, Waiting
  <2> QED BY <2>1, <2>3 DEF Abstract!vars
<1>2. CASE Destruct BY <1>2, Discards DEF Abstract!Next
<1>3. CASE cpc = "gone"
  <2>1. UNCHANGED vars BY <1>3, GoneStays DEF Mapped
  <2> QED BY <1>1, <2>1
<1>4. CASE cpc # "gone" /\ Next /\ ~Destruct
  <2>1. PICK cut \in Nat : Going(cut) BY <1>4, Alternatives DEF Mapped
  <2>2. PICK n \in Nat : Reflects(cut, n) BY <2>1 DEF Mapped
  <2>3. ASSUME NEW p \in Producers, NEW k \in 1 .. MaxBulk, TakeTicket(p, k)
        PROVE  [Abstract!Next]_(Abstract!vars)
    <3>1. PICK cut2 \in Nat : Going(cut2)' /\ Stable(cut, cut2) BY <2>1, <2>3, TakeTicketKeeps
    <3>2. PICK n2 \in Nat : Reflects(cut2, n2)' BY <3>1 DEF Mapped
    <3>3. UNCHANGED <<taken, cpc, closed, outcome>>
      BY <2>3 DEF TakeTicket, cutoff, consumer, reading
    <3>4. Same(cut, cut2) BY <3>1 DEF Stable, Same
    <3> QED BY <2>2, <3>2, <3>3, <3>4, Quiet
  <2>4. ASSUME NEW p \in Producers, Close(p)
        PROVE  [Abstract!Next]_(Abstract!vars)
    <3>1. Going(cut)' BY <2>1, <2>4, CloseKeeps
    <3>2. PICK n2 \in Nat : Reflects(cut, n2)' BY <3>1 DEF Mapped
    <3>3. Same(cut, cut)
      <4>1. /\ TypeOK /\ ppc[p] # "wake" /\ ppc' = [ppc EXCEPT ![p] = "draw_cutoff"]
            /\ UNCHANGED <<idx, count, written>>
        BY <2>1, <2>4 DEF Going, Close, GoTo, locals
      <4> QED BY <4>1, SameTickets
    <3> QED BY <2>2, <2>4, <3>2, <3>3, Closes DEF Abstract!Next
  <2>5. ASSUME NEW p \in Producers, ProducerStep(p)
        PROVE  [Abstract!Next]_(Abstract!vars)
    <3>1. Going(cut)' BY <2>1, <2>5, ProducerKeeps
    <3>2. PICK n2 \in Nat : Reflects(cut, n2)' BY <3>1 DEF Mapped
    <3> QED BY <2>1, <2>2, <2>5, <3>2, ProducerImplements
  <2>6. ASSUME NEW f \in Function, Call(f)
        PROVE  [Abstract!Next]_(Abstract!vars)
    <3>1. Going(cut)' BY <2>1, <2>6, CallKeeps
    <3>2. PICK n2 \in Nat : Reflects(cut, n2)' BY <3>1 DEF Mapped
    <3>3. UNCHANGED <<producer, cutoff, taken, closed, outcome>> /\ cpc = "idle" /\ cpc' = "seek"
      BY <2>6 DEF Call, cutoff
    <3>4. Same(cut, cut) BY <3>3, ProducersStable DEF Stable, Same
    <3> QED BY <2>2, <3>2, <3>3, <3>4, Quiet
  <2>7. CASE ConsumerStep
    <3>1. Going(cut)' BY <2>1, <2>7, ConsumerStepKeeps
    <3>2. PICK n2 \in Nat : Reflects(cut, n2)' BY <3>1 DEF Mapped
    <3> QED BY <2>1, <2>2, <2>7, <3>1, <3>2, ConsumerImplements
  <2> QED BY <1>4, <2>3, <2>4, <2>5, <2>6, <2>7, Zenon DEF Next, Gone
<1> QED BY <1>1, <1>2, <1>3, <1>4

\* A new list is an empty queue.
LEMMA InitImplements ==
  ASSUME Mapped, Init
  PROVE  Abstract!Init
<1>1. cpc = "idle" /\ closed = FALSE /\ outcome = "none" /\ taken = 0 /\ read_offset = FirstTicket
  BY DEF Init
<1>2. PICK cut \in Nat : cut = Skipped /\ Going(cut) BY Origin, InitHolds
<1>3. PICK n \in Nat : Reflects(cut, n) BY <1>2 DEF Mapped
<1>4. Before = 0 /\ Held = <<>> /\ Told = FALSE BY <1>1 DEF Before, InHand, Held, Told
<1>5. n = 0
  <2>1. ~Done(cut, Skipped + 0) BY <1>2, Origin DEF Done
  <2>2. ~(0 < n) BY <1>3, <1>4, <2>1 DEF Reflects, Edge
  <2> QED BY <2>2
<1>6. Queue = <<>>
  <2>1. Queue = Run(0, 0) BY <1>3, <1>4, <1>5 DEF Reflects
  <2> QED BY <2>1, RunIsSeq
<1> QED BY <1>1, <1>4, <1>6 DEF Abstract!Init

\* qu_mpsc_unbounded is a single-consumer FIFO queue that can be closed: that
\* posts finish out of the order of their tickets, and that the blocks are
\* searched for by wrapped offsets and used again, shows in no behaviour.
THEOREM Refinement == Spec => ImplementsAsyncQueue
<1>1. IInv => Mapped BY StateAbstracts DEF Mapped
<1>2. Init => Mapped
  <2>1. Init => IInv
    <3>1. Init => Going(Skipped) /\ Skipped \in Nat BY InitHolds, Origin
    <3> QED BY <3>1 DEF IInv, Going, Running, Alive
  <2> QED BY <1>1, <2>1
<1>3. Init => Abstract!Init BY <1>2, InitImplements
<1>4. Mapped /\ Mapped' /\ [Next]_vars => [Abstract!Next]_(Abstract!vars) BY StepImplements
<1>5. Spec => []IInv BY Invariance
<1> QED BY <1>1, <1>3, <1>4, <1>5, PTL DEF Spec, Abstract!Spec, ImplementsAsyncQueue
================================================================================
