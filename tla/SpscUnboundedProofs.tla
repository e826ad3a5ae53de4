--------------------------- MODULE SpscUnboundedProofs ---------------------------
(***************************************************************************)
(* Safety of the SPSC list of blocks, for any block size, word size and    *)
(* number of values.  Blocks and elements are numbered from the first ever *)
(* used, without wrapping: the n-th value goes to element Idx(n) of block  *)
(* Blk(n).  The list is a run of such numbers, lo..hi: the consumer takes  *)
(* blocks off at lo, and whoever comes first appends at hi + 1.            *)
(***************************************************************************)
EXTENDS SpscUnbounded, WordArithmetic, SequenceTheorems

Blk(n)   == n \div BlockSize
Idx(n)   == n % BlockSize
Off(n)   == (FirstOffset + n) % WordMod
Start(i) == Off(BlockSize * i)

\* The block of the last of the first n values.
HeadOf(n) == IF n = 0 THEN 0 ELSE Blk(n - 1)

\* The n-th value's element, when at[i] is the block with number i.
FlagAt(at, n)  == flags[at[Blk(n)]][Idx(n)]
ValueAt(at, n) == stored[at[Blk(n)]][Idx(n)]

Reclaiming == {"collect", "reset", "find_tail", "unlink", "relink"}
Writing    == {"emplace", "publish", "cross"}
AtElement  == {"suspend", "restore", "parked", "resume", "holding"}

\* The call of close() has placed the sentinel.
Ended == closed /\ ~closing

\* The blocks on the list follow each other, in the order of their offsets.
Linked(at, lo, hi) ==
    /\ lo <= hi
    /\ \A i \in lo .. hi : at[i] \in blocks /\ at[i] \notin Unlinked /\ offset[at[i]] = Start(i)
    /\ \A i, j \in lo .. hi : at[i] = at[j] => i = j
    /\ \A i \in lo .. hi : next[at[i]] = IF i = hi THEN Null ELSE at[i + 1]
    /\ \A b \in blocks : b \in Unlinked \/ \E i \in lo .. hi : b = at[i]

\* The blocks that the consumer is moving hang together, and nothing else does.
\* It finishes one block at a time, and so never has two to move.
Moving(at, lo, hi) ==
    /\ Unlinked \subseteq blocks
    /\ \A i, j \in 1 .. Len(unlinked) : unlinked[i] = unlinked[j] => i = j
    /\ \A i \in 1 .. Len(unlinked) :
          next[unlinked[i]] = IF i < Len(unlinked) THEN unlinked[i + 1]
                              ELSE IF cpc = "relink" THEN Null ELSE at[lo]
    /\ cpc \in Reclaiming \ {"collect"} => unlinked # <<>>
    /\ cpc \in Reclaiming => oldHead = at[lo]
    /\ cpc \notin Reclaiming => unlinked = <<>>
    /\ IF cpc = "collect" THEN HeadOf(taken) + Len(unlinked) <= lo + 1 ELSE lo = HeadOf(taken)
    /\ tail_block \in blocks
    /\ cpc = "find_tail" => tailBlock \in blocks
    /\ cpc \in {"unlink", "relink"} => tailBlock \in blocks \ Unlinked

\* Where the producer is.  It is never behind the block of the last value, and
\* a bulk has all its blocks before its first value shows.
Writer(at, hi) ==
    /\ write_offset = Off(sent - written) /\ written <= sent
    /\ \/ write_block = at[HeadOf(sent)]
       \/ write_block = at[Blk(sent)] /\ Blk(sent) <= hi
    /\ HeadOf(sent) <= hi
    /\ ppc = "seek" => \E p \in HeadOf(sent) .. Blk(sent) : p <= hi /\ pblock = at[p]
    /\ ppc = "reserve" =>
          \E k \in Blk(sent) .. Blk(sent + count - 1) : k <= hi /\ walk = at[k]
    /\ ppc \in {"reserve", "emplace", "publish", "sentinel"} =>
          Blk(sent) <= hi /\ pblock = at[Blk(sent)]
    /\ ppc \in {"emplace", "publish"} => write_block = pblock
    /\ ppc = "cross" => pblock = at[HeadOf(sent)] /\ Idx(sent) = 0 /\ sent > 0
    /\ ppc \in Writing => Blk(sent - written + count - 1) <= hi
    /\ Ended => Blk(sent) <= hi

\* What it is doing.
Calls ==
    /\ ppc \notin Writing => written = 0
    /\ ppc \in Writing \cup {"reserve"} => ~closed
    /\ ppc = "seek" /\ ~closing => ~closed
    /\ ppc \in Writing \cup {"seek", "reserve"} /\ ~closing =>
          /\ count > written
          /\ sent - written + count <= MaxPost
          /\ sent - written + count - taken <= MaxWaiting
    /\ closing => closed /\ ppc \in {"seek", "sentinel"}
    /\ ppc = "sentinel" => closing
    /\ closed => write_closed_at = write_offset
    /\ taken <= sent /\ sent - taken <= MaxWaiting

\* Where the consumer is.
Reader(at, lo, hi) ==
    /\ read_offset = Off(taken)
    /\ lo <= HeadOf(taken) /\ HeadOf(taken) <= hi /\ head_block = at[HeadOf(taken)]
    /\ cpc = "seek" => \E r \in HeadOf(taken) .. Blk(taken) : r <= hi /\ rblock = at[r]
    /\ cpc \in AtElement => Blk(taken) <= hi /\ rblock = at[Blk(taken)]
    /\ call = "pull" \/ cpc \in {"suspend", "restore", "parked", "resume"} => can_suspend

\* What the flag of the next value to be posted says.
Mark == IF Ended THEN IF cpc = "restore" THEN "cons" ELSE "closed"
                 ELSE IF cpc = "parked" /\ ~cons THEN "cons" ELSE "empty"

\* How many values are constructed.
Built == IF ppc = "publish" THEN sent + 1 ELSE sent

\* What is in the elements.
Cells(at, lo, hi) ==
    \A n \in Nat : Blk(n) \in lo .. hi =>
        /\ ValueAt(at, n) = IF taken <= n /\ n < Built THEN n + 1 ELSE NoValue
        /\ taken <= n /\ n < sent =>
              FlagAt(at, n) = "data" \/ (n = taken /\ cpc = "holding" /\ FlagAt(at, n) = "cons")
        /\ n = sent => FlagAt(at, n) = Mark
        /\ n > sent => FlagAt(at, n) = "empty"

\* And in the blocks that are not on the list.
Clean ==
    /\ \A b \in Block : b \notin blocks \/ b \in Unlinked =>
          \A i \in Index : stored[b][i] = NoValue
    /\ cpc \in {"find_tail", "unlink", "relink"} => \A b \in Unlinked : flags[b] = Fresh

\* Why the consumer sleeps, and what it was resumed with.
Rousing ==
    /\ cons => /\ cpc = "parked" /\ ppc \in Writing \cup {"wake"}
               /\ IF elem THEN taken < sent ELSE Ended /\ taken = sent
    /\ ppc = "wake" => cons
    /\ cpc = "parked" /\ ~cons => elem /\ taken = sent /\ ~Ended
    /\ cpc = "resume" => IF elem THEN taken < sent ELSE Ended /\ taken = sent
    /\ cpc = "restore" => Ended /\ taken = sent
    /\ cpc = "holding" => taken < sent

\* All of it, over the numbering `at' of the blocks lo to hi.
Shape(at, lo, hi) ==
    /\ Linked(at, lo, hi) /\ Moving(at, lo, hi)
    /\ Writer(at, hi) /\ Reader(at, lo, hi) /\ Cells(at, lo, hi)

Running == \E at \in [Nat -> Block], lo \in Nat, hi \in Nat : Shape(at, lo, hi)

Destroyed == /\ ppc = "gone" /\ cpc = "gone" /\ blocks = {} /\ ~cons
             /\ \A b \in Block, i \in Index : stored[b][i] = NoValue

IInv ==
    /\ TypeOK
    /\ IF ppc = "gone" THEN Destroyed
       ELSE cpc # "gone" /\ Calls /\ Clean /\ Rousing /\ Running

Going(at, lo, hi) ==
    /\ at \in [Nat -> Block] /\ lo \in Nat /\ hi \in Nat
    /\ TypeOK /\ ppc # "gone" /\ cpc # "gone"
    /\ Calls /\ Clean /\ Rousing /\ Shape(at, lo, hi)
Kept == \E at, lo, hi : Going(at, lo, hi)

\* Numbers
\* What holds at a, and of i + 1 when of i, holds up to b.
LEMMA StepByStep ==
  ASSUME NEW S, NEW a \in Nat, NEW b \in Nat, a \in S,
         \A i \in a .. b : i < b /\ i \in S => i + 1 \in S
  PROVE  a .. b \subseteq S
<1> SUFFICES ASSUME (a .. b) \ S # {}
             PROVE  FALSE
  OBVIOUS
<1>1. PICK x \in (a .. b) \ S : \A y \in (a .. b) \ S : x <= y
  <2>1. (a .. b) \ S \subseteq Nat OBVIOUS
  <2> QED BY <2>1, LeastOf
<1>2. x - 1 \in a .. b /\ x - 1 < b /\ x - 1 \in S BY <1>1
<1> QED BY <1>1, <1>2

\* The constants are numbers.
LEMMA Sizes ==
  /\ BlockSize \in Nat /\ BlockSize > 0 /\ WordMod \in Nat /\ WordMod > 0 /\ FirstOffset \in Nat
  /\ MaxWaiting \in Nat /\ 2 * (MaxWaiting + BlockSize) < WordMod
  /\ MaxPost \in Nat /\ MaxBlocks \in Nat /\ MaxBulk \in Nat /\ MaxBulk <= MaxWaiting
  /\ WordMod % BlockSize = 0 /\ FirstOffset % BlockSize = 0
  BY BlockAssumption, WordAssumption, StartAssumption, RangeAssumption, BoundAssumption

\* The number of an element is that of its block and its index in the block.
LEMMA Numbering ==
  ASSUME NEW n \in Nat
  PROVE  /\ Blk(n) \in Nat /\ Idx(n) \in Index /\ Idx(n) \in Nat /\ Idx(n) < BlockSize
         /\ n = BlockSize * Blk(n) + Idx(n)
         /\ HeadOf(n) \in Nat
<1>1. Blk(n) \in Nat /\ Idx(n) \in 0 .. BlockSize - 1 /\ n = BlockSize * Blk(n) + Idx(n)
  BY Sizes, DivMod DEF Blk, Idx
<1>2. HeadOf(n) \in Nat
  <2>1. n # 0 => n - 1 \in Nat OBVIOUS
  <2> QED BY <2>1, Sizes, DivMod DEF HeadOf, Blk
<1> QED BY <1>1, <1>2, Sizes DEF Index

\* Later elements are in later blocks, or further on in the same one.
LEMMA InOrder ==
  ASSUME NEW n \in Nat, NEW m \in Nat
  PROVE  /\ n <= m => Blk(n) <= Blk(m)
         /\ Blk(n) < Blk(m) => n < m
         /\ Blk(n) = Blk(m) /\ Idx(n) = Idx(m) => n = m
<1>1. /\ Blk(n) \in Nat /\ Blk(m) \in Nat /\ BlockSize \in Nat
      /\ Idx(n) \in Nat /\ Idx(n) < BlockSize /\ n = BlockSize * Blk(n) + Idx(n)
      /\ Idx(m) \in Nat /\ Idx(m) < BlockSize /\ m = BlockSize * Blk(m) + Idx(m)
  BY Numbering, Sizes
<1>2. Blk(n) < Blk(m) => BlockSize * Blk(n) + BlockSize <= BlockSize * Blk(m) BY <1>1, MulMono
<1>3. Blk(m) < Blk(n) => BlockSize * Blk(m) + BlockSize <= BlockSize * Blk(n) BY <1>1, MulMono
<1> DEFINE a == BlockSize * Blk(n)
           b == BlockSize * Blk(m)
<1>4. a \in Nat /\ b \in Nat BY <1>1
<1>5. Blk(n) = Blk(m) => a = b OBVIOUS
<1> HIDE DEF a, b
<1> QED BY <1>1, <1>2, <1>3, <1>4, <1>5 DEF a, b

\* Every element of every block has a number.
LEMMA HasNumber ==
  ASSUME NEW i \in Nat, NEW j \in Index
  PROVE  \E n \in Nat : Blk(n) = i /\ Idx(n) = j
<1> DEFINE n == BlockSize * i + j
<1>1. n \in Nat /\ j \in 0 .. BlockSize - 1 /\ j \in Nat BY Sizes DEF Index
<1>2. Idx(n) = j BY <1>1, Sizes, ModUnique DEF Idx
<1>3. n = BlockSize * Blk(n) + j /\ Blk(n) \in Nat BY <1>1, <1>2, Numbering
<1>4. Blk(n) = i
  <2>1. Blk(n) < i => BlockSize * Blk(n) + BlockSize <= BlockSize * i BY <1>3, Sizes, MulMono
  <2>2. i < Blk(n) => BlockSize * i + BlockSize <= BlockSize * Blk(n) BY <1>3, Sizes, MulMono
  <2>3. BlockSize * Blk(n) = BlockSize * i
    <3> DEFINE a == BlockSize * Blk(n)
               b == BlockSize * i
    <3>1. a \in Nat /\ b \in Nat /\ j \in Nat /\ n = a + j /\ n = b + j BY <1>1, <1>3, Sizes
    <3> HIDE DEF a, b, n
    <3> QED BY <3>1 DEF a, b
  <2>4. BlockSize * Blk(n) \in Nat /\ BlockSize * i \in Nat BY <1>3, Sizes
  <2> QED BY <1>3, <2>1, <2>2, <2>3, <2>4, Sizes
<1> HIDE DEF n
<1> QED BY <1>1, <1>2, <1>4

\* The next element is in the same block, or is the first of the next one.
LEMMA NextElement ==
  ASSUME NEW n \in Nat
  PROVE  /\ Idx(n + 1) = 0 => Blk(n + 1) = Blk(n) + 1
         /\ Idx(n + 1) # 0 => Blk(n + 1) = Blk(n)
         /\ HeadOf(n + 1) = Blk(n)
<1>1. /\ Blk(n) \in Nat /\ Idx(n) \in Nat /\ Idx(n) < BlockSize
      /\ n = BlockSize * Blk(n) + Idx(n) /\ BlockSize \in Nat
  BY Numbering, Sizes
<1>2. CASE Idx(n) + 1 < BlockSize
  <2>1. Idx(n) + 1 \in Index /\ n + 1 \in Nat BY <1>1, <1>2 DEF Index
  <2>2. PICK m \in Nat : Blk(m) = Blk(n) /\ Idx(m) = Idx(n) + 1 BY <1>1, <2>1, HasNumber
  <2>3. m = n + 1
    <3> DEFINE a == BlockSize * Blk(n)
    <3>1. m = BlockSize * Blk(m) + Idx(m) BY Numbering
    <3>2. a \in Nat /\ n = a + Idx(n) /\ m = a + Idx(m) BY <1>1, <2>2, <3>1
    <3> HIDE DEF a
    <3> QED BY <1>1, <2>2, <3>2
  <2> QED BY <1>1, <2>2, <2>3 DEF HeadOf
<1>3. CASE Idx(n) + 1 = BlockSize
  <2>1. 0 \in Index /\ n + 1 \in Nat /\ Blk(n) + 1 \in Nat BY <1>1, <1>3 DEF Index
  <2>2. PICK m \in Nat : Blk(m) = Blk(n) + 1 /\ Idx(m) = 0 BY <2>1, HasNumber
  <2>3. m = BlockSize * (Blk(n) + 1) + 0 BY <2>2, Numbering
  <2>4. BlockSize * (Blk(n) + 1) = BlockSize * Blk(n) + BlockSize BY <1>1
  <2>5. m = n + 1 BY <1>1, <1>3, <2>3, <2>4
  <2> QED BY <1>1, <2>2, <2>5 DEF HeadOf
<1> QED BY <1>1, <1>2, <1>3

\* Where the head is.
LEMMA Heads ==
  ASSUME NEW n \in Nat, NEW m \in Nat, n <= m
  PROVE  /\ HeadOf(n) <= HeadOf(m) /\ HeadOf(n) <= Blk(n) /\ Blk(n) <= HeadOf(n) + 1
         /\ Idx(n) # 0 \/ n = 0 => HeadOf(n) = Blk(n)
         /\ Idx(n) = 0 /\ n > 0 => Blk(n) = HeadOf(n) + 1
         /\ HeadOf(n) \in Nat /\ Blk(n) \in Nat /\ HeadOf(m) \in Nat /\ Blk(m) \in Nat
         /\ Blk(n) <= Blk(m)
         /\ \A k \in Nat : Blk(k) < HeadOf(n) => k < n
         /\ \A k \in Nat : Blk(k) > Blk(n) => k > n
<1>1. Blk(0) = 0
  <2>1. /\ Blk(0) \in Nat /\ 0 = BlockSize * Blk(0) + Idx(0) /\ Idx(0) \in Nat /\ BlockSize \in Nat
        /\ BlockSize > 0
    BY Numbering, Sizes
  <2>2. 0 < Blk(0) => BlockSize * 0 + BlockSize <= BlockSize * Blk(0) BY <2>1, MulMono
  <2>3. BlockSize * 0 = 0 /\ BlockSize * Blk(0) \in Nat BY <2>1
  <2> QED BY <2>1, <2>2, <2>3
<1>2. HeadOf(n) \in Nat /\ Blk(n) \in Nat /\ HeadOf(m) \in Nat /\ Blk(m) \in Nat BY Numbering
<1>3. CASE n = 0
  <2>1. \A k \in Nat : Blk(k) \in Nat BY Numbering
  <2>2. \A k \in Nat : k > 0 \/ k = 0 OBVIOUS
  <2> QED BY <1>1, <1>2, <1>3, <2>1, <2>2 DEF HeadOf
<1>4. CASE n > 0
  <2>1. n - 1 \in Nat /\ m - 1 \in Nat /\ n - 1 <= m - 1 /\ (n - 1) + 1 = n /\ (m - 1) + 1 = m
        /\ n # 0 /\ m # 0
    BY <1>4
  <2>2. HeadOf(n) = Blk(n - 1) /\ HeadOf(m) = Blk(m - 1) BY <2>1 DEF HeadOf
  <2>3. /\ Idx(n) = 0 => Blk(n) = Blk(n - 1) + 1
        /\ Idx(n) # 0 => Blk(n) = Blk(n - 1)
    BY <2>1, NextElement
  <2>4. Blk(n - 1) <= Blk(m - 1) /\ Blk(n) <= Blk(m) BY <2>1, InOrder
  <2>5. ASSUME NEW k \in Nat
        PROVE  /\ Blk(k) < Blk(n - 1) => k < n
               /\ Blk(k) > Blk(n) => k > n
    BY <2>1, Numbering, InOrder
  <2> QED BY <1>2, <1>4, <2>2, <2>3, <2>4, <2>5
<1> QED BY <1>3, <1>4

\* Offsets
\* Offsets advance, and give the index and the block they should.
LEMMA Offsets ==
  ASSUME NEW n \in Nat
  PROVE  /\ Off(n) \in Word /\ Start(n) \in Word
         /\ \A k \in Nat : Plus(Off(n), k) = Off(n + k)
         /\ IndexOf(Off(n)) = Idx(n)
         /\ StartOf(Off(n)) = Start(Blk(n))
         /\ StartsBlock(Off(n)) <=> Idx(n) = 0
<1>1. \A k \in Nat : Off(k) \in Word /\ Off(k) \in Nat
  <2>1. ASSUME NEW k \in Nat PROVE (FirstOffset + k) % WordMod \in 0 .. WordMod - 1
    BY Sizes, DivMod
  <2> QED BY <2>1, Sizes DEF Off, Word
<1>2. Off(n) \in Word /\ Start(n) \in Word
  <2>1. BlockSize * n \in Nat BY Sizes
  <2> QED BY <1>1, <2>1 DEF Start
<1>3. ASSUME NEW k \in Nat PROVE Plus(Off(n), k) = Off(n + k)
  <2>1. FirstOffset + n \in Nat BY Sizes
  <2>2. (((FirstOffset + n) % WordMod) + k) % WordMod = ((FirstOffset + n) + k) % WordMod
    BY <2>1, Sizes, ModPlus
  <2>3. (FirstOffset + n) + k = FirstOffset + (n + k) BY Sizes
  <2> QED BY <2>2, <2>3 DEF Plus, Off
<1>4. \A k \in Nat : IndexOf(Off(k)) = Idx(k)
  <2> SUFFICES ASSUME NEW k \in Nat PROVE IndexOf(Off(k)) = Idx(k) OBVIOUS
  <2>1. ((FirstOffset + k) % WordMod) % BlockSize = (FirstOffset + k) % BlockSize
    <3>1. FirstOffset + k \in Nat BY Sizes
    <3> QED BY <3>1, Sizes, ModMod
  <2>2. ((FirstOffset % BlockSize) + k) % BlockSize = (FirstOffset + k) % BlockSize
    <3>1. FirstOffset \in Nat /\ BlockSize \in Nat /\ BlockSize > 0 BY Sizes
    <3> QED BY <3>1, ModPlus
  <2>3. (FirstOffset % BlockSize) + k = k BY Sizes
  <2> QED BY <2>1, <2>2, <2>3 DEF IndexOf, Off, Idx
<1>5. StartOf(Off(n)) = Start(Blk(n))
  <2> DEFINE a == BlockSize * Blk(n)
             x == Off(a)
             j == Idx(n)
  <2>1. a \in Nat /\ j \in Nat /\ j < BlockSize /\ n = a + j
    <3>1. Blk(n) \in Nat /\ BlockSize \in Nat BY Numbering, Sizes
    <3>2. a \in Nat BY <3>1
    <3> QED BY <3>2, Numbering
  <2>2. Idx(a) = 0
    <3>1. Blk(n) \in Nat /\ 0 \in 0 .. BlockSize - 1 BY Numbering, Sizes
    <3>2. (BlockSize * Blk(n) + 0) % BlockSize = 0 BY <3>1, Sizes, ModUnique
    <3>3. BlockSize * Blk(n) + 0 = a BY <2>1
    <3> QED BY <3>2, <3>3 DEF Idx
  <2>3. x \in Nat /\ x < WordMod /\ x % BlockSize = 0
    <3>1. x \in Word /\ x \in Nat /\ IndexOf(x) = 0 BY <1>1, <1>4, <2>1, <2>2
    <3> QED BY <3>1, Sizes DEF Word, IndexOf
  <2> HIDE DEF a, x, j
  <2>4. Off(n) = (x + j) % WordMod
    <3> DEFINE c == FirstOffset + a
    <3>1. /\ c \in Nat /\ c + j = FirstOffset + n /\ j \in Nat
          /\ WordMod \in Nat /\ WordMod > 0
      BY <2>1, Sizes
    <3>2. x = c % WordMod BY DEF Off, x
    <3> HIDE DEF c
    <3>3. ((c % WordMod) + j) % WordMod = (c + j) % WordMod BY <3>1, ModPlus
    <3>4. Off(n) = (c + j) % WordMod BY <3>1, Zenon DEF Off
    <3> QED BY <3>2, <3>3, <3>4, Zenon
  <2>5. x + j < WordMod
    <3>1. PICK d \in Nat : WordMod = BlockSize * d
      <4>1. WordMod \div BlockSize \in Nat /\ WordMod = BlockSize * (WordMod \div BlockSize) + 0
        BY Sizes, DivMod
      <4> QED BY <4>1, Sizes
    <3>2. PICK e \in Nat : x = BlockSize * e
      <4>1. x \div BlockSize \in Nat /\ x = BlockSize * (x \div BlockSize) + 0
        BY <2>3, Sizes, DivMod
      <4> QED BY <4>1, <2>3, Sizes
    <3>3. e < d
      <4>1. CASE d < e BY <2>3, <3>1, <3>2, <4>1, Sizes, MulMono
      <4>2. CASE d = e BY <2>3, <3>1, <3>2, <4>2
      <4> QED BY <4>1, <4>2
    <3>4. BlockSize * e + BlockSize <= BlockSize * d BY <3>3, Sizes, MulMono
    <3> QED BY <2>1, <2>3, <3>1, <3>2, <3>4, Sizes
  <2>6. Off(n) = x + j
    <3>1. x + j \in 0 .. WordMod - 1 /\ 0 \in Nat BY <2>1, <2>3, <2>5, Sizes
    <3>2. (WordMod * 0 + (x + j)) % WordMod = x + j BY <3>1, Sizes, ModUnique
    <3>3. WordMod * 0 + (x + j) = x + j BY <2>1, <2>3, Sizes
    <3> QED BY <2>4, <3>2, <3>3
  <2>7. IndexOf(Off(n)) = j BY <1>4 DEF j
  <2> QED BY <2>1, <2>3, <2>6, <2>7 DEF StartOf, Start, a, x
<1> QED BY <1>2, <1>3, <1>4, <1>5 DEF StartsBlock

\* The list
\* A block on the list leads to those with its number and the later ones.
LEMMA Chain ==
  ASSUME NEW at \in [Nat -> Block], NEW lo \in Nat, NEW hi \in Nat, Linked(at, lo, hi),
         NEW p \in lo .. hi
  PROVE  ReachableFrom(at[p]) = { at[k] : k \in p .. hi }
<1> DEFINE C == { at[k] : k \in p .. hi }
<1>1. \A k \in p .. hi : k \in lo .. hi /\ k \in Nat /\ at[k] \in blocks /\ at[k] # Null
  BY DEF Linked, Block, Null
<1>2. \A k \in p .. hi : next[at[k]] = IF k = hi THEN Null ELSE at[k + 1] BY <1>1 DEF Linked
<1>3. C \in SUBSET blocks /\ at[p] \in C BY <1>1
<1>4. ASSUME NEW d \in C, next[d] # Null
      PROVE  next[d] \in C
  <2>1. PICK k \in p .. hi : d = at[k] OBVIOUS
  <2>2. k # hi /\ next[d] = at[k + 1] BY <1>2, <1>4, <2>1
  <2>3. k + 1 \in p .. hi BY <2>2
  <2> QED BY <2>2, <2>3
<1>5. ReachableFrom(at[p]) \subseteq C BY <1>3, <1>4 DEF ReachableFrom
<1>6. ASSUME NEW S \in SUBSET blocks, at[p] \in S, \A d \in S : next[d] # Null => next[d] \in S
      PROVE  C \subseteq S
  <2> DEFINE T == { k \in p .. hi : at[k] \in S }
  <2>1. p \in T /\ p \in Nat BY <1>6
  <2>2. \A i \in p .. hi : i < hi /\ i \in T => i + 1 \in T
    <3> SUFFICES ASSUME NEW i \in p .. hi, i < hi, at[i] \in S
                 PROVE  i + 1 \in p .. hi /\ at[i + 1] \in S
      OBVIOUS
    <3>1. i + 1 \in p .. hi /\ next[at[i]] = at[i + 1] BY <1>2
    <3> QED BY <1>1, <1>6, <3>1
  <2> HIDE DEF T
  <2>3. p .. hi \subseteq T BY <2>1, <2>2, StepByStep
  <2> QED BY <2>3 DEF T
<1>7. C \subseteq ReachableFrom(at[p]) BY <1>3, <1>6 DEF ReachableFrom
<1> QED BY <1>5, <1>7

\* Different values go to different elements.
LEMMA OneCell ==
  ASSUME NEW at \in [Nat -> Block], NEW lo \in Nat, NEW hi \in Nat,
         \A i, j \in lo .. hi : at[i] = at[j] => i = j,
         NEW m \in Nat, Blk(m) \in lo .. hi, NEW n \in Nat, Blk(n) \in lo .. hi
  PROVE  /\ at[Blk(n)] \in Block /\ Idx(n) \in Index
         /\ at[Blk(n)] = at[Blk(m)] /\ Idx(n) = Idx(m) => n = m
  BY Numbering, InOrder

\* What leaves a part of the invariant as it is
\* The list is as it was.
LEMMA LinkedStays ==
  ASSUME NEW at, NEW lo, NEW hi, Linked(at, lo, hi), UNCHANGED <<list, unlinked>>
  PROVE  Linked(at, lo, hi)'
  BY DEF Linked, Unlinked, list

\* Nothing moves.
LEMMA MovingStays ==
  ASSUME NEW at, NEW lo, NEW hi, Moving(at, lo, hi), UNCHANGED <<list, reclaim, taken>>,
         cpc' = cpc \/ {cpc, cpc'} \cap Reclaiming = {}
  PROVE  Moving(at, lo, hi)'
<1>1. UNCHANGED <<blocks, next, unlinked, oldHead, tail_block, tailBlock, taken>>
  BY DEF list, reclaim
<1>2. CASE cpc' = cpc BY <1>1, <1>2 DEF Moving, Unlinked
<1>3. CASE {cpc, cpc'} \cap Reclaiming = {}
  <2>1. cpc \notin Reclaiming /\ cpc' \notin Reclaiming BY <1>3
  <2>2. unlinked = <<>> /\ Len(unlinked) = 0 /\ lo = HeadOf(taken) /\ cpc # "collect" /\ cpc' # "collect"
    BY <2>1 DEF Moving, Reclaiming
  <2>3. (\A i \in 1 .. Len(unlinked) : FALSE) /\ Unlinked = {} BY <2>2 DEF Unlinked
  <2>4. Unlinked' = Unlinked BY <1>1 DEF Unlinked
  <2>5. HeadOf(taken)' = HeadOf(taken) BY <1>1
  <2> QED BY <1>1, <2>1, <2>2, <2>3, <2>4, <2>5 DEF Moving, Reclaiming
<1> QED BY <1>2, <1>3

\* The producer does nothing.
LEMMA WriterStays ==
  ASSUME NEW at, NEW hi, Writer(at, hi), UNCHANGED producer
  PROVE  Writer(at, hi)'
  BY DEF Writer, producer, pushing, cutoff, Ended

\* Nor does its call go on.
LEMMA CallsStay ==
  ASSUME Calls, UNCHANGED <<producer, taken>>
  PROVE  Calls'
  BY DEF Calls, producer, pushing, cutoff

\* The consumer stays where it is.
LEMMA ReaderStays ==
  ASSUME NEW at, NEW lo, NEW hi, Reader(at, lo, hi), UNCHANGED <<reading, cpc, can_suspend>>
  PROVE  Reader(at, lo, hi)'
  BY DEF Reader, reading

\* The blocks off the list are not written.
LEMMA CleanStays ==
  ASSUME Clean, UNCHANGED <<blocks, elements, unlinked>>,
         cpc' = cpc \/ cpc' \notin {"find_tail", "unlink", "relink"}
  PROVE  Clean'
  BY DEF Clean, Unlinked, elements

\* The elements are not written, nor is it another's turn.
LEMMA CellsStay ==
  ASSUME NEW at, NEW lo, NEW hi, Cells(at, lo, hi), UNCHANGED <<elements, sent, taken>>,
         Built' = Built, Mark' = Mark, cpc = "holding" => cpc' = "holding"
  PROVE  Cells(at, lo, hi)'
<1>1. \A n : FlagAt(at, n)' = FlagAt(at, n) /\ ValueAt(at, n)' = ValueAt(at, n)
  BY DEF FlagAt, ValueAt, elements
<1> QED BY <1>1 DEF Cells

\* The numbering may go further.
LEMMA MoreBlocks ==
  ASSUME NEW at \in [Nat -> Block], NEW lo \in Nat, NEW hi \in Nat,
         NEW at2 \in [Nat -> Block], NEW hi2 \in Nat,
         \A k \in lo .. hi : at2[k] = at[k], hi <= hi2,
         TypeOK, Calls, Writer(at, hi), Reader(at, lo, hi)
  PROVE  Writer(at2, hi2) /\ Reader(at2, lo, hi2)
<1>1. taken \in Nat /\ sent \in Nat /\ count \in Nat /\ taken <= sent BY Sizes DEF TypeOK, Calls
<1>2. /\ HeadOf(taken) \in Nat /\ HeadOf(sent) \in Nat /\ Blk(sent) \in Nat /\ Blk(taken) \in Nat
      /\ HeadOf(taken) <= HeadOf(sent) /\ HeadOf(sent) <= Blk(sent) /\ HeadOf(taken) <= Blk(taken)
      /\ lo <= HeadOf(taken)
  BY <1>1, Heads DEF Reader
<1>3. Reader(at2, lo, hi2)
  <2>1. \A k \in Nat : lo <= k /\ k <= hi => at2[k] = at[k] /\ k <= hi2 OBVIOUS
  <2>2. \A r \in HeadOf(taken) .. Blk(taken) : r \in Nat /\ lo <= r BY <1>2
  <2>3. HeadOf(taken) <= hi BY DEF Reader
  <2> QED BY <1>2, <2>1, <2>2, <2>3 DEF Reader
<1>4. Writer(at2, hi2)
  <2>1. \A k \in Nat : lo <= k /\ k <= hi => at2[k] = at[k] /\ k <= hi2 OBVIOUS
  <2>2. \A p \in HeadOf(sent) .. Blk(sent) : p \in Nat /\ lo <= p BY <1>2
  <2>3. \A p \in Blk(sent) .. Blk(sent + count - 1) : p \in Nat /\ lo <= p BY <1>2
  <2>4. ppc \in Writing => Blk(sent - written + count - 1) <= hi2
    <3>1. ASSUME ppc \in Writing PROVE Blk(sent - written + count - 1) \in Nat
      <4>1. sent - written \in Nat /\ count > 0 BY <1>1, <3>1 DEF Calls, Writer, TypeOK, Writing
      <4>2. sent - written + count - 1 \in Nat BY <1>1, <4>1
      <4> QED BY <4>2, Numbering
    <3> QED BY <3>1 DEF Writer
  <2>5. /\ write_offset = Off(sent - written) /\ written <= sent
        /\ HeadOf(sent) <= hi
        /\ \/ write_block = at[HeadOf(sent)]
           \/ write_block = at[Blk(sent)] /\ Blk(sent) <= hi
        /\ ppc \in {"emplace", "publish"} => write_block = pblock
        /\ Ended => Blk(sent) <= hi
    BY DEF Writer
  <2>6. ppc = "seek" => \E p \in HeadOf(sent) .. Blk(sent) : p <= hi2 /\ pblock = at2[p]
    BY <2>1, <2>2 DEF Writer
  <2>7. ppc = "reserve" =>
          \E k \in Blk(sent) .. Blk(sent + count - 1) : k <= hi2 /\ walk = at2[k]
    BY <2>1, <2>3 DEF Writer
  <2>8. ppc \in {"reserve", "emplace", "publish", "sentinel"} =>
          Blk(sent) <= hi2 /\ pblock = at2[Blk(sent)]
    BY <1>2, <2>1 DEF Writer
  <2>9. ppc = "cross" => pblock = at2[HeadOf(sent)] /\ Idx(sent) = 0 /\ sent > 0
    BY <1>2, <2>1, <2>5 DEF Writer
  <2>10. /\ \/ write_block = at2[HeadOf(sent)]
            \/ write_block = at2[Blk(sent)] /\ Blk(sent) <= hi2
         /\ HeadOf(sent) <= hi2
         /\ Ended => Blk(sent) <= hi2
    BY <1>2, <2>1, <2>5
  <2> QED BY <2>4, <2>5, <2>6, <2>7, <2>8, <2>9, <2>10 DEF Writer
<1> QED BY <1>3, <1>4

\* Appending a block
\* Where the last value is, and what is on the list with it.
LEMMA Places ==
  ASSUME NEW at, NEW lo, NEW hi, Going(at, lo, hi)
  PROVE  /\ at \in [Nat -> Block] /\ lo \in Nat /\ hi \in Nat
         /\ taken \in Nat /\ sent \in Nat /\ count \in Nat /\ written \in Nat
         /\ taken <= sent /\ written <= sent /\ sent - taken <= MaxWaiting /\ sent - written \in Nat
         /\ HeadOf(taken) \in Nat /\ HeadOf(sent) \in Nat /\ Blk(sent) \in Nat /\ Blk(taken) \in Nat
         /\ lo <= HeadOf(taken) /\ HeadOf(taken) <= HeadOf(sent) /\ HeadOf(sent) <= hi
         /\ HeadOf(taken) <= Blk(taken) /\ Blk(taken) <= HeadOf(taken) + 1 /\ Blk(taken) <= Blk(sent)
         /\ HeadOf(sent) <= Blk(sent) /\ Blk(sent) <= HeadOf(sent) + 1
         /\ \A n \in Nat : Blk(n) > hi => n >= sent
<1>1. /\ at \in [Nat -> Block] /\ lo \in Nat /\ hi \in Nat
      /\ taken \in Nat /\ sent \in Nat /\ count \in Nat /\ written \in Nat
      /\ taken <= sent /\ written <= sent /\ sent - taken <= MaxWaiting
      /\ lo <= HeadOf(taken) /\ HeadOf(sent) <= hi
  BY Sizes DEF Going, Shape, TypeOK, Calls, Writer, Reader
<1>2. /\ HeadOf(taken) \in Nat /\ HeadOf(sent) \in Nat /\ Blk(sent) \in Nat /\ Blk(taken) \in Nat
      /\ HeadOf(taken) <= HeadOf(sent)
      /\ HeadOf(taken) <= Blk(taken) /\ Blk(taken) <= HeadOf(taken) + 1 /\ Blk(taken) <= Blk(sent)
      /\ HeadOf(sent) <= Blk(sent) /\ Blk(sent) <= HeadOf(sent) + 1
  BY <1>1, Heads
<1>3. ASSUME NEW n \in Nat, Blk(n) > hi
      PROVE  n >= sent
  <2>1. CASE sent = 0 BY <2>1
  <2>2. CASE sent # 0 /\ n < sent
    <3>1. sent - 1 \in Nat /\ n <= sent - 1 /\ HeadOf(sent) = Blk(sent - 1)
      BY <1>1, <2>2 DEF HeadOf
    <3>2. Blk(n) <= Blk(sent - 1) BY <3>1, InOrder
    <3>3. Blk(n) \in Nat BY Numbering
    <3> QED BY <1>1, <1>2, <1>3, <3>1, <3>2, <3>3
  <2> QED BY <1>1, <2>1, <2>2
<1> QED BY <1>1, <1>2, <1>3

\* A new block is a block that was not there.
LEMMA NewBlockIsNew ==
  ASSUME blocks # Block, blocks \subseteq Block
  PROVE  NewBlock \in Block \ blocks
<1>1. Block \ blocks \subseteq Nat /\ Block \ blocks # {}
  <2>1. Block \subseteq Nat BY Sizes DEF Block
  <2>2. \E b \in Block : b \notin blocks OBVIOUS
  <2> QED BY <2>1, <2>2
<1>2. PICK x \in Block \ blocks : \A y \in Block \ blocks : x <= y BY <1>1, LeastOf
<1> QED BY <1>2 DEF NewBlock

\* The offset of the block after block i.
LEMMA NextStart ==
  ASSUME NEW i \in Nat, NEW k \in Nat
  PROVE  /\ Plus(Start(i), k * BlockSize) = Start(i + k) /\ Start(i) \in Word
         /\ Plus(Start(i), BlockSize) = Start(i + 1)
<1>1. BlockSize * i \in Nat /\ k * BlockSize \in Nat BY Sizes
<1>2. BlockSize * i + k * BlockSize = BlockSize * (i + k) BY Sizes
<1>3. BlockSize * i + BlockSize = BlockSize * (i + 1) /\ BlockSize \in Nat BY Sizes
<1> QED BY <1>1, <1>2, <1>3, Offsets DEF Start

\* Elements past the last value are clear when a block comes to hold them.
LEMMA AtTheEnd ==
  ASSUME NEW at, NEW lo, NEW hi, Going(at, lo, hi), NEW n \in Nat, Blk(n) > hi
  PROVE  /\ ~(taken <= n /\ n < Built)
         /\ n >= sent /\ (n = sent => Mark = "empty")
<1>1. n >= sent BY Places
<1>2. ASSUME n = sent
      PROVE  /\ ppc # "publish" /\ ~Ended /\ ~(cpc = "parked" /\ ~cons)
  <2>1. ~(Blk(sent) <= hi) BY <1>2, Places
  <2>2. ppc # "publish" /\ ~Ended BY <2>1 DEF Going, Shape, Writer
  <2>3. cpc = "parked" /\ ~cons => Blk(taken) <= hi /\ taken = sent
    BY DEF Going, Shape, Reader, Rousing, AtElement
  <2> QED BY <2>1, <2>2, <2>3, Zenon
<1>3. taken \in Nat /\ sent \in Nat BY Places
<1>4. ~(taken <= n /\ n < Built) BY <1>1, <1>2, <1>3 DEF Built
<1>5. n = sent => Mark = "empty" BY <1>2, Zenon DEF Mark
<1> QED BY <1>1, <1>4, <1>5

\* A step of find_block(), whoever makes it, from block i to the next one: the
\* block that is there, or a new one, numbered hi + 1.
LEMMA Extend ==
  ASSUME NEW at, NEW lo, NEW hi, Going(at, lo, hi),
         NEW i \in lo .. hi, NEW c \in Block, Advance(at[i], c),
         UNCHANGED <<stored, taken, sent, closed, closing, cons, ppc, cpc, reclaim>>
  PROVE  \E at2 \in [Nat -> Block], hi2 \in Nat :
            /\ \A k \in lo .. hi : at2[k] = at[k]
            /\ hi <= hi2 /\ i + 1 <= hi2 /\ at2[i + 1] = c
            /\ Linked(at2, lo, hi2)' /\ Moving(at2, lo, hi2)' /\ Cells(at2, lo, hi2)'
            /\ Clean'
            /\ Writer(at2, hi2) /\ Reader(at2, lo, hi2)
            /\ (blocks \subseteq Block)'
            /\ (next \in [Block -> Block \cup {Null}])' /\ (offset \in [Block -> Word])'
            /\ (flags \in [Block -> [Index -> Flag]])'
<1>1. /\ at \in [Nat -> Block] /\ lo \in Nat /\ hi \in Nat /\ i \in Nat /\ lo <= hi
      /\ Linked(at, lo, hi) /\ Moving(at, lo, hi) /\ Cells(at, lo, hi) /\ Clean
      /\ Writer(at, hi) /\ Reader(at, lo, hi) /\ TypeOK /\ Calls
  BY DEF Going, Shape, Linked
<1>2. at[i] \in Block /\ at[i] # Null /\ at[i] \in blocks /\ at[i] \notin Unlinked
  BY <1>1 DEF Block, Null, Linked
<1>3. next[at[i]] = IF i = hi THEN Null ELSE at[i + 1] BY <1>1 DEF Linked
<1>4. CASE i # hi
  <2>1. next[at[i]] = at[i + 1] /\ at[i + 1] \in Block /\ i + 1 <= hi BY <1>1, <1>3, <1>4
  <2>2. next[at[i]] # Null BY <2>1 DEF Block, Null
  <2>3. c = at[i + 1] /\ UNCHANGED <<list, flags>> BY <2>1, <2>2 DEF Advance
  <2>4. Linked(at, lo, hi)' /\ Moving(at, lo, hi)'
    BY <1>1, <2>3, LinkedStays, MovingStays DEF reclaim
  <2>5. UNCHANGED elements /\ Built' = Built /\ Mark' = Mark /\ UNCHANGED <<blocks, unlinked>>
    BY <2>3 DEF elements, Built, Mark, Ended, list, reclaim
  <2>6. Cells(at, lo, hi)' BY <1>1, <2>5, CellsStay
  <2>7. Clean' BY <1>1, <2>5, CleanStays
  <2>8. /\ (blocks \subseteq Block)'
        /\ (next \in [Block -> Block \cup {Null}])' /\ (offset \in [Block -> Word])'
        /\ (flags \in [Block -> [Index -> Flag]])'
    BY <1>1, <2>3 DEF TypeOK, list
  <2> USE <1>1
  <2> WITNESS at \in [Nat -> Block], hi \in Nat
  <2> QED BY <1>1, <2>1, <2>3, <2>4, <2>6, <2>7, <2>8
<1>5. CASE i = hi
  <2>1. next[at[hi]] = Null BY <1>3, <1>5
  <2>2. /\ c \in Block \ blocks /\ c # at[hi] /\ blocks \subseteq Block
        /\ blocks' = blocks \cup {c}
        /\ next' = [next EXCEPT ![at[hi]] = c, ![c] = Null]
        /\ offset' = [offset EXCEPT ![c] = Plus(offset[at[hi]], BlockSize)]
        /\ flags' = [flags EXCEPT ![c] = Fresh]
    <3>1. blocks \subseteq Block BY <1>1 DEF TypeOK
    <3> QED BY <1>2, <1>5, <2>1, <3>1, NewBlockIsNew DEF Advance
  <2> DEFINE at2 == [at EXCEPT ![hi + 1] = c]
             hi2 == hi + 1
  <2>3. /\ at2 \in [Nat -> Block] /\ hi2 \in Nat /\ hi <= hi2 /\ at2[hi2] = c /\ hi2 = hi + 1
        /\ \A k \in lo .. hi : at2[k] = at[k]
        /\ \A k \in lo .. hi2 : k \in lo .. hi \/ k = hi2
        /\ lo <= hi2 /\ hi2 \in lo .. hi2
    BY <1>1, <2>2
  <2> HIDE DEF at2, hi2
  <2>4. /\ (blocks \subseteq Block)'
        /\ (next \in [Block -> Block \cup {Null}])' /\ (offset \in [Block -> Word])'
        /\ (flags \in [Block -> [Index -> Flag]])'
    <3>1. Plus(offset[at[hi]], BlockSize) \in Word
      <4>1. offset[at[hi]] = Start(hi) BY <1>1 DEF Linked
      <4>2. Plus(Start(hi), BlockSize) = Start(hi + 1) /\ Start(hi + 1) \in Word
        BY <1>1, NextStart
      <4> QED BY <4>1, <4>2
    <3>2. Fresh \in [Index -> Flag] BY DEF Fresh, Flag
    <3>3. next \in [Block -> Block \cup {Null}] /\ offset \in [Block -> Word]
          /\ flags \in [Block -> [Index -> Flag]]
      BY <1>1 DEF TypeOK
    <3> QED BY <1>2, <1>5, <2>2, <3>1, <3>2, <3>3
  <2>5. /\ next'[at[hi]] = c /\ next'[c] = Null
        /\ \A b \in Block : b # c /\ b # at[hi] => next'[b] = next[b]
        /\ offset'[c] = Start(hi2)
        /\ \A b \in Block : b # c => offset'[b] = offset[b] /\ flags'[b] = flags[b]
        /\ flags'[c] = Fresh
    <3>1. Plus(offset[at[hi]], BlockSize) = Start(hi2)
      <4>1. offset[at[hi]] = Start(hi) BY <1>1 DEF Linked
      <4>2. Plus(Start(hi), BlockSize) = Start(hi + 1) BY <1>1, NextStart
      <4> QED BY <2>3, <4>1, <4>2
    <3>2. next \in [Block -> Block \cup {Null}] /\ offset \in [Block -> Word]
          /\ flags \in [Block -> [Index -> Flag]]
      BY <1>1 DEF TypeOK
    <3> QED BY <1>2, <1>5, <2>2, <3>1, <3>2
  <2>6. /\ \A k \in lo .. hi : /\ at[k] \in Block /\ at[k] \in blocks /\ at[k] # c
                               /\ at[k] \notin Unlinked /\ offset[at[k]] = Start(k)
                               /\ next[at[k]] = IF k = hi THEN Null ELSE at[k + 1]
                               /\ k # hi => at[k] # at[hi]
        /\ Unlinked' = Unlinked /\ c \notin Unlinked /\ Unlinked \subseteq blocks
    BY <1>1, <2>2 DEF Linked, Moving, Unlinked, reclaim
  <2>7. Linked(at2, lo, hi2)'
    <3>1. ASSUME NEW k \in lo .. hi2
          PROVE  /\ at2[k] \in blocks' /\ at2[k] \notin Unlinked' /\ offset'[at2[k]] = Start(k)
                 /\ next'[at2[k]] = IF k = hi2 THEN Null ELSE at2[k + 1]
      <4>1. CASE k = hi2 BY <2>2, <2>3, <2>5, <2>6, <4>1
      <4>2. CASE k # hi2 /\ k = hi
        <5>1. k \in lo .. hi /\ at2[k] = at[hi] /\ at2[k + 1] = c /\ at[hi] # c
          BY <1>1, <2>3, <2>6, <4>2
        <5>2. /\ at[hi] \in blocks /\ at[hi] \in Block /\ at[hi] \notin Unlinked
              /\ offset[at[hi]] = Start(hi)
          BY <2>6, <4>2, <5>1
        <5> QED BY <2>2, <2>5, <2>6, <4>2, <5>1, <5>2
      <4>3. CASE k # hi2 /\ k # hi
        <5>1. k \in lo .. hi /\ k + 1 \in lo .. hi /\ at2[k] = at[k] /\ at2[k + 1] = at[k + 1]
          BY <1>1, <2>3, <4>3
        <5>2. /\ at[k] \in Block /\ at[k] \in blocks /\ at[k] # c /\ at[k] # at[hi]
              /\ at[k] \notin Unlinked /\ offset[at[k]] = Start(k) /\ next[at[k]] = at[k + 1]
          BY <2>6, <4>3, <5>1
        <5>3. offset'[at[k]] = Start(k) /\ next'[at[k]] = at[k + 1] BY <2>5, <5>2
        <5> QED BY <2>2, <2>6, <4>3, <5>1, <5>2, <5>3
      <4> QED BY <4>1, <4>2, <4>3
    <3>2. \A k, j \in lo .. hi2 : at2[k] = at2[j] => k = j
      <4>1. \A k, j \in lo .. hi : at[k] = at[j] => k = j BY <1>1 DEF Linked
      <4> QED BY <2>3, <2>6, <4>1
    <3>3. \A b \in blocks' : b \in Unlinked' \/ \E k \in lo .. hi2 : b = at2[k]
      <4>1. \A b \in blocks : b \in Unlinked \/ \E k \in lo .. hi : b = at[k] BY <1>1 DEF Linked
      <4>2. \A k \in lo .. hi : k \in lo .. hi2 BY <1>1, <2>3
      <4> QED BY <2>2, <2>3, <2>6, <4>1, <4>2
    <3> QED BY <2>3, <3>1, <3>2, <3>3 DEF Linked
  <2>8. Moving(at2, lo, hi2)'
    <3>1. at2[lo] = at[lo] BY <1>1, <2>3
    <3>2. UNCHANGED <<unlinked, tail_block, tailBlock, oldHead, cpc, taken>> BY DEF reclaim
    <3>3. \A k \in 1 .. Len(unlinked) : unlinked[k] \in Unlinked BY DEF Unlinked
    <3>4. \A k \in 1 .. Len(unlinked) : next'[unlinked[k]] = next[unlinked[k]]
      <4>1. \A b \in Unlinked : b \in Block /\ b # c /\ b # at[hi] BY <1>2, <1>5, <2>2, <2>6
      <4> QED BY <2>5, <3>3, <4>1
    <3>5. \A k \in 1 .. Len(unlinked') :
             next'[unlinked'[k]] = IF k < Len(unlinked') THEN unlinked'[k + 1]
                                   ELSE IF cpc' = "relink" THEN Null ELSE at2[lo]
      <4>1. \A k \in 1 .. Len(unlinked) :
              next[unlinked[k]] = IF k < Len(unlinked) THEN unlinked[k + 1]
                                  ELSE IF cpc = "relink" THEN Null ELSE at[lo]
        BY <1>1 DEF Moving
      <4> QED BY <3>1, <3>2, <3>4, <4>1
    <3>6. Unlinked' \subseteq blocks' /\ tail_block' \in blocks'
          /\ (cpc' = "find_tail" => tailBlock' \in blocks')
          /\ (cpc' \in {"unlink", "relink"} => tailBlock' \in blocks' \ Unlinked')
      BY <1>1, <2>2, <2>6, <3>2 DEF Moving
    <3> QED BY <1>1, <3>1, <3>2, <3>5, <3>6 DEF Moving
  <2>9. Clean'
    <3>1. \A b \in Block : b \notin blocks \/ b \in Unlinked =>
             \A j \in Index : stored[b][j] = NoValue
      BY <1>1 DEF Clean
    <3>2. \A b \in Unlinked : flags'[b] = flags[b] BY <2>2, <2>5, <2>6
    <3>3. cpc \in {"find_tail", "unlink", "relink"} => \A b \in Unlinked : flags[b] = Fresh
      BY <1>1 DEF Clean
    <3>4. \A b \in Block : b \notin blocks' \/ b \in Unlinked' => b \notin blocks \/ b \in Unlinked
      BY <2>2, <2>6
    <3>5. cpc' \in {"find_tail", "unlink", "relink"} => \A b \in Unlinked' : flags'[b] = Fresh
      BY <2>6, <3>2, <3>3
    <3>6. stored' = stored OBVIOUS
    <3> QED BY <3>1, <3>4, <3>5, <3>6 DEF Clean
  <2>10. Cells(at2, lo, hi2)'
    <3>1. Built' = Built /\ Mark' = Mark /\ taken' = taken /\ sent' = sent /\ stored' = stored
          /\ cpc' = cpc
      BY DEF Built, Mark, Ended
    <3>2. ASSUME NEW n \in Nat, Blk(n) \in lo .. hi
          PROVE  FlagAt(at2, n)' = FlagAt(at, n) /\ ValueAt(at2, n)' = ValueAt(at, n)
      <4>1. at2[Blk(n)] = at[Blk(n)] /\ at[Blk(n)] \in Block /\ at[Blk(n)] # c
        BY <2>3, <2>6, <3>2
      <4> QED BY <2>5, <3>1, <4>1 DEF FlagAt, ValueAt
    <3>3. ASSUME NEW n \in Nat, Blk(n) = hi2
          PROVE  FlagAt(at2, n)' = "empty" /\ ValueAt(at2, n)' = NoValue
      <4>1. at2[Blk(n)] = c /\ Idx(n) \in Index BY <2>3, <3>3, Numbering
      <4>2. stored[c][Idx(n)] = NoValue BY <1>1, <2>2, <4>1 DEF Clean
      <4>3. flags'[c][Idx(n)] = "empty" BY <2>5, <4>1 DEF Fresh
      <4> QED BY <3>1, <4>1, <4>2, <4>3 DEF FlagAt, ValueAt
    <3>4. ASSUME NEW n \in Nat, Blk(n) = hi2
          PROVE  ~(taken <= n /\ n < Built) /\ n >= sent /\ (n = sent => Mark = "empty")
      <4>1. Blk(n) > hi BY <1>1, <2>3, <3>4
      <4> QED BY <4>1, AtTheEnd
    <3> SUFFICES ASSUME NEW n \in Nat, Blk(n) \in lo .. hi2
                 PROVE
        /\ ValueAt(at2, n)' = IF taken <= n /\ n < Built THEN n + 1 ELSE NoValue
        /\ taken <= n /\ n < sent =>
              FlagAt(at2, n)' = "data" \/ (n = taken /\ cpc = "holding" /\ FlagAt(at2, n)' = "cons")
        /\ n = sent => FlagAt(at2, n)' = Mark
        /\ n > sent => FlagAt(at2, n)' = "empty"
      BY <3>1 DEF Cells
    <3>5. CASE Blk(n) \in lo .. hi BY <1>1, <3>2, <3>5 DEF Cells
    <3>6. CASE Blk(n) = hi2
      <4>1. sent \in Nat BY Places
      <4> QED BY <3>3, <3>4, <3>6, <4>1
    <3> QED BY <2>3, <3>5, <3>6
  <2>11. Writer(at2, hi2) /\ Reader(at2, lo, hi2) BY <1>1, <2>3, MoreBlocks
  <2> USE <2>3
  <2> WITNESS at2 \in [Nat -> Block], hi2 \in Nat
  <2> QED BY <1>1, <1>5, <2>3, <2>4, <2>7, <2>8, <2>9, <2>10, <2>11
<1> QED BY <1>4, <1>5

\* Steps of the producer
\* Blocks whose elements are posted close together have different offsets.
LEMMA SameStart ==
  ASSUME NEW n \in Nat, NEW m \in Nat, n <= m, m - n <= MaxWaiting,
         NEW i \in Blk(n) .. Blk(m), Start(i) = Start(Blk(m))
  PROVE  i = Blk(m)
<1>1. /\ Blk(n) \in Nat /\ Blk(m) \in Nat /\ BlockSize \in Nat /\ BlockSize > 0
      /\ Idx(n) \in Nat /\ Idx(n) < BlockSize /\ n = BlockSize * Blk(n) + Idx(n)
      /\ Idx(m) \in Nat /\ Idx(m) < BlockSize /\ m = BlockSize * Blk(m) + Idx(m)
  BY Numbering, Sizes
<1>2. i \in Nat /\ Blk(n) <= i /\ i <= Blk(m) BY <1>1
<1> DEFINE a == BlockSize * Blk(n)
           x == BlockSize * i
           b == BlockSize * Blk(m)
<1>3. a \in Nat /\ x \in Nat /\ b \in Nat BY <1>1, <1>2
<1>4. a <= x
  <2>1. Blk(n) < i => BlockSize * Blk(n) + BlockSize <= BlockSize * i BY <1>1, <1>2, MulMono
  <2>2. Blk(n) = i => a = x OBVIOUS
  <2> QED BY <1>1, <1>2, <1>3, <2>1, <2>2
<1>5. SUFFICES ASSUME i < Blk(m)
               PROVE  FALSE
  BY <1>1, <1>2
<1>6. x < b
  <2>1. BlockSize * i + BlockSize <= BlockSize * Blk(m) BY <1>1, <1>2, <1>5, MulMono
  <2> QED BY <1>1, <1>3, <2>1
<1>7. b - x < WordMod
  <2>1. n = a + Idx(n) /\ m = b + Idx(m) BY <1>1
  <2> HIDE DEF a, b, x
  <2> QED BY <1>1, <1>3, <1>4, <2>1, Sizes
<1>8. (FirstOffset + x) % WordMod = (FirstOffset + b) % WordMod BY DEF Start, Off
<1> HIDE DEF a, b, x
<1>9. FirstOffset + x \in Nat /\ FirstOffset + b \in Nat /\ FirstOffset + x < FirstOffset + b
      /\ WordMod \in Nat /\ WordMod > 0
  BY <1>3, <1>6, Sizes
<1>10. (FirstOffset + x) + WordMod <= FirstOffset + b BY <1>8, <1>9, ModApart
<1> QED BY <1>3, <1>7, <1>9, <1>10, Sizes

\* Where the next value goes.
LEMMA WritePlace ==
  ASSUME NEW at, NEW lo, NEW hi, Going(at, lo, hi)
  PROVE  /\ WriteAt = Off(sent) /\ IndexOf(WriteAt) = Idx(sent)
         /\ written = 0 => write_offset = Off(sent) /\ IndexOf(write_offset) = Idx(sent)
                           /\ StartOf(write_offset) = Start(Blk(sent))
<1>1. sent \in Nat /\ written \in Nat /\ sent - written \in Nat BY Places
<1>2. write_offset = Off(sent - written) BY DEF Going, Shape, Writer
<1>3. (sent - written) + written = sent BY <1>1
<1>4. WriteAt = Off(sent) BY <1>1, <1>2, <1>3, Offsets DEF WriteAt
<1>5. written = 0 => write_offset = Off(sent) BY <1>1, <1>2
<1> QED BY <1>1, <1>4, <1>5, Offsets

\* The invariant, part by part.
LEMMA Parts ==
  ASSUME NEW at, NEW lo, NEW hi, Going(at, lo, hi)
  PROVE  /\ at \in [Nat -> Block] /\ lo \in Nat /\ hi \in Nat /\ lo <= hi
         /\ TypeOK /\ ppc # "gone" /\ cpc # "gone"
         /\ Calls /\ Clean /\ Rousing
         /\ Linked(at, lo, hi) /\ Moving(at, lo, hi) /\ Cells(at, lo, hi)
         /\ Writer(at, hi) /\ Reader(at, lo, hi)
  BY DEF Going, Shape, Linked

\* Writing the flag of one element.
LEMMA WriteFlag ==
  ASSUME NEW at, NEW lo, NEW hi, Going(at, lo, hi), NEW m \in Nat, Blk(m) \in lo .. hi,
         NEW v \in Flag, flags' = [flags EXCEPT ![at[Blk(m)]][Idx(m)] = v],
         UNCHANGED <<blocks, unlinked, stored>>,
         cpc' = cpc \/ cpc' \notin {"find_tail", "unlink", "relink"}
  PROVE  /\ (flags \in [Block -> [Index -> Flag]])' /\ Clean'
         /\ \A n \in Nat : Blk(n) \in lo .. hi =>
               /\ FlagAt(at, n)' = IF n = m THEN v ELSE FlagAt(at, n)
               /\ ValueAt(at, n)' = ValueAt(at, n)
<1>1. /\ at \in [Nat -> Block] /\ lo \in Nat /\ hi \in Nat
      /\ \A i, j \in lo .. hi : at[i] = at[j] => i = j
      /\ flags \in [Block -> [Index -> Flag]]
  BY Parts DEF Linked, TypeOK
<1>2. /\ (flags \in [Block -> [Index -> Flag]])'
      /\ \A n \in Nat : Blk(n) \in lo .. hi =>
              flags'[at[Blk(n)]][Idx(n)] = IF n = m THEN v ELSE flags[at[Blk(n)]][Idx(n)]
      /\ \A b \in Block : b # at[Blk(m)] => flags'[b] = flags[b]
  <2> DEFINE b == at[Blk(m)]
             i == Idx(m)
             g == flags'
  <2>1. b \in Block /\ i \in Index /\ g = [flags EXCEPT ![b][i] = v] BY <1>1, Numbering
  <2> HIDE DEF b, i, g
  <2>2. /\ g \in [Block -> [Index -> Flag]]
        /\ \A c \in Block, j \in Index : g[c][j] = IF c = b /\ j = i THEN v ELSE flags[c][j]
    BY <1>1, <2>1
  <2>3. ASSUME NEW n \in Nat, Blk(n) \in lo .. hi
        PROVE  g[at[Blk(n)]][Idx(n)] = IF n = m THEN v ELSE flags[at[Blk(n)]][Idx(n)]
    <3>1. /\ at[Blk(n)] \in Block /\ Idx(n) \in Index
          /\ at[Blk(n)] = b /\ Idx(n) = i <=> n = m
      BY <1>1, <2>3, OneCell DEF b, i
    <3> QED BY <2>2, <3>1
  <2>4. ASSUME NEW c \in Block, c # b
        PROVE  g[c] = flags[c]
    <3>1. g[c] \in [Index -> Flag] /\ flags[c] \in [Index -> Flag] BY <1>1, <2>2
    <3>2. \A j \in Index : g[c][j] = flags[c][j] BY <2>2, <2>4
    <3> QED BY <3>1, <3>2
  <2> QED BY <2>2, <2>3, <2>4 DEF b, g
<1>3. Clean'
  <2>1. at[Blk(m)] \notin Unlinked /\ Unlinked \subseteq Block
    BY Parts DEF Linked, Moving, TypeOK
  <2>3. \A b \in Unlinked : flags'[b] = flags[b] BY <1>2, <2>1
  <2>4. Unlinked' = Unlinked BY DEF Unlinked
  <2> QED BY <2>3, <2>4, Parts DEF Clean
<1>4. stored' = stored OBVIOUS
<1> QED BY <1>2, <1>3, <1>4 DEF FlagAt, ValueAt

\* Constructing or destroying the value of one element.
LEMMA WriteValue ==
  ASSUME NEW at, NEW lo, NEW hi, Going(at, lo, hi), NEW m \in Nat, Blk(m) \in lo .. hi,
         NEW v \in Value \cup {NoValue}, stored' = [stored EXCEPT ![at[Blk(m)]][Idx(m)] = v],
         UNCHANGED <<blocks, unlinked, flags>>,
         cpc' = cpc \/ cpc' \notin {"find_tail", "unlink", "relink"}
  PROVE  /\ (stored \in [Block -> [Index -> Value \cup {NoValue}]])' /\ Clean'
         /\ \A n \in Nat : Blk(n) \in lo .. hi =>
               /\ ValueAt(at, n)' = IF n = m THEN v ELSE ValueAt(at, n)
               /\ FlagAt(at, n)' = FlagAt(at, n)
<1>1. /\ at \in [Nat -> Block] /\ lo \in Nat /\ hi \in Nat
      /\ \A i, j \in lo .. hi : at[i] = at[j] => i = j
      /\ stored \in [Block -> [Index -> Value \cup {NoValue}]]
  BY Parts DEF Linked, TypeOK
<1> DEFINE V == Value \cup {NoValue}
<1>2. stored \in [Block -> [Index -> V]] /\ v \in V BY <1>1
<1> HIDE DEF V
<1>3. /\ (stored \in [Block -> [Index -> V]])'
      /\ \A n \in Nat : Blk(n) \in lo .. hi =>
              stored'[at[Blk(n)]][Idx(n)] = IF n = m THEN v ELSE stored[at[Blk(n)]][Idx(n)]
      /\ \A b \in Block : b # at[Blk(m)] => stored'[b] = stored[b]
  <2> DEFINE b == at[Blk(m)]
             i == Idx(m)
             g == stored'
  <2>1. b \in Block /\ i \in Index /\ g = [stored EXCEPT ![b][i] = v] BY <1>1, Numbering
  <2> HIDE DEF b, i, g
  <2>2. /\ g \in [Block -> [Index -> V]]
        /\ \A c \in Block, j \in Index : g[c][j] = IF c = b /\ j = i THEN v ELSE stored[c][j]
    BY <1>1, <1>2, <2>1
  <2>3. ASSUME NEW n \in Nat, Blk(n) \in lo .. hi
        PROVE  g[at[Blk(n)]][Idx(n)] = IF n = m THEN v ELSE stored[at[Blk(n)]][Idx(n)]
    <3>1. /\ at[Blk(n)] \in Block /\ Idx(n) \in Index
          /\ at[Blk(n)] = b /\ Idx(n) = i <=> n = m
      BY <1>1, <2>3, OneCell DEF b, i
    <3> QED BY <2>2, <3>1
  <2>4. ASSUME NEW c \in Block, c # b
        PROVE  g[c] = stored[c]
    <3>1. g[c] \in [Index -> V] /\ stored[c] \in [Index -> V] BY <1>1, <1>2, <2>2
    <3>2. \A j \in Index : g[c][j] = stored[c][j] BY <2>2, <2>4
    <3> QED BY <3>1, <3>2
  <2> QED BY <2>2, <2>3, <2>4 DEF b, g
<1>4. Clean'
  <2>1. at[Blk(m)] \notin Unlinked /\ at[Blk(m)] \in blocks BY Parts DEF Linked
  <2>3. Unlinked' = Unlinked BY DEF Unlinked
  <2>4. \A b \in Block : b \notin blocks \/ b \in Unlinked => stored'[b] = stored[b]
    BY <1>3, <2>1
  <2> QED BY <2>3, <2>4, Parts DEF Clean
<1>5. flags' = flags OBVIOUS
<1> QED BY <1>3, <1>4, <1>5 DEF FlagAt, ValueAt, V

\* What the consumer has is left alone.
LEMMA ConsumerStill ==
  ASSUME NEW at, NEW lo, NEW hi, Going(at, lo, hi), UNCHANGED <<list, consumer, can_suspend>>
  PROVE  Linked(at, lo, hi)' /\ Moving(at, lo, hi)' /\ Reader(at, lo, hi)'
<1>1. UNCHANGED <<list, unlinked, reclaim, reading, cpc, taken, can_suspend>>
  BY DEF consumer, reading, reclaim
<1> QED BY <1>1, Parts, LinkedStays, MovingStays, ReaderStays

\* A post begins at write_block, which is on the list.
LEMMA PostKeeps ==
  ASSUME NEW at, NEW lo, NEW hi, Going(at, lo, hi), NEW n \in 1 .. MaxBulk, Post(n)
  PROVE  Kept'
<1>1. Linked(at, lo, hi)' /\ Moving(at, lo, hi)' /\ Reader(at, lo, hi)'
  BY ConsumerStill DEF Post
<1>2. UNCHANGED <<elements, blocks, unlinked, cpc, sent, taken, closed, closing, cons, elem>>
  BY DEF Post, list, consumer, reading, reclaim, cutoff
<1>3. ~closing /\ ~cons /\ written = 0 BY Parts DEF Post, Calls, Rousing, Writing
<1>4. Cells(at, lo, hi)' /\ Clean'
  <2>1. Built' = Built /\ Mark' = Mark BY <1>2 DEF Built, Mark, Ended, Post
  <2> QED BY <1>2, <2>1, Parts, CellsStay, CleanStays
<1>5. Rousing' BY <1>2, <1>3, Parts DEF Rousing, Ended, Post
<1>6. TypeOK'
  BY Parts, Sizes DEF TypeOK, Post, list, elements, cutoff, consumer, reading, reclaim, Function
<1>7. Calls'
  <2>1. n \in Nat /\ n > 0 /\ sent \in Nat /\ taken \in Nat BY Places, Sizes
  <2> QED BY <1>2, <1>3, <2>1, Parts DEF Calls, Post, cutoff, Writing
<1>8. Writer(at, hi)'
  <2>1. \E p \in HeadOf(sent) .. Blk(sent) : p <= hi /\ write_block = at[p]
    BY Places, Parts DEF Writer
  <2>2. /\ write_offset' = Off(sent' - written') /\ written' <= sent'
        /\ pblock' = write_block /\ ppc' = "seek" /\ UNCHANGED <<sent, write_block>>
    BY <1>3, Parts DEF Post, Writer
  <2> QED BY <1>2, <2>1, <2>2, Parts DEF Writer, Ended, Writing
<1> QED BY <1>1, <1>2, <1>4, <1>5, <1>6, <1>7, <1>8, Parts DEF Kept, Going, Shape, Post

\* So does close().
LEMMA CloseKeeps ==
  ASSUME NEW at, NEW lo, NEW hi, Going(at, lo, hi), Close
  PROVE  Kept'
<1>1. Linked(at, lo, hi)' /\ Moving(at, lo, hi)' /\ Reader(at, lo, hi)'
  BY ConsumerStill DEF Close
<1>2. UNCHANGED <<elements, blocks, unlinked, cpc, sent, taken, cons, elem>>
  BY DEF Close, list, consumer, reading, reclaim
<1>3. ~closing /\ ~cons /\ written = 0 /\ ~Ended /\ ~Ended'
  BY Parts DEF Close, Calls, Rousing, Writing, Ended
<1>4. Cells(at, lo, hi)' /\ Clean'
  <2>1. Built' = Built /\ Mark' = Mark BY <1>2, <1>3 DEF Built, Mark, Close
  <2> QED BY <1>2, <2>1, Parts, CellsStay, CleanStays
<1>5. Rousing' BY <1>2, <1>3, Parts DEF Rousing, Close
<1>6. TypeOK'
  BY Parts, Sizes DEF TypeOK, Close, list, elements, consumer, reading, reclaim, Function
<1>7. Calls' BY <1>2, <1>3, Parts DEF Calls, Close, Writing
<1>8. Writer(at, hi)'
  <2>1. \E p \in HeadOf(sent) .. Blk(sent) : p <= hi /\ write_block = at[p]
    BY Places, Parts DEF Writer
  <2>2. /\ write_offset' = Off(sent' - written') /\ written' <= sent'
        /\ pblock' = write_block /\ ppc' = "seek" /\ UNCHANGED <<sent, write_block>>
    BY <1>3, Parts DEF Close, Writer
  <2> QED BY <1>2, <1>3, <2>1, <2>2, Parts DEF Writer, Writing
<1> QED BY <1>1, <1>2, <1>4, <1>5, <1>6, <1>7, <1>8, Parts DEF Kept, Going, Shape, Close

\* A bulk goes on in the next block, which it has reserved.
LEMMA CrossKeeps ==
  ASSUME NEW at, NEW lo, NEW hi, Going(at, lo, hi), Cross
  PROVE  Kept'
<1>1. Linked(at, lo, hi)' /\ Moving(at, lo, hi)' /\ Reader(at, lo, hi)'
  BY ConsumerStill DEF Cross
<1>2. UNCHANGED <<elements, blocks, unlinked, cpc, sent, taken, closed, closing, cons, elem>>
  BY DEF Cross, list, consumer, reading, reclaim, cutoff
<1>3. Cells(at, lo, hi)' /\ Clean'
  <2>1. Built' = Built /\ Mark' = Mark BY <1>2 DEF Built, Mark, Ended, Cross
  <2> QED BY <1>2, <2>1, Parts, CellsStay, CleanStays
<1>4. next[pblock] = at[Blk(sent)] /\ Blk(sent) <= hi
  <2>1. pblock = at[HeadOf(sent)] /\ Idx(sent) = 0 /\ sent > 0
        /\ Blk(sent - written + count - 1) <= hi
    BY Parts DEF Writer, Cross, Writing
  <2>2. Blk(sent) = HeadOf(sent) + 1 BY <2>1, Places, Heads
  <2>3. ~closing /\ count > written BY Parts DEF Calls, Cross, Writing
  <2>4. sent - written + count - 1 \in Nat /\ sent <= sent - written + count - 1 BY <2>3, Places
  <2>5. Blk(sent) <= Blk(sent - written + count - 1) /\ Blk(sent - written + count - 1) \in Nat
    BY <2>4, Places, InOrder, Numbering
  <2>6. HeadOf(sent) \in lo .. hi /\ HeadOf(sent) # hi /\ Blk(sent) <= hi
    BY <2>1, <2>2, <2>5, Places
  <2> QED BY <2>1, <2>2, <2>6, Parts DEF Linked
<1>5. Rousing' BY <1>2, Parts DEF Rousing, Ended, Cross, Writing
<1>6. TypeOK'
  <2>1. next[pblock] \in Block BY <1>4, Parts, Places
  <2> QED
    BY <2>1, Parts, Sizes DEF TypeOK, Cross, list, elements, cutoff, consumer, reading, reclaim, Function
<1>7. Calls' BY <1>2, Parts DEF Calls, Cross, cutoff, Writing
<1>8. Writer(at, hi)'
  <2>1. UNCHANGED <<write_offset, sent, written, count, closed, closing>> BY DEF Cross, cutoff
  <2>2. pblock' = at[Blk(sent)] /\ write_block' = at[Blk(sent)] /\ ppc' = "emplace" /\ ppc = "cross"
    BY <1>4 DEF Cross
  <2> QED BY <1>4, <2>1, <2>2, Parts DEF Writer, Ended, Writing
<1> QED BY <1>1, <1>2, <1>3, <1>5, <1>6, <1>7, <1>8, Parts DEF Kept, Going, Shape, Cross

\* Whom the producer resumes has what it waited for.
LEMMA ResumeConsumerKeeps ==
  ASSUME NEW at, NEW lo, NEW hi, Going(at, lo, hi), ResumeConsumer
  PROVE  Kept'
<1>1. UNCHANGED <<list, elements, blocks, unlinked, reclaim, reading, sent, taken, closed, closing,
                  elem, can_suspend>>
  BY DEF ResumeConsumer, list, reading, reclaim, cutoff
<1>2. cons /\ cpc = "parked" /\ cpc' = "resume" /\ ~cons' /\ ppc = "wake" /\ ppc' = "idle"
  BY Parts DEF ResumeConsumer, Rousing
<1>3. Linked(at, lo, hi)' /\ Clean' BY <1>1, <1>2, Parts, LinkedStays, CleanStays
<1>4. Moving(at, lo, hi)'
  <2>1. {cpc, cpc'} \cap Reclaiming = {} BY <1>2 DEF Reclaiming
  <2> QED BY <1>1, <2>1, Parts, MovingStays
<1>5. Reader(at, lo, hi)' BY <1>1, <1>2, Parts DEF Reader, AtElement, reading
<1>6. Cells(at, lo, hi)'
  <2>1. Built' = Built /\ Mark' = Mark BY <1>1, <1>2 DEF Built, Mark, Ended
  <2> QED BY <1>1, <1>2, <2>1, Parts, CellsStay
<1>7. Rousing' BY <1>1, <1>2, Parts DEF Rousing, Ended
<1>8. TypeOK'
  BY Parts, Sizes DEF TypeOK, ResumeConsumer, list, elements, cutoff, reading, reclaim, Function
<1>9. Calls' BY <1>1, <1>2, Parts DEF Calls, ResumeConsumer, cutoff, Writing
<1>10. Writer(at, hi)' BY <1>1, <1>2, Parts DEF Writer, ResumeConsumer, Ended, Writing
<1> QED BY <1>2, <1>3, <1>4, <1>5, <1>6, <1>7, <1>8, <1>9, <1>10, Parts DEF Kept, Going, Shape

\* The next element holds no value.
LEMMA EmplaceKeeps ==
  ASSUME NEW at, NEW lo, NEW hi, Going(at, lo, hi), Emplace
  PROVE  Kept'
<1>1. Linked(at, lo, hi)' /\ Moving(at, lo, hi)' /\ Reader(at, lo, hi)'
  BY ConsumerStill DEF Emplace
<1>2. UNCHANGED <<flags, blocks, unlinked, cpc, sent, taken, closed, closing, cons, elem>>
  BY DEF Emplace, list, consumer, reading, reclaim, cutoff, pushing
<1>3. pblock = at[Blk(sent)] /\ Blk(sent) \in lo .. hi /\ sent \in Nat
  BY Places, Parts DEF Writer, Emplace
<1>4. sent + 1 \in Value /\ sent + 1 <= MaxPost
  <2>1. ~closing /\ count > written /\ sent - written + count <= MaxPost
    BY Parts DEF Calls, Emplace, Writing
  <2> QED BY <2>1, Places, Sizes DEF Value
<1>5. /\ (stored \in [Block -> [Index -> Value \cup {NoValue}]])' /\ Clean'
      /\ \A n \in Nat : Blk(n) \in lo .. hi =>
            /\ ValueAt(at, n)' = IF n = sent THEN sent + 1 ELSE ValueAt(at, n)
            /\ FlagAt(at, n)' = FlagAt(at, n)
  <2>1. stored' = [stored EXCEPT ![at[Blk(sent)]][Idx(sent)] = sent + 1]
    BY <1>3, WritePlace DEF Emplace
  <2>2. sent + 1 \in Value \cup {NoValue} BY <1>4
  <2> QED BY <1>2, <1>3, <2>1, <2>2, WriteValue
<1>6. Cells(at, lo, hi)'
  <2>1. Mark' = Mark BY <1>2 DEF Mark, Ended
  <2>2. Built = sent /\ Built' = sent + 1 BY <1>2 DEF Built, Emplace
  <2>3. taken \in Nat /\ taken <= sent BY Places
  <2> QED BY <1>2, <1>3, <1>5, <2>1, <2>2, <2>3, Parts DEF Cells
<1>7. Rousing' BY <1>2, Parts DEF Rousing, Ended, Emplace, Writing
<1>8. TypeOK'
  BY <1>5, Parts, Sizes DEF TypeOK, Emplace, list, cutoff, pushing, consumer, reading, reclaim, Function
<1>9. Calls' BY <1>2, Parts DEF Calls, Emplace, cutoff, pushing, Writing
<1>10. Writer(at, hi)'
  <2>1. UNCHANGED <<write_offset, write_block, sent, written, count, closed, closing, pblock>>
    BY DEF Emplace, cutoff, pushing
  <2> QED BY <2>1, Parts DEF Writer, Emplace, Ended, Writing
<1> QED BY <1>1, <1>2, <1>5, <1>6, <1>7, <1>8, <1>9, <1>10, Parts DEF Kept, Going, Shape, Emplace

\* The flag of the element to be written next says whether the consumer sleeps there.
LEMMA NextFlag ==
  ASSUME NEW at, NEW lo, NEW hi, Going(at, lo, hi),
         ppc \in {"emplace", "publish", "sentinel"}
  PROVE  /\ pblock = at[Blk(sent)] /\ Blk(sent) \in lo .. hi /\ sent \in Nat
         /\ flags[pblock][IndexOf(WriteAt)] = Mark /\ ~Ended
         /\ Mark = IF cpc = "parked" /\ ~cons THEN "cons" ELSE "empty"
<1>1. pblock = at[Blk(sent)] /\ Blk(sent) \in lo .. hi /\ sent \in Nat
  BY Places, Parts DEF Writer
<1>2. FlagAt(at, sent) = Mark BY <1>1, Parts DEF Cells
<1>3. flags[pblock][IndexOf(WriteAt)] = Mark BY <1>1, <1>2, WritePlace DEF FlagAt
<1>4. ~Ended BY Parts DEF Calls, Ended, Writing
<1> QED BY <1>1, <1>3, <1>4, Zenon DEF Mark

\* Publishing a value: the flag was clear, or had a consumer in it.
LEMMA PublishKeeps ==
  ASSUME NEW at, NEW lo, NEW hi, Going(at, lo, hi), Publish
  PROVE  Kept'
<1>1. Linked(at, lo, hi)' /\ Moving(at, lo, hi)' /\ Reader(at, lo, hi)'
  BY ConsumerStill DEF Publish
<1>2. UNCHANGED <<stored, blocks, unlinked, cpc, taken, closed, closing, elem, write_block, pblock,
                  count, walk, can_suspend>>
  BY DEF Publish, list, consumer, reading, reclaim, cutoff
<1>3. /\ pblock = at[Blk(sent)] /\ Blk(sent) \in lo .. hi /\ sent \in Nat
      /\ flags[pblock][IndexOf(WriteAt)] = Mark /\ ~Ended
      /\ Mark = IF cpc = "parked" /\ ~cons THEN "cons" ELSE "empty"
  BY NextFlag DEF Publish
<1>4. /\ ~closing /\ ~closed /\ count > written /\ ppc = "publish"
      /\ written \in Nat /\ count \in Nat /\ written <= sent
      /\ sent - written + count <= MaxPost /\ sent - written + count - taken <= MaxWaiting
      /\ taken \in Nat /\ taken <= sent /\ sent' = sent + 1
  BY Places, Parts DEF Calls, Publish, Writing
<1>5. /\ (flags \in [Block -> [Index -> Flag]])' /\ Clean'
      /\ \A n \in Nat : Blk(n) \in lo .. hi =>
            /\ FlagAt(at, n)' = IF n = sent THEN "data" ELSE FlagAt(at, n)
            /\ ValueAt(at, n)' = ValueAt(at, n)
  <2>1. flags' = [flags EXCEPT ![at[Blk(sent)]][Idx(sent)] = "data"]
    BY <1>3, WritePlace DEF Publish
  <2>2. "data" \in Flag BY DEF Flag
  <2> QED BY <1>2, <1>3, <2>1, <2>2, WriteFlag
<1>6. cons' <=> cons \/ (cpc = "parked" /\ ~cons)
  <2>1. cpc = "parked" => can_suspend BY Parts DEF Reader, AtElement
  <2>3. cons' = (cons \/ (can_suspend /\ Mark # "empty")) BY <1>3 DEF Publish, Waiter
  <2>4. Mark # "empty" <=> cpc = "parked" /\ ~cons BY <1>3
  <2> QED BY <2>1, <2>3, <2>4, Zenon
<1>7. ppc' \in {"wake", "idle", "cross", "emplace"} /\ (cons' /\ written + 1 = count => ppc' = "wake")
      /\ (written + 1 # count => ppc' \in Writing \ {"publish"})
      /\ (ppc' = "wake" => cons') /\ (ppc' \in Writing <=> written + 1 # count)
  <2>1. CASE written + 1 = count /\ cons' BY <2>1, Zenon DEF Publish, Writing
  <2>2. CASE written + 1 = count /\ ~cons'
    <3>1. ppc' = "idle" BY <2>2, Zenon DEF Publish
    <3> QED BY <2>2, <3>1 DEF Writing
  <2>3. CASE written + 1 # count
    <3>1. ppc' = IF StartsBlock(Plus(WriteAt, 1)) THEN "cross" ELSE "emplace"
      BY <2>3, Zenon DEF Publish
    <3> QED BY <2>3, <3>1 DEF Writing
  <2> QED BY <2>1, <2>2, <2>3
<1>8. Cells(at, lo, hi)'
  <2>1. ~Ended' BY <1>2, <1>3 DEF Ended
  <2>2. Mark' = "empty"
    <3>1. ~(cpc' = "parked" /\ ~cons') BY <1>2, <1>6
    <3> QED BY <2>1, <3>1, Zenon DEF Mark
  <2>3. Built = sent + 1 /\ Built' = sent + 1 BY <1>4, <1>7 DEF Built, Writing
  <2>4. sent' = sent + 1 /\ taken' = taken /\ cpc' = cpc BY <1>2 DEF Publish
  <2> SUFFICES ASSUME NEW n \in Nat, Blk(n) \in lo .. hi
               PROVE
        /\ ValueAt(at, n)' = IF taken <= n /\ n < sent + 1 THEN n + 1 ELSE NoValue
        /\ taken <= n /\ n < sent + 1 =>
              FlagAt(at, n)' = "data" \/ (n = taken /\ cpc = "holding" /\ FlagAt(at, n)' = "cons")
        /\ n = sent + 1 => FlagAt(at, n)' = "empty"
        /\ n > sent + 1 => FlagAt(at, n)' = "empty"
    BY <2>2, <2>3, <2>4 DEF Cells
  <2>5. /\ ValueAt(at, n) = IF taken <= n /\ n < sent + 1 THEN n + 1 ELSE NoValue
        /\ taken <= n /\ n < sent =>
              FlagAt(at, n) = "data" \/ (n = taken /\ cpc = "holding" /\ FlagAt(at, n) = "cons")
        /\ n > sent => FlagAt(at, n) = "empty"
    BY <2>3, Parts DEF Cells
  <2> QED BY <1>3, <1>4, <1>5, <2>5
<1>9. Rousing'
  <2>1. cons' => cpc' = "parked" /\ ppc' \in Writing \cup {"wake"}
    BY <1>2, <1>6, <1>7, Parts DEF Rousing
  <2>2. cons' => IF elem' THEN taken' < sent' ELSE Ended' /\ taken' = sent'
    <3>1. cons' => elem /\ taken <= sent BY <1>3, <1>4, <1>6, Parts DEF Rousing
    <3> QED BY <1>2, <1>3, <1>4, <3>1
  <2>3. ~(cpc' = "parked" /\ ~cons') BY <1>2, <1>6
  <2>4. cpc' = "resume" => IF elem' THEN taken' < sent' ELSE Ended' /\ taken' = sent'
    BY <1>2, <1>3, <1>4, Parts DEF Rousing
  <2>5. cpc' # "restore" BY <1>2, <1>3, Parts DEF Rousing
  <2>6. cpc' = "holding" => taken' < sent' BY <1>2, <1>3, <1>4, Parts DEF Rousing
  <2> QED BY <1>7, <2>1, <2>2, <2>3, <2>4, <2>5, <2>6 DEF Rousing
<1>10. /\ sent' - written' + count' = sent - written + count
          \/ (ppc' \notin Writing /\ written' = 0)
       /\ written' \in Nat /\ written' <= sent'
       /\ write_offset' = Off(sent' - written')
       /\ ppc' \in Writing => sent' - written' = sent - written /\ count' > written'
  <2>1. CASE written + 1 = count
    <3>1. written' = 0 /\ write_offset' = Plus(write_offset, count) /\ ppc' \notin Writing
      BY <1>7, <2>1 DEF Publish
    <3>2. write_offset = Off(sent - written) /\ sent - written \in Nat
      BY <1>3, <1>4, Parts DEF Writer
    <3>3. (sent - written) + count = sent' BY <1>3, <1>4, <2>1
    <3>4. Plus(Off(sent - written), count) = Off(sent') BY <1>4, <3>2, <3>3, Offsets
    <3>5. sent' - 0 = sent' /\ 0 <= sent' BY <1>3, <1>4
    <3> QED BY <3>1, <3>2, <3>4, <3>5
  <2>2. CASE written + 1 # count
    <3>1. written' = written + 1 /\ write_offset' = write_offset BY <2>2 DEF Publish
    <3>2. sent' - written' = sent - written /\ count' > written' /\ written' <= sent'
      BY <1>2, <1>3, <1>4, <2>2, <3>1
    <3>3. write_offset = Off(sent - written) BY Parts DEF Writer
    <3> QED BY <1>2, <1>4, <3>1, <3>2, <3>3
  <2> QED BY <2>1, <2>2
<1>11. TypeOK'
  <2>1. write_offset' \in Word BY <1>3, <1>4, <1>10, Offsets
  <2>2. written' \in 0 .. MaxBulk
    <3>1. written \in 0 .. MaxBulk /\ count \in 0 .. MaxBulk BY Parts DEF TypeOK
    <3> QED BY <1>4, <3>1, Sizes DEF Publish
  <2>3. sent' \in 0 .. MaxPost BY <1>3, <1>4, Sizes
  <2>4. cons' \in BOOLEAN
    <3>1. cons \in BOOLEAN BY Parts DEF TypeOK
    <3> QED BY <3>1 DEF Publish
  <2>5. ppc' \in {"idle", "seek", "reserve", "emplace", "publish", "cross", "sentinel", "wake", "gone"}
    BY <1>7
  <2> QED
    BY <1>5, <2>1, <2>2, <2>3, <2>4, <2>5, Parts
       DEF TypeOK, Publish, list, cutoff, consumer, reading, reclaim, Function
<1>12. Calls'
  <2>1. closed' = closed /\ closing' = closing /\ taken' = taken /\ count' = count BY <1>2
  <2>2. taken <= sent' /\ sent' - taken <= MaxWaiting BY <1>3, <1>4, Sizes
  <2>3. ppc' \in Writing =>
          /\ count > written' /\ sent' - written' + count <= MaxPost
          /\ sent' - written' + count - taken <= MaxWaiting
    BY <1>2, <1>4, <1>10
  <2>4. ppc' \notin Writing => written' = 0 BY <1>4, <1>7, <1>10 DEF Publish
  <2> QED BY <1>4, <1>7, <2>1, <2>2, <2>3, <2>4 DEF Calls
<1>13. Writer(at, hi)'
  <2>1. HeadOf(sent') = Blk(sent) /\ Blk(sent) <= hi BY <1>3, <1>4, NextElement
  <2>2. StartsBlock(Plus(WriteAt, 1)) <=> Idx(sent') = 0
    <3>1. Plus(WriteAt, 1) = Off(sent + 1) /\ sent + 1 \in Nat BY <1>3, WritePlace, Offsets
    <3> QED BY <1>4, <3>1, Offsets
  <2>3. ppc' = "cross" => Idx(sent') = 0
    <3>1. CASE written + 1 # count BY <2>2, <3>1, Zenon DEF Publish
    <3> QED BY <1>7, <3>1 DEF Writing
  <2>4. ppc' = "emplace" => Blk(sent') = Blk(sent)
    <3>1. CASE written + 1 # count
      <4>1. ppc' = "emplace" => Idx(sent') # 0 BY <2>2, <3>1, Zenon DEF Publish
      <4> QED BY <1>3, <1>4, <4>1, NextElement
    <3> QED BY <1>7, <3>1 DEF Writing
  <2>5. write_block' = at[Blk(sent)] /\ pblock' = at[Blk(sent)] /\ count' = count
    BY <1>2, <1>3, <1>4, Parts DEF Writer
  <2>6. ppc' \in Writing => Blk(sent' - written' + count' - 1) <= hi
    BY <1>2, <1>4, <1>10, Parts DEF Writer, Writing
  <2>7. ~Ended' BY <1>2, <1>3 DEF Ended
  <2> QED BY <1>3, <1>4, <1>7, <1>10, <2>1, <2>3, <2>4, <2>5, <2>6, <2>7 DEF Writer
<1> QED BY <1>1, <1>2, <1>5, <1>7, <1>8, <1>9, <1>11, <1>12, <1>13, Parts DEF Kept, Going, Shape

\* The same for the sentinel.
LEMMA PlaceSentinelKeeps ==
  ASSUME NEW at, NEW lo, NEW hi, Going(at, lo, hi), PlaceSentinel
  PROVE  Kept'
<1> DEFINE found == flags[pblock][IndexOf(write_offset)] = "cons"
<1>1. Linked(at, lo, hi)' /\ Moving(at, lo, hi)' /\ Reader(at, lo, hi)'
  BY ConsumerStill DEF PlaceSentinel
<1>2. UNCHANGED <<stored, blocks, unlinked, cpc, sent, taken, closed, write_offset, write_block,
                  pblock, written, count>>
  BY DEF PlaceSentinel, list, consumer, reading, reclaim, cutoff
<1>3. /\ pblock = at[Blk(sent)] /\ Blk(sent) \in lo .. hi /\ sent \in Nat
      /\ flags[pblock][IndexOf(WriteAt)] = Mark /\ ~Ended
      /\ Mark = IF cpc = "parked" /\ ~cons THEN "cons" ELSE "empty"
  BY NextFlag DEF PlaceSentinel
<1>4. closing /\ closed /\ written = 0 /\ ~cons /\ ppc = "sentinel"
  BY Parts DEF Calls, PlaceSentinel, Writing, Rousing
<1>5. IndexOf(write_offset) = Idx(sent) BY <1>4, WritePlace
<1>6. found <=> cpc = "parked"
  <2>1. IndexOf(WriteAt) = Idx(sent) BY WritePlace
  <2> QED BY <1>3, <1>4, <1>5, <2>1
<1>7. Ended' /\ ~closing' /\ cons' = found /\ elem' = (elem /\ ~found)
      /\ ppc' = IF found THEN "wake" ELSE "idle"
  BY <1>2, <1>4 DEF PlaceSentinel, Ended
<1> HIDE DEF found
<1>8. /\ (flags \in [Block -> [Index -> Flag]])' /\ Clean'
      /\ \A n \in Nat : Blk(n) \in lo .. hi =>
            /\ FlagAt(at, n)' = IF n = sent THEN "closed" ELSE FlagAt(at, n)
            /\ ValueAt(at, n)' = ValueAt(at, n)
  <2>1. flags' = [flags EXCEPT ![at[Blk(sent)]][Idx(sent)] = "closed"]
    BY <1>3, <1>5 DEF PlaceSentinel
  <2>2. "closed" \in Flag BY DEF Flag
  <2> QED BY <1>2, <1>3, <2>1, <2>2, WriteFlag
<1>9. cpc # "restore" BY <1>3, Parts DEF Rousing
<1>10. Cells(at, lo, hi)'
  <2>1. Mark' = "closed" BY <1>2, <1>7, <1>9, Zenon DEF Mark
  <2>2. Built' = sent /\ Built = sent BY <1>2, <1>4, <1>7 DEF Built
  <2> QED BY <1>2, <1>3, <1>8, <2>1, <2>2, Parts DEF Cells
<1>11. Rousing'
  <2>1. cpc = "parked" => taken = sent BY <1>4, Parts DEF Rousing
  <2>2. CASE found
    <3>1. cons' /\ ~elem' /\ ppc' = "wake" /\ cpc = "parked" BY <1>6, <1>7, <2>2
    <3> QED BY <1>2, <1>7, <2>1, <3>1 DEF Rousing
  <2>3. CASE ~found
    <3>1. ~cons' /\ (elem' <=> elem) /\ ppc' = "idle" /\ cpc # "parked" BY <1>6, <1>7, <2>3
    <3>2. cpc = "resume" => elem /\ taken < sent BY <1>3, Parts DEF Rousing
    <3>3. cpc = "holding" => taken < sent BY Parts DEF Rousing
    <3> QED BY <1>2, <1>9, <3>1, <3>2, <3>3 DEF Rousing
  <2> QED BY <2>2, <2>3
<1>12. TypeOK'
  <2>1. cons' \in BOOLEAN /\ elem' \in BOOLEAN /\ closing' \in BOOLEAN
    <3>1. (found = TRUE \/ found = FALSE) /\ ((elem /\ ~found) = TRUE \/ (elem /\ ~found) = FALSE)
          /\ (closing' = FALSE)
      BY Zenon DEF PlaceSentinel, found
    <3> QED BY <1>7, <3>1, Zenon
  <2>2. ppc' \in {"idle", "seek", "reserve", "emplace", "publish", "cross", "sentinel", "wake", "gone"}
    BY <1>7
  <2> QED
    BY <1>8, <2>1, <2>2, Parts
       DEF TypeOK, PlaceSentinel, list, cutoff, consumer, reading, reclaim, Function
<1>13. Calls' BY <1>2, <1>4, <1>7, Parts DEF Calls, PlaceSentinel, cutoff, Writing
<1>14. Writer(at, hi)' BY <1>2, <1>3, <1>4, <1>7, Parts DEF Writer, Writing
<1> QED BY <1>1, <1>2, <1>7, <1>8, <1>10, <1>11, <1>12, <1>13, <1>14, Parts DEF Kept, Going, Shape

\* Seeking the block to write in, or the last one that a bulk needs.
LEMMA SeekWriteKeeps ==
  ASSUME NEW at, NEW lo, NEW hi, Going(at, lo, hi), SeekWrite
  PROVE  Kept'
<1>1. /\ ppc = "seek" /\ written = 0 /\ ~cons
      /\ UNCHANGED <<stored, write_offset, closed, write_closed_at, closing, count, written, cons,
                     sent, taken, cpc, reclaim, reading, outcome, elem, can_suspend>>
  BY Parts DEF SeekWrite, Calls, Writing, Rousing, cutoff, consumer, reading
<1>2. PICK p \in HeadOf(sent) .. Blk(sent) : p <= hi /\ pblock = at[p] BY <1>1, Parts DEF Writer
<1>3. p \in lo .. hi /\ p \in Nat /\ p <= Blk(sent) BY <1>2, Places
<1>4. offset[pblock] = Start(p) /\ StartOf(write_offset) = Start(Blk(sent))
  BY <1>1, <1>2, <1>3, Parts, WritePlace DEF Linked
<1>5. offset[pblock] = StartOf(write_offset) => p = Blk(sent)
  <2>1. CASE sent = 0
    <3>1. HeadOf(sent) = 0 /\ Blk(sent) = 0 BY <2>1, Places, Heads DEF HeadOf
    <3> QED BY <1>2, <3>1
  <2>2. CASE sent # 0
    <3>1. sent - 1 \in Nat /\ sent - 1 <= sent /\ sent - (sent - 1) <= MaxWaiting
          /\ HeadOf(sent) = Blk(sent - 1) /\ sent \in Nat
      <4>1. MaxWaiting >= 1 BY BoundAssumption, Sizes
      <4> QED BY <2>2, <4>1, Places, Sizes DEF HeadOf
    <3> QED BY <1>2, <1>4, <3>1, SameStart
  <2> QED BY <2>1, <2>2
<1>6. CASE offset[pblock] = StartOf(write_offset)
  <2>1. /\ ppc' = IF closing THEN "sentinel" ELSE "reserve"
        /\ write_block' = IF closing THEN pblock ELSE write_block
        /\ walk' = pblock /\ UNCHANGED <<list, flags, pblock>>
    BY <1>6 DEF SeekWrite
  <2>2. pblock = at[Blk(sent)] /\ Blk(sent) <= hi BY <1>2, <1>5, <1>6
  <2>3. Linked(at, lo, hi)' /\ Moving(at, lo, hi)' /\ Reader(at, lo, hi)'
    <3>1. UNCHANGED <<consumer, can_suspend>> BY DEF SeekWrite
    <3> QED BY <2>1, <3>1, ConsumerStill
  <2>4. UNCHANGED <<elements, blocks, unlinked, reclaim>>
    BY <1>1, <2>1 DEF elements, list, reclaim
  <2>5. Cells(at, lo, hi)' /\ Clean'
    <3>1. Built' = Built /\ Mark' = Mark BY <1>1, <2>1 DEF Built, Mark, Ended
    <3> QED BY <1>1, <2>4, <3>1, Parts, CellsStay, CleanStays
  <2>6. Rousing' BY <1>1, <2>1, Parts DEF Rousing, Ended
  <2>7. TypeOK' BY <1>1, <2>1, Parts DEF TypeOK, list, reclaim, reading, Function
  <2>8. Calls'
    <3>1. ~closing => ~closed BY <1>1, Parts DEF Calls
    <3> QED BY <1>1, <2>1, <3>1, Parts DEF Calls, Writing
  <2>9. Writer(at, hi)'
    <3>1. CASE closing
      <4>1. ~Ended' BY <1>1, <3>1 DEF Ended
      <4> QED BY <1>1, <2>1, <2>2, <3>1, <4>1, Parts DEF Writer, Writing
    <3>2. CASE ~closing
      <4>1. Blk(sent) \in Blk(sent) .. Blk(sent + count - 1)
        <5>1. count > 0 /\ sent + count - 1 \in Nat /\ sent <= sent + count - 1 /\ sent \in Nat
          BY <1>1, <3>2, Parts, Places DEF Calls
        <5> QED BY <5>1, InOrder, Numbering
      <4>2. Ended' = Ended BY <1>1 DEF Ended
      <4> QED BY <1>1, <2>1, <2>2, <3>2, <4>1, <4>2, Parts DEF Writer, Writing
    <3> QED BY <3>1, <3>2
  <2> QED BY <1>1, <2>1, <2>3, <2>5, <2>6, <2>7, <2>8, <2>9, Parts DEF Kept, Going, Shape
<1>7. CASE offset[pblock] # StartOf(write_offset)
  <2>1. PICK c \in Block : Advance(pblock, c) /\ pblock' = c BY <1>7 DEF SeekWrite
  <2>2. UNCHANGED <<ppc, walk, write_block>> BY <1>7 DEF SeekWrite
  <2>3. p # Blk(sent) /\ p + 1 \in HeadOf(sent) .. Blk(sent)
    <3>1. p # Blk(sent) BY <1>4, <1>7
    <3> QED BY <1>2, <1>3, <3>1, Places
  <2>4. PICK at2 \in [Nat -> Block], hi2 \in Nat :
            /\ \A k \in lo .. hi : at2[k] = at[k]
            /\ hi <= hi2 /\ p + 1 <= hi2 /\ at2[p + 1] = c
            /\ Linked(at2, lo, hi2)' /\ Moving(at2, lo, hi2)' /\ Cells(at2, lo, hi2)'
            /\ Clean'
            /\ Writer(at2, hi2) /\ Reader(at2, lo, hi2)
            /\ (blocks \subseteq Block)'
            /\ (next \in [Block -> Block \cup {Null}])' /\ (offset \in [Block -> Word])'
            /\ (flags \in [Block -> [Index -> Flag]])'
    <3>1. Advance(at[p], c) BY <1>2, <2>1
    <3> QED BY <1>1, <1>3, <2>2, <3>1, Extend
  <2>5. Reader(at2, lo, hi2)' BY <1>1, <2>4, ReaderStays
  <2>6. Writer(at2, hi2)'
    <3>1. \E k \in HeadOf(sent) .. Blk(sent) : k <= hi2 /\ pblock' = at2[k] BY <2>1, <2>3, <2>4
    <3> QED BY <1>1, <2>2, <2>4, <3>1 DEF Writer, Ended, Writing
  <2>7. Rousing' /\ Calls' BY <1>1, <2>2, Parts DEF Rousing, Ended, Calls
  <2>8. TypeOK' BY <1>1, <2>1, <2>2, <2>4, Parts DEF TypeOK, reclaim, reading, Function
  <2>9. Kept'
    <3>1. ppc' # "gone" /\ cpc' # "gone" /\ lo \in Nat BY <1>1, <2>2, Parts
    <3> QED BY <2>4, <2>5, <2>6, <2>7, <2>8, <3>1 DEF Kept, Going, Shape
  <2> QED BY <2>9
<1> QED BY <1>6, <1>7

\* Allocating the blocks of a bulk; with the last, write_block moves.
LEMMA ReserveKeeps ==
  ASSUME NEW at, NEW lo, NEW hi, Going(at, lo, hi), Reserve
  PROVE  Kept'
<1>1. /\ ppc = "reserve" /\ written = 0 /\ ~cons /\ ~closed /\ ~closing
      /\ UNCHANGED <<stored, write_offset, closed, write_closed_at, closing, count, written, pblock,
                     cons, sent, taken, cpc, reclaim, reading, outcome, elem, can_suspend>>
  BY Parts DEF Reserve, Calls, Writing, Rousing, cutoff, consumer, reading
<1>2. PICK p \in Blk(sent) .. Blk(sent + count - 1) : p <= hi /\ walk = at[p]
  BY <1>1, Parts DEF Writer
<1>3. count > 0 /\ sent + count - 1 \in Nat /\ sent <= sent + count - 1 /\ sent \in Nat
      /\ count - 1 <= MaxWaiting /\ count - 1 \in Nat
  <2>1. count > 0 /\ count \in 0 .. MaxBulk BY <1>1, Parts DEF Calls, TypeOK
  <2> QED BY <2>1, Places, Sizes
<1>4. p \in lo .. hi /\ p \in Nat /\ Blk(sent + count - 1) \in Nat /\ p <= Blk(sent + count - 1)
  BY <1>2, <1>3, Places, Numbering
<1>5. offset[walk] = Start(p) /\ StartOf(Plus(write_offset, count - 1)) = Start(Blk(sent + count - 1))
  <2>1. write_offset = Off(sent) BY <1>1, WritePlace
  <2>2. Plus(Off(sent), count - 1) = Off(sent + (count - 1)) /\ sent + (count - 1) = sent + count - 1
    BY <1>3, Offsets
  <2>3. StartOf(Off(sent + count - 1)) = Start(Blk(sent + count - 1)) BY <1>3, Offsets
  <2> QED BY <1>2, <1>4, <2>1, <2>2, <2>3, Parts DEF Linked
<1>6. offset[walk] = StartOf(Plus(write_offset, count - 1)) => p = Blk(sent + count - 1)
  <2>1. (sent + count - 1) - sent <= MaxWaiting BY <1>3
  <2> QED BY <1>2, <1>3, <1>5, <2>1, SameStart
<1>7. ~Ended' /\ ~Ended BY <1>1 DEF Ended
<1>8. CASE offset[walk] = StartOf(Plus(write_offset, count - 1))
  <2>1. write_block' = pblock /\ ppc' = "emplace" /\ UNCHANGED <<list, flags, walk>>
    BY <1>8 DEF Reserve
  <2>2. Linked(at, lo, hi)' /\ Moving(at, lo, hi)' /\ Reader(at, lo, hi)'
    <3>1. UNCHANGED <<consumer, can_suspend>> BY DEF Reserve
    <3> QED BY <2>1, <3>1, ConsumerStill
  <2>3. UNCHANGED <<elements, blocks, unlinked, reclaim>>
    BY <1>1, <2>1 DEF elements, list, reclaim
  <2>4. Cells(at, lo, hi)' /\ Clean'
    <3>1. Built' = Built /\ Mark' = Mark BY <1>1, <2>1 DEF Built, Mark, Ended
    <3> QED BY <1>1, <2>3, <3>1, Parts, CellsStay, CleanStays
  <2>5. Rousing' BY <1>1, <2>1, Parts DEF Rousing, Ended
  <2>6. TypeOK' BY <1>1, <2>1, Parts DEF TypeOK, list, reclaim, reading, Function
  <2>7. Calls' BY <1>1, <2>1, Parts DEF Calls, Writing
  <2>8. Writer(at, hi)'
    <3>1. Blk(sent - written + count - 1) <= hi
      <4>1. sent - written + count - 1 = sent + count - 1 BY <1>1, <1>3, Places
      <4> QED BY <1>2, <1>6, <1>8, <4>1
    <3>2. pblock = at[Blk(sent)] /\ Blk(sent) <= hi BY <1>1, Parts DEF Writer
    <3> QED BY <1>1, <1>7, <2>1, <3>1, <3>2, Parts DEF Writer, Writing
  <2> QED BY <1>1, <2>1, <2>2, <2>4, <2>5, <2>6, <2>7, <2>8, Parts DEF Kept, Going, Shape
<1>9. CASE offset[walk] # StartOf(Plus(write_offset, count - 1))
  <2>1. PICK c \in Block : Advance(walk, c) /\ walk' = c BY <1>9 DEF Reserve
  <2>2. UNCHANGED <<ppc, write_block>> BY <1>9 DEF Reserve
  <2>3. p + 1 \in Blk(sent) .. Blk(sent + count - 1)
    <3>1. p # Blk(sent + count - 1) BY <1>5, <1>9
    <3> QED BY <1>2, <1>4, <3>1, Places
  <2>4. PICK at2 \in [Nat -> Block], hi2 \in Nat :
            /\ \A k \in lo .. hi : at2[k] = at[k]
            /\ hi <= hi2 /\ p + 1 <= hi2 /\ at2[p + 1] = c
            /\ Linked(at2, lo, hi2)' /\ Moving(at2, lo, hi2)' /\ Cells(at2, lo, hi2)'
            /\ Clean'
            /\ Writer(at2, hi2) /\ Reader(at2, lo, hi2)
            /\ (blocks \subseteq Block)'
            /\ (next \in [Block -> Block \cup {Null}])' /\ (offset \in [Block -> Word])'
            /\ (flags \in [Block -> [Index -> Flag]])'
    <3>1. Advance(at[p], c) BY <1>2, <2>1
    <3> QED BY <1>1, <1>4, <2>2, <3>1, Extend
  <2>5. Reader(at2, lo, hi2)' BY <1>1, <2>4, ReaderStays
  <2>6. Writer(at2, hi2)'
    <3>1. \E k \in Blk(sent) .. Blk(sent + count - 1) : k <= hi2 /\ walk' = at2[k]
      BY <2>1, <2>3, <2>4
    <3> QED BY <1>1, <1>7, <2>2, <2>4, <3>1 DEF Writer, Writing
  <2>7. Rousing' /\ Calls' BY <1>1, <2>2, Parts DEF Rousing, Ended, Calls
  <2>8. TypeOK' BY <1>1, <2>1, <2>2, <2>4, Parts DEF TypeOK, reclaim, reading, Function
  <2>9. Kept'
    <3>1. ppc' # "gone" /\ cpc' # "gone" /\ lo \in Nat BY <1>1, <2>2, Parts
    <3> QED BY <2>4, <2>5, <2>6, <2>7, <2>8, <3>1 DEF Kept, Going, Shape
  <2> QED BY <2>9
<1> QED BY <1>8, <1>9

\* Steps of the consumer
\* What the producer has is left alone.
LEMMA ProducerStill ==
  ASSUME NEW at, NEW lo, NEW hi, Going(at, lo, hi), UNCHANGED <<producer, taken>>
  PROVE  Writer(at, hi)' /\ Calls' /\ Ended' = Ended /\ Built' = Built
         /\ UNCHANGED <<sent, closed, closing, cons, ppc>>
<1>1. UNCHANGED <<sent, closed, closing, cons, ppc>> BY DEF producer, pushing, cutoff
<1> QED BY <1>1, Parts, WriterStays, CallsStay DEF Ended, Built

\* What the flag of the next element to be read says.
LEMMA ReadPlace ==
  ASSUME NEW at, NEW lo, NEW hi, Going(at, lo, hi), Blk(taken) <= hi, rblock = at[Blk(taken)]
  PROVE  /\ Blk(taken) \in lo .. hi /\ IndexOf(read_offset) = Idx(taken)
         /\ ReadFlag = FlagAt(at, taken) /\ ReadFlag \in Flag
         /\ taken < sent => ReadFlag = "data" \/ (cpc = "holding" /\ ReadFlag = "cons")
         /\ taken = sent => ReadFlag = Mark
<1>1. taken \in Nat /\ Blk(taken) \in lo .. hi BY Places
<1>2. IndexOf(read_offset) = Idx(taken) BY <1>1, Parts, Offsets DEF Reader
<1>3. ReadFlag = FlagAt(at, taken) BY <1>2 DEF ReadFlag, FlagAt
<1>4. /\ taken < sent => FlagAt(at, taken) = "data" \/ (cpc = "holding" /\ FlagAt(at, taken) = "cons")
      /\ taken = sent => FlagAt(at, taken) = Mark
  BY <1>1, Parts DEF Cells
<1>5. FlagAt(at, taken) \in Flag BY <1>1, Parts, Numbering DEF FlagAt, TypeOK
<1> QED BY <1>1, <1>2, <1>3, <1>4, <1>5

\* The consumer has found the block of the next value.
LEMMA FoundBlock ==
  ASSUME NEW at, NEW lo, NEW hi, Going(at, lo, hi), NEW r \in HeadOf(taken) .. Blk(taken),
         r <= hi, rblock = at[r]
  PROVE  /\ r \in lo .. hi /\ r \in Nat /\ StartOf(read_offset) = Start(Blk(taken))
         /\ offset[rblock] = Start(r)
         /\ offset[rblock] = StartOf(read_offset) => r = Blk(taken)
<1>1. r \in lo .. hi /\ r \in Nat /\ taken \in Nat BY Places
<1>2. offset[rblock] = Start(r) BY <1>1, Parts DEF Linked
<1>3. StartOf(read_offset) = Start(Blk(taken)) BY <1>1, Parts, Offsets DEF Reader
<1>4. CASE taken = 0
  <2>1. HeadOf(taken) = 0 /\ Blk(taken) = 0 BY <1>4, Places, Heads DEF HeadOf
  <2> QED BY <1>1, <1>2, <1>3, <2>1
<1>5. CASE taken # 0
  <2>1. taken - 1 \in Nat /\ taken - 1 <= taken /\ taken - (taken - 1) <= MaxWaiting
        /\ HeadOf(taken) = Blk(taken - 1)
    <3>1. MaxWaiting >= 1 BY BoundAssumption, Sizes
    <3> QED BY <1>1, <1>5, <3>1, Sizes DEF HeadOf
  <2> QED BY <1>1, <1>2, <1>3, <2>1, SameStart
<1> QED BY <1>4, <1>5

\* Every call of the consumer begins at head_block.
LEMMA CallKeeps ==
  ASSUME NEW at, NEW lo, NEW hi, Going(at, lo, hi), NEW f \in Function, Call(f)
  PROVE  Kept'
<1>1. /\ cpc = "idle" /\ cpc' = "seek" /\ call' = f /\ rblock' = head_block
      /\ UNCHANGED <<list, elements, producer, read_offset, head_block, taken, reclaim, elem,
                     can_suspend, blocks, unlinked>>
  BY DEF Call, list, reclaim
<1>2. /\ Writer(at, hi)' /\ Calls' /\ Ended' = Ended /\ Built' = Built
      /\ UNCHANGED <<sent, closed, closing, cons, ppc>>
  BY <1>1, ProducerStill
<1>3. Linked(at, lo, hi)' /\ Clean' BY <1>1, Parts, LinkedStays, CleanStays
<1>4. Moving(at, lo, hi)'
  <2>1. {cpc, cpc'} \cap Reclaiming = {} BY <1>1 DEF Reclaiming
  <2> QED BY <1>1, <2>1, Parts, MovingStays
<1>5. Cells(at, lo, hi)'
  <2>1. Mark' = Mark BY <1>1, <1>2 DEF Mark
  <2> QED BY <1>1, <1>2, <2>1, Parts, CellsStay
<1>6. ~cons /\ Rousing' BY <1>1, <1>2, Parts DEF Rousing
<1>7. TypeOK'
  BY <1>1, Parts DEF TypeOK, Call, list, elements, producer, pushing, cutoff, reclaim, Function
<1>8. Reader(at, lo, hi)'
  <2>1. f = "pull" => can_suspend BY DEF Function
  <2>2. HeadOf(taken) \in HeadOf(taken) .. Blk(taken) BY Places
  <2> QED BY <1>1, <2>1, <2>2, Parts DEF Reader, AtElement
<1> QED BY <1>1, <1>2, <1>3, <1>4, <1>5, <1>6, <1>7, <1>8, Parts DEF Kept, Going, Shape

\* It looks for the block of the next value, and may append it.
LEMMA SeekReadKeeps ==
  ASSUME NEW at, NEW lo, NEW hi, Going(at, lo, hi), SeekRead
  PROVE  Kept'
<1>1. /\ cpc = "seek" /\ offset[rblock] # StartOf(read_offset)
      /\ UNCHANGED <<stored, producer, read_offset, head_block, call, taken, reclaim, cpc, outcome,
                     elem, can_suspend>>
  BY DEF SeekRead
<1>2. /\ Writer(at, hi)' /\ Calls' /\ Ended' = Ended /\ Built' = Built
      /\ UNCHANGED <<sent, closed, closing, cons, ppc>>
  BY <1>1, ProducerStill
<1>3. PICK r \in HeadOf(taken) .. Blk(taken) : r <= hi /\ rblock = at[r]
  BY <1>1, Parts DEF Reader
<1>4. r \in lo .. hi /\ r \in Nat /\ r + 1 \in HeadOf(taken) .. Blk(taken)
  <2>1. r # Blk(taken) BY <1>1, <1>3, FoundBlock
  <2> QED BY <1>3, <2>1, Places
<1>5. PICK c \in Block : Advance(rblock, c) /\ rblock' = c BY DEF SeekRead
<1>6. PICK at2 \in [Nat -> Block], hi2 \in Nat :
          /\ \A k \in lo .. hi : at2[k] = at[k]
          /\ hi <= hi2 /\ r + 1 <= hi2 /\ at2[r + 1] = c
          /\ Linked(at2, lo, hi2)' /\ Moving(at2, lo, hi2)' /\ Cells(at2, lo, hi2)'
          /\ Clean'
          /\ Writer(at2, hi2) /\ Reader(at2, lo, hi2)
          /\ (blocks \subseteq Block)'
          /\ (next \in [Block -> Block \cup {Null}])' /\ (offset \in [Block -> Word])'
          /\ (flags \in [Block -> [Index -> Flag]])'
  <2>1. Advance(at[r], c) BY <1>3, <1>5
  <2> QED BY <1>1, <1>2, <1>4, <2>1, Extend
<1>7. Writer(at2, hi2)' BY <1>1, <1>6, WriterStays
<1>8. Reader(at2, lo, hi2)'
  <2>1. \E k \in HeadOf(taken) .. Blk(taken) : k <= hi2 /\ rblock' = at2[k] BY <1>4, <1>5, <1>6
  <2> QED BY <1>1, <1>6, <2>1 DEF Reader, AtElement
<1>9. Rousing' BY <1>1, <1>2, Parts DEF Rousing
<1>10. TypeOK'
  BY <1>1, <1>5, <1>6, Parts DEF TypeOK, producer, pushing, cutoff, reclaim, Function
<1>11. ppc' # "gone" /\ cpc' # "gone" /\ lo \in Nat BY <1>1, <1>2, Parts
<1> QED BY <1>2, <1>6, <1>7, <1>8, <1>9, <1>10, <1>11 DEF Kept, Going, Shape

\* What the flag says is so.
LEMMA PollKeeps ==
  ASSUME NEW at, NEW lo, NEW hi, Going(at, lo, hi), Poll
  PROVE  Kept'
<1>1. /\ cpc = "seek" /\ offset[rblock] = StartOf(read_offset)
      /\ UNCHANGED <<list, elements, producer, reading, taken, reclaim, elem, can_suspend, blocks,
                     unlinked>>
  BY DEF Poll, list, reclaim, reading
<1>2. /\ Writer(at, hi)' /\ Calls' /\ Ended' = Ended /\ Built' = Built
      /\ UNCHANGED <<sent, closed, closing, cons, ppc>>
  BY <1>1, ProducerStill
<1>3. rblock = at[Blk(taken)] /\ Blk(taken) <= hi
  <2>1. PICK r \in HeadOf(taken) .. Blk(taken) : r <= hi /\ rblock = at[r]
    BY <1>1, Parts DEF Reader
  <2> QED BY <1>1, <2>1, FoundBlock
<1>4. /\ cpc' \in {"holding", "suspend", "idle"}
      /\ cpc' = "holding" => ReadFlag = "data"
      /\ cpc' = "suspend" => call = "pull"
  BY DEF Poll
<1>5. ReadFlag = "data" => taken < sent
  <2>1. taken = sent => ReadFlag = Mark BY <1>3, ReadPlace
  <2>2. Mark # "data" BY DEF Mark
  <2>3. taken < sent \/ taken = sent BY Places
  <2> QED BY <2>1, <2>2, <2>3
<1>6. Linked(at, lo, hi)' /\ Clean' BY <1>1, <1>4, Parts, LinkedStays, CleanStays
<1>7. Moving(at, lo, hi)'
  <2>1. {cpc, cpc'} \cap Reclaiming = {} BY <1>1, <1>4 DEF Reclaiming
  <2> QED BY <1>1, <2>1, Parts, MovingStays
<1>8. Cells(at, lo, hi)'
  <2>1. Mark' = Mark BY <1>1, <1>2, <1>4 DEF Mark
  <2> QED BY <1>1, <1>2, <2>1, Parts, CellsStay
<1>9. Rousing' BY <1>1, <1>2, <1>4, <1>5, Parts DEF Rousing
<1>10. TypeOK'
  <2>1. outcome' \in {"none", "OK", "EMPTY", "CLOSED"} BY Parts DEF Poll, TypeOK
  <2> QED
    BY <1>1, <1>4, <2>1, Parts DEF TypeOK, list, elements, producer, pushing, cutoff, reading, reclaim,
       Function
<1>11. Reader(at, lo, hi)' BY <1>1, <1>3, <1>4, Parts DEF Reader, AtElement, reading
<1> QED BY <1>2, <1>4, <1>6, <1>7, <1>8, <1>9, <1>10, <1>11, Parts DEF Kept, Going, Shape

\* try_wait(): the exchange finds what the poll did not.
LEMMA SuspendKeeps ==
  ASSUME NEW at, NEW lo, NEW hi, Going(at, lo, hi), Suspend
  PROVE  Kept'
<1>1. /\ cpc = "suspend" /\ cpc' \in {"parked", "restore", "holding"}
      /\ UNCHANGED <<list, stored, producer, reading, taken, reclaim, can_suspend, blocks, unlinked>>
  BY DEF Suspend, list, reclaim, reading
<1>2. /\ Writer(at, hi)' /\ Calls' /\ Ended' = Ended /\ Built' = Built
      /\ UNCHANGED <<sent, closed, closing, cons, ppc>>
  BY <1>1, ProducerStill
<1>3. rblock = at[Blk(taken)] /\ Blk(taken) <= hi /\ can_suspend
  BY <1>1, Parts DEF Reader, AtElement
<1>4. /\ Blk(taken) \in lo .. hi /\ IndexOf(read_offset) = Idx(taken)
      /\ ReadFlag \in Flag /\ taken \in Nat /\ sent \in Nat /\ taken <= sent
      /\ taken < sent => ReadFlag = "data"
      /\ taken = sent => ReadFlag = Mark
  BY <1>1, <1>3, ReadPlace, Places
<1>5. ~cons /\ Mark = IF Ended THEN "closed" ELSE "empty"
  <2>1. ~cons BY <1>1, Parts DEF Rousing
  <2> QED BY <1>1, <2>1, Zenon DEF Mark
<1>6. /\ (flags \in [Block -> [Index -> Flag]])' /\ Clean'
      /\ \A n \in Nat : Blk(n) \in lo .. hi =>
            /\ FlagAt(at, n)' = IF n = taken THEN "cons" ELSE FlagAt(at, n)
            /\ ValueAt(at, n)' = ValueAt(at, n)
  <2>1. flags' = [flags EXCEPT ![at[Blk(taken)]][Idx(taken)] = "cons"] BY <1>3, <1>4 DEF Suspend
  <2>2. "cons" \in Flag BY DEF Flag
  <2> QED BY <1>1, <1>4, <2>1, <2>2, WriteFlag
<1>7. /\ cpc' = "parked" => taken = sent /\ ~Ended /\ elem'
      /\ cpc' = "restore" => taken = sent /\ Ended
      /\ cpc' = "holding" => taken < sent
      /\ elem' \in BOOLEAN /\ outcome' \in {"none", "OK", "EMPTY", "CLOSED"}
  <2>1. CASE ReadFlag = "empty"
    <3>1. taken = sent /\ ~Ended BY <1>4, <1>5, <2>1
    <3>2. cpc' = "parked" /\ elem' = TRUE /\ UNCHANGED outcome BY <2>1 DEF Suspend
    <3> QED BY <3>1, <3>2, Parts DEF TypeOK
  <2>2. CASE ReadFlag = "closed"
    <3>1. taken = sent /\ Ended BY <1>4, <1>5, <2>2
    <3>2. cpc' = "restore" /\ UNCHANGED <<elem, outcome>> BY <2>2 DEF Suspend
    <3> QED BY <3>1, <3>2, Parts DEF TypeOK
  <2>3. CASE ReadFlag \notin {"empty", "closed"}
    <3>1. taken # sent BY <1>4, <1>5, <2>3
    <3>2. cpc' = "holding" /\ outcome' = "OK" /\ UNCHANGED elem BY <2>3 DEF Suspend
    <3> QED BY <1>4, <3>1, <3>2, Parts DEF TypeOK
  <2> QED BY <2>1, <2>2, <2>3
<1>8. Linked(at, lo, hi)' BY <1>1, Parts, LinkedStays
<1>9. Moving(at, lo, hi)'
  <2>1. {cpc, cpc'} \cap Reclaiming = {} BY <1>1 DEF Reclaiming
  <2> QED BY <1>1, <2>1, Parts, MovingStays
<1>10. Cells(at, lo, hi)'
  <2>1. taken = sent => Mark' = "cons"
    <3>1. taken = sent => cpc' = IF Ended THEN "restore" ELSE "parked" BY <1>1, <1>4, <1>7
    <3> QED BY <1>2, <1>5, <3>1 DEF Mark
  <2>2. taken < sent => cpc' = "holding" /\ Mark' = Mark
    <3>1. taken < sent => cpc' = "holding" BY <1>1, <1>4, <1>7
    <3> QED BY <1>2, <1>5, <3>1, Zenon DEF Mark
  <2> SUFFICES ASSUME NEW n \in Nat, Blk(n) \in lo .. hi
               PROVE
        /\ ValueAt(at, n)' = IF taken <= n /\ n < Built THEN n + 1 ELSE NoValue
        /\ taken <= n /\ n < sent =>
              FlagAt(at, n)' = "data" \/ (n = taken /\ cpc' = "holding" /\ FlagAt(at, n)' = "cons")
        /\ n = sent => FlagAt(at, n)' = Mark'
        /\ n > sent => FlagAt(at, n)' = "empty"
    BY <1>1, <1>2 DEF Cells
  <2>3. /\ ValueAt(at, n) = IF taken <= n /\ n < Built THEN n + 1 ELSE NoValue
        /\ taken <= n /\ n < sent => FlagAt(at, n) = "data"
        /\ n = sent => FlagAt(at, n) = Mark
        /\ n > sent => FlagAt(at, n) = "empty"
    BY <1>1, Parts DEF Cells
  <2> QED BY <1>4, <1>6, <2>1, <2>2, <2>3
<1>11. Rousing' BY <1>1, <1>2, <1>5, <1>7, Parts DEF Rousing
<1>12. TypeOK'
  BY <1>1, <1>6, <1>7, Parts DEF TypeOK, list, elements, producer, pushing, cutoff, reading, reclaim,
     Function
<1>13. Reader(at, lo, hi)' BY <1>1, <1>3, Parts DEF Reader, AtElement, reading
<1> QED BY <1>1, <1>2, <1>6, <1>8, <1>9, <1>10, <1>11, <1>12, <1>13, Parts DEF Kept, Going, Shape

\* The sentinel is put back.
LEMMA RestoreKeeps ==
  ASSUME NEW at, NEW lo, NEW hi, Going(at, lo, hi), Restore
  PROVE  Kept'
<1>1. /\ cpc = "restore" /\ cpc' = "idle"
      /\ UNCHANGED <<list, stored, producer, reading, taken, reclaim, elem, can_suspend, blocks,
                     unlinked>>
  BY DEF Restore, list, reclaim, reading
<1>2. /\ Writer(at, hi)' /\ Calls' /\ Ended' = Ended /\ Built' = Built
      /\ UNCHANGED <<sent, closed, closing, cons, ppc>>
  BY <1>1, ProducerStill
<1>3. rblock = at[Blk(taken)] /\ Blk(taken) <= hi BY <1>1, Parts DEF Reader, AtElement
<1>4. /\ Blk(taken) \in lo .. hi /\ IndexOf(read_offset) = Idx(taken)
      /\ taken \in Nat /\ taken = sent /\ Ended /\ ~cons
  BY <1>1, <1>3, ReadPlace, Places, Parts DEF Rousing
<1>5. /\ (flags \in [Block -> [Index -> Flag]])' /\ Clean'
      /\ \A n \in Nat : Blk(n) \in lo .. hi =>
            /\ FlagAt(at, n)' = IF n = taken THEN "closed" ELSE FlagAt(at, n)
            /\ ValueAt(at, n)' = ValueAt(at, n)
  <2>1. flags' = [flags EXCEPT ![at[Blk(taken)]][Idx(taken)] = "closed"]
    BY <1>3, <1>4 DEF Restore
  <2>2. "closed" \in Flag BY DEF Flag
  <2>3. cpc' \notin {"find_tail", "unlink", "relink"} /\ UNCHANGED <<blocks, unlinked, stored>>
    BY <1>1
  <2>4. taken \in Nat /\ Blk(taken) \in lo .. hi BY <1>4
  <2> QED BY <2>1, <2>2, <2>3, <2>4, WriteFlag
<1>6. Linked(at, lo, hi)' BY <1>1, Parts, LinkedStays
<1>7. Moving(at, lo, hi)'
  <2>1. {cpc, cpc'} \cap Reclaiming = {} BY <1>1 DEF Reclaiming
  <2> QED BY <1>1, <2>1, Parts, MovingStays
<1>8. Cells(at, lo, hi)'
  <2>1. Mark' = "closed" BY <1>1, <1>2, <1>4 DEF Mark
  <2> QED BY <1>1, <1>2, <1>4, <1>5, <2>1, Parts DEF Cells
<1>9. Rousing' BY <1>1, <1>2, <1>4, Parts DEF Rousing
<1>10. TypeOK'
  BY <1>1, <1>5, Parts DEF TypeOK, Restore, list, elements, producer, pushing, cutoff, reading, reclaim,
     Function
<1>11. Reader(at, lo, hi)' BY <1>1, Parts DEF Reader, AtElement, reading
<1> QED BY <1>1, <1>2, <1>5, <1>6, <1>7, <1>8, <1>9, <1>10, <1>11, Parts DEF Kept, Going, Shape

\* A consumer with an element has a value.
LEMMA PullResumeKeeps ==
  ASSUME NEW at, NEW lo, NEW hi, Going(at, lo, hi), PullResume
  PROVE  Kept'
<1>1. /\ cpc = "resume" /\ cpc' = IF elem THEN "holding" ELSE "idle"
      /\ UNCHANGED <<list, elements, producer, reading, taken, reclaim, elem, can_suspend, blocks,
                     unlinked>>
  BY DEF PullResume, list, reclaim, reading
<1>2. /\ Writer(at, hi)' /\ Calls' /\ Ended' = Ended /\ Built' = Built
      /\ UNCHANGED <<sent, closed, closing, cons, ppc>>
  BY <1>1, ProducerStill
<1>3. Linked(at, lo, hi)' /\ Clean' BY <1>1, Parts, LinkedStays, CleanStays
<1>4. Moving(at, lo, hi)'
  <2>1. {cpc, cpc'} \cap Reclaiming = {} BY <1>1 DEF Reclaiming
  <2> QED BY <1>1, <2>1, Parts, MovingStays
<1>5. Cells(at, lo, hi)'
  <2>1. Mark' = Mark BY <1>1, <1>2 DEF Mark
  <2> QED BY <1>1, <1>2, <2>1, Parts, CellsStay
<1>6. Rousing' BY <1>1, <1>2, Parts DEF Rousing
<1>7. TypeOK'
  <2>1. outcome' \in {"none", "OK", "EMPTY", "CLOSED"} BY DEF PullResume
  <2> QED
    BY <1>1, <2>1, Parts DEF TypeOK, list, elements, producer, pushing, cutoff, reading, reclaim,
       Function
<1>8. Reader(at, lo, hi)' BY <1>1, Parts DEF Reader, AtElement, reading
<1> QED BY <1>1, <1>2, <1>3, <1>4, <1>5, <1>6, <1>7, <1>8, Parts DEF Kept, Going, Shape

\* The value is gone, and with the first of a block the blocks before it.
LEMMA FinishReadKeeps ==
  ASSUME NEW at, NEW lo, NEW hi, Going(at, lo, hi), FinishRead
  PROVE  Kept'
<1>1. /\ cpc = "holding" /\ cpc' \in {"collect", "idle"} /\ taken' = taken + 1
      /\ read_offset' = Plus(read_offset, 1)
      /\ UNCHANGED <<list, flags, producer, call, rblock, tail_block, unlinked, tailBlock, outcome,
                     elem, can_suspend, blocks, next, sent, closed, closing, cons, ppc, count,
                     written, write_offset, write_closed_at>>
  BY DEF FinishRead, list, producer, pushing, cutoff
<1>2. /\ rblock = at[Blk(taken)] /\ Blk(taken) <= hi /\ taken < sent /\ ~cons
      /\ taken \in Nat /\ sent \in Nat /\ taken + 1 \in Nat
  BY <1>1, Parts, Places DEF Reader, AtElement, Rousing
<1>3. Blk(taken) \in lo .. hi /\ IndexOf(read_offset) = Idx(taken) BY <1>2, ReadPlace
<1>4. lo = HeadOf(taken) /\ unlinked = <<>> /\ tail_block \in blocks
  BY <1>1, Parts DEF Moving, Reclaiming
<1>5. read_offset = Off(taken) /\ head_block = at[HeadOf(taken)] BY Parts DEF Reader
<1>6. HeadOf(taken + 1) = Blk(taken) BY <1>2, NextElement
<1>7. \/ /\ cpc' = "collect" /\ oldHead' = at[lo] /\ head_block' = at[HeadOf(taken + 1)]
         /\ lo <= HeadOf(taken + 1) /\ HeadOf(taken + 1) <= lo + 1
      \/ /\ cpc' = "idle" /\ UNCHANGED <<oldHead, head_block>>
         /\ lo = HeadOf(taken + 1) /\ head_block = at[HeadOf(taken + 1)]
  <2>1. StartsBlock(read_offset) <=> Idx(taken) = 0 BY <1>2, <1>5, Offsets
  <2>2. CASE StartsBlock(read_offset)
    <3>1. cpc' = "collect" /\ oldHead' = head_block /\ head_block' = rblock
      BY <2>2 DEF FinishRead
    <3> QED BY <1>2, <1>4, <1>5, <1>6, <3>1, Places
  <2>3. CASE ~StartsBlock(read_offset)
    <3>1. cpc' = "idle" /\ UNCHANGED <<oldHead, head_block>> BY <2>3 DEF FinishRead
    <3>2. HeadOf(taken) = Blk(taken) BY <1>2, <2>1, <2>3, Heads
    <3> QED BY <1>4, <1>5, <1>6, <3>1, <3>2
  <2> QED BY <2>2, <2>3
<1>8. /\ (stored \in [Block -> [Index -> Value \cup {NoValue}]])' /\ Clean'
      /\ \A n \in Nat : Blk(n) \in lo .. hi =>
            /\ ValueAt(at, n)' = IF n = taken THEN NoValue ELSE ValueAt(at, n)
            /\ FlagAt(at, n)' = FlagAt(at, n)
  <2>1. stored' = [stored EXCEPT ![at[Blk(taken)]][Idx(taken)] = NoValue]
    BY <1>2, <1>3 DEF FinishRead
  <2>2. NoValue \in Value \cup {NoValue} OBVIOUS
  <2>3. cpc' \notin {"find_tail", "unlink", "relink"} BY <1>1
  <2> QED BY <1>1, <1>2, <1>3, <2>1, <2>2, <2>3, WriteValue
<1>9. Linked(at, lo, hi)' BY <1>1, Parts, LinkedStays
<1>10. Moving(at, lo, hi)'
  <2>1. unlinked' = <<>> /\ Len(unlinked') = 0 /\ (\A i \in 1 .. Len(unlinked') : FALSE)
        /\ Unlinked' = {}
    BY <1>1, <1>4 DEF Unlinked
  <2>2. tail_block' \in blocks' BY <1>1, <1>4
  <2>3. IF cpc' = "collect" THEN HeadOf(taken)' + Len(unlinked') <= lo + 1 ELSE lo = HeadOf(taken)'
    <3>1. HeadOf(taken + 1) \in Nat /\ HeadOf(taken)' = HeadOf(taken + 1)
      BY <1>1, <1>2, Numbering
    <3> QED BY <1>7, <2>1, <3>1
  <2> QED BY <1>1, <1>7, <2>1, <2>2, <2>3 DEF Moving, Reclaiming
<1>11. Writer(at, hi)' BY <1>1, Parts, WriterStays
<1>12. Calls'
  <2>1. taken + 1 <= sent /\ sent - (taken + 1) <= MaxWaiting BY <1>2, Places, Sizes
  <2>2. ppc \in Writing \cup {"seek", "reserve"} /\ ~closing =>
          sent - written + count - (taken + 1) <= MaxWaiting
    <3>1. ppc \in Writing \cup {"seek", "reserve"} /\ ~closing =>
          sent - written + count - taken <= MaxWaiting
      BY Parts DEF Calls
    <3> QED BY <1>2, <3>1, Places, Sizes
  <2> QED BY <1>1, <2>1, <2>2, Parts DEF Calls
<1>13. Reader(at, lo, hi)'
  <2>1. read_offset' = Off(taken + 1) BY <1>1, <1>2, <1>5, Offsets
  <2> QED BY <1>1, <1>2, <1>4, <1>6, <1>7, <2>1, Places, Parts DEF Reader, AtElement
<1>14. Cells(at, lo, hi)'
  <2>1. Mark' = Mark /\ Built' = Built /\ Built \in Nat BY <1>1, <1>2 DEF Mark, Built, Ended
  <2> SUFFICES ASSUME NEW n \in Nat, Blk(n) \in lo .. hi
               PROVE
        /\ ValueAt(at, n)' = IF taken + 1 <= n /\ n < Built THEN n + 1 ELSE NoValue
        /\ taken + 1 <= n /\ n < sent => FlagAt(at, n)' = "data"
        /\ n = sent => FlagAt(at, n)' = Mark
        /\ n > sent => FlagAt(at, n)' = "empty"
    BY <1>1, <2>1 DEF Cells
  <2>2. /\ ValueAt(at, n) = IF taken <= n /\ n < Built THEN n + 1 ELSE NoValue
        /\ taken <= n /\ n < sent => FlagAt(at, n) = "data" \/ n = taken
        /\ n = sent => FlagAt(at, n) = Mark
        /\ n > sent => FlagAt(at, n) = "empty"
    BY Parts DEF Cells
  <2> QED BY <1>2, <1>8, <2>1, <2>2
<1>15. Rousing' BY <1>1, <1>2, <1>7, Parts DEF Rousing
<1>16. TypeOK'
  <2>1. read_offset' \in Word BY <1>1, <1>2, <1>5, Offsets
  <2>2. taken' \in 0 .. MaxPost
    <3>1. sent \in 0 .. MaxPost BY Parts DEF TypeOK
    <3> QED BY <1>1, <1>2, <3>1, Sizes
  <2>3. {oldHead', head_block'} \subseteq Block
    <3>1. at[lo] \in Block /\ at[Blk(taken)] \in Block /\ oldHead \in Block /\ head_block \in Block
      BY <1>2, Parts, Numbering DEF TypeOK
    <3> QED BY <1>6, <1>7, <3>1
  <2> QED
    BY <1>1, <1>8, <2>1, <2>2, <2>3, Parts
       DEF TypeOK, list, elements, producer, pushing, cutoff, Function
<1> QED
  BY <1>1, <1>8, <1>9, <1>10, <1>11, <1>12, <1>13, <1>14, <1>15, <1>16, Parts
     DEF Kept, Going, Shape

\* Reclaiming blocks
\* What the steps of reclaim_blocks() have in common.
LEMMA ReclaimStill ==
  ASSUME NEW at, NEW lo, NEW hi, Going(at, lo, hi), cpc \in Reclaiming,
         cpc' \in Reclaiming \cup {"idle"},
         UNCHANGED <<producer, stored, reading, outcome, elem, can_suspend>>
  PROVE  /\ Writer(at, hi)' /\ Calls' /\ Rousing'
         /\ Ended' = Ended /\ Built' = Built /\ Mark' = Mark
         /\ UNCHANGED <<sent, closed, closing, cons, ppc, taken>>
         /\ \A a, l, h : Reader(a, l, h) => Reader(a, l, h)'
<1>1. UNCHANGED taken BY DEF reading
<1>2. /\ Writer(at, hi)' /\ Calls' /\ Ended' = Ended /\ Built' = Built
      /\ UNCHANGED <<sent, closed, closing, cons, ppc>>
  BY <1>1, ProducerStill
<1>3. /\ cpc \notin AtElement \cup {"seek"} /\ cpc' \notin AtElement \cup {"seek"}
      /\ cpc \in {"collect", "reset", "find_tail", "unlink", "relink"}
      /\ cpc' \in {"collect", "reset", "find_tail", "unlink", "relink", "idle"}
  BY DEF Reclaiming, AtElement
<1>4. Mark' = Mark BY <1>2, <1>3 DEF Mark
<1>5. Rousing' BY <1>1, <1>2, <1>3, Parts DEF Rousing
<1>6. ASSUME NEW a, NEW l, NEW h, Reader(a, l, h)
      PROVE  Reader(a, l, h)'
  BY <1>3, <1>6 DEF Reader, reading, AtElement
<1> QED BY <1>1, <1>2, <1>4, <1>5, <1>6

\* A block that is collected is the first on the list, and holds no value.
LEMMA CollectKeeps ==
  ASSUME NEW at, NEW lo, NEW hi, Going(at, lo, hi), Collect
  PROVE  Kept'
<1>1. /\ cpc = "collect" /\ cpc' \in {"collect", "reset", "idle"}
      /\ UNCHANGED <<list, elements, flags, stored, blocks, next, producer, reading, tail_block,
                     tailBlock, outcome, elem, can_suspend>>
  BY DEF Collect, list, elements
<1>2. /\ Writer(at, hi)' /\ Calls' /\ Rousing'
      /\ Ended' = Ended /\ Built' = Built /\ Mark' = Mark
      /\ UNCHANGED <<sent, closed, closing, cons, ppc, taken>>
      /\ \A a, l, h : Reader(a, l, h) => Reader(a, l, h)'
  BY <1>1, ReclaimStill DEF Reclaiming
<1>3. /\ oldHead = at[lo] /\ head_block = at[HeadOf(taken)] /\ lo <= HeadOf(taken)
      /\ HeadOf(taken) <= hi /\ HeadOf(taken) \in Nat /\ taken \in Nat
  BY <1>1, Places, Parts DEF Moving, Reader, Reclaiming
<1>4. /\ unlinked \in Seq(Block) /\ Len(unlinked) \in Nat /\ Len(unlinked) <= GroupSize
  BY Parts DEF TypeOK
<1>5. CASE oldHead # head_block /\ Len(unlinked) < GroupSize
  <2>1. unlinked' = Append(unlinked, oldHead) /\ oldHead' = next[oldHead] /\ cpc' = "collect"
    BY <1>1, <1>5 DEF Collect
  <2>2. lo < HeadOf(taken) /\ lo < hi /\ lo + 1 \in Nat /\ lo + 1 <= hi /\ lo + 1 <= HeadOf(taken)
        /\ lo \in lo .. hi
    BY <1>3, <1>5, Parts
  <2>3. at[lo] \in Block /\ at[lo] \in blocks /\ at[lo] \notin Unlinked /\ next[at[lo]] = at[lo + 1]
    BY <2>2, Parts DEF Linked
  <2>4. /\ unlinked' \in Seq(Block) /\ Len(unlinked') = Len(unlinked) + 1
        /\ Len(unlinked') <= GroupSize
        /\ \A i \in 1 .. Len(unlinked) : unlinked'[i] = unlinked[i]
        /\ unlinked'[Len(unlinked) + 1] = at[lo]
        /\ \A i \in 1 .. Len(unlinked') : i \in 1 .. Len(unlinked) \/ i = Len(unlinked) + 1
    <3>1. /\ Append(unlinked, oldHead) \in Seq(Block)
          /\ Len(Append(unlinked, oldHead)) = Len(unlinked) + 1
          /\ \A i \in 1 .. Len(unlinked) : Append(unlinked, oldHead)[i] = unlinked[i]
          /\ Append(unlinked, oldHead)[Len(unlinked) + 1] = oldHead
      BY <1>3, <1>4, <2>3, AppendProperties
    <3> QED BY <1>3, <1>4, <1>5, <2>1, <3>1 DEF GroupSize
  <2>5. Unlinked' = Unlinked \cup {at[lo]}
    <3>1. \A x \in Unlinked' : x \in Unlinked \/ x = at[lo] BY <2>4 DEF Unlinked
    <3>2. \A x \in Unlinked : x \in Unlinked'
      <4>1. \A i \in 1 .. Len(unlinked) : i \in 1 .. Len(unlinked') BY <1>4, <2>4
      <4> QED BY <2>4, <4>1 DEF Unlinked
    <3>3. at[lo] \in Unlinked'
      <4>1. Len(unlinked) + 1 \in 1 .. Len(unlinked') BY <1>4, <2>4
      <4> QED BY <2>4, <4>1 DEF Unlinked
    <3> QED BY <3>1, <3>2, <3>3
  <2>6. \A i \in lo + 1 .. hi : i \in lo .. hi /\ i # lo /\ at[i] # at[lo]
    <3>1. \A i \in lo + 1 .. hi : i \in lo .. hi /\ i # lo BY <2>2, Parts
    <3> QED BY <2>2, <3>1, Parts DEF Linked
  <2>7. Linked(at, lo + 1, hi)'
    <3>1. UNCHANGED <<blocks, next, offset>> BY <1>1 DEF list
    <3>2. \A b \in blocks : b \in Unlinked' \/ \E i \in lo + 1 .. hi : b = at[i]
      <4>1. \A i \in lo .. hi : i = lo \/ i \in lo + 1 .. hi BY <2>2, Parts
      <4> QED BY <2>5, <4>1, Parts DEF Linked
    <3>3. \A i \in lo + 1 .. hi : at[i] \in blocks /\ at[i] \notin Unlinked' /\ offset[at[i]] = Start(i)
      BY <2>5, <2>6, Parts DEF Linked
    <3>4. \A i \in lo + 1 .. hi : next[at[i]] = IF i = hi THEN Null ELSE at[i + 1]
      BY <2>6, Parts DEF Linked
    <3>5. \A i, j \in lo + 1 .. hi : at[i] = at[j] => i = j BY <2>6, Parts DEF Linked
    <3> QED BY <2>2, <3>1, <3>2, <3>3, <3>4, <3>5 DEF Linked
  <2>8. Moving(at, lo + 1, hi)'
    <3>1. Unlinked' \subseteq blocks' BY <1>1, <2>3, <2>5, Parts DEF Moving
    <3>2. \A i, j \in 1 .. Len(unlinked') : unlinked'[i] = unlinked'[j] => i = j
      <4>1. \A i \in 1 .. Len(unlinked) : unlinked[i] # at[lo] BY <2>3 DEF Unlinked
      <4> QED BY <2>4, <4>1, Parts DEF Moving
    <3>3. \A i \in 1 .. Len(unlinked') :
             next[unlinked'[i]] = IF i < Len(unlinked') THEN unlinked'[i + 1] ELSE at[lo + 1]
      <4> SUFFICES ASSUME NEW i \in 1 .. Len(unlinked')
                   PROVE  next[unlinked'[i]] =
                             IF i < Len(unlinked') THEN unlinked'[i + 1] ELSE at[lo + 1]
        OBVIOUS
      <4>1. CASE i = Len(unlinked) + 1 BY <2>3, <2>4, <4>1
      <4>2. CASE i \in 1 .. Len(unlinked) /\ i # Len(unlinked)
        <5>1. i < Len(unlinked) /\ i + 1 \in 1 .. Len(unlinked) /\ i < Len(unlinked')
          BY <1>4, <2>4, <4>2
        <5>2. next[unlinked[i]] = unlinked[i + 1] BY <4>2, <5>1, Parts DEF Moving
        <5> QED BY <2>4, <4>2, <5>1, <5>2
      <4>3. CASE i \in 1 .. Len(unlinked) /\ i = Len(unlinked)
        <5>1. next[unlinked[i]] = at[lo] /\ i < Len(unlinked')
          BY <1>1, <1>4, <2>4, <4>3, Parts DEF Moving
        <5> QED BY <2>4, <4>3, <5>1
      <4> QED BY <2>4, <4>1, <4>2, <4>3
    <3>4. UNCHANGED <<next, blocks, tail_block>> /\ oldHead' = at[lo + 1]
      BY <1>1, <1>3, <2>1, <2>3
    <3>5. tail_block \in blocks BY Parts DEF Moving
    <3>6. HeadOf(taken)' + Len(unlinked') <= (lo + 1) + 1
      <4>1. HeadOf(taken) + Len(unlinked) <= lo + 1 BY <1>1, Parts DEF Moving
      <4>2. HeadOf(taken)' = HeadOf(taken) BY <1>2
      <4> QED BY <1>3, <1>4, <2>2, <2>4, <4>1, <4>2
    <3> QED BY <2>1, <3>1, <3>2, <3>3, <3>4, <3>5, <3>6 DEF Moving, Reclaiming
  <2>9. Clean'
    <3>1. \A j \in Index : stored[at[lo]][j] = NoValue
      <4> SUFFICES ASSUME NEW j \in Index
                   PROVE  stored[at[lo]][j] = NoValue
        OBVIOUS
      <4>1. PICK n \in Nat : Blk(n) = lo /\ Idx(n) = j BY HasNumber, Parts
      <4>2. n < taken BY <1>3, <2>2, <4>1, Heads
      <4>3. ValueAt(at, n) = NoValue BY <1>3, <2>2, <4>1, <4>2, Parts DEF Cells
      <4> QED BY <4>1, <4>3 DEF ValueAt
    <3>2. \A b \in Block : b \notin blocks \/ b \in Unlinked =>
             \A j \in Index : stored[b][j] = NoValue
      BY Parts DEF Clean
    <3> QED BY <1>1, <2>1, <2>5, <3>1, <3>2 DEF Clean
  <2>10. Cells(at, lo + 1, hi)'
    <3>1. Cells(at, lo, hi)' BY <1>1, <1>2, Parts, CellsStay
    <3>2. \A n \in Nat : Blk(n) \in lo + 1 .. hi => Blk(n) \in lo .. hi BY <2>6
    <3> QED BY <3>1, <3>2 DEF Cells
  <2>11. Reader(at, lo + 1, hi)'
    <3>1. Reader(at, lo + 1, hi) BY <2>2, Parts DEF Reader
    <3> QED BY <1>2, <3>1
  <2>12. TypeOK'
    <3>1. oldHead' \in Block BY <1>3, <2>1, <2>2, <2>3, Parts
    <3> QED
      BY <1>1, <2>1, <2>4, <3>1, Parts DEF TypeOK, list, elements, producer, pushing, cutoff, reading,
         Function
  <2> QED BY <1>2, <2>1, <2>2, <2>7, <2>8, <2>9, <2>10, <2>11, <2>12, Parts DEF Kept, Going, Shape
<1>6. CASE ~(oldHead # head_block /\ Len(unlinked) < GroupSize)
  <2>1. cpc' = (IF unlinked = <<>> THEN "idle" ELSE "reset") /\ UNCHANGED <<unlinked, oldHead>>
    BY <1>6 DEF Collect
  <2>2. lo = HeadOf(taken)
    <3>1. HeadOf(taken) + Len(unlinked) <= lo + 1 BY <1>1, Parts DEF Moving
    <3>2. Len(unlinked) < GroupSize BY <1>3, <1>4, <3>1, Parts DEF GroupSize
    <3>3. at[lo] = at[HeadOf(taken)] BY <1>3, <1>6, <3>2
    <3> QED BY <1>3, <3>3, Parts DEF Linked
  <2>3. Linked(at, lo, hi)' /\ Clean'
    <3>1. UNCHANGED <<list, unlinked, blocks, elements>> /\ cpc' \notin {"find_tail", "unlink", "relink"}
      BY <1>1, <2>1
    <3> QED BY <3>1, Parts, LinkedStays, CleanStays
  <2>4. Moving(at, lo, hi)'
    <3>1. Unlinked' = Unlinked /\ HeadOf(taken)' = HeadOf(taken) BY <1>2, <2>1 DEF Unlinked
    <3> QED BY <1>1, <1>2, <2>1, <2>2, <3>1, Parts DEF Moving, Reclaiming
  <2>5. Cells(at, lo, hi)' BY <1>1, <1>2, Parts, CellsStay
  <2>6. Reader(at, lo, hi)' BY <1>2, Parts
  <2>7. TypeOK'
    BY <1>1, <2>1, Parts DEF TypeOK, list, elements, producer, pushing, cutoff, reading, Function
  <2> QED BY <1>1, <1>2, <2>3, <2>4, <2>5, <2>6, <2>7, Parts DEF Kept, Going, Shape
<1> QED BY <1>5, <1>6

\* The blocks being moved are cleared.
LEMMA ResetValuesKeeps ==
  ASSUME NEW at, NEW lo, NEW hi, Going(at, lo, hi), ResetValues
  PROVE  Kept'
<1>1. /\ cpc = "reset" /\ cpc' = "find_tail" /\ tailBlock' = tail_block
      /\ flags' = [b \in Block |-> AfterReset(b)]
      /\ UNCHANGED <<list, stored, blocks, next, producer, reading, tail_block, oldHead, unlinked,
                     outcome, elem, can_suspend>>
  BY DEF ResetValues, list
<1>2. /\ Writer(at, hi)' /\ Calls' /\ Rousing'
      /\ Ended' = Ended /\ Built' = Built /\ Mark' = Mark
      /\ UNCHANGED <<sent, closed, closing, cons, ppc, taken>>
      /\ \A a, l, h : Reader(a, l, h) => Reader(a, l, h)'
  BY <1>1, ReclaimStill DEF Reclaiming
<1>3. /\ \A b \in Block : flags'[b] = IF b \in Unlinked THEN Fresh ELSE flags[b]
      /\ (flags \in [Block -> [Index -> Flag]])'
  <2>1. Fresh \in [Index -> Flag] /\ flags \in [Block -> [Index -> Flag]]
    BY Parts DEF Fresh, Flag, TypeOK
  <2> QED BY <1>1, <2>1 DEF AfterReset
<1>4. Unlinked' = Unlinked BY <1>1 DEF Unlinked
<1>5. Linked(at, lo, hi)' BY <1>1, Parts, LinkedStays
<1>6. Moving(at, lo, hi)'
  <2>1. HeadOf(taken)' = HeadOf(taken) BY <1>2
  <2> QED BY <1>1, <1>4, <2>1, Parts DEF Moving, Reclaiming
<1>7. Clean'
  <2>1. Unlinked \subseteq Block BY Parts DEF Moving, TypeOK
  <2> QED BY <1>1, <1>3, <1>4, <2>1, Parts DEF Clean
<1>8. Cells(at, lo, hi)'
  <2>1. ASSUME NEW n \in Nat, Blk(n) \in lo .. hi
        PROVE  FlagAt(at, n)' = FlagAt(at, n) /\ ValueAt(at, n)' = ValueAt(at, n)
    <3>1. at[Blk(n)] \in Block /\ at[Blk(n)] \notin Unlinked BY <2>1, Parts DEF Linked
    <3> QED BY <1>1, <1>3, <3>1 DEF FlagAt, ValueAt
  <2> QED BY <1>1, <1>2, <2>1, Parts DEF Cells
<1>9. Reader(at, lo, hi)' BY <1>2, Parts
<1>10. TypeOK'
  BY <1>1, <1>3, Parts DEF TypeOK, list, producer, pushing, cutoff, reading, Function
<1> QED BY <1>1, <1>2, <1>5, <1>6, <1>7, <1>8, <1>9, <1>10, Parts DEF Kept, Going, Shape

\* Every block leads to a block; the blocks being moved lead to the list.
LEMMA NextIsBlock ==
  ASSUME NEW at, NEW lo, NEW hi, Going(at, lo, hi), NEW b \in blocks, cpc \in Reclaiming
  PROVE  /\ next[b] # Null => next[b] \in blocks
         /\ next[b] = Null /\ cpc # "relink" => b \notin Unlinked
         /\ b \notin Unlinked => next[b] \notin Unlinked
         /\ b \notin Unlinked /\ next[b] = Null => b = at[hi]
<1>1. /\ \A i \in lo .. hi : /\ at[i] \in blocks /\ at[i] \notin Unlinked /\ at[i] # Null
                             /\ next[at[i]] = IF i = hi THEN Null ELSE at[i + 1]
      /\ b \in Unlinked \/ \E i \in lo .. hi : b = at[i]
      /\ lo \in lo .. hi /\ Null \notin Unlinked
  <2>1. Null \notin Block /\ blocks \subseteq Block /\ Unlinked \subseteq blocks
    <3>1. Null \notin Block BY Sizes DEF Null, Block
    <3>2. blocks \subseteq Block BY Parts DEF TypeOK
    <3>3. Unlinked \subseteq blocks BY Parts DEF Moving
    <3> QED BY <3>1, <3>2, <3>3
  <2>2. \A i \in lo .. hi : at[i] \in Block BY Parts
  <2> QED BY <2>1, <2>2, Parts DEF Linked
<1>2. CASE b \in Unlinked
  <2>1. PICK i \in 1 .. Len(unlinked) : b = unlinked[i] BY <1>2 DEF Unlinked
  <2>2. Len(unlinked) \in Nat BY Parts DEF TypeOK
  <2>3. CASE i < Len(unlinked)
    <3>1. i + 1 \in 1 .. Len(unlinked) /\ next[b] = unlinked[i + 1]
      BY <2>1, <2>2, <2>3, Parts DEF Moving
    <3>2. next[b] \in Unlinked BY <3>1 DEF Unlinked
    <3>3. next[b] \in blocks /\ next[b] # Null BY <1>1, <3>2, Parts DEF Moving
    <3> QED BY <1>2, <3>3
  <2>4. CASE ~(i < Len(unlinked))
    <3>1. next[b] = IF cpc = "relink" THEN Null ELSE at[lo] BY <2>1, <2>4, Parts DEF Moving
    <3> QED BY <1>1, <1>2, <3>1
  <2> QED BY <2>3, <2>4
<1>3. CASE b \notin Unlinked
  <2>1. PICK i \in lo .. hi : b = at[i] BY <1>1, <1>3
  <2>2. i # hi => i + 1 \in lo .. hi BY Parts
  <2> QED BY <1>1, <1>3, <2>1, <2>2
<1> QED BY <1>2, <1>3

\* The tail is on the list, not among the blocks being moved.
LEMMA FindTailKeeps ==
  ASSUME NEW at, NEW lo, NEW hi, Going(at, lo, hi), FindTail
  PROVE  Kept'
<1>1. /\ cpc = "find_tail" /\ cpc' \in {"find_tail", "unlink"}
      /\ UNCHANGED <<list, elements, stored, blocks, next, producer, reading, tail_block, oldHead,
                     unlinked, outcome, elem, can_suspend>>
  BY DEF FindTail, list, elements
<1>2. /\ Writer(at, hi)' /\ Calls' /\ Rousing'
      /\ Ended' = Ended /\ Built' = Built /\ Mark' = Mark
      /\ UNCHANGED <<sent, closed, closing, cons, ppc, taken>>
      /\ \A a, l, h : Reader(a, l, h) => Reader(a, l, h)'
  BY <1>1, ReclaimStill DEF Reclaiming
<1>3. tailBlock' \in blocks /\ (cpc' = "unlink" => tailBlock' \notin Unlinked)
  <2>1. tailBlock \in blocks /\ cpc \in Reclaiming BY <1>1, Parts DEF Moving, Reclaiming
  <2>2. CASE next[tailBlock] # Null
    <3>1. tailBlock' = next[tailBlock] /\ cpc' = cpc BY <2>2 DEF FindTail
    <3> QED BY <1>1, <2>1, <2>2, <3>1, NextIsBlock
  <2>3. CASE next[tailBlock] = Null
    <3>1. tailBlock' = tailBlock BY <2>3 DEF FindTail
    <3> QED BY <1>1, <2>1, <2>3, <3>1, NextIsBlock
  <2> QED BY <2>2, <2>3
<1>4. Unlinked' = Unlinked BY <1>1 DEF Unlinked
<1>5. Linked(at, lo, hi)' BY <1>1, Parts, LinkedStays
<1>6. Moving(at, lo, hi)'
  <2>1. HeadOf(taken)' = HeadOf(taken) BY <1>2
  <2> QED BY <1>1, <1>3, <1>4, <2>1, Parts DEF Moving, Reclaiming
<1>7. Clean' BY <1>1, <1>4, Parts DEF Clean, elements
<1>8. Cells(at, lo, hi)' BY <1>1, <1>2, Parts, CellsStay
<1>9. Reader(at, lo, hi)' BY <1>2, Parts
<1>10. TypeOK'
  <2>1. tailBlock' \in Block BY <1>3, Parts DEF TypeOK
  <2> QED BY <1>1, <2>1, Parts DEF TypeOK, list, elements, producer, pushing, cutoff, reading, Function
<1> QED BY <1>1, <1>2, <1>5, <1>6, <1>7, <1>8, <1>9, <1>10, Parts DEF Kept, Going, Shape

\* Cut off, they lead nowhere.
LEMMA UnlinkKeeps ==
  ASSUME NEW at, NEW lo, NEW hi, Going(at, lo, hi), Unlink
  PROVE  Kept'
<1> DEFINE L == Len(unlinked)
<1>1. /\ cpc = "unlink" /\ cpc' = "relink"
      /\ next' = [next EXCEPT ![unlinked[L]] = Null]
      /\ UNCHANGED <<offset, elements, stored, blocks, producer, reading, tail_block, oldHead,
                     unlinked, tailBlock, outcome, elem, can_suspend>>
  BY DEF Unlink, elements, reclaim
<1>2. /\ Writer(at, hi)' /\ Calls' /\ Rousing'
      /\ Ended' = Ended /\ Built' = Built /\ Mark' = Mark
      /\ UNCHANGED <<sent, closed, closing, cons, ppc, taken>>
      /\ \A a, l, h : Reader(a, l, h) => Reader(a, l, h)'
  BY <1>1, ReclaimStill DEF Reclaiming
<1>3. unlinked # <<>> /\ unlinked \in Seq(Block) /\ L \in Nat /\ L \in 1 .. L
  <2>1. unlinked # <<>> /\ unlinked \in Seq(Block) BY <1>1, Parts DEF Moving, Reclaiming, TypeOK
  <2> QED BY <2>1, EmptySeq, LenProperties
<1> HIDE DEF L
<1>4. unlinked[L] \in Unlinked /\ unlinked[L] \in Block BY <1>3 DEF L, Unlinked
<1>5. /\ next' \in [Block -> Block \cup {Null}] /\ next'[unlinked[L]] = Null
      /\ \A b \in Block : b # unlinked[L] => next'[b] = next[b]
  <2>1. next \in [Block -> Block \cup {Null}] BY Parts DEF TypeOK
  <2> QED BY <1>1, <1>4, <2>1
<1>6. Unlinked' = Unlinked BY <1>1 DEF Unlinked
<1>7. Linked(at, lo, hi)'
  <2>1. \A i \in lo .. hi : at[i] \in Block /\ at[i] # unlinked[L] BY <1>4, Parts DEF Linked
  <2>2. \A i \in lo .. hi : next'[at[i]] = next[at[i]] BY <1>5, <2>1
  <2> QED BY <1>1, <1>6, <2>2, Parts DEF Linked
<1>8. Moving(at, lo, hi)'
  <2>1. ASSUME NEW i \in 1 .. L
        PROVE  next'[unlinked[i]] = IF i < L THEN unlinked[i + 1] ELSE Null
    <3>1. CASE i = L BY <1>3, <1>5, <3>1
    <3>2. CASE i # L
      <4>1. i < L /\ unlinked[i] # unlinked[L] /\ unlinked[i] \in Block
        <5>1. \A k, j \in 1 .. L : unlinked[k] = unlinked[j] => k = j BY Parts DEF Moving, L
        <5> QED BY <1>3, <3>2, <5>1 DEF L
      <4>2. next[unlinked[i]] = unlinked[i + 1] BY <4>1, Parts DEF Moving, L
      <4> QED BY <1>5, <4>1, <4>2
    <3> QED BY <3>1, <3>2
  <2>2. Len(unlinked') = L /\ unlinked' = unlinked BY <1>1 DEF L
  <2>3. \A i \in 1 .. Len(unlinked') :
          next'[unlinked'[i]] = IF i < Len(unlinked') THEN unlinked'[i + 1]
                                ELSE IF cpc' = "relink" THEN Null ELSE at[lo]
    BY <1>1, <2>1, <2>2
  <2>4. /\ oldHead' = at[lo] /\ tail_block' \in blocks' /\ tailBlock' \in blocks' \ Unlinked'
        /\ Unlinked' \subseteq blocks' /\ unlinked' # <<>>
        /\ \A i, j \in 1 .. Len(unlinked') : unlinked'[i] = unlinked'[j] => i = j
    BY <1>1, <1>3, <1>6, Parts DEF Moving, Reclaiming
  <2>5. HeadOf(taken)' = HeadOf(taken) /\ lo = HeadOf(taken) BY <1>1, <1>2, Parts DEF Moving
  <2> QED BY <1>1, <2>3, <2>4, <2>5 DEF Moving, Reclaiming
<1>9. Clean' BY <1>1, <1>6, Parts DEF Clean, elements
<1>10. Cells(at, lo, hi)' BY <1>1, <1>2, Parts, CellsStay
<1>11. Reader(at, lo, hi)' BY <1>2, Parts
<1>12. TypeOK'
  BY <1>1, <1>5, Parts DEF TypeOK, elements, producer, pushing, cutoff, reading, Function
<1> QED BY <1>1, <1>2, <1>7, <1>8, <1>9, <1>10, <1>11, <1>12, Parts DEF Kept, Going, Shape

\* Appended, they are numbered from hi + 1, or somebody else came first.
LEMMA RelinkKeeps ==
  ASSUME NEW at, NEW lo, NEW hi, Going(at, lo, hi), Relink
  PROVE  Kept'
<1>1. /\ cpc = "relink" /\ cpc' \in {"relink", "collect"}
      /\ UNCHANGED <<elements, flags, stored, blocks, producer, reading, oldHead, outcome, elem,
                     can_suspend>>
  BY DEF Relink, elements
<1>2. /\ Writer(at, hi)' /\ Calls' /\ Rousing'
      /\ Ended' = Ended /\ Built' = Built /\ Mark' = Mark
      /\ UNCHANGED <<sent, closed, closing, cons, ppc, taken>>
      /\ \A a, l, h : Reader(a, l, h) => Reader(a, l, h)'
  BY <1>1, ReclaimStill DEF Reclaiming
<1>3. /\ tailBlock \in blocks /\ tailBlock \notin Unlinked /\ oldHead = at[lo]
      /\ tail_block \in blocks
  BY <1>1, Parts DEF Moving, Reclaiming
<1>6. HeadOf(taken)' = HeadOf(taken) /\ lo = HeadOf(taken) /\ lo \in Nat
  BY <1>1, <1>2, Parts DEF Moving
<1>4. CASE next[tailBlock] # Null
  <2>1. /\ tailBlock' = next[tailBlock] /\ cpc' = cpc
        /\ UNCHANGED <<list, unlinked, tail_block>>
    BY <1>1, <1>4 DEF Relink, list
  <2>2. tailBlock' \in blocks \ Unlinked
    <3>1. cpc \in Reclaiming BY <1>1 DEF Reclaiming
    <3> QED BY <1>3, <1>4, <2>1, <3>1, NextIsBlock
  <2>3. Unlinked' = Unlinked BY <2>1 DEF Unlinked
  <2>4. Linked(at, lo, hi)' BY <2>1, Parts, LinkedStays
  <2>5. Moving(at, lo, hi)' BY <1>1, <1>6, <2>1, <2>2, <2>3, Parts DEF Moving, Reclaiming, list
  <2>6. Clean' BY <1>1, <2>1, <2>3, Parts DEF Clean
  <2>7. Cells(at, lo, hi)' BY <1>1, <1>2, Parts, CellsStay
  <2>8. Reader(at, lo, hi)' BY <1>2, Parts
  <2>9. TypeOK'
    <3>1. tailBlock' \in Block BY <2>2, Parts DEF TypeOK
    <3> QED
      BY <1>1, <2>1, <3>1, Parts DEF TypeOK, list, elements, producer, pushing, cutoff, reading,
         Function
  <2> QED BY <1>1, <1>2, <2>4, <2>5, <2>6, <2>7, <2>8, <2>9, Parts DEF Kept, Going, Shape
<1>5. CASE next[tailBlock] = Null
  <2>0. PICK L : L = Len(unlinked) OBVIOUS
  <2> DEFINE hi2 == hi + L
  <2>1. /\ next' = [next EXCEPT ![tailBlock] = unlinked[1]]
        /\ offset' = [b \in Block |->
               IF b \in Unlinked
                  THEN Stamped(tailBlock, CHOOSE k \in 1 .. L : unlinked[k] = b)
                  ELSE offset[b]]
        /\ tail_block' = unlinked[L] /\ unlinked' = <<>> /\ cpc' = "collect" /\ tailBlock' = tailBlock
    BY <1>5, <2>0 DEF Relink
  <2>2. /\ unlinked # <<>> /\ unlinked \in Seq(Block) /\ L \in Nat /\ L >= 1
        /\ \A i \in 1 .. L : unlinked[i] \in Block /\ unlinked[i] \in Unlinked
        /\ \A b \in Unlinked : \E i \in 1 .. L : b = unlinked[i]
        /\ \A i, j \in 1 .. L : unlinked[i] = unlinked[j] => i = j
        /\ \A i \in 1 .. L : next[unlinked[i]] = IF i < L THEN unlinked[i + 1] ELSE Null
        /\ Unlinked \subseteq blocks /\ blocks \subseteq Block
    <3>1. unlinked # <<>> /\ unlinked \in Seq(Block)
      BY <1>1, Parts DEF Moving, Reclaiming, TypeOK
    <3>2. L \in Nat /\ L >= 1 BY <2>0, <3>1, EmptySeq, LenProperties
    <3>3. \A i \in 1 .. L : unlinked[i] \in Block /\ unlinked[i] \in Unlinked
      BY <2>0, <3>1 DEF Unlinked
    <3>4. \A b \in Unlinked : \E i \in 1 .. L : b = unlinked[i] BY <2>0 DEF Unlinked
    <3>5. blocks \subseteq Block BY Parts DEF TypeOK
    <3> QED BY <1>1, <2>0, <3>1, <3>2, <3>3, <3>4, <3>5, Parts DEF Moving
  <2>3. tailBlock = at[hi]
    <3>1. cpc \in Reclaiming BY <1>1 DEF Reclaiming
    <3> QED BY <1>3, <1>5, <3>1, NextIsBlock
  <2>4. /\ \A k \in lo .. hi : /\ at[k] \in Block /\ at[k] \in blocks /\ at[k] \notin Unlinked
                               /\ offset[at[k]] = Start(k)
                               /\ next[at[k]] = IF k = hi THEN Null ELSE at[k + 1]
        /\ \A i, j \in lo .. hi : at[i] = at[j] => i = j
        /\ \A b \in blocks : b \in Unlinked \/ \E i \in lo .. hi : b = at[i]
        /\ lo \in Nat /\ hi \in Nat /\ lo <= hi
    BY Parts DEF Linked
  <2>16. PICK at2 : at2 = [n \in Nat |-> IF n \in hi + 1 .. hi + L THEN unlinked[n - hi] ELSE at[n]]
    OBVIOUS
  <2>5. /\ at2 \in [Nat -> Block] /\ hi2 \in Nat /\ hi <= hi2 /\ lo <= hi2 /\ hi < hi2
        /\ \A k \in lo .. hi : at2[k] = at[k]
        /\ \A k \in 1 .. L : at2[hi + k] = unlinked[k]
        /\ \A k \in lo .. hi2 : k \in lo .. hi \/ (k - hi \in 1 .. L /\ k = hi + (k - hi))
    <3>1. at2 \in [Nat -> Block]
      <4>1. \A n \in hi + 1 .. hi + L : n - hi \in 1 .. L BY <2>2, <2>4
      <4>2. at \in [Nat -> Block] BY Parts
      <4> QED BY <2>2, <2>16, <4>1, <4>2
    <3>2. \A k \in lo .. hi : k \in Nat /\ k \notin hi + 1 .. hi + L BY <2>2, <2>4
    <3>3. \A k \in 1 .. L : hi + k \in Nat /\ hi + k \in hi + 1 .. hi + L /\ (hi + k) - hi = k
      BY <2>2, <2>4
    <3>4. /\ hi2 \in Nat /\ hi <= hi2 /\ lo <= hi2 /\ hi < hi2
          /\ \A k \in lo .. hi2 : k \in lo .. hi \/ (k - hi \in 1 .. L /\ k = hi + (k - hi))
      BY <2>2, <2>4
    <3> QED BY <2>16, <3>1, <3>2, <3>3, <3>4
  <2>6. hi2 = hi + L OBVIOUS
  <2> HIDE DEF hi2
  <2>7. Unlinked' = {} BY <2>1 DEF Unlinked
  <2>8. /\ next' \in [Block -> Block \cup {Null}]
        /\ next'[at[hi]] = unlinked[1]
        /\ \A b \in Block : b # at[hi] => next'[b] = next[b]
    <3>1. next \in [Block -> Block \cup {Null}] /\ 1 \in 1 .. L BY <2>2, Parts DEF TypeOK
    <3>2. at[hi] \in Block BY <2>4
    <3> QED BY <2>1, <2>2, <2>3, <3>1, <3>2
  <2>9. /\ offset' \in [Block -> Word]
        /\ \A b \in Block : b \notin Unlinked => offset'[b] = offset[b]
        /\ \A k \in 1 .. L : offset'[unlinked[k]] = Start(hi + k)
    <3>1. ASSUME NEW k \in 1 .. L
          PROVE  /\ (CHOOSE j \in 1 .. L : unlinked[j] = unlinked[k]) = k
                 /\ Stamped(tailBlock, k) = Start(hi + k) /\ Start(hi + k) \in Word
      <4>1. (CHOOSE j \in 1 .. L : unlinked[j] = unlinked[k]) = k BY <2>2
      <4>2. k \in Nat /\ hi + k \in Nat /\ hi \in Nat /\ offset[tailBlock] = Start(hi)
        BY <2>2, <2>3, <2>4
      <4>3. Plus(Start(hi), k * BlockSize) = Start(hi + k) /\ Start(hi + k) \in Word
        BY <4>2, NextStart
      <4> QED BY <4>1, <4>2, <4>3 DEF Stamped
    <3>2. \A b \in Block : b \notin Unlinked => offset'[b] = offset[b] BY <2>1
    <3>3. ASSUME NEW k \in 1 .. L
          PROVE  offset'[unlinked[k]] = Start(hi + k)
      <4>1. unlinked[k] \in Block /\ unlinked[k] \in Unlinked BY <2>2
      <4>2. offset'[unlinked[k]] = Stamped(tailBlock, CHOOSE j \in 1 .. L : unlinked[j] = unlinked[k])
        BY <2>1, <4>1
      <4> QED BY <3>1, <4>2
    <3>4. \A b \in Block : offset'[b] \in Word
      <4> SUFFICES ASSUME NEW b \in Block
                   PROVE  offset'[b] \in Word
        OBVIOUS
      <4>1. CASE b \in Unlinked BY <2>2, <3>1, <3>3, <4>1
      <4>2. CASE b \notin Unlinked
        <5>1. offset \in [Block -> Word] BY Parts DEF TypeOK
        <5> QED BY <3>2, <4>2, <5>1
      <4> QED BY <4>1, <4>2
    <3>5. offset' \in [Block -> Word] BY <2>1, <3>4
    <3> QED BY <3>2, <3>3, <3>5
  <2>10. Linked(at2, lo, hi2)'
    <3>1. ASSUME NEW k \in lo .. hi2
          PROVE  /\ at2[k] \in blocks /\ offset'[at2[k]] = Start(k)
                 /\ next'[at2[k]] = IF k = hi2 THEN Null ELSE at2[k + 1]
      <4>1. CASE k \in lo .. hi
        <5>1. at2[k] = at[k] /\ at[k] \in blocks /\ offset'[at[k]] = Start(k) /\ k # hi2 /\ k \in Nat
          BY <2>4, <2>5, <2>9, <4>1
        <5>2. CASE k = hi
          <6>1. 1 \in 1 .. L BY <2>2
          <6>2. at2[k + 1] = unlinked[1] BY <2>5, <5>2, <6>1
          <6> QED BY <2>8, <5>1, <5>2, <6>2
        <5>3. CASE k # hi
          <6>1. k + 1 \in lo .. hi /\ hi \in lo .. hi BY <2>4, <4>1, <5>3
          <6>2. at[k] # at[hi] /\ at[k] \in Block /\ next[at[k]] = at[k + 1] /\ at2[k + 1] = at[k + 1]
            BY <2>4, <2>5, <4>1, <5>3, <6>1
          <6> QED BY <2>8, <5>1, <6>2
        <5> QED BY <5>2, <5>3
      <4>2. CASE k - hi \in 1 .. L /\ k = hi + (k - hi)
        <5>1. PICK j \in 1 .. L : k = hi + j BY <4>2
        <5>2. /\ at2[k] = unlinked[j] /\ unlinked[j] \in blocks /\ unlinked[j] \in Block
              /\ offset'[unlinked[j]] = Start(k) /\ unlinked[j] # at[hi]
          <6>1. at[hi] \notin Unlinked BY <2>4
          <6> QED BY <2>2, <2>5, <2>9, <5>1, <6>1
        <5>3. next'[unlinked[j]] = IF j < L THEN unlinked[j + 1] ELSE Null BY <2>2, <2>8, <5>2
        <5>4. CASE j < L
          <6>1. j + 1 \in 1 .. L /\ k + 1 = hi + (j + 1) /\ k # hi2
            BY <2>2, <2>4, <2>6, <5>1, <5>4
          <6> QED BY <2>5, <5>2, <5>3, <5>4, <6>1
        <5>5. CASE j = L BY <2>6, <5>1, <5>2, <5>3, <5>5
        <5> QED BY <2>2, <5>4, <5>5
      <4> QED BY <2>5, <4>1, <4>2
    <3>2. ASSUME NEW i \in lo .. hi2, NEW j \in lo .. hi2, at2[i] = at2[j]
          PROVE  i = j
      <4>1. \A k \in lo .. hi2 :
              \/ k \in lo .. hi /\ at2[k] = at[k] /\ at[k] \notin Unlinked
              \/ \E m \in 1 .. L : k = hi + m /\ at2[k] = unlinked[m] /\ unlinked[m] \in Unlinked
        BY <2>2, <2>4, <2>5
      <4>2. CASE i \in lo .. hi /\ at2[i] = at[i] /\ at[i] \notin Unlinked
        <5>1. j \in lo .. hi /\ at2[j] = at[j] BY <3>2, <4>1, <4>2
        <5> QED BY <2>4, <3>2, <4>2, <5>1
      <4>3. CASE \E m \in 1 .. L : i = hi + m /\ at2[i] = unlinked[m] /\ unlinked[m] \in Unlinked
        <5>1. PICK m \in 1 .. L : i = hi + m /\ at2[i] = unlinked[m] /\ unlinked[m] \in Unlinked
          BY <4>3
        <5>2. PICK k \in 1 .. L : j = hi + k /\ at2[j] = unlinked[k] BY <3>2, <4>1, <5>1
        <5>3. m = k BY <2>2, <3>2, <5>1, <5>2
        <5> QED BY <5>1, <5>2, <5>3
      <4> QED BY <4>1, <4>2, <4>3
    <3>3. \A b \in blocks : \E i \in lo .. hi2 : b = at2[i]
      <4>1. ASSUME NEW b \in Unlinked
            PROVE  \E i \in lo .. hi2 : b = at2[i]
        <5>1. PICK m \in 1 .. L : b = unlinked[m] BY <2>2
        <5>2. hi + m \in lo .. hi2 BY <2>2, <2>4, <2>6
        <5> QED BY <2>5, <5>1, <5>2
      <4>2. \A i \in lo .. hi : i \in lo .. hi2 /\ at2[i] = at[i] BY <2>4, <2>5
      <4> QED BY <2>4, <4>1, <4>2
    <3> QED BY <1>1, <2>5, <2>7, <3>1, <3>2, <3>3 DEF Linked
  <2>11. Moving(at2, lo, hi2)'
    <3>1. Len(unlinked') = 0 /\ (\A i \in 1 .. Len(unlinked') : FALSE) BY <2>1
    <3>2. unlinked[L] \in blocks /\ at2[lo] = at[lo] BY <2>2, <2>4, <2>5
    <3> QED BY <1>1, <1>3, <1>6, <2>1, <2>7, <3>1, <3>2 DEF Moving, Reclaiming
  <2>12. Clean' BY <1>1, <2>1, <2>7, Parts DEF Clean
  <2>13. Cells(at2, lo, hi2)'
    <3>1. ASSUME NEW n \in Nat, Blk(n) \in lo .. hi
          PROVE  FlagAt(at2, n)' = FlagAt(at, n) /\ ValueAt(at2, n)' = ValueAt(at, n)
      <4>1. at2[Blk(n)] = at[Blk(n)] BY <2>5, <3>1
      <4> QED BY <1>1, <4>1 DEF FlagAt, ValueAt
    <3>2. ASSUME NEW n \in Nat, NEW m \in 1 .. L, Blk(n) = hi + m
          PROVE  /\ FlagAt(at2, n)' = "empty" /\ ValueAt(at2, n)' = NoValue
                 /\ ~(taken <= n /\ n < Built) /\ n >= sent /\ (n = sent => Mark = "empty")
      <4>1. at2[Blk(n)] = unlinked[m] /\ unlinked[m] \in Unlinked /\ unlinked[m] \in Block
            /\ Idx(n) \in Index
        BY <2>2, <2>5, <3>2, Numbering
      <4>2. stored[unlinked[m]][Idx(n)] = NoValue /\ flags[unlinked[m]] = Fresh
        BY <1>1, <4>1, Parts DEF Clean
      <4>3. Blk(n) > hi BY <2>4, <3>2
      <4>4. Fresh[Idx(n)] = "empty" BY <4>1 DEF Fresh
      <4> QED BY <1>1, <4>1, <4>2, <4>3, <4>4, AtTheEnd DEF FlagAt, ValueAt
    <3> SUFFICES ASSUME NEW n \in Nat, Blk(n) \in lo .. hi2
                 PROVE
        /\ ValueAt(at2, n)' = IF taken <= n /\ n < Built THEN n + 1 ELSE NoValue
        /\ taken <= n /\ n < sent => FlagAt(at2, n)' = "data"
        /\ n = sent => FlagAt(at2, n)' = Mark
        /\ n > sent => FlagAt(at2, n)' = "empty"
      BY <1>2 DEF Cells
    <3>3. CASE Blk(n) \in lo .. hi BY <1>1, <3>1, <3>3, Parts DEF Cells
    <3>4. CASE ~(Blk(n) \in lo .. hi)
      <4>1. PICK m \in 1 .. L : Blk(n) = hi + m BY <2>5, <3>4
      <4>2. sent \in Nat BY Places
      <4> QED BY <3>2, <4>1, <4>2
    <3> QED BY <3>3, <3>4
  <2>14. Writer(at2, hi2)' /\ Reader(at2, lo, hi2)'
    <3>1. Writer(at2, hi2) /\ Reader(at2, lo, hi2) BY <2>5, Parts, MoreBlocks
    <3> QED BY <1>1, <1>2, <3>1, WriterStays
  <2>15. TypeOK'
    <3>1. tail_block' \in Block /\ unlinked' \in Seq(Block) /\ Len(unlinked') <= GroupSize
      BY <2>1, <2>2 DEF GroupSize
    <3>2. cpc' = "collect" /\ tailBlock' = tailBlock /\ next' \in [Block -> Block \cup {Null}]
          /\ offset' \in [Block -> Word]
      BY <2>1, <2>8, <2>9
    <3> QED BY <1>1, <3>1, <3>2, Parts DEF TypeOK, elements, producer, pushing, cutoff, reading, Function
  <2> QED
    BY <1>1, <1>2, <2>1, <2>4, <2>5, <2>10, <2>11, <2>12, <2>13, <2>14, <2>15, Parts
       DEF Kept, Going, Shape
<1> QED BY <1>4, <1>5

\* The beginning, and the end
\* The queue begins as a list of one clear block.
LEMMA InitHolds ==
  Init => Kept
<1> SUFFICES ASSUME Init PROVE Kept OBVIOUS
<1>1. PICK at : at = [n \in Nat |-> 1] OBVIOUS
<1>2. 1 \in Block /\ at \in [Nat -> Block] /\ (\A n \in Nat : at[n] = 1) /\ 0 \in Nat
  <2>1. 1 \in Block BY Sizes, BoundAssumption DEF Block
  <2> QED BY <1>1, <2>1
<1>3. /\ Blk(0) = 0 /\ HeadOf(0) = 0 /\ Off(0) = FirstOffset /\ Start(0) = FirstOffset
      /\ FirstOffset \in Word /\ 0 \in Word
  <2>1. HeadOf(0) = 0 BY DEF HeadOf
  <2>2. Blk(0) = 0 BY <2>1, Heads
  <2>3. Off(0) = FirstOffset
    <3>1. (WordMod * 0 + FirstOffset) % WordMod = FirstOffset
      BY Sizes, StartAssumption, ModUnique
    <3> QED BY <3>1, Sizes DEF Off
  <2>4. BlockSize * 0 = 0 BY Sizes
  <2> QED BY <2>1, <2>2, <2>3, <2>4, Sizes, StartAssumption DEF Start, Word
<1>4. /\ Fresh \in [Index -> Flag] /\ \A i \in Index : Fresh[i] = "empty"
      /\ [i \in Index |-> NoValue] \in [Index -> Value \cup {NoValue}]
  BY DEF Fresh, Flag
<1>5. /\ \A b \in Block : next[b] = Null /\ offset[b] = FirstOffset /\ flags[b] = Fresh
      /\ \A b \in Block, i \in Index : stored[b][i] = NoValue
      /\ unlinked = <<>> /\ Len(unlinked) = 0 /\ Unlinked = {}
      /\ sent = 0 /\ taken = 0 /\ written = 0 /\ count = 0 /\ ppc = "idle" /\ cpc = "idle"
      /\ blocks = {1} /\ ~closed /\ ~closing /\ ~cons /\ call = "none"
      /\ write_offset = FirstOffset /\ read_offset = FirstOffset
      /\ write_block = 1 /\ head_block = 1 /\ tail_block = 1
  BY DEF Init, Unlinked
<1>6. TypeOK
  <2>1. unlinked \in Seq(Block) /\ Len(unlinked) <= GroupSize BY <1>5 DEF GroupSize
  <2>2. /\ next \in [Block -> Block \cup {Null}] /\ offset \in [Block -> Word]
        /\ flags \in [Block -> [Index -> Flag]]
        /\ stored \in [Block -> [Index -> Value \cup {NoValue}]]
    BY <1>3, <1>4 DEF Init
  <2>3. /\ write_offset \in Word /\ read_offset \in Word /\ write_closed_at \in Word
        /\ count \in 0 .. MaxBulk /\ written \in 0 .. MaxBulk
        /\ sent \in 0 .. MaxPost /\ taken \in 0 .. MaxPost
    BY <1>3, Sizes DEF Init
  <2>4. /\ closed \in BOOLEAN /\ closing \in BOOLEAN /\ cons \in BOOLEAN /\ elem \in BOOLEAN
        /\ blocks \subseteq Block
        /\ {write_block, pblock, walk, head_block, tail_block, rblock, oldHead, tailBlock}
              \subseteq Block
        /\ ppc = "idle" /\ cpc = "idle" /\ call = "none" /\ outcome = "none"
    BY <1>2 DEF Init
  <2> QED BY <2>1, <2>2, <2>3, <2>4 DEF TypeOK
<1>7. Linked(at, 0, 0)
  <2>1. \A i \in 0 .. 0 : i = 0 OBVIOUS
  <2> QED BY <1>2, <1>3, <1>5, <2>1 DEF Linked
<1>8. Moving(at, 0, 0) BY <1>3, <1>5 DEF Moving, Reclaiming
<1>9. Writer(at, 0) /\ Reader(at, 0, 0)
  <2>1. 0 - 0 = 0 /\ 0 <= 0 OBVIOUS
  <2>2. Writer(at, 0) BY <1>2, <1>3, <1>5, <2>1 DEF Writer, Writing, Ended
  <2>3. Reader(at, 0, 0) BY <1>2, <1>3, <1>5, <2>1 DEF Reader, AtElement
  <2> QED BY <2>2, <2>3
<1>10. Calls
  <2>1. 0 - 0 <= MaxWaiting /\ 0 <= 0 BY Sizes
  <2> QED BY <1>5, <2>1 DEF Calls, Writing
<1>11. Cells(at, 0, 0)
  <2>1. Mark = "empty" /\ Built = 0 BY <1>5 DEF Mark, Built, Ended
  <2>2. ASSUME NEW n \in Nat, Blk(n) \in 0 .. 0
        PROVE  FlagAt(at, n) = "empty" /\ ValueAt(at, n) = NoValue
    <3>1. Idx(n) \in Index /\ Blk(n) \in Nat BY Numbering
    <3> QED BY <1>2, <1>4, <1>5, <3>1 DEF FlagAt, ValueAt
  <2> QED BY <1>5, <2>1, <2>2 DEF Cells
<1>12. Clean /\ Rousing BY <1>5 DEF Clean, Rousing
<1> QED BY <1>2, <1>5, <1>6, <1>7, <1>8, <1>9, <1>10, <1>11, <1>12 DEF Kept, Going, Shape

\* What the destructor does to the elements, and whether they are among those
\* between read_offset and the cutoff.
LEMMA DestructKeeps ==
  ASSUME NEW at, NEW lo, NEW hi, Going(at, lo, hi), Destruct
  PROVE  (TypeOK /\ Destroyed)'
<1> DEFINE end == IF closed THEN write_closed_at ELSE write_offset
           all == ReachableFrom(head_block)
           Gets(b, i) == /\ b \in all /\ flags[b][i] = "data"
                         /\ Plus(offset[b], i) \in Leftover(end)
<1>1. /\ ppc = "idle" /\ cpc = "idle" /\ ppc' = "gone" /\ cpc' = "gone"
      /\ closed' = TRUE /\ write_closed_at' = end /\ blocks' = blocks \ all
      /\ stored' = [b \in Block |-> [i \in Index |-> IF Gets(b, i) THEN NoValue ELSE stored[b][i]]]
      /\ UNCHANGED <<next, offset, flags, write_offset, write_block, pushing, sent, reading,
                     reclaim, outcome, elem, can_suspend>>
  BY DEF Destruct
<1>2. end = Off(sent)
  <2>1. written = 0 BY <1>1, Parts DEF Calls, Writing
  <2>2. write_offset = Off(sent) BY <2>1, WritePlace
  <2>3. closed => write_closed_at = write_offset BY Parts DEF Calls
  <2> QED BY <2>2, <2>3
<1>3. all = blocks
  <2>1. Unlinked = {} /\ lo = HeadOf(taken)
    <3>1. unlinked = <<>> /\ lo = HeadOf(taken) BY <1>1, Parts DEF Moving, Reclaiming
    <3> QED BY <3>1 DEF Unlinked
  <2>2. head_block = at[lo] /\ lo \in lo .. hi BY <2>1, Parts DEF Reader
  <2>3. all = { at[k] : k \in lo .. hi } BY <2>2, Parts, Chain
  <2> QED BY <2>1, <2>3, Parts DEF Linked
<1> HIDE DEF end, all
<1>4. ASSUME NEW b \in Block, NEW i \in Index
      PROVE  Gets(b, i) \/ stored[b][i] = NoValue
  <2>1. CASE b \notin blocks BY <2>1, Parts DEF Clean
  <2>2. CASE b \in blocks
    <3>1. b \notin Unlinked
      <4>1. unlinked = <<>> BY <1>1, Parts DEF Moving, Reclaiming
      <4> QED BY <4>1 DEF Unlinked
    <3>2. PICK k \in lo .. hi : b = at[k] BY <2>2, <3>1, Parts DEF Linked
    <3>3. k \in Nat /\ offset[b] = Start(k) BY <3>2, Parts DEF Linked
    <3>4. PICK n \in Nat : Blk(n) = k /\ Idx(n) = i BY <3>3, HasNumber
    <3>5. FlagAt(at, n) = flags[b][i] /\ ValueAt(at, n) = stored[b][i]
      BY <3>2, <3>4 DEF FlagAt, ValueAt
    <3>6. SUFFICES ASSUME stored[b][i] # NoValue
                   PROVE  Gets(b, i)
      OBVIOUS
    <3>7. taken <= n /\ n < sent /\ flags[b][i] = "data"
      <4>1. Built = sent /\ cpc # "holding" BY <1>1 DEF Built
      <4>2. Cells(at, lo, hi) BY Parts
      <4>3. ValueAt(at, n) = IF taken <= n /\ n < sent THEN n + 1 ELSE NoValue
        BY <3>2, <3>4, <4>1, <4>2 DEF Cells
      <4>4. taken <= n /\ n < sent BY <3>5, <3>6, <4>3
      <4> QED BY <3>2, <3>4, <3>5, <4>1, <4>2, <4>4 DEF Cells
    <3>8. Plus(offset[b], i) = Off(n)
      <4>1. BlockSize * k \in Nat /\ i \in Nat /\ n = BlockSize * k + i
        BY <3>3, <3>4, Numbering, Sizes
      <4> QED BY <3>3, <4>1, Offsets DEF Start
    <3>9. Off(n) \in Leftover(end)
      <4> DEFINE d == n - taken
      <4>1. /\ taken \in Nat /\ sent \in Nat /\ sent - taken <= MaxWaiting /\ d \in Nat
            /\ d < MaxWaiting /\ taken + d = n
        BY <3>7, Places, Sizes
      <4>2. read_offset = Off(taken) BY Parts DEF Reader
      <4>3. \A j \in Nat : Plus(read_offset, j) = Off(taken + j) BY <4>1, <4>2, Offsets
      <4>4. ASSUME NEW j \in 0 .. d
            PROVE  CircularLess(Plus(read_offset, j), end)
        <5> DEFINE m == taken + j
        <5>1. m \in Nat /\ m < sent /\ sent - m <= MaxWaiting /\ j \in Nat BY <3>7, <4>1, Sizes
        <5>2. Plus(read_offset, j) = Off(m) BY <4>3, <5>1
        <5>3. sent - m < WordMod /\ 2 * (sent - m) < WordMod /\ sent - m > 0
          BY <4>1, <5>1, Sizes
        <5> HIDE DEF m
        <5>4. (((FirstOffset + m) % WordMod) - ((FirstOffset + sent) % WordMod)) % WordMod
                 = WordMod - (sent - m)
          <6> DEFINE x == FirstOffset + m
                     y == FirstOffset + sent
          <6>1. /\ x \in Nat /\ y \in Nat /\ x < y /\ y - x = sent - m /\ y - x < WordMod
                /\ WordMod \in Nat /\ WordMod > 0
            BY <4>1, <5>1, <5>3, Sizes
          <6> HIDE DEF x, y
          <6>2. ((x % WordMod) - (y % WordMod)) % WordMod = WordMod - (y - x) BY <6>1, ModBehind
          <6> QED BY <6>1, <6>2 DEF x, y
        <5>5. (Off(m) - Off(sent)) % WordMod = WordMod - (sent - m) BY <5>4 DEF Off
        <5>6. 2 * (WordMod - (sent - m)) > WordMod BY <4>1, <5>1, <5>3, Sizes
        <5> QED BY <1>2, <5>2, <5>5, <5>6 DEF CircularLess
      <4>5. d \in Word BY <4>1, Sizes DEF Word
      <4>6. Plus(read_offset, d) = Off(n) BY <4>1, <4>3
      <4> HIDE DEF d
      <4>7. Plus(read_offset, d) \in Leftover(end) BY <4>4, <4>5 DEF Leftover
      <4> QED BY <4>6, <4>7
    <3> QED BY <1>3, <2>2, <3>7, <3>8, <3>9
  <2> QED BY <2>1, <2>2
<1>5. \A b \in Block, i \in Index : stored'[b][i] = NoValue BY <1>1, <1>4
<1>6. (stored \in [Block -> [Index -> Value \cup {NoValue}]])'
  <2>1. \A b \in Block, i \in Index :
           (IF Gets(b, i) THEN NoValue ELSE stored[b][i]) \in Value \cup {NoValue}
    BY Parts DEF TypeOK
  <2> HIDE DEF Gets
  <2> QED BY <1>1, <2>1
<1>7. blocks' = {} BY <1>1, <1>3
<1>8. end \in Word BY Parts DEF end, TypeOK
<1>9. TypeOK'
  <2>1. closed' \in BOOLEAN /\ write_closed_at' \in Word /\ blocks' \subseteq Block
    BY <1>1, <1>7, <1>8
  <2> QED BY <1>1, <1>6, <2>1, Parts DEF TypeOK, pushing, reading, reclaim, Function
<1>10. ~cons' BY <1>1, Parts DEF Rousing, Writing, pushing
<1> QED BY <1>1, <1>5, <1>7, <1>9, <1>10 DEF Destroyed

\* The steps
\* While the queue lives, the invariant is one about its numbering.
LEMMA AliveIsKept ==
  /\ Kept => IInv
  /\ IInv /\ ppc # "gone" => Kept
  BY DEF Kept, Going, IInv, Running

\* A step that changes nothing.
LEMMA NothingKeeps ==
  ASSUME NEW at, NEW lo, NEW hi, Going(at, lo, hi), UNCHANGED vars
  PROVE  Kept'
<1>1. /\ UNCHANGED <<list, elements, producer, reading, reclaim, cpc, outcome, elem, can_suspend>>
      /\ UNCHANGED <<taken, sent, closed, closing, cons, ppc, blocks, unlinked>>
  BY DEF vars, list, producer, pushing, cutoff, consumer, reading, reclaim
<1>2. Ended' = Ended /\ Built' = Built /\ Mark' = Mark BY <1>1 DEF Ended, Built, Mark
<1>3. Linked(at, lo, hi)' /\ Moving(at, lo, hi)' /\ Writer(at, hi)' /\ Reader(at, lo, hi)'
      /\ Calls' /\ Clean'
  BY <1>1, Parts, LinkedStays, MovingStays, WriterStays, ReaderStays, CallsStay, CleanStays
<1>4. Cells(at, lo, hi)' BY <1>1, <1>2, Parts, CellsStay
<1>5. Rousing' BY <1>1, <1>2, Parts DEF Rousing
<1>6. TypeOK'
  BY <1>1, Parts DEF TypeOK, list, elements, producer, pushing, cutoff, reading, reclaim, Function
<1> QED BY <1>1, <1>3, <1>4, <1>5, <1>6, Parts DEF Kept, Going, Shape

\* The queue stays destroyed.
LEMMA GoneStays ==
  ASSUME TypeOK, Destroyed, UNCHANGED vars
  PROVE  (TypeOK /\ Destroyed)'
<1>1. UNCHANGED <<list, elements, producer, reading, reclaim, cpc, outcome, elem, can_suspend,
                  ppc, stored, blocks>>
  BY DEF vars, list, elements, producer, consumer
<1>2. TypeOK'
  BY <1>1 DEF TypeOK, list, elements, producer, pushing, cutoff, reading, reclaim, Function
<1> QED BY <1>1, <1>2 DEF Destroyed, producer, pushing

\* Only the destructor ends the queue; everything else keeps its shape.
LEMMA StepKeeps ==
  IInv /\ [Next]_vars => IInv'
<1> SUFFICES ASSUME IInv, [Next]_vars
             PROVE  IInv'
  OBVIOUS
<1>1. CASE ppc = "gone"
  <2>1. TypeOK /\ Destroyed BY <1>1 DEF IInv
  <2>2. cpc = "gone" BY <2>1 DEF Destroyed
  <2>3. UNCHANGED vars
    BY <1>1, <2>2 DEF Next, Post, Close, ProducerStep, SeekWrite, Reserve, Emplace, Publish, Cross,
       PlaceSentinel, ResumeConsumer, Call, ConsumerStep, SeekRead, Poll, Suspend, Restore,
       PullResume, FinishRead, ReclaimStep, Collect, ResetValues, FindTail, Unlink, Relink,
       Destruct, Gone
  <2>4. (TypeOK /\ Destroyed)' BY <2>1, <2>3, GoneStays
  <2> QED BY <2>4 DEF IInv, Destroyed
<1>2. CASE ppc # "gone"
  <2>1. PICK at, lo, hi : Going(at, lo, hi) BY <1>2, AliveIsKept DEF Kept
  <2>2. Kept' => IInv' BY DEF Kept, Going, IInv, Running
  <2>3. CASE \E n \in 1 .. MaxBulk : Post(n) BY <2>1, <2>2, <2>3, PostKeeps
  <2>4. CASE Close BY <2>1, <2>2, <2>4, CloseKeeps
  <2>5. CASE ProducerStep
    BY <2>1, <2>2, <2>5, SeekWriteKeeps, ReserveKeeps, EmplaceKeeps, PublishKeeps, CrossKeeps,
       PlaceSentinelKeeps, ResumeConsumerKeeps DEF ProducerStep
  <2>6. CASE \E f \in Function : Call(f) BY <2>1, <2>2, <2>6, CallKeeps
  <2>7. CASE ConsumerStep
    <3>1. CASE ReclaimStep
      BY <2>1, <2>2, <3>1, CollectKeeps, ResetValuesKeeps, FindTailKeeps, UnlinkKeeps, RelinkKeeps
         DEF ReclaimStep
    <3>2. CASE ~ReclaimStep
      BY <2>1, <2>2, <2>7, <3>2, SeekReadKeeps, PollKeeps, SuspendKeeps, RestoreKeeps,
         PullResumeKeeps, FinishReadKeeps DEF ConsumerStep
    <3> QED BY <3>1, <3>2
  <2>8. CASE Destruct BY <2>1, <2>8, DestructKeeps DEF IInv, Destroyed
  <2>9. CASE UNCHANGED vars BY <2>1, <2>2, <2>9, NothingKeeps
  <2> QED BY <1>2, <2>3, <2>4, <2>5, <2>6, <2>7, <2>8, <2>9 DEF Next, Gone
<1> QED BY <1>1, <1>2

\* The inductive invariant holds of the list of blocks.
THEOREM Invariance == Spec => []IInv
<1>1. Init => IInv BY InitHolds, AliveIsKept
<1>2. IInv /\ [Next]_vars => IInv' BY StepKeeps
<1> QED BY <1>1, <1>2, PTL DEF Spec

\* What it implies
\* What is reached from the head.
LEMMA FromHead ==
  ASSUME NEW at, NEW lo, NEW hi, Going(at, lo, hi)
  PROVE  /\ ReachableFrom(head_block) = { at[k] : k \in HeadOf(taken) .. hi }
         /\ HeadOf(taken) \in lo .. hi
<1>1. HeadOf(taken) \in lo .. hi /\ head_block = at[HeadOf(taken)] BY Places, Parts DEF Reader
<1> QED BY <1>1, Parts, Chain

\* The list holds the blocks in the order of their offsets, none is lost while
\* both sides append, and the destructor leaves neither blocks nor values.
THEOREM Storage == Spec => []StorageIsSound
<1>1. IInv => StorageIsSound
  <2> SUFFICES ASSUME IInv PROVE StorageIsSound OBVIOUS
  <2>1. CASE ppc = "gone"
    BY <2>1 DEF IInv, Destroyed, StorageIsSound, ListInOrder, NoBlockLost, DestructorLeavesNothing
  <2>2. CASE ppc # "gone"
    <3>1. PICK at, lo, hi : Going(at, lo, hi) BY <2>2, AliveIsKept DEF Kept
    <3> DEFINE head == HeadOf(taken)
    <3>2. /\ ReachableFrom(head_block) = { at[k] : k \in head .. hi }
          /\ head \in lo .. hi /\ lo \in Nat /\ hi \in Nat /\ head \in Nat
      BY <3>1, FromHead, Places
    <3> HIDE DEF head
    <3>3. /\ \A i \in lo .. hi : /\ at[i] \in blocks /\ at[i] \in Block /\ at[i] \notin Unlinked
                                 /\ offset[at[i]] = Start(i)
                                 /\ next[at[i]] = IF i = hi THEN Null ELSE at[i + 1]
          /\ \A b \in blocks : b \in Unlinked \/ \E i \in lo .. hi : b = at[i]
          /\ Unlinked \subseteq blocks
      BY <3>1, Parts DEF Linked, Moving
    <3>4. ListInOrder
      <4>1. write_block \in ReachableFrom(head_block)
        <5>1. /\ head <= HeadOf(sent) /\ HeadOf(sent) <= hi /\ HeadOf(sent) \in Nat
              /\ Blk(sent) \in Nat /\ HeadOf(sent) <= Blk(sent)
          BY <3>1, Places DEF head
        <5>2. write_block = at[HeadOf(sent)] \/ (write_block = at[Blk(sent)] /\ Blk(sent) <= hi)
          BY <3>1, Parts DEF Writer
        <5> QED BY <3>2, <5>1, <5>2
      <4>2. ASSUME NEW b \in ReachableFrom(head_block), next[b] # Null
            PROVE  offset[next[b]] = Plus(offset[b], BlockSize)
        <5>1. PICK k \in head .. hi : b = at[k] BY <3>2
        <5>2. k \in lo .. hi /\ k \in Nat BY <3>2
        <5>3. k # hi /\ next[b] = at[k + 1] BY <3>3, <4>2, <5>1, <5>2
        <5>4. k + 1 \in lo .. hi BY <5>2, <5>3, <3>2
        <5> QED BY <3>3, <5>1, <5>2, <5>3, <5>4, NextStart
      <4> QED BY <4>1, <4>2 DEF ListInOrder
    <3>5. NoBlockLost
      <4> DEFINE rest == IF cpc = "collect" THEN ReachableFrom(oldHead) ELSE {}
      <4>1. lo \in lo .. hi /\ ReachableFrom(at[lo]) = { at[k] : k \in lo .. hi }
        <5>1. lo \in lo .. hi BY <3>1, <3>2, Parts
        <5> QED BY <3>1, <5>1, Parts, Chain
      <4>2. rest \subseteq blocks
        <5>1. cpc = "collect" => oldHead = at[lo] BY <3>1, Parts DEF Moving, Reclaiming
        <5> QED BY <3>3, <4>1, <5>1
      <4>3. ReachableFrom(head_block) \cup Unlinked \cup rest \subseteq blocks
        BY <3>2, <3>3, <4>2
      <4>4. blocks \subseteq ReachableFrom(head_block) \cup Unlinked \cup rest
        <5>1. CASE cpc = "collect"
          <6>1. rest = { at[k] : k \in lo .. hi }
            <7>1. oldHead = at[lo] BY <3>1, <5>1, Parts DEF Moving, Reclaiming
            <7> QED BY <4>1, <5>1, <7>1
          <6> QED BY <3>3, <6>1
        <5>2. CASE cpc # "collect"
          <6>1. lo = head BY <3>1, <5>2, Parts DEF Moving, head
          <6> QED BY <3>2, <3>3, <6>1
        <5> QED BY <5>1, <5>2
      <4>5. Unlinked \cap ReachableFrom(head_block) = {} BY <3>2, <3>3
      <4> QED BY <2>2, <4>3, <4>4, <4>5 DEF NoBlockLost
    <3>6. TypeOK /\ DestructorLeavesNothing BY <2>2, <3>1, Parts DEF DestructorLeavesNothing
    <3> QED BY <3>4, <3>5, <3>6 DEF StorageIsSound
  <2> QED BY <2>1, <2>2
<1> QED BY <1>1, Invariance, PTL

\* No block that the consumer takes off the list is one that the producer can
\* still come to, from write_block or in the post that is under way.
THEOREM Reclamation == Spec => []ReclaimedIsUnreached
<1>1. IInv => ReclaimedIsUnreached
  <2> SUFFICES ASSUME IInv, cpc \in {"reset", "find_tail", "unlink", "relink"}
               PROVE  /\ Unlinked \cap ReachableFrom(write_block) = {}
                      /\ ppc \notin {"idle", "wake", "gone"} => pblock \notin Unlinked
    BY DEF ReclaimedIsUnreached
  <2>1. PICK at, lo, hi : Going(at, lo, hi)
    <3>1. ppc # "gone" BY DEF IInv, Destroyed
    <3> QED BY <3>1, AliveIsKept DEF Kept
  <2>2. /\ \A p \in Nat : HeadOf(sent) <= p /\ p <= hi => p \in lo .. hi
        /\ HeadOf(sent) \in Nat /\ Blk(sent) \in Nat /\ HeadOf(sent) <= Blk(sent)
        /\ HeadOf(sent) <= hi
    BY <2>1, Places
  <2>3. \A p \in lo .. hi : at[p] \notin Unlinked BY <2>1, Parts DEF Linked
  <2>4. Unlinked \cap ReachableFrom(write_block) = {}
    <3>1. \E p \in lo .. hi : write_block = at[p]
      <4>1. write_block = at[HeadOf(sent)] \/ (write_block = at[Blk(sent)] /\ Blk(sent) <= hi)
        BY <2>1, Parts DEF Writer
      <4> QED BY <2>2, <4>1
    <3>2. PICK p \in lo .. hi : write_block = at[p] BY <3>1
    <3>3. ReachableFrom(write_block) = { at[k] : k \in p .. hi } BY <2>1, <3>2, Parts, Chain
    <3>4. \A k \in p .. hi : k \in lo .. hi BY <2>1, <3>2, Parts
    <3> QED BY <2>3, <3>3, <3>4
  <2>5. ASSUME ppc \notin {"idle", "wake", "gone"}
        PROVE  pblock \notin Unlinked
    <3>1. Writer(at, hi) /\ ppc \in {"seek", "reserve", "emplace", "publish", "cross", "sentinel"}
      BY <2>1, <2>5, Parts DEF TypeOK
    <3>2. CASE ppc = "seek"
      <4>1. PICK p \in HeadOf(sent) .. Blk(sent) : p <= hi /\ pblock = at[p]
        BY <3>1, <3>2 DEF Writer
      <4> QED BY <2>2, <2>3, <4>1
    <3>3. CASE ppc \in {"reserve", "emplace", "publish", "sentinel"}
      BY <2>2, <2>3, <3>1, <3>3 DEF Writer
    <3>4. CASE ppc = "cross" BY <2>2, <2>3, <3>1, <3>4 DEF Writer
    <3> QED BY <3>1, <3>2, <3>3, <3>4
  <2> QED BY <2>4, <2>5
<1> QED BY <1>1, Invariance, PTL

\* A value or the sentinel goes into the block of its offset, to an element
\* that is clear, though a consumer may be suspended there; and post_bulk()
\* finds the next block where it goes on.
THEOREM PostSafety == Spec => []PostOverwritesNothing
<1>1. IInv => PostOverwritesNothing
  <2> SUFFICES ASSUME IInv, ppc \in {"emplace", "publish", "sentinel", "cross"}
               PROVE  PostOverwritesNothing
    BY DEF PostOverwritesNothing
  <2>1. PICK at, lo, hi : Going(at, lo, hi)
    <3>1. ppc # "gone" OBVIOUS
    <3> QED BY <3>1, AliveIsKept DEF Kept
  <2>2. CASE ppc \in {"emplace", "publish", "sentinel"}
    <3>1. pblock = at[Blk(sent)] /\ Blk(sent) \in lo .. hi /\ sent \in Nat
      <4>1. pblock = at[Blk(sent)] /\ Blk(sent) <= hi BY <2>1, <2>2, Parts DEF Writer
      <4> QED BY <2>1, <4>1, Places
    <3>2. offset[pblock] = StartOf(WriteAt)
      <4>1. offset[pblock] = Start(Blk(sent)) BY <2>1, <3>1, Parts DEF Linked
      <4> QED BY <2>1, <3>1, <4>1, WritePlace, Offsets
    <3>3. IndexOf(WriteAt) = Idx(sent) BY <2>1, WritePlace
    <3>4. flags[pblock][IndexOf(WriteAt)] \in {"empty", "cons"}
      <4>1. ~Ended BY <2>1, <2>2, Parts DEF Calls, Ended, Writing
      <4>2. FlagAt(at, sent) = Mark BY <2>1, <3>1, Parts DEF Cells
      <4>3. Mark \in {"empty", "cons"} BY <4>1, Zenon DEF Mark
      <4> QED BY <3>1, <3>3, <4>2, <4>3 DEF FlagAt
    <3>5. ppc # "publish" => stored[pblock][IndexOf(WriteAt)] = NoValue
      <4>1. ppc # "publish" => ~(sent < Built) BY <3>1 DEF Built
      <4>2. ppc # "publish" => ValueAt(at, sent) = NoValue BY <2>1, <3>1, <4>1, Parts DEF Cells
      <4> QED BY <3>1, <3>3, <4>2 DEF ValueAt
    <3> QED BY <2>2, <3>2, <3>4, <3>5 DEF PostOverwritesNothing
  <2>3. CASE ppc = "cross"
    <3>1. /\ pblock = at[HeadOf(sent)] /\ Idx(sent) = 0 /\ sent > 0 /\ count > written
          /\ Blk(sent - written + count - 1) <= hi
      BY <2>1, <2>3, Parts DEF Writer, Calls, Writing
    <3>2. /\ sent \in Nat /\ written \in Nat /\ count \in Nat /\ written <= sent
          /\ HeadOf(sent) \in lo .. hi /\ HeadOf(sent) \in Nat
      BY <2>1, Places
    <3>3. sent - written + count - 1 \in Nat /\ sent <= sent - written + count - 1 BY <3>1, <3>2
    <3>4. HeadOf(sent) + 1 <= hi
      <4>1. Blk(sent) = HeadOf(sent) + 1 BY <3>1, <3>2, Heads
      <4>2. Blk(sent) <= Blk(sent - written + count - 1) BY <3>2, <3>3, InOrder
      <4>3. Blk(sent - written + count - 1) \in Nat BY <3>3, Numbering
      <4> QED BY <2>1, <3>1, <3>2, <4>1, <4>2, <4>3, Parts
    <3>5. next[pblock] = at[HeadOf(sent) + 1] /\ at[HeadOf(sent) + 1] \in Block
      BY <2>1, <3>1, <3>2, <3>4, Parts DEF Linked
    <3>6. Null \notin Block BY DEF Null, Block
    <3> QED BY <2>3, <3>5, <3>6 DEF PostOverwritesNothing
  <2> QED BY <2>2, <2>3
<1> QED BY <1>1, Invariance, PTL

\* What the consumer holds, and what the flag it polls tells it.
LEMMA DeliversInOrder ==
  ASSUME IInv
  PROVE  DeliversRight
<1> SUFFICES ASSUME cpc \in {"holding", "seek"}
             PROVE  DeliversRight
  BY DEF DeliversRight, FifoDelivery, StatusIsRight
<1>1. PICK at, lo, hi : Going(at, lo, hi)
  <2>1. ppc # "gone" BY DEF IInv, Destroyed
  <2> QED BY <2>1, AliveIsKept DEF Kept
<1>2. /\ sent \in Nat /\ taken \in Nat /\ taken <= sent /\ lo \in Nat /\ hi \in Nat
      /\ Blk(taken) \in Nat /\ HeadOf(taken) <= Blk(taken) /\ HeadOf(taken) \in Nat
  BY <1>1, Places
<1>3. FifoDelivery
  <2> SUFFICES ASSUME cpc = "holding"
               PROVE  taken < sent /\ stored[rblock][IndexOf(read_offset)] = taken + 1
    BY DEF FifoDelivery
  <2>1. taken < sent BY <1>1, Parts DEF Rousing
  <2>2. rblock = at[Blk(taken)] /\ Blk(taken) <= hi BY <1>1, Parts DEF Reader, AtElement
  <2>3. Blk(taken) \in lo .. hi /\ IndexOf(read_offset) = Idx(taken) BY <1>1, <2>2, ReadPlace
  <2>4. taken < Built BY <1>2, <2>1 DEF Built
  <2>5. ValueAt(at, taken) = taken + 1 BY <1>1, <1>2, <2>3, <2>4, Parts DEF Cells
  <2> QED BY <2>1, <2>2, <2>3, <2>5 DEF ValueAt
<1>4. StatusIsRight
  <2> SUFFICES ASSUME cpc = "seek", offset[rblock] = StartOf(read_offset)
               PROVE  /\ ReadFlag = "data" <=> taken < sent
                      /\ ReadFlag = "closed" <=> (closed /\ ~closing /\ taken = sent)
    BY DEF StatusIsRight
  <2>1. PICK r \in HeadOf(taken) .. Blk(taken) : r <= hi /\ rblock = at[r]
    BY <1>1, Parts DEF Reader
  <2>2. rblock = at[Blk(taken)] /\ Blk(taken) <= hi BY <1>1, <2>1, FoundBlock
  <2>3. /\ taken < sent => ReadFlag = "data"
        /\ taken = sent => ReadFlag = Mark
    BY <1>1, <2>2, ReadPlace
  <2>4. Mark = IF Ended THEN "closed" ELSE "empty" BY Zenon DEF Mark
  <2>5. Ended <=> (closed /\ ~closing) BY DEF Ended
  <2> QED BY <1>2, <2>3, <2>4, <2>5
<1> QED BY <1>3, <1>4 DEF DeliversRight

\* The consumer is handed the values in the order posted, each once, and the
\* flag it polls tells it whether there is one, or will be one.
THEOREM Delivery == Spec => []DeliversRight
<1>1. IInv => DeliversRight BY DeliversInOrder
<1> QED BY <1>1, Invariance, PTL

\* A suspended consumer is in the next element or in the producer's hands,
\* never in both and never in neither, and what it waits for has not come.
THEOREM Wakeup == Spec => []NoLostWakeup
<1>1. IInv => NoLostWakeup
  <2> SUFFICES ASSUME IInv PROVE NoLostWakeup OBVIOUS
  <2>1. CASE ppc = "gone" BY <2>1 DEF IInv, Destroyed, NoLostWakeup
  <2>2. CASE ppc # "gone"
    <3>1. PICK at, lo, hi : Going(at, lo, hi) BY <2>2, AliveIsKept DEF Kept
    <3>2. cons => cpc = "parked" /\ ppc # "idle" BY <3>1, Parts DEF Rousing, Writing
    <3>3. cpc = "parked" /\ ~cons => taken = sent /\ ~Ended BY <3>1, Parts DEF Rousing
    <3>4. ASSUME cpc = "parked"
          PROVE  cons # (ReadFlag = "cons")
      <4>1. rblock = at[Blk(taken)] /\ Blk(taken) <= hi
        BY <3>1, <3>4, Parts DEF Reader, AtElement
      <4>2. /\ taken < sent => ReadFlag = "data"
            /\ taken = sent => ReadFlag = Mark
        BY <3>1, <3>4, <4>1, ReadPlace
      <4>3. CASE cons
        <5>1. taken < sent \/ (Ended /\ taken = sent) BY <3>1, <4>3, Parts DEF Rousing
        <5>2. Ended => Mark = "closed" BY <3>4, Zenon DEF Mark
        <5>3. ReadFlag # "cons" BY <4>2, <5>1, <5>2
        <5> QED BY <4>3, <5>3, Zenon
      <4>4. CASE ~cons
        <5>1. taken = sent /\ ~Ended BY <3>3, <3>4, <4>4
        <5>2. Mark = "cons" BY <3>4, <4>4, <5>1, Zenon DEF Mark
        <5>3. ReadFlag = "cons" BY <4>2, <5>1, <5>2
        <5>4. cons \in BOOLEAN BY <3>1, Parts DEF TypeOK
        <5> QED BY <4>4, <5>3, <5>4, Zenon
      <4> QED BY <4>3, <4>4
    <3>5. ~Ended => (closed => closing) BY DEF Ended
    <3> QED BY <3>2, <3>3, <3>4, <3>5 DEF NoLostWakeup
  <2> QED BY <2>1, <2>2
<1> QED BY <1>1, Invariance, PTL

\* The list of blocks implements the abstract queue, for every size of
\* blocks, words and bulks.  A search by offset from the head ends at the
\* block with the number of the value, so by the invariant what is on the
\* list is a run of consecutive values, wherever the blocks came from.

\* What is in the queue
\* find_block() from the head ends at the block of the value looked for: if
\* another block has its offset, it comes later.
LEMMA BlockOfValue ==
  ASSUME NEW at, NEW lo, NEW hi, Going(at, lo, hi), NEW n \in Nat, taken <= n, n < sent
  PROVE  BlockAt(Off(n)) = at[Blk(n)] /\ Blk(n) \in lo .. hi
<1> DEFINE list0 == ReachableFrom(head_block)
           all   == { b \in list0 : offset[b] = Start(Blk(n)) }
           First(b) == \A c \in all \ {b} : c \in ReachableFrom(b)
<1>1. /\ at \in [Nat -> Block] /\ lo \in Nat /\ hi \in Nat /\ taken \in Nat /\ sent \in Nat
      /\ HeadOf(taken) \in Nat /\ lo <= HeadOf(taken) /\ HeadOf(taken) <= Blk(taken)
      /\ Blk(taken) \in Nat /\ sent - taken <= MaxWaiting
  BY Places
<1>2. Blk(n) \in Nat /\ Blk(n) \in HeadOf(taken) .. hi /\ Blk(n) \in lo .. hi
  <2>1. Blk(n) \in Nat /\ Blk(taken) <= Blk(n) BY <1>1, Numbering, InOrder
  <2>2. ~(Blk(n) > hi) BY <1>1, Places
  <2> QED BY <1>1, <2>1, <2>2
<1>3. list0 = { at[k] : k \in HeadOf(taken) .. hi } BY FromHead
<1>4. ASSUME NEW k \in HeadOf(taken) .. hi
      PROVE  /\ k \in lo .. hi /\ k \in Nat /\ offset[at[k]] = Start(k)
             /\ ReachableFrom(at[k]) = { at[j] : j \in k .. hi }
  <2>1. k \in lo .. hi /\ k \in Nat BY <1>1
  <2>2. Linked(at, lo, hi) BY Parts
  <2>3. offset[at[k]] = Start(k) BY <2>1, <2>2 DEF Linked
  <2> QED BY <1>1, <2>1, <2>2, <2>3, Chain
<1>5. ASSUME NEW k \in HeadOf(taken) .. Blk(n), Start(k) = Start(Blk(n))
      PROVE  k = Blk(n)
  <2>1. CASE taken = 0
    <3>1. HeadOf(taken) = Blk(0) BY <1>1, <2>1, Heads
    <3>2. 0 \in Nat /\ 0 <= n /\ n - 0 <= MaxWaiting BY <1>1, <2>1, Sizes
    <3> QED BY <1>5, <3>1, <3>2, SameStart
  <2>2. CASE taken # 0
    <3>1. taken - 1 \in Nat /\ taken - 1 <= n /\ n - (taken - 1) <= MaxWaiting
          /\ HeadOf(taken) = Blk(taken - 1)
      BY <1>1, <2>2, Sizes DEF HeadOf
    <3> QED BY <1>5, <3>1, SameStart
  <2> QED BY <2>1, <2>2
<1> HIDE DEF list0
<1>6. at[Blk(n)] \in all BY <1>2, <1>3, <1>4
<1>7. First(at[Blk(n)])
  <2> SUFFICES ASSUME NEW c \in all, c # at[Blk(n)]
               PROVE  c \in ReachableFrom(at[Blk(n)])
    OBVIOUS
  <2>1. PICK k \in HeadOf(taken) .. hi : c = at[k] BY <1>3
  <2>2. Start(k) = Start(Blk(n)) /\ k \in Nat BY <1>4, <2>1
  <2>3. ~(k \in HeadOf(taken) .. Blk(n)) BY <1>5, <2>1, <2>2
  <2>4. k \in Blk(n) .. hi BY <1>1, <1>2, <2>1, <2>2, <2>3
  <2> QED BY <1>2, <1>4, <2>1, <2>4
<1>8. ASSUME NEW b \in all, First(b)
      PROVE  b = at[Blk(n)]
  <2>1. PICK k \in HeadOf(taken) .. hi : b = at[k] BY <1>3
  <2>2. Start(k) = Start(Blk(n)) /\ k \in Nat BY <1>4, <2>1
  <2>3. SUFFICES ASSUME b # at[Blk(n)]
                 PROVE  FALSE
    OBVIOUS
  <2>4. at[Blk(n)] \in ReachableFrom(at[k]) BY <1>6, <1>8, <2>1, <2>3
  <2>5. PICK j \in k .. hi : at[Blk(n)] = at[j] BY <1>4, <2>1, <2>4
  <2>6. j \in lo .. hi BY <1>1, <1>4, <2>1, <2>5
  <2>7. Blk(n) = j BY <1>2, <2>5, <2>6, Parts DEF Linked
  <2>8. k \in HeadOf(taken) .. Blk(n) BY <1>2, <2>1, <2>2, <2>5, <2>7
  <2> QED BY <1>5, <2>1, <2>2, <2>3, <2>8
<1>9. BlockAt(Off(n)) = CHOOSE b \in all : First(b)
  <2>1. StartOf(Off(n)) = Start(Blk(n)) BY Offsets
  <2> QED BY <2>1 DEF BlockAt, list0
<1> HIDE DEF all, First
<1>10. BlockAt(Off(n)) = at[Blk(n)] BY <1>6, <1>7, <1>8, <1>9
<1> QED BY <1>2, <1>10

\* The values from the next one on are found from read_offset on.
LEMMA StoredInOrder ==
  ASSUME NEW at, NEW lo, NEW hi, Going(at, lo, hi), NEW k \in Nat, taken + k < sent
  PROVE  StoredAt(k) = taken + k + 1
<1> DEFINE n == taken + k
<1>1. taken \in Nat /\ sent \in Nat /\ n \in Nat /\ taken <= n /\ n < sent BY Places
<1>2. Plus(read_offset, k) = Off(n) BY <1>1, Parts, Offsets DEF Reader
<1> HIDE DEF n
<1>3. BlockAt(Off(n)) = at[Blk(n)] /\ Blk(n) \in lo .. hi BY <1>1, BlockOfValue
<1>4. IndexOf(Off(n)) = Idx(n) BY <1>1, Offsets
<1>5. StoredAt(k) = ValueAt(at, n) BY <1>2, <1>3, <1>4 DEF StoredAt, ValueAt
<1>6. n < Built BY <1>1 DEF Built
<1>7. ValueAt(at, n) = n + 1 BY <1>1, <1>3, <1>6, Parts DEF Cells
<1> QED BY <1>5, <1>7 DEF n

\* What the consumer was told
\* After CLOSED nothing is on the list and nothing will be.
ToldRight == ppc # "gone" /\ Told => Ended /\ taken = sent

\* CLOSED is said on the sentinel, or with an element that close() took away.
LEMMA ToldStays ==
  ASSUME IInv, ToldRight, [Next]_vars
  PROVE  ToldRight'
<1> SUFFICES ASSUME ppc' # "gone", Told'
             PROVE  (Ended /\ taken = sent)'
  BY DEF ToldRight
<1>1. ppc # "gone"
  BY DEF Next, Post, Close, ProducerStep, SeekWrite, Reserve, Emplace, Publish, Cross,
     PlaceSentinel, ResumeConsumer, Call, ConsumerStep, SeekRead, Poll, Suspend, Restore,
     PullResume, FinishRead, ReclaimStep, Collect, ResetValues, FindTail, Unlink, Relink,
     Destruct, Gone, vars, producer
<1>2. PICK at, lo, hi : Going(at, lo, hi) BY <1>1, AliveIsKept DEF Kept
<1>3. Calls /\ Rousing /\ DeliversRight BY <1>2, Parts, DeliversInOrder
<1>4. ASSUME UNCHANGED <<closed, closing, taken, sent>>, Ended /\ taken = sent
      PROVE  (Ended /\ taken = sent)'
  BY <1>4 DEF Ended
<1>5. Told => Ended /\ taken = sent BY <1>1 DEF ToldRight
<1>6. CASE UNCHANGED <<closed, closing, taken, sent, outcome>> BY <1>4, <1>5, <1>6 DEF Told
<1>7. CASE UNCHANGED vars BY <1>6, <1>7 DEF vars, producer, pushing, cutoff, consumer, reading
<1>8. CASE \E n \in 1 .. MaxBulk : Post(n) BY <1>6, <1>8 DEF Post, cutoff, consumer, reading
<1>9. CASE Close BY <1>5, <1>9 DEF Close, Ended, consumer, Told
<1>10. CASE ProducerStep
  <2>1. CASE SeekWrite \/ Reserve \/ Emplace \/ Cross
    BY <1>6, <2>1 DEF SeekWrite, Reserve, Emplace, Cross, pushing, cutoff, consumer, reading
  <2>2. CASE Publish
    <3>1. ppc = "publish" /\ Told BY <2>2 DEF Publish, consumer, Told
    <3>2. ~closed BY <1>3, <3>1 DEF Calls, Writing
    <3> QED BY <1>5, <3>1, <3>2 DEF Ended
  <2>3. CASE PlaceSentinel
    <3>1. ppc = "sentinel" /\ Told BY <2>3 DEF PlaceSentinel, consumer, Told
    <3>2. closing BY <1>3, <3>1 DEF Calls
    <3> QED BY <1>5, <3>1, <3>2 DEF Ended
  <2>4. CASE ResumeConsumer BY <1>6, <2>4 DEF ResumeConsumer, cutoff, reading
  <2> QED BY <1>10, <2>1, <2>2, <2>3, <2>4 DEF ProducerStep
<1>11. CASE \E f \in Function : Call(f) BY <1>6, <1>11 DEF Call, producer, pushing, cutoff
<1>12. CASE ConsumerStep
  <2>1. CASE SeekRead \/ ReclaimStep
    BY <1>6, <2>1 DEF SeekRead, ReclaimStep, Collect, ResetValues, FindTail, Unlink, Relink,
       producer, pushing, cutoff, reading
  <2>2. CASE Poll
    <3>1. UNCHANGED <<closed, closing, taken, sent>> /\ cpc = "seek"
          /\ offset[rblock] = StartOf(read_offset)
      BY <2>2 DEF Poll, producer, pushing, cutoff, reading
    <3>2. outcome' = outcome \/ outcome' = "OK" \/ outcome' = "EMPTY" \/ ReadFlag = "closed"
      BY <2>2 DEF Poll
    <3>3. CASE outcome' = outcome BY <1>6, <3>1, <3>3
    <3>4. CASE ReadFlag = "closed"
      BY <1>3, <1>4, <3>1, <3>4 DEF DeliversRight, StatusIsRight, Ended
    <3> QED BY <3>2, <3>3, <3>4 DEF Told
  <2>3. CASE Suspend
    <3>1. UNCHANGED <<closed, closing, taken, sent>>
      BY <2>3 DEF Suspend, producer, pushing, cutoff, reading
    <3>2. outcome' = outcome \/ outcome' = "OK" BY <2>3 DEF Suspend
    <3> QED BY <1>6, <3>1, <3>2 DEF Told
  <2>4. CASE Restore
    <3>1. UNCHANGED <<closed, closing, taken, sent>> /\ cpc = "restore"
      BY <2>4 DEF Restore, producer, pushing, cutoff, reading
    <3> QED BY <1>3, <1>4, <3>1 DEF Rousing
  <2>5. CASE PullResume
    <3>1. UNCHANGED <<closed, closing, taken, sent>> /\ cpc = "resume" /\ ~elem
      BY <2>5 DEF PullResume, producer, pushing, cutoff, reading, Told
    <3> QED BY <1>3, <1>4, <3>1 DEF Rousing
  <2>6. CASE FinishRead
    <3>1. cpc = "holding" /\ Told BY <2>6 DEF FinishRead, Told
    <3>2. taken < sent BY <1>3, <3>1 DEF Rousing
    <3>3. taken \in Nat /\ taken = sent BY <1>2, <1>5, <3>1, Places
    <3> QED BY <3>2, <3>3
  <2> QED BY <1>12, <2>1, <2>2, <2>3, <2>4, <2>5, <2>6 DEF ConsumerStep
<1>13. CASE Destruct BY <1>13 DEF Destruct
<1> QED BY <1>7, <1>8, <1>9, <1>10, <1>11, <1>12, <1>13 DEF Next, Gone

\* The abstract state
\* How many values came before the first one of the queue.
Base == taken + InHand

\* What the invariant says of the abstract state, until the destructor ran.
Abstraction ==
    /\ sent \in Nat /\ taken \in Nat /\ Base \in Nat /\ InHand \in {0, 1}
    /\ Base <= sent /\ sent <= MaxPost /\ sent - taken <= MaxWaiting
    /\ Queue = Run(Base, sent - Base)
    /\ Held = IF cpc = "holding" THEN <<taken + 1>> ELSE <<>>
    /\ Told => closed /\ ~closing /\ taken = sent
    /\ ppc = "publish" => ~closed
    /\ ppc = "wake" => cpc = "parked"
    /\ cpc = "seek" /\ offset[rblock] = StartOf(read_offset) =>
         (ReadFlag = "closed" <=> closed /\ ~closing /\ taken = sent)

\* The values from the next one on are a run.
LEMMA StateAbstracts ==
  ASSUME IInv, ToldRight, ppc # "gone"
  PROVE  Abstraction
<1>1. PICK at, lo, hi : Going(at, lo, hi) BY AliveIsKept DEF Kept
<1>2. /\ sent \in Nat /\ taken \in Nat /\ taken <= sent /\ sent - taken <= MaxWaiting
      /\ InHand \in {0, 1} /\ Base \in Nat /\ Base <= sent /\ sent <= MaxPost
  <2>1. sent \in Nat /\ taken \in Nat /\ taken <= sent /\ sent - taken <= MaxWaiting
    BY <1>1, Places
  <2>2. InHand \in {0, 1} /\ (InHand = 1 => taken < sent) BY <1>1, Parts DEF InHand, Rousing
  <2>3. sent <= MaxPost BY <1>1, Parts, Sizes DEF TypeOK
  <2> QED BY <2>1, <2>2, <2>3 DEF Base
<1>3. Queue = Run(Base, sent - Base)
  <2>1. sent - taken - InHand = sent - Base BY <1>2 DEF Base
  <2>2. ASSUME NEW k \in 1 .. sent - Base
        PROVE  StoredAt(k - 1 + InHand) = Base + k
    <3>1. k - 1 + InHand \in Nat /\ taken + (k - 1 + InHand) < sent BY <1>2 DEF Base
    <3>2. StoredAt(k - 1 + InHand) = taken + (k - 1 + InHand) + 1 BY <1>1, <3>1, StoredInOrder
    <3> QED BY <1>2, <3>2 DEF Base
  <2>3. Queue = [k \in 1 .. sent - Base |-> StoredAt(k - 1 + InHand)] BY <2>1 DEF Queue
  <2> QED BY <2>2, <2>3 DEF Run
<1>4. Held = IF cpc = "holding" THEN <<taken + 1>> ELSE <<>>
  <2>1. ASSUME cpc = "holding" PROVE StoredAt(0) = taken + 1
    <3>1. 0 \in Nat /\ taken + 0 < sent /\ taken + 0 = taken
      BY <1>1, <1>2, <2>1, Parts DEF Rousing
    <3> QED BY <1>1, <3>1, StoredInOrder
  <2> QED BY <2>1 DEF Held
<1>5. Told => closed /\ ~closing /\ taken = sent BY DEF ToldRight, Ended
<1>6. /\ ppc = "publish" => ~closed
      /\ ppc = "wake" => cpc = "parked"
  BY <1>1, Parts DEF Calls, Rousing, Writing
<1>7. cpc = "seek" /\ offset[rblock] = StartOf(read_offset) =>
        (ReadFlag = "closed" <=> closed /\ ~closing /\ taken = sent)
  BY DeliversInOrder DEF DeliversRight, StatusIsRight
<1> QED BY <1>2, <1>3, <1>4, <1>5, <1>6, <1>7 DEF Abstraction

\* Steps
\* A step that publishes no value, takes none and ends no scope leaves the
\* abstract queue and the consumer's hand alone.
LEMMA KeepsValues ==
  ASSUME Abstraction, Abstraction', sent' = sent, taken' = taken,
         cpc' = cpc \/ {cpc, cpc'} \cap {"holding"} = {}
  PROVE  Queue' = Queue /\ Held' = Held
<1>1. Base' = Base BY DEF Base, InHand
<1> QED BY <1>1 DEF Abstraction

\* The other steps of a call show nothing.
LEMMA Quiet ==
  ASSUME Abstraction, Abstraction', sent' = sent, taken' = taken, closed' = closed,
         outcome' = outcome, cpc' = cpc \/ {cpc, cpc'} \cap {"holding"} = {}
  PROVE  UNCHANGED Abstract!vars
<1>1. Queue' = Queue /\ Held' = Held BY KeepsValues
<1> QED BY <1>1 DEF Abstract!vars, Told

\* The exchange of an element's flag puts its value into the queue.
LEMMA Publishes ==
  ASSUME Abstraction, Abstraction', Publish
  PROVE  Abstract!Enqueue
<1>1. /\ ~closed /\ sent' = sent + 1 /\ taken' = taken /\ cpc' = cpc /\ closed' = closed
      /\ outcome' = outcome
  BY DEF Publish, Abstraction, consumer, cutoff, reading
<1>2. /\ sent \in Nat /\ taken \in Nat /\ Base \in Nat /\ Base <= sent /\ InHand \in {0, 1}
      /\ Base' = Base /\ sent + 1 <= MaxPost /\ sent + 1 - taken <= MaxWaiting
      /\ MaxPost \in Nat /\ MaxWaiting \in Nat /\ Base = taken + InHand
  BY <1>1, Sizes DEF Abstraction, Base, InHand
<1> DEFINE n == sent - Base
<1>3. n \in Nat /\ n + 1 \in Nat /\ Base + (n + 1) <= MaxPost /\ n + 1 + InHand <= MaxWaiting
      /\ Base + n <= MaxPost /\ n <= n + 1 /\ sent + 1 - Base = n + 1
  BY <1>2
<1>4. Queue = Run(Base, n) /\ Queue' = Run(Base, n + 1) BY <1>1, <1>2, <1>3 DEF Abstraction
<1> HIDE DEF n
<1>5. /\ Len(Queue) = n /\ Queue' \in Seq(Value) /\ Len(Queue') = n + 1
      /\ SubSeq(Queue', 1, n) = Queue
  <2>1. Len(Run(Base, n)) = n /\ Len(Run(Base, n + 1)) = n + 1 BY <1>2, <1>3, RunIsSeq
  <2>2. Run(Base, n + 1) \in Seq(Value) BY <1>2, <1>3, RunInRange DEF Value
  <2>3. SubSeq(Run(Base, n + 1), 1, n) = Run(Base, n) BY <1>2, <1>3, RunPrefix
  <2> QED BY <1>4, <2>1, <2>2, <2>3
<1>6. Held' = Held /\ Len(Held) = InHand
  <2>1. Held' = Held BY <1>1 DEF Abstraction
  <2>2. Held = IF cpc = "holding" THEN <<taken + 1>> ELSE <<>> BY DEF Abstraction
  <2>3. Len(Held) = IF cpc = "holding" THEN 1 ELSE 0 BY <2>2
  <2> QED BY <2>1, <2>3 DEF InHand
<1>7. Told = FALSE /\ Told' = FALSE BY <1>1 DEF Abstraction, Told
<1>8. Len(Queue') > Len(Queue) /\ Len(Queue') + Len(Held) <= MaxWaiting
  BY <1>2, <1>3, <1>5, <1>6
<1>9. SubSeq(Queue', 1, Len(Queue)) = Queue BY <1>5
<1> QED BY <1>1, <1>5, <1>6, <1>7, <1>8, <1>9 DEF Abstract!Enqueue

\* A pull that finds a value takes it from the queue.
LEMMA Takes ==
  ASSUME Abstraction, Abstraction', sent' = sent, taken' = taken, closed' = closed,
         outcome' = "OK", cpc # "holding", cpc' = "holding"
  PROVE  Abstract!Dequeue
<1>1. Base = taken /\ Base' = taken + 1 /\ taken + 1 <= sent /\ sent \in Nat /\ taken \in Nat
  BY DEF Abstraction, Base, InHand
<1> DEFINE n == sent - taken
<1>2. n \in Nat /\ n > 0 /\ n - 1 = sent - (taken + 1) BY <1>1
<1>3. Queue = Run(taken, n) /\ Queue' = Run(taken + 1, n - 1) BY <1>1, <1>2 DEF Abstraction
<1>4. Head(Queue) = taken + 1 /\ Queue' = Tail(Queue) /\ Queue # <<>>
  <2> HIDE DEF n
  <2>1. Head(Run(taken, n)) = taken + 1 /\ Tail(Run(taken, n)) = Run(taken + 1, n - 1)
    BY <1>1, <1>2, RunTail
  <2>2. Run(taken, n) # <<>> BY <1>1, <1>2, RunIsSeq
  <2> QED BY <1>3, <2>1, <2>2
<1>5. Held = <<>> /\ Held' = <<taken + 1>> BY DEF Abstraction
<1>6. Told = FALSE /\ Told' = FALSE BY <1>1 DEF Abstraction, Told
<1> QED BY <1>4, <1>5, <1>6 DEF Abstract!Dequeue

\* A pull says CLOSED only when there is nothing left, after close().
LEMMA Says ==
  ASSUME Abstraction, Abstraction', sent' = sent, taken' = taken, closed' = closed,
         outcome' = "CLOSED", cpc # "holding", cpc' = "idle"
  PROVE  Abstract!SayClosed
<1>1. Base = taken /\ sent \in Nat /\ taken \in Nat BY DEF Abstraction, Base, InHand
<1>2. Told' = TRUE /\ closed /\ taken = sent BY DEF Abstraction, Told
<1>3. Queue' = Queue /\ Held' = Held BY KeepsValues
<1>4. Queue = <<>>
  <2>1. Queue = Run(taken, 0) BY <1>1, <1>2 DEF Abstraction
  <2> QED BY <1>1, <2>1, RunIsSeq
<1>5. Held = <<>> BY DEF Abstraction
<1> QED BY <1>2, <1>3, <1>4, <1>5 DEF Abstract!SayClosed

\* The consumer's scope ends when the value is destroyed.
LEMMA Releases ==
  ASSUME Abstraction, Abstraction', FinishRead
  PROVE  Abstract!Release
<1>1. /\ cpc = "holding" /\ cpc' # "holding" /\ sent' = sent /\ taken' = taken + 1
      /\ closed' = closed /\ outcome' = outcome
  BY DEF FinishRead, producer, cutoff
<1>2. Base' = Base
  <2>1. InHand = 1 /\ InHand' = 0 /\ taken \in Nat BY <1>1 DEF InHand, Abstraction
  <2> QED BY <1>1, <2>1 DEF Base
<1>3. Queue' = Queue BY <1>1, <1>2 DEF Abstraction
<1>4. Held # <<>> /\ Held' = <<>> BY <1>1 DEF Held
<1> QED BY <1>1, <1>3, <1>4 DEF Abstract!Release, Told

\* close() of the list is close() of the queue.
LEMMA Closes ==
  ASSUME Abstraction, Abstraction', Close
  PROVE  Abstract!Close
<1>1. sent' = sent /\ taken' = taken /\ cpc' = cpc /\ closed' = TRUE /\ outcome' = outcome
  BY DEF Close, consumer, reading
<1>2. Queue' = Queue /\ Held' = Held BY <1>1, KeepsValues
<1> QED BY <1>1, <1>2 DEF Abstract!Close, Told

\* The destructor empties the queue.
LEMMA Discards ==
  ASSUME Destruct
  PROVE  Abstract!Discard
<1>1. /\ cpc = "idle" /\ cpc' = "gone" /\ ppc' = "gone" /\ closed' = TRUE /\ outcome' = outcome
  BY DEF Destruct
<1>2. Held = <<>> /\ Held' = <<>> /\ Queue' = <<>> /\ Told' = Told BY <1>1 DEF Held, Queue, Told
<1> QED BY <1>1, <1>2 DEF Abstract!Discard

\* Every step of the producer's calls.
LEMMA ProducerImplements ==
  ASSUME Abstraction, Abstraction', ProducerStep
  PROVE  [Abstract!Next]_(Abstract!vars)
<1>1. CASE SeekWrite \/ Reserve \/ Emplace \/ Cross \/ PlaceSentinel
  <2>1. UNCHANGED <<sent, taken, closed, outcome, cpc>>
    BY <1>1 DEF SeekWrite, Reserve, Emplace, Cross, PlaceSentinel, cutoff, pushing, consumer,
       reading
  <2> QED BY <2>1, Quiet
<1>2. CASE Publish BY <1>2, Publishes DEF Abstract!Next
<1>3. CASE ResumeConsumer
  <2>1. /\ cpc = "parked" /\ cpc' = "resume"
        /\ UNCHANGED <<sent, taken, closed, outcome>>
    BY <1>3 DEF ResumeConsumer, Abstraction, cutoff, reading
  <2> QED BY <2>1, Quiet
<1> QED BY <1>1, <1>2, <1>3 DEF ProducerStep

\* Every step of the consumer's calls.
LEMMA ConsumerImplements ==
  ASSUME Abstraction, Abstraction', ConsumerStep
  PROVE  [Abstract!Next]_(Abstract!vars)
<1>1. CASE SeekRead \/ ReclaimStep
  <2>1. /\ UNCHANGED <<sent, taken, closed, outcome>>
        /\ cpc # "holding" /\ cpc' # "holding"
    BY <1>1 DEF SeekRead, ReclaimStep, Collect, ResetValues, FindTail, Unlink, Relink, producer,
       cutoff, reading
  <2> QED BY <2>1, Quiet
<1>2. CASE Poll
  <2>1. /\ UNCHANGED <<sent, taken, closed>>
        /\ cpc = "seek" /\ offset[rblock] = StartOf(read_offset)
    BY <1>2 DEF Poll, producer, cutoff, reading
  <2>2. CASE outcome' = "OK" /\ cpc' = "holding" BY <2>1, <2>2, Takes DEF Abstract!Next
  <2>3. CASE outcome' = outcome /\ cpc' \in {"suspend", "idle"} BY <2>1, <2>3, Quiet
  <2>4. CASE outcome' = "CLOSED" /\ cpc' = "idle" BY <2>1, <2>4, Says DEF Abstract!Next
  <2>5. CASE outcome' = "EMPTY" /\ cpc' = "idle" /\ ReadFlag # "closed"
    <3>1. Queue' = Queue /\ Held' = Held BY <2>1, <2>5, KeepsValues
    <3>2. Told = FALSE /\ Told' = FALSE BY <2>1, <2>5 DEF Abstraction, Told
    <3> QED BY <2>1, <3>1, <3>2 DEF Abstract!vars
  <2> QED BY <1>2, <2>2, <2>3, <2>4, <2>5 DEF Poll
<1>3. CASE Suspend
  <2>1. UNCHANGED <<sent, taken, closed>> /\ cpc = "suspend"
    BY <1>3 DEF Suspend, producer, cutoff, reading
  <2>2. CASE outcome' = outcome /\ cpc' \in {"parked", "restore"} BY <2>1, <2>2, Quiet
  <2>3. CASE outcome' = "OK" /\ cpc' = "holding" BY <2>1, <2>3, Takes DEF Abstract!Next
  <2> QED BY <1>3, <2>2, <2>3 DEF Suspend
<1>4. CASE Restore
  <2>1. /\ UNCHANGED <<sent, taken, closed>>
        /\ cpc = "restore" /\ cpc' = "idle" /\ outcome' = "CLOSED"
    BY <1>4 DEF Restore, producer, cutoff, reading
  <2> QED BY <2>1, Says DEF Abstract!Next
<1>5. CASE PullResume
  <2>1. /\ UNCHANGED <<sent, taken, closed>> /\ cpc = "resume"
        /\ \/ outcome' = "OK" /\ cpc' = "holding"
           \/ outcome' = "CLOSED" /\ cpc' = "idle"
    BY <1>5 DEF PullResume, producer, cutoff, reading
  <2> QED BY <2>1, Takes, Says DEF Abstract!Next
<1>6. CASE FinishRead BY <1>6, Releases DEF Abstract!Next
<1> QED BY <1>1, <1>2, <1>3, <1>4, <1>5, <1>6 DEF ConsumerStep

\* Until the destructor has run, the abstract state is what it should be.
Mapped == IInv /\ (ppc # "gone" => Abstraction)

\* Every step of the list is a step of the queue, or shows nothing.
LEMMA StepImplements ==
  ASSUME Mapped, Mapped', [Next]_vars
  PROVE  [Abstract!Next]_(Abstract!vars)
<1>1. CASE UNCHANGED vars
  <2>1. /\ UNCHANGED <<stored, read_offset, head_block, blocks, next, offset>>
        /\ UNCHANGED <<sent, taken, cpc, ppc, closed, outcome>>
    BY <1>1 DEF vars, list, elements, producer, cutoff, consumer, reading
  <2>2. Queue' = Queue /\ Held' = Held /\ Told' = Told
    BY <2>1 DEF Queue, Held, Told, StoredAt, BlockAt, ReachableFrom, InHand
  <2> QED BY <2>1, <2>2 DEF Abstract!vars
<1>2. CASE Destruct BY <1>2, Discards DEF Abstract!Next
<1>3. CASE Next /\ ~Destruct /\ ppc = "gone"
  <2>1. cpc = "gone" BY <1>3 DEF Mapped, IInv, Destroyed
  <2>2. UNCHANGED vars
    BY <1>3, <2>1 DEF Next, Post, Close, ProducerStep, SeekWrite, Reserve, Emplace, Publish, Cross,
       PlaceSentinel, ResumeConsumer, Call, ConsumerStep, SeekRead, Poll, Suspend, Restore,
       PullResume, FinishRead, ReclaimStep, Collect, ResetValues, FindTail, Unlink, Relink,
       Gone
  <2> QED BY <1>1, <2>2
<1>4. CASE Next /\ ~Destruct /\ ppc # "gone"
  <2>1. ppc' # "gone"
    BY <1>4 DEF Next, Post, Close, ProducerStep, SeekWrite, Reserve, Emplace, Publish, Cross,
       PlaceSentinel, ResumeConsumer, Call, ConsumerStep, SeekRead, Poll, Suspend, Restore,
       PullResume, FinishRead, ReclaimStep, Collect, ResetValues, FindTail, Unlink, Relink,
       Gone, producer
  <2>2. Abstraction /\ Abstraction' BY <1>4, <2>1 DEF Mapped
  <2>3. CASE \E n \in 1 .. MaxBulk : Post(n)
    <3>1. UNCHANGED <<sent, taken, closed, outcome, cpc>>
      BY <2>3 DEF Post, cutoff, consumer, reading
    <3> QED BY <2>2, <3>1, Quiet
  <2>4. CASE Close BY <2>2, <2>4, Closes DEF Abstract!Next
  <2>5. CASE ProducerStep BY <2>2, <2>5, ProducerImplements
  <2>6. CASE \E f \in Function : Call(f)
    <3>1. UNCHANGED <<sent, taken, closed, outcome>> /\ cpc = "idle" /\ cpc' = "seek"
      BY <2>6 DEF Call, producer, cutoff
    <3> QED BY <2>2, <3>1, Quiet
  <2>7. CASE ConsumerStep BY <2>2, <2>7, ConsumerImplements
  <2> QED BY <1>4, <2>3, <2>4, <2>5, <2>6, <2>7 DEF Next, Gone
<1> QED BY <1>1, <1>2, <1>3, <1>4

\* A new list is an empty queue.
LEMMA InitImplements ==
  ASSUME Init
  PROVE  Abstract!Init
<1>1. ppc = "idle" /\ cpc = "idle" /\ closed = FALSE /\ outcome = "none" /\ sent = 0 /\ taken = 0
  BY DEF Init
<1>2. InHand = 0 BY <1>1 DEF InHand
<1>3. Queue = <<>>
  <2>1. Queue = [k \in 1 .. sent - taken - InHand |-> StoredAt(k - 1 + InHand)]
    BY <1>1 DEF Queue
  <2>2. 1 .. sent - taken - InHand = {} BY <1>1, <1>2
  <2>3. Queue = [k \in {} |-> StoredAt(k - 1 + InHand)] BY <2>1, <2>2
  <2>4. Queue \in Seq(Value) /\ Len(Queue) = 0
    <3>1. Queue \in [1 .. 0 -> Value] /\ 0 \in Nat BY <2>3
    <3> QED BY <3>1
  <2> QED BY <2>4, EmptySeq
<1>4. Held = <<>> /\ Told = FALSE BY <1>1 DEF Held, Told
<1> QED BY <1>1, <1>3, <1>4 DEF Abstract!Init

\* qu_spsc_unbounded is a single-consumer FIFO queue that can be closed: its
\* blocks, their reuse and the searches by wrapped offsets show in no behaviour.
THEOREM Refinement == Spec => ImplementsAsyncQueue
<1>1. Init => Abstract!Init BY InitImplements
<1>2. Init => IInv /\ ToldRight
  <2>1. Init => ToldRight BY DEF Init, ToldRight, Told
  <2> QED BY <2>1, InitHolds, AliveIsKept
<1>3. IInv /\ ToldRight /\ [Next]_vars => (IInv /\ ToldRight)' BY StepKeeps, ToldStays
<1>4. IInv /\ ToldRight => Mapped BY StateAbstracts DEF Mapped
<1>5. Mapped /\ Mapped' /\ [Next]_vars => [Abstract!Next]_(Abstract!vars) BY StepImplements
<1> QED BY <1>1, <1>2, <1>3, <1>4, <1>5, PTL DEF Spec, Abstract!Spec, ImplementsAsyncQueue
================================================================================
