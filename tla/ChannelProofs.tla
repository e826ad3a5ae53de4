---------------------------- MODULE ChannelProofs ----------------------------
(***************************************************************************)
(* The other steps of Channel that keep IInv: values written and read,     *)
(* consumers that wait and are woken, close() and the destructor.  So IInv *)
(* is an invariant, and each safety invariant of Channel follows from it.  *)
(***************************************************************************)
EXTENDS ChannelSteps, TLAPS

\* What a post finds at the element it is at.
LEMMA Writes ==
  ASSUME Running, NEW t \in Tokens, pc[t] \in {"write", "wake"},
         NEW m, m = Begin(t) + op[t].written
  PROVE  /\ op[t].name \in {"post", "post_bulk"} /\ Posting(t) /\ Sender(t) /\ Drawn(t) /\ lock # t
         /\ Acquired(t) /\ Member(t) /\ ~Reader(t) /\ ~Reclaimer(t)
         /\ WriteAt(t) \in Word /\ Pos(WriteAt(t)) = m /\ m \in Nat
         /\ Begin(t) \in Nat /\ op[t].written \in Nat /\ op[t].count \in Nat /\ op[t].count <= MaxTicket
         /\ op[t].written < op[t].count /\ Finish(t) = Begin(t) + op[t].count
         /\ Skip <= Begin(t) /\ Begin(t) <= m /\ m < Finish(t) /\ Finish(t) <= Cut /\ m < Cut /\ Finish(t) <= Top
         /\ op[t].name = "post" => op[t].count = 1
         /\ op[t].block \in OnList /\ op[t].block \in blocks /\ op[t].block \in Block /\ First(op[t].block) = Base(m)
         /\ CellOK(m, flags[op[t].block][IndexOf(WriteAt(t))], stored[op[t].block][IndexOf(WriteAt(t))])
         /\ flags[op[t].block][IndexOf(WriteAt(t))] \in Flag
         /\ IndexOf(WriteAt(t)) \in Index /\ First(op[t].block) + IndexOf(WriteAt(t)) = m
         /\ First(ListHead) <= Base(Begin(t)) /\ Active(t) <= Base(Begin(t)) /\ Active(t) <= From(t)
         /\ Reaches(Finish(t) - 1)
<1> HIDE DEF Running
<1>1. Control(t) /\ Post(t) /\ Uses(t) /\ op[t].count \in Nat /\ op[t].written \in Nat
      /\ {Begin(t), Finish(t), Active(t), Sold, Turn, Cut} \subseteq Nat /\ Finish(t) = Begin(t) + op[t].count
      /\ op[t] \in CallType /\ op[t].idx \in Word
  BY Parts, Fixed
<1>2. op[t].count <= MaxTicket BY <1>1, Sizes DEF CallType
<1>3. /\ op[t].name \in {"post", "post_bulk"} /\ op[t].written < op[t].count
      /\ (op[t].name = "post" => op[t].count = 1)
  BY <1>1 DEF Control, Named
<1>4. lock # t
  BY <1>1 DEF Control, Reclaiming, Closing, Scanning, Visiting, Announcing, Moves, Sweeping
<1>5. Posting(t) /\ Sender(t) /\ Drawn(t) /\ ~Reader(t) /\ ~Reclaimer(t) /\ pc[t] \in Writing
  BY <1>3 DEF Posting, Sender, Drawn, Reader, Reclaimer, Writing, Reclaiming, Scanning, Visiting, Announcing, Moves
<1>6. Acquired(t) /\ Member(t) BY <1>5, Members
<1>7. Skip <= Begin(t) /\ Finish(t) <= Cut /\ Finish(t) <= Top
  <2>1. op[t].count > 0 BY <1>1, <1>3
  <2> QED BY <1>1, <1>5, <2>1, InUse DEF Post
<1>8. m \in Nat /\ Begin(t) <= m /\ m < Finish(t) /\ m < Cut /\ m <= Top
  BY <1>1, <1>3, <1>7, TopIs
<1>9. WriteAt(t) \in Word /\ Pos(WriteAt(t)) = m
  <2>1. Pos(op[t].idx) + op[t].written < WordMod BY <1>8, TopIs, Sizes DEF Begin
  <2> QED BY <1>1, <2>1, PosPlus DEF WriteAt, Begin
<1>10. /\ op[t].block \in OnList /\ First(op[t].block) = Base(m) /\ Reaches(Finish(t) - 1)
       /\ First(ListHead) <= Base(Begin(t)) /\ Active(t) <= Base(Begin(t)) /\ Active(t) <= From(t)
  BY <1>1, <1>5 DEF Uses
<1>11. /\ CellOK(m, flags[op[t].block][IndexOf(WriteAt(t))], stored[op[t].block][IndexOf(WriteAt(t))])
       /\ flags[op[t].block][IndexOf(WriteAt(t))] \in Flag
       /\ IndexOf(WriteAt(t)) \in Index /\ First(op[t].block) + IndexOf(WriteAt(t)) = m
       /\ op[t].block \in blocks /\ op[t].block \in Block
  BY <1>9, <1>10, CellAt
<1> QED BY <1>1, <1>2, <1>3, <1>4, <1>5, <1>6, <1>7, <1>8, <1>9, <1>10, <1>11

\* Where it goes from there.
LEMMA AfterElementIs ==
  ASSUME Running, NEW t \in Tokens, pc[t] \in {"write", "wake"},
         NEW m, m = Begin(t) + op[t].written
  PROVE  /\ AfterElement(t) \in {"cross", "write", "release"}
         /\ AfterElement(t) = "write" =>
               op[t].name = "post_bulk" /\ op[t].written + 1 < op[t].count /\ Base(m + 1) = Base(m)
         /\ AfterElement(t) = "cross" => op[t].name = "post_bulk" /\ Base(m) + BlockSize = m + 1
         /\ AfterElement(t) = "release" => op[t].written + 1 = op[t].count
<1> HIDE DEF Running
<1>1. /\ op[t].name \in {"post", "post_bulk"} /\ WriteAt(t) \in Word /\ Pos(WriteAt(t)) = m /\ m \in Nat
      /\ op[t].written \in Nat /\ op[t].count \in Nat /\ op[t].written < op[t].count
      /\ m < Finish(t) /\ Finish(t) <= Top /\ Finish(t) \in Nat
      /\ (op[t].name = "post" => op[t].count = 1)
  BY Writes, Parts
<1>2. PICK x : x = Plus(WriteAt(t), 1) OBVIOUS
<1>3. x \in Word /\ Pos(x) = m + 1 /\ m + 1 \in Nat
  <2>1. Pos(WriteAt(t)) + 1 < WordMod /\ 1 \in Nat BY <1>1, TopIs, Sizes
  <2> QED BY <1>1, <1>2, <2>1, PosPlus
<1>4. PICK i : i = IndexOf(x) /\ i = (m + 1) - Base(m + 1) BY <1>3, PlaceOf
<1>5. /\ Base(m + 1) \in Starts /\ Base(m + 1) \in Nat /\ Base(m + 1) <= m + 1
      /\ Base(m) \in Starts /\ Base(m) \in Nat /\ Base(m) <= m /\ m < Base(m) + BlockSize
  BY <1>1, <1>3, BaseOf
<1>6. i = 0 => Base(m) + BlockSize = m + 1
  <2> SUFFICES ASSUME i = 0 PROVE Base(m) + BlockSize = m + 1 OBVIOUS
  <2>1. m + 1 \in Starts BY <1>3, <1>4, <1>5
  <2>2. Base(m) < m + 1 BY <1>1, <1>5
  <2>3. Base(m) + BlockSize <= m + 1 BY <1>5, <2>1, <2>2, StartsApart
  <2> QED BY <1>1, <1>5, <2>3, Sizes
<1>7. i # 0 => Base(m + 1) = Base(m)
  <2> SUFFICES ASSUME i # 0 PROVE Base(m + 1) = Base(m) OBVIOUS
  <2>1. Base(m + 1) <= m BY <1>1, <1>4, <1>5
  <2>2. Base(m + 1) <= Base(m) BY <1>1, <1>5, <2>1, BaseOf
  <2>3. Base(m) <= Base(m + 1) BY <1>1, <1>3, BaseGrows
  <2> QED BY <1>5, <2>2, <2>3
<1>8. AfterElement(t) = CASE op[t].name = "post_bulk" /\ i = 0 -> "cross"
      [] op[t].name = "post_bulk" /\ i # 0 /\ op[t].written + 1 < op[t].count -> "write"
      [] OTHER -> "release"
  BY <1>2, <1>4 DEF AfterElement
<1>9. CASE op[t].name = "post_bulk" /\ i = 0
  <2>1. AfterElement(t) = "cross" BY <1>8, <1>9
  <2> QED BY <1>6, <1>9, <2>1
<1>10. CASE op[t].name = "post_bulk" /\ i # 0 /\ op[t].written + 1 < op[t].count
  <2>1. AfterElement(t) = "write" BY <1>8, <1>10
  <2> QED BY <1>7, <1>10, <2>1
<1>11. CASE ~(op[t].name = "post_bulk" /\ i = 0) /\ ~(op[t].name = "post_bulk" /\ i # 0 /\ op[t].written + 1 < op[t].count)
  <2>1. AfterElement(t) = "release" BY <1>8, <1>11
  <2>2. op[t].written + 1 = op[t].count BY <1>1, <1>11
  <2> QED BY <2>1, <2>2
<1> QED BY <1>9, <1>10, <1>11

\* The call of a post when an element has been dealt with.
LEMMA PosterToken ==
  ASSUME Running, NEW t \in Tokens, pc[t] \in {"write", "wake"}, NEW m, m = Begin(t) + op[t].written,
         NEW S \in SUBSET Tokens, Only(S), t \in S, lock \notin S,
         UNCHANGED <<list, cutoff, counters, reclaim, setup>>, UNCHANGED offsets,
         NEW c \in CallType, op'[t] = c, NEW p, p = AfterElement(t), pc'[t] = p, haz'[t] = haz[t],
         c.name = op[t].name, c.idx = op[t].idx, c.count = op[t].count, c.block = op[t].block,
         c.written = op[t].written + 1
  PROVE  /\ Token(t)' /\ ~Reader(t)'
         /\ \A n \in Nat : /\ Owns(t, n)' <=> m < n /\ n < Finish(t)
                           /\ Owns(t, n) <=> n < Finish(t) /\ (m < n \/ (m = n /\ pc[t] = "write"))
         /\ Begin(t)' = Begin(t) /\ Finish(t)' = Finish(t) /\ p \in {"cross", "write", "release"}
<1> HIDE DEF Running
<1>1. /\ op[t].name \in {"post", "post_bulk"} /\ Posting(t) /\ Sender(t) /\ Drawn(t) /\ lock # t
      /\ Acquired(t) /\ Member(t) /\ ~Reader(t) /\ m \in Nat
      /\ Begin(t) \in Nat /\ op[t].written \in Nat /\ op[t].count \in Nat
      /\ op[t].written < op[t].count /\ Finish(t) = Begin(t) + op[t].count
      /\ Skip <= Begin(t) /\ Begin(t) <= m /\ m < Finish(t) /\ Finish(t) <= Cut /\ Finish(t) <= Top
      /\ op[t].name = "post" => op[t].count = 1
  BY Writes
<1>2. /\ op[t].block \in OnList /\ First(op[t].block) = Base(m)
      /\ First(ListHead) <= Base(Begin(t)) /\ Active(t) <= Base(Begin(t)) /\ Active(t) <= From(t)
      /\ Reaches(Finish(t) - 1)
  BY Writes
<1>3. p \in {"cross", "write", "release"} BY AfterElementIs
<1>4. p = "write" => op[t].name = "post_bulk" /\ op[t].written + 1 < op[t].count /\ Base(m + 1) = Base(m)
  BY AfterElementIs
<1>5. p = "cross" => op[t].name = "post_bulk" /\ Base(m) + BlockSize = m + 1 BY AfterElementIs
<1>6. p = "release" => op[t].written + 1 = op[t].count BY AfterElementIs
<1>7. /\ Calm(S) /\ Resting /\ (\A places : At(places)' = At(places)) /\ rec' = rec /\ lock' = lock
      /\ OnList' = OnList /\ blocks' = blocks /\ (\A b : First(b)' = First(b))
      /\ (\A n : Reaches(n)' = Reaches(n)) /\ ListHead' = ListHead /\ First(ListHead)' = First(ListHead)
      /\ Sold' = Sold /\ Turn' = Turn /\ Cut' = Cut /\ closed' = closed
  <2>1. write_offset' = write_offset /\ read_offset' = read_offset /\ write_offset \in Word /\ read_offset \in Word
    BY Types DEF Running, offsets
  <2>2. Sold' = Sold /\ Turn' = Turn /\ Sold \in Nat /\ Turn \in Nat
    BY <2>1, Types DEF Sold, Turn, Running
  <2>3. write_offset' \in Word /\ read_offset' \in Word /\ Sold <= Sold' /\ Turn <= Turn'
    BY <2>1, <2>2
  <2>4. /\ Calm(S) /\ Resting /\ (\A places : At(places)' = At(places)) /\ rec' = rec /\ lock' = lock
        /\ OnList' = OnList /\ blocks' = blocks /\ (\A b : First(b)' = First(b))
        /\ (\A n : Reaches(n)' = Reaches(n)) /\ ListHead' = ListHead /\ First(ListHead)' = First(ListHead)
        /\ closed' = closed /\ (Sold' = Sold => Cut' = Cut)
    BY <2>3, Alongside
  <2> QED BY <2>2, <2>4
<1>8. /\ Begin(t)' = Begin(t) /\ Finish(t)' = Finish(t) /\ Active(t)' = Active(t)
      /\ Posting(t)' /\ Field(t)' = Field(t) /\ op'[t].count = op[t].count /\ op'[t].name = op[t].name
      /\ op'[t].written = op[t].written + 1 /\ op'[t].block = op[t].block
  BY <1>1 DEF Begin, Finish, Active, Posting, Field
<1>9. /\ ~Reader(t)' /\ ~Unaware(t)' /\ Ahead(t)' = m + 1
      /\ (Drawn(t)' <=> p # "release") /\ (Sender(t)' <=> p # "release")
      /\ (pc[t] = "write" => Ahead(t) = m) /\ (pc[t] = "wake" => Ahead(t) = m + 1)
  <2>1. Ahead(t)' = m + 1 BY <1>1, <1>3, <1>8 DEF Ahead
  <2>2. (pc[t] = "write" => Ahead(t) = m) /\ (pc[t] = "wake" => Ahead(t) = m + 1)
    BY <1>1 DEF Ahead
  <2> QED
    BY <1>1, <1>3, <1>8, <2>1, <2>2 DEF Sender, Reader, Drawn, Unaware, Reclaimer, Walking, Polling, Writing, Reading, Reclaiming,
     Scanning, Visiting, Announcing, Moves, Posting, Calling
<1>10. Control(t)'
  BY <1>1, <1>3, <1>4, <1>5, <1>7, <1>8, Parts DEF Control, Named, Calling, Acquiring, Polling, Closing, Reclaiming, Writing, Posting,
     Scanning, Visiting, Announcing, Moves, Sweeping, Walking, Reading
<1>11. Closer(t)' /\ Acquires(t)' /\ Parks(t)' BY <1>3 DEF Closer, Acquires, Parks, Sweeping
<1>12. Post(t)' BY <1>1, <1>7, <1>8, Parts DEF Post
<1>13. Pull(t)' /\ Sought(t)' BY <1>1, <1>3, <1>8, <1>9 DEF Pull, Sought
<1>14. Has(t)'
  <2>1. Acquired(t)' => Acquired(t) BY <1>1
  <2> QED BY <1>7, <2>1, HasStays DEF Keeps
<1>15. Uses(t)'
  <2>1. CASE p = "release"
    <3>1. pc'[t] \in Outer /\ pc'[t] # "draw" BY <2>1 DEF Outer
    <3> QED BY <3>1, OuterToken
  <2>2. CASE p # "release"
    <3>2. Active(t)' <= From(t)' /\ First(ListHead)' <= Base(Begin(t)') /\ Active(t)' <= Base(Begin(t)')
      <4>1. PICK y : y = haz[t][Field(t)] OBVIOUS
      <4>2. haz'[t][Field(t)'] = y /\ First(y)' = First(y) BY <1>7, <1>8, <4>1
      <4> QED BY <1>2, <1>7, <1>8, <4>1, <4>2 DEF From
    <3>3. PICK b : b = op[t].block OBVIOUS
    <3>4. op'[t].block = b /\ First(op[t].block)' = Base(m) /\ b \in OnList'
      <4>1. op'[t].block = b /\ First(b)' = First(b) BY <1>7, <1>8, <3>3
      <4>2. First(op[t].block)' = First(b)' BY <4>1
      <4> QED BY <1>2, <1>7, <3>3, <4>1, <4>2
    <3>5. Begin(t)' + op'[t].written = m + 1 /\ op'[t].block \in OnList' BY <1>1, <1>8, <3>4
    <3>6. Reaches(Finish(t) - 1)' BY <1>2, <1>7, <1>8
    <3>7. CASE p = "write"
      <4>1. First(op[t].block)' = Base(Begin(t)' + op'[t].written) BY <1>4, <3>4, <3>5, <3>7
      <4> QED BY <3>2, <3>5, <3>6, <3>7, <4>1, UsesPlaced
    <3>8. CASE p = "cross"
      <4>1. First(op[t].block)' + BlockSize = Begin(t)' + op'[t].written
        BY <1>5, <3>4, <3>5, <3>8
      <4>2. pc'[t] = "cross" /\ ~(pc'[t] \in {"write", "wake", "claim"} \cup Reading) /\ pc'[t] \notin Seeking
            /\ pc'[t] \notin Walking /\ pc'[t] # "draw" /\ ~Reclaimer(t)'
        BY <3>8 DEF Reading, Seeking, Walking, Polling, Reclaimer, Reclaiming, Scanning, Visiting, Announcing, Moves
      <4> QED BY <3>2, <3>5, <3>6, <4>1, <4>2 DEF Uses
    <3> QED BY <1>3, <2>2, <3>7, <3>8
  <2> QED BY <2>1, <2>2
<1>16. Met(t)'
  <2>1. Member(t)' /\ NobodyCame' => Member(t) /\ \A f \in Fields :
             \/ haz'[t][f] = haz[t][f]
             \/ Drawn(t) /\ haz'[t][f] \in blocks /\ Base(Begin(t)) <= First(haz'[t][f])
    BY <1>1
  <2>2. Drawn(t)' => Drawn(t) /\ Begin(t)' \in Nat /\ Begin(t) <= Begin(t)' BY <1>1, <1>8
  <2>3. pc'[t] \in Walking =>
             /\ haz'[t] = haz[t] /\ Field(t)' = Field(t)
             /\ (pc[t] \in Walking /\ Search(t)' = Search(t)) \/ Search(t)' = From(t)'
    BY <1>3 DEF Walking
  <2>4. At({"swap", "revalidate"}) /\ t = rec.at => Near(haz[t].active_offset)'
    BY Parts DEF Met, Near, Pos
  <2> QED BY <1>1, <1>7, <2>1, <2>2, <2>3, <2>4, MetStays
<1>17. \A n \in Nat : /\ Owns(t, n)' <=> m < n /\ n < Finish(t)
                      /\ Owns(t, n) <=> n < Finish(t) /\ (m < n \/ (m = n /\ pc[t] = "write"))
  <2> SUFFICES ASSUME NEW n \in Nat
               PROVE  /\ Owns(t, n)' <=> m < n /\ n < Finish(t)
                      /\ Owns(t, n) <=> n < Finish(t) /\ (m < n \/ (m = n /\ pc[t] = "write"))
    OBVIOUS
  <2>1. Owns(t, n)' <=> p # "release" /\ m + 1 <= n /\ n < Finish(t) BY <1>8, <1>9 DEF Owns
  <2>2. p = "release" => Finish(t) = m + 1 BY <1>1, <1>6
  <2>3. Owns(t, n)' <=> m < n /\ n < Finish(t) BY <1>1, <2>1, <2>2
  <2>4. CASE pc[t] = "write" BY <1>1, <1>9, <2>3, <2>4 DEF Owns
  <2>5. CASE pc[t] = "wake" BY <1>1, <1>9, <2>3, <2>5 DEF Owns
  <2> QED BY <2>4, <2>5
<1>18. Token(t)' BY <1>10, <1>11, <1>12, <1>13, <1>14, <1>15, <1>16 DEF Token
<1> QED BY <1>3, <1>8, <1>9, <1>17, <1>18

\* What everybody sees when a post has constructed the value of an element.
LEMMA ElementDone ==
  ASSUME Running, NEW t \in Tokens, pc[t] = "write", NEW m, m = Begin(t) + op[t].written, Only({t}),
         UNCHANGED <<list, cutoff, counters, reclaim, setup>>, UNCHANGED offsets, told' = told,
         \A n \in Nat : Owns(t, n)' <=> m < n /\ n < Finish(t),
         Begin(t)' = Begin(t), op'[t].count = op[t].count, op'[t].name = op[t].name,
         pc'[t] \in {"cross", "write", "wake", "release"}
  PROVE  /\ ~Done(m) /\ Done(m)' /\ (Turn <= m \/ Taken(m))
         /\ \A n \in Nat : n # m => Done(n)' = Done(n)
         /\ \A n \in Nat : Taken(n)' = Taken(n)
         /\ \A u \in Tokens, n \in Nat : /\ Takes(u, n)' = Takes(u, n) /\ Suspended(u, n)' = Suspended(u, n)
                                         /\ Swept(u, n)' = Swept(u, n) /\ ~Wakes(t, n) /\ ~Suspended(t, n)
         /\ Numbers' /\ Asking' /\ SendersApart' /\ ReadersApart' /\ Served'
         /\ Cut' = Cut /\ Turn' = Turn /\ closed' = closed
         /\ m - Skip + 1 \in Value /\ ValueAt(WriteAt(t)) = m - Skip + 1
<1> HIDE DEF Running
<1>1. /\ op[t].name \in {"post", "post_bulk"} /\ Posting(t) /\ Sender(t) /\ lock # t /\ ~Reader(t)
      /\ m \in Nat /\ Begin(t) \in Nat /\ op[t].written \in Nat /\ op[t].count \in Nat
      /\ op[t].written < op[t].count /\ Finish(t) = Begin(t) + op[t].count
      /\ Skip <= m /\ m < Finish(t) /\ Finish(t) <= Cut /\ m < Cut
      /\ WriteAt(t) \in Word /\ Pos(WriteAt(t)) = m
  <2>1. /\ op[t].name \in {"post", "post_bulk"} /\ Posting(t) /\ Sender(t) /\ lock # t /\ ~Reader(t)
        /\ m \in Nat /\ Begin(t) \in Nat /\ op[t].written \in Nat /\ op[t].count \in Nat
        /\ op[t].written < op[t].count /\ Finish(t) = Begin(t) + op[t].count
        /\ Skip <= Begin(t) /\ Begin(t) <= m /\ m < Finish(t) /\ Finish(t) <= Cut /\ m < Cut
        /\ WriteAt(t) \in Word /\ Pos(WriteAt(t)) = m
    BY Writes
  <2>2. Skip \in Nat BY OriginIs
  <2> QED BY <2>1, <2>2
<1>2. /\ write_offset' = write_offset /\ read_offset' = read_offset
      /\ write_offset \in Word /\ read_offset \in Word
      /\ Sold' = Sold /\ Turn' = Turn /\ Sold \in Nat /\ Turn \in Nat
      /\ Sold <= Sold' /\ Turn <= Turn' /\ write_offset' \in Word /\ read_offset' \in Word
  <2>1. write_offset' = write_offset /\ read_offset' = read_offset /\ write_offset \in Word /\ read_offset \in Word
    BY Types DEF Running, offsets
  <2>2. Sold' = Sold /\ Turn' = Turn /\ Sold \in Nat /\ Turn \in Nat
    BY <2>1, Types DEF Sold, Turn, Running
  <2> QED BY <2>1, <2>2
<1>3. /\ lock' = lock /\ closed' = closed /\ Cut' = Cut /\ CutDrawn' = CutDrawn
      /\ (\A places : At(places)' = At(places)) /\ Cut \in Nat
  <2>1. {t} \in SUBSET Tokens /\ lock \notin {t} BY <1>1
  <2>2. /\ lock' = lock /\ closed' = closed /\ (Sold' = Sold => Cut' = Cut) /\ CutDrawn' = CutDrawn
        /\ (\A places : At(places)' = At(places)) /\ Cut \in Nat
    <3>1. /\ lock' = lock /\ closed' = closed /\ (Sold' = Sold => Cut' = Cut) /\ CutDrawn' = CutDrawn
          /\ (\A places : At(places)' = At(places)) /\ {Sold, Sold', Turn, Turn', Cut, Cut'} \subseteq Nat
      BY <1>2, <2>1, Alongside
    <3> QED BY <3>1
  <2> QED BY <1>2, <2>2
<1>4. /\ op'[t].name \in {"post", "post_bulk"} /\ Posting(t)' /\ ~Reader(t)' /\ Finish(t)' = Finish(t)
      /\ op'[t].name # "close" /\ op[t].name # "close"
      /\ pc'[t] # "parked" /\ pc'[t] \notin BeforeDraw /\ pc[t] \notin BeforeDraw
  BY <1>1 DEF Posting, Reader, Finish, BeforeDraw
<1>5. \A u \in Tokens, n \in Nat : /\ Takes(u, n)' = Takes(u, n) /\ Suspended(u, n)' = Suspended(u, n)
                                   /\ Swept(u, n)' = Swept(u, n) /\ ~Wakes(t, n) /\ ~Suspended(t, n)
  <2> SUFFICES ASSUME NEW u \in Tokens, NEW n \in Nat
               PROVE  /\ Takes(u, n)' = Takes(u, n) /\ Suspended(u, n)' = Suspended(u, n)
                      /\ Swept(u, n)' = Swept(u, n) /\ ~Wakes(t, n) /\ ~Suspended(t, n)
    OBVIOUS
  <2>1. ~Wakes(t, n) /\ ~Suspended(t, n) BY DEF Wakes, Suspended
  <2>2. CASE u = t BY <1>1, <1>4, <2>1, <2>2 DEF Takes, Suspended, Swept
  <2>3. CASE u # t BY <2>1, <2>3, Same DEF Only
  <2> QED BY <2>2, <2>3
<1>6. \A n \in Nat : Taken(n)' = Taken(n) BY <1>5 DEF Taken
<1>7. /\ \A u \in Tokens \ {t} : \A n \in Nat : Owns(u, n)' = Owns(u, n) /\ ~Owns(u, m)
      /\ Owns(t, m) /\ \A n \in Nat : n # m => Owns(t, n)' = Owns(t, n)
  <2>1. \A u \in Tokens \ {t} : \A n \in Nat : Owns(u, n)' = Owns(u, n) BY Same DEF Only
  <2>2. Ahead(t) = m BY <1>1 DEF Ahead
  <2>3. Owns(t, m) /\ \A n \in Nat : n # m => Owns(t, n)' = Owns(t, n) BY <1>1, <2>2 DEF Owns
  <2>4. ASSUME NEW u \in Tokens \ {t}, Owns(u, m)
        PROVE  FALSE
    <3>1. Sender(u) /\ Ahead(u) <= m /\ m < Finish(u) BY <2>4 DEF Owns
    <3>2. op[u].count \in Nat /\ op[u].written \in Nat /\ Begin(u) \in Nat /\ Finish(u) = Begin(u) + op[u].count
      BY Parts
    <3>3. Begin(u) <= m BY <3>1, <3>2, <1>1 DEF Ahead
    <3>4. op[u].count > 0 /\ op[t].count > 0 BY <1>1, <3>1, <3>2, <3>3
    <3>5. Finish(t) <= Begin(u) \/ Finish(u) <= Begin(t)
      BY <1>1, <3>1, <3>4 DEF Running, SendersApart
    <3> QED BY <1>1, <3>1, <3>2, <3>3, <3>5
  <2> QED BY <2>1, <2>3, <2>4
<1>8. ~Done(m) /\ Done(m)' /\ \A n \in Nat : n # m => Done(n)' = Done(n)
  <2>1. ~Done(m) BY <1>7 DEF Done
  <2>2. \A u \in Tokens : ~Owns(u, m)' BY <1>1, <1>7
  <2>3. Done(m)' BY <1>1, <1>3, <2>2 DEF Done
  <2>4. ASSUME NEW n \in Nat, n # m
        PROVE  Done(n)' = Done(n)
    <3>1. \A u \in Tokens : Owns(u, n)' = Owns(u, n) BY <1>7, <2>4
    <3> QED BY <1>3, <3>1 DEF Done
  <2> QED BY <2>1, <2>3, <2>4
<1>9. Turn <= m \/ Taken(m)
  <2>1. m < Turn => Taken(m) \/ Done(m) \/ (closed = "closed" /\ Cut <= m)
    BY <1>1 DEF Running, Served
  <2> QED BY <1>1, <1>2, <1>3, <1>8, <2>1
<1>10. Numbers' BY <1>2, <1>3 DEF Running, Numbers
<1>11. Asking'
  <2>1. \A u \in Tokens : pc'[u] \in BeforeDraw =>
             pc[u] \in BeforeDraw /\ op'[u].name = op[u].name /\ op'[u].count = op[u].count
    BY <1>4 DEF Only
  <2>2. Asking BY DEF Running
  <2> QED BY <1>2, <1>3, <2>1, <2>2, AskingKeeps
<1>12. SendersApart' /\ ReadersApart'
  <2>1. \A u \in Tokens \ {t} : /\ Sender(u)' = Sender(u) /\ Begin(u)' = Begin(u) /\ Finish(u)' = Finish(u)
                                /\ op'[u].count = op[u].count /\ Reader(u)' = Reader(u)
    BY Same DEF Only
  <2>2. \A u \in Tokens : /\ Sender(u)' => Sender(u)
                          /\ Begin(u)' = Begin(u) /\ Finish(u)' = Finish(u) /\ op'[u].count = op[u].count
                          /\ (Reader(u)' <=> Reader(u))
    <3>1. /\ Sender(t)' => Sender(t)
          /\ Begin(t)' = Begin(t) /\ Finish(t)' = Finish(t) /\ op'[t].count = op[t].count
          /\ (Reader(t)' <=> Reader(t))
      BY <1>1, <1>4
    <3> QED BY <2>1, <3>1
  <2>3. SendersApart /\ ReadersApart BY DEF Running
  <2> QED BY <2>2, <2>3 DEF SendersApart, ReadersApart
<1>13. Served'
  <2>1. Served /\ \A n \in Nat : Done(n) => Done(n)' BY <1>8 DEF Running
  <2> QED BY <1>2, <1>3, <1>6, <2>1 DEF Served
<1>14. m - Skip + 1 \in Value
  <2>1. /\ CutDrawn => Cut < Sold
        /\ Cut <= Sold /\ Skip \in Nat /\ MaxTicket \in Nat /\ Cardinality(TicketPairs) \in Nat
        /\ Sold + Cardinality(TicketPairs) <= Skip + MaxTicket + (IF CutDrawn THEN 1 ELSE 0)
    BY PairsAreFew, OriginIs, Sizes DEF Running, Numbers, Asking
  <2>2. Cut <= Skip + MaxTicket BY <1>2, <1>3, <2>1
  <2> QED BY <1>1, <1>3, <2>1, <2>2 DEF Value
<1>15. ValueAt(WriteAt(t)) = m - Skip + 1 BY <1>1, Count DEF ValueAt
<1> QED BY <1>3, <1>2, <1>5, <1>6, <1>8, <1>9, <1>10, <1>11, <1>12, <1>13, <1>14, <1>15

\* A suspended consumer is in the flag of its element.
LEMMA ParkedIs ==
  ASSUME Running, NEW u \in Tokens, pc[u] = "parked"
  PROVE  /\ op[u].block \in OnList /\ op[u].block \in blocks /\ op[u].block \in Block
         /\ IndexOf(op[u].idx) \in Index /\ First(op[u].block) + IndexOf(op[u].idx) = Begin(u)
         /\ First(op[u].block) = Base(Begin(u))
         /\ op[u].name = "pull" /\ Reader(u) /\ Takes(u, Begin(u)) /\ Suspended(u, Begin(u))
         /\ Drawn(u) /\ Unaware(u) /\ ~Sender(u) /\ ~Posting(u) /\ lock # u /\ op[u].written = 0
         /\ Begin(u) \in Nat /\ Skip <= Begin(u) /\ Begin(u) < Turn /\ Acquired(u) /\ Member(u)
         /\ flags[op[u].block][IndexOf(op[u].idx)] = u /\ u \notin {"empty", "data", "both"}
         /\ CellOK(Begin(u), u, stored[op[u].block][IndexOf(op[u].idx)])
<1> HIDE DEF Running
<1>1. op[u].name = "pull" /\ Drawn(u) /\ Reader(u) /\ Unaware(u) /\ ~Sender(u) /\ ~Posting(u) /\ lock # u
  <2>1. op[u].name = "pull" /\ lock # u
    BY Parts DEF Control, Named, Reclaiming, Closing, Scanning, Visiting, Announcing, Moves, Sweeping
  <2> QED BY <2>1 DEF Drawn, Reading, Reader, Unaware, Sender, Posting
<1>2. op[u].written = 0 /\ op[u].idx \in Word /\ Begin(u) \in Nat /\ u \notin {"empty", "data", "both"}
  <2>1. op[u].written = 0 BY Parts DEF Control, Writing
  <2>2. op[u].idx \in Word /\ Begin(u) \in Nat BY Parts, Fixed
  <2>3. u \notin {"empty", "data", "both"} BY TokenAssumption
  <2> QED BY <2>1, <2>2, <2>3
<1>3. Skip <= Begin(u) /\ Begin(u) < Turn BY <1>1, Parts DEF Pull
<1>4. Acquired(u) /\ Member(u) BY <1>1, Members
<1>5. op[u].block \in OnList /\ First(op[u].block) = Base(Begin(u))
  <2>1. op[u].block \in OnList /\ First(op[u].block) = Base(Begin(u) + op[u].written)
    BY Parts DEF Uses, Reading
  <2>2. Begin(u) + op[u].written = Begin(u) BY <1>2
  <2> QED BY <2>1, <2>2
<1>6. flags[op[u].block][IndexOf(op[u].idx)] = u BY Parts DEF Parks
<1>7. PICK b : b = op[u].block OBVIOUS
<1>8. PICK x \in Word : x = op[u].idx BY <1>2
<1>9. Pos(x) = Begin(u) BY <1>8 DEF Begin
<1>10. /\ CellOK(Pos(x), flags[b][IndexOf(x)], stored[b][IndexOf(x)])
       /\ IndexOf(x) \in Index /\ First(b) + IndexOf(x) = Pos(x)
       /\ b \in blocks /\ b \in Block
  <2>1. b \in OnList /\ First(b) = Base(Pos(x)) BY <1>5, <1>7, <1>9
  <2> QED BY <2>1, CellAt
<1>11. Takes(u, Begin(u)) /\ Suspended(u, Begin(u)) BY <1>1 DEF Takes, Suspended
<1> QED BY <1>1, <1>2, <1>3, <1>4, <1>5, <1>6, <1>7, <1>8, <1>9, <1>10, <1>11

\* A post that finds a consumer goes on to resume it.
LEMMA WakerToken ==
  ASSUME Running, NEW t \in Tokens, pc[t] = "write", NEW m, m = Begin(t) + op[t].written, Only({t}),
         UNCHANGED <<list, cutoff, counters, reclaim, setup>>, UNCHANGED offsets,
         pc'[t] = "wake", op'[t] = op[t], haz'[t] = haz[t],
         NEW f \in Tokens \ {t}, Suspended(f, m)
  PROVE  /\ Token(t)' /\ ~Reader(t)' /\ Begin(t)' = Begin(t) /\ Wakes(t, m)'
         /\ \A n \in Nat : Owns(t, n)' <=> m < n /\ n < Finish(t)
<1> HIDE DEF Running
<1>1. /\ op[t].name \in {"post", "post_bulk"} /\ Posting(t) /\ Sender(t) /\ Drawn(t) /\ lock # t
      /\ Acquired(t) /\ Member(t) /\ ~Reader(t) /\ m \in Nat
      /\ Begin(t) \in Nat /\ op[t].written \in Nat /\ op[t].count \in Nat
      /\ op[t].written < op[t].count /\ Finish(t) = Begin(t) + op[t].count
      /\ Begin(t) <= m /\ m < Finish(t) /\ Finish(t) <= Cut
      /\ op[t].name = "post" => op[t].count = 1
  BY Writes
<1>2. /\ op[t].block \in OnList /\ First(op[t].block) = Base(m)
      /\ First(ListHead) <= Base(Begin(t)) /\ Active(t) <= Base(Begin(t)) /\ Active(t) <= From(t)
      /\ Reaches(Finish(t) - 1)
  BY Writes
<1>7. /\ Calm({t}) /\ Resting /\ (\A places : At(places)' = At(places)) /\ rec' = rec /\ lock' = lock
      /\ OnList' = OnList /\ blocks' = blocks /\ (\A b : First(b)' = First(b))
      /\ (\A n : Reaches(n)' = Reaches(n)) /\ ListHead' = ListHead /\ First(ListHead)' = First(ListHead)
      /\ Sold' = Sold /\ Turn' = Turn /\ Cut' = Cut /\ closed' = closed
  <2>1. write_offset' = write_offset /\ read_offset' = read_offset /\ write_offset \in Word /\ read_offset \in Word
    BY Types DEF Running, offsets
  <2>2. Sold' = Sold /\ Turn' = Turn /\ Sold \in Nat /\ Turn \in Nat
    BY <2>1, Types DEF Sold, Turn, Running
  <2>3. write_offset' \in Word /\ read_offset' \in Word /\ Sold <= Sold' /\ Turn <= Turn'
        /\ {t} \in SUBSET Tokens /\ lock \notin {t}
    BY <1>1, <2>1, <2>2
  <2>4. /\ Calm({t}) /\ Resting /\ (\A places : At(places)' = At(places)) /\ rec' = rec /\ lock' = lock
        /\ OnList' = OnList /\ blocks' = blocks /\ (\A b : First(b)' = First(b))
        /\ (\A n : Reaches(n)' = Reaches(n)) /\ ListHead' = ListHead /\ First(ListHead)' = First(ListHead)
        /\ closed' = closed /\ (Sold' = Sold => Cut' = Cut)
    BY <2>3, Alongside
  <2> QED BY <2>2, <2>4
<1>8. /\ Begin(t)' = Begin(t) /\ Finish(t)' = Finish(t) /\ Active(t)' = Active(t)
      /\ Posting(t)' /\ Field(t)' = Field(t)
  BY <1>1 DEF Begin, Finish, Active, Posting, Field
<1>9. /\ ~Reader(t)' /\ ~Unaware(t)' /\ Ahead(t)' = m + 1 /\ Drawn(t)' /\ Sender(t)'
  <2>1. Ahead(t)' = m + 1 BY <1>1, <1>8 DEF Ahead
  <2> QED
    BY <1>1, <1>8, <2>1 DEF Sender, Reader, Drawn, Unaware, Reclaimer, Walking, Polling, Writing, Reading, Reclaiming,
     Scanning, Visiting, Announcing, Moves, Posting, Calling
<1>10. Control(t)'
  BY <1>1, <1>7, <1>8, Parts DEF Control, Named, Calling, Acquiring, Polling, Closing, Reclaiming, Writing, Posting,
     Scanning, Visiting, Announcing, Moves, Sweeping, Walking, Reading
<1>11. Closer(t)' /\ Acquires(t)' BY DEF Closer, Acquires, Sweeping
<1>12. Post(t)' BY <1>1, <1>7, <1>8, Parts DEF Post
<1>13. Pull(t)' /\ Sought(t)' BY <1>1, <1>8, <1>9 DEF Pull, Sought
<1>14. Has(t)' BY <1>1, <1>7, HasStays DEF Keeps
<1>15. Uses(t)'
  <3>2. Active(t)' <= From(t)' /\ First(ListHead)' <= Base(Begin(t)') /\ Active(t)' <= Base(Begin(t)')
    <4>1. PICK y : y = haz[t][Field(t)] OBVIOUS
    <4>2. haz'[t][Field(t)'] = y /\ First(y)' = First(y) BY <1>7, <1>8, <4>1
    <4> QED BY <1>2, <1>7, <1>8, <4>1, <4>2 DEF From
  <3>3. PICK b : b = op[t].block OBVIOUS
  <3>4. op'[t].block = b /\ First(op[t].block)' = Base(m) /\ b \in OnList'
    <4>1. op'[t].block = b /\ First(b)' = First(b) BY <1>7, <1>8, <3>3
    <4>2. First(op[t].block)' = First(b)' BY <4>1
    <4> QED BY <1>2, <1>7, <3>3, <4>1, <4>2
  <3>5. Begin(t)' + op'[t].written = m /\ op'[t].block \in OnList' BY <1>1, <1>8, <3>4
  <3>6. Reaches(Finish(t) - 1)' BY <1>2, <1>7, <1>8
  <3> QED BY <3>2, <3>4, <3>5, <3>6, UsesPlaced
<1>16. Met(t)'
  <2>1. Member(t)' /\ NobodyCame' => Member(t) /\ \A g \in Fields :
             \/ haz'[t][g] = haz[t][g]
             \/ Drawn(t) /\ haz'[t][g] \in blocks /\ Base(Begin(t)) <= First(haz'[t][g])
    BY <1>1
  <2>2. Drawn(t)' => Drawn(t) /\ Begin(t)' \in Nat /\ Begin(t) <= Begin(t)' BY <1>1, <1>8
  <2>3. pc'[t] \in Walking =>
             /\ haz'[t] = haz[t] /\ Field(t)' = Field(t)
             /\ (pc[t] \in Walking /\ Search(t)' = Search(t)) \/ Search(t)' = From(t)'
    BY DEF Walking
  <2>4. At({"swap", "revalidate"}) /\ t = rec.at => Near(haz[t].active_offset)'
    BY Parts DEF Met, Near, Pos
  <2> QED BY <1>1, <1>7, <2>1, <2>2, <2>3, <2>4, MetStays
<1>17. \A n \in Nat : Owns(t, n)' <=> m < n /\ n < Finish(t) BY <1>1, <1>8, <1>9 DEF Owns
<1>18. Wakes(t, m)' BY <1>8 DEF Wakes
<1>19. Parks(t)'
  <2>1. pc'[f] = "parked" /\ Begin(f)' = m BY DEF Suspended, Only, Begin
  <2>2. pc'[f] = "parked" /\ Begin(f)' = Begin(t)' + op'[t].written BY <1>8, <2>1
  <2> QED BY <2>2 DEF Parks, Suspended
<1> QED BY <1>8, <1>9, <1>10, <1>11, <1>12, <1>13, <1>14, <1>15, <1>16, <1>17, <1>18, <1>19 DEF Token

\* The step of write_element() that constructs the value and exchanges the flag.
LEMMA WriteElementKeeps ==
  ASSUME Running, NEW t \in Tokens, WriteElement(t)
  PROVE  Running'
<1> HIDE DEF Running
<1>1. PICK b : b = op[t].block OBVIOUS
<1>2. PICK i : i = IndexOf(WriteAt(t)) OBVIOUS
<1>3. PICK f : f = flags[b][i] OBVIOUS
<1>4. PICK m : m = Begin(t) + op[t].written OBVIOUS
<1>5. PICK v : v = ValueAt(WriteAt(t)) OBVIOUS
<1>6. PICK g : g = IF f = "empty" THEN "data" ELSE f OBVIOUS
<1>7. PICK k : k = [op[t] EXCEPT !.written = @ + 1] OBVIOUS
<1>8. PICK p : p = AfterElement(t) OBVIOUS
<1>9. PICK q : q = IF f = "empty" THEN p ELSE "wake" OBVIOUS
<1>10. PICK c : c = IF f = "empty" THEN k ELSE op[t] OBVIOUS
<1>11. /\ pc[t] = "write" /\ UNCHANGED <<list, cutoff, counters, reclaim, setup>> /\ UNCHANGED offsets
       /\ haz' = haz /\ told' = told /\ under' = under
       /\ stored' = [stored EXCEPT ![b][i] = v] /\ pc' = [pc EXCEPT ![t] = q]
  BY <1>1, <1>2, <1>3, <1>5, <1>8, <1>9 DEF WriteElement, GoTo, clients
<1>12. flags' = [flags EXCEPT ![b][i] = g]
  <2>1. CASE f = "empty" BY <1>1, <1>2, <1>3, <1>6, <2>1 DEF WriteElement
  <2>2. CASE f # "empty"
    <3>1. flags' = flags /\ g = flags[b][i] BY <1>1, <1>2, <1>3, <1>6, <2>2 DEF WriteElement
    <3>2. flags = [flags EXCEPT ![b][i] = flags[b][i]] BY DEF Running, TypeOK
    <3> QED BY <3>1, <3>2
  <2> QED BY <2>1, <2>2
<1>13. op' = [op EXCEPT ![t] = c]
  <2>1. CASE f = "empty" BY <1>1, <1>2, <1>3, <1>7, <1>10, <2>1 DEF WriteElement
  <2>2. CASE f # "empty"
    <3>1. op' = op /\ c = op[t] BY <1>1, <1>2, <1>3, <1>10, <2>2 DEF WriteElement
    <3> QED BY <3>1, Unmoved
  <2> QED BY <2>1, <2>2
<1>14. /\ lock # t /\ m \in Nat /\ Skip <= Begin(t) /\ Begin(t) <= m /\ m < Finish(t) /\ Finish(t) <= Cut /\ m < Cut
       /\ op[t].written \in Nat /\ op[t].count \in Nat /\ op[t].written < op[t].count /\ op[t].count <= MaxTicket
       /\ b \in OnList /\ b \in blocks /\ b \in Block /\ First(b) = Base(m)
       /\ CellOK(m, f, stored[b][i]) /\ f \in Flag /\ i \in Index /\ First(b) + i = m /\ Begin(t) \in Nat
  <2>1. /\ lock # t /\ m \in Nat /\ Skip <= Begin(t) /\ Begin(t) <= m /\ m < Finish(t) /\ Finish(t) <= Cut /\ m < Cut
        /\ op[t].written \in Nat /\ op[t].count \in Nat /\ op[t].written < op[t].count /\ op[t].count <= MaxTicket
        /\ Begin(t) \in Nat
    BY <1>4, <1>11, Writes
  <2>2. /\ op[t].block \in OnList /\ op[t].block \in blocks /\ op[t].block \in Block /\ First(op[t].block) = Base(m)
        /\ CellOK(m, flags[op[t].block][IndexOf(WriteAt(t))], stored[op[t].block][IndexOf(WriteAt(t))])
        /\ flags[op[t].block][IndexOf(WriteAt(t))] \in Flag
        /\ IndexOf(WriteAt(t)) \in Index /\ First(op[t].block) + IndexOf(WriteAt(t)) = m
    BY <1>4, <1>11, Writes
  <2> QED BY <1>1, <1>2, <1>3, <2>1, <2>2
<1>15. /\ k \in CallType /\ k.name = op[t].name /\ k.idx = op[t].idx /\ k.count = op[t].count /\ k.block = op[t].block
       /\ k.written = op[t].written + 1 /\ k.seen = op[t].seen /\ c \in CallType
       /\ c.name = op[t].name /\ c.idx = op[t].idx /\ c.count = op[t].count /\ c.seen = op[t].seen
       /\ c.written <= c.count
  <2>1. op[t] \in CallType BY Parts
  <2>2. op[t].written + 1 \in 0 .. MaxTicket BY <1>14, Sizes
  <2>3. PICK x \in 0 .. MaxTicket : x = op[t].written + 1 BY <2>2
  <2>4. k = [op[t] EXCEPT !.written = x] BY <1>7, <2>3
  <2>5. k \in CallType BY <2>1, <2>4, Edited
  <2>6. k.name = op[t].name /\ k.idx = op[t].idx /\ k.count = op[t].count /\ k.block = op[t].block
        /\ k.written = x /\ k.seen = op[t].seen
    BY <2>1, <2>4 DEF CallType
  <2> QED BY <1>10, <1>14, <2>1, <2>3, <2>5, <2>6
<1>16. f = "empty" => q = p /\ c = k /\ g = "data" /\ p \in {"cross", "write", "release"}
  <2>1. p \in {"cross", "write", "release"} BY <1>4, <1>8, <1>11, AfterElementIs
  <2> QED BY <1>6, <1>9, <1>10, <2>1
<1>17. f # "empty" => q = "wake" /\ c = op[t] /\ g = f BY <1>6, <1>9, <1>10
<1>18. pc'[t] = q /\ op'[t] = c /\ haz'[t] = haz[t] /\ Only({t}) /\ q \in {"cross", "write", "wake", "release"}
       /\ pc' \in [Tokens -> Places] /\ op' \in [Tokens -> CallType] /\ haz' \in [Tokens -> HazType]
  <2>1. q \in {"cross", "write", "wake", "release"} BY <1>16, <1>17
  <2>2. q \in Places BY <2>1 DEF Places, Writing
  <2>3. PICK h \in HazType : h = haz[t] BY Unmoved
  <2>4. haz' = [haz EXCEPT ![t] = h] BY <1>11, <2>3, Unmoved
  <2> QED BY <1>11, <1>13, <1>15, <2>1, <2>2, <2>3, <2>4, Moved
<1>19. ~Done(m)
  <2>1. Sender(t) BY <1>11, <1>4, Writes
  <2>2. Ahead(t) = m BY <1>4, <1>11, <1>14 DEF Ahead
  <2>3. Owns(t, m) BY <1>14, <2>1, <2>2 DEF Owns
  <2> QED BY <2>3 DEF Done
<1>20. f # "empty" => f \in Tokens \ {t} /\ Suspended(f, m)
  <2>1. Skip <= m /\ Cut \in Nat /\ Skip \in Nat BY <1>14, OriginIs, Bounds
  <2>2. \/ f = "empty"
        \/ f \in Tokens /\ Suspended(f, m)
        \/ Cut <= m
    BY <1>14, <1>19, <2>1 DEF CellOK
  <2>3. ~(Cut <= m) BY <1>14, <2>1
  <2>4. ~Suspended(t, m) BY <1>11 DEF Suspended
  <2> QED BY <2>2, <2>3, <2>4
<1>21. /\ Token(t)' /\ Begin(t)' = Begin(t)
       /\ \A n \in Nat : Owns(t, n)' <=> m < n /\ n < Finish(t)
  <2>1. CASE f = "empty"
    <3>1. /\ p = AfterElement(t) /\ pc'[t] = p /\ op'[t] = k /\ {t} \in SUBSET Tokens /\ lock \notin {t} /\ t \in {t}
          /\ pc[t] \in {"write", "wake"}
      BY <1>8, <1>11, <1>14, <1>16, <1>18, <2>1
    <3>2. /\ k.name = op[t].name /\ k.idx = op[t].idx /\ k.count = op[t].count /\ k.block = op[t].block
          /\ k.written = op[t].written + 1
      BY <1>15
    <3>3. /\ Token(t)' /\ ~Reader(t)'
          /\ \A n \in Nat : /\ Owns(t, n)' <=> m < n /\ n < Finish(t)
                            /\ Owns(t, n) <=> n < Finish(t) /\ (m < n \/ (m = n /\ pc[t] = "write"))
          /\ Begin(t)' = Begin(t) /\ Finish(t)' = Finish(t) /\ p \in {"cross", "write", "release"}
      BY <1>4, <1>11, <1>15, <1>18, <3>1, <3>2, PosterToken
    <3> QED BY <3>3
  <2>2. CASE f # "empty"
    <3>1. f \in Tokens \ {t} /\ Suspended(f, m) /\ pc'[t] = "wake" /\ op'[t] = op[t]
      BY <1>17, <1>18, <1>20, <2>2
    <3> QED BY <1>4, <1>11, <1>18, <3>1, WakerToken
  <2> QED BY <2>1, <2>2
<1>22. /\ ~Done(m) /\ Done(m)' /\ (Turn <= m \/ Taken(m))
       /\ \A n \in Nat : n # m => Done(n)' = Done(n)
       /\ \A n \in Nat : Taken(n)' = Taken(n)
       /\ \A u \in Tokens, n \in Nat : /\ Takes(u, n)' = Takes(u, n) /\ Suspended(u, n)' = Suspended(u, n)
                                       /\ Swept(u, n)' = Swept(u, n) /\ ~Wakes(t, n) /\ ~Suspended(t, n)
       /\ Numbers' /\ Asking' /\ SendersApart' /\ ReadersApart' /\ Served'
       /\ Cut' = Cut /\ Turn' = Turn /\ closed' = closed
       /\ m - Skip + 1 \in Value /\ ValueAt(WriteAt(t)) = m - Skip + 1
  <2>1. op'[t].count = op[t].count /\ op'[t].name = op[t].name /\ pc'[t] \in {"cross", "write", "wake", "release"}
    BY <1>15, <1>18
  <2> QED BY <1>4, <1>11, <1>18, <1>21, <2>1, ElementDone
<1>23. v = m - Skip + 1 /\ v \in Value BY <1>5, <1>22
<1>24. g \in Flag /\ (f # "empty" => g = f) /\ (f = "empty" => g = "data")
  BY <1>14, <1>16, <1>17 DEF Flag
<1>25. /\ flags' \in [Block -> [Index -> Flag]] /\ stored' \in [Block -> [Index -> Value \cup {NoValue}]]
       /\ \A d \in Block : \A j \in Index : d # b \/ j # i =>
             flags'[d][j] = flags[d][j] /\ stored'[d][j] = stored[d][j]
       /\ flags'[b][i] = g /\ stored'[b][i] = v
       /\ \A d \in Block : d # b => flags'[d] = flags[d] /\ stored'[d] = stored[d]
  <2>1. flags \in [Block -> [Index -> Flag]] /\ stored \in [Block -> [Index -> Value \cup {NoValue}]]
    BY DEF Running, TypeOK
  <2>2. v \in Value \cup {NoValue} BY <1>23
  <2>3. flags' \in [Block -> [Index -> Flag]] /\ \A d \in Block : d # b => flags'[d] = flags[d]
    BY <1>12, <1>14, <1>24, <2>1
  <2>4. stored' \in [Block -> [Index -> Value \cup {NoValue}]] /\ \A d \in Block : d # b => stored'[d] = stored[d]
    BY <1>11, <1>14, <2>1, <2>2
  <2>5. flags'[b][i] = g /\ stored'[b][i] = v BY <1>11, <1>12, <1>14, <2>1
  <2>6. \A j \in Index : j # i => flags'[b][j] = flags[b][j] /\ stored'[b][j] = stored[b][j]
    BY <1>11, <1>12, <1>14, <2>1
  <2> QED BY <2>3, <2>4, <2>5, <2>6
<1>26. ASSUME NEW u \in Tokens \ {t}
       PROVE  Parks(u)'
  <2>1. ASSUME pc[u] = "parked"
        PROVE  /\ flags'[op[u].block][IndexOf(op[u].idx)] = u
               /\ Begin(u) = m => f = u
    <3>1. PICK d : d = op[u].block OBVIOUS
    <3>2. PICK j : j = IndexOf(op[u].idx) OBVIOUS
    <3>3. /\ d \in blocks /\ d \in Block /\ j \in Index /\ First(d) + j = Begin(u)
          /\ flags[d][j] = u /\ u \notin {"empty", "data", "both"}
      BY <2>1, <3>1, <3>2, ParkedIs
    <3>4. flags'[d][j] = u
      <4>1. CASE d = b /\ j = i BY <1>3, <1>24, <1>25, <3>3, <4>1
      <4>2. CASE d # b \/ j # i BY <1>25, <3>3, <4>2
      <4> QED BY <4>1, <4>2
    <3>5. Begin(u) = m => d = b /\ j = i
      <4>1. TypeOK /\ Linked BY DEF Running
      <4> QED BY <1>14, <3>3, <4>1, OneCell
    <3> QED BY <1>3, <3>1, <3>2, <3>3, <3>4, <3>5
  <2>2. ASSUME pc[u] = "parked", Done(Begin(u))'
        PROVE  Done(Begin(u)) \/ \E w \in Tokens : Wakes(w, Begin(u))'
    <3>1. PICK n \in Nat : n = Begin(u) BY Parts
    <3>2. Begin(u)' = n BY <1>18, <3>1, Same DEF Only
    <3>3. CASE n # m
      <4>1. Done(n)' = Done(n) BY <1>22, <3>3
      <4>2. (Done(Begin(u))' <=> Done(n)') /\ (Done(Begin(u)) <=> Done(n))
        BY <3>1, <3>2 DEF Done
      <4> QED BY <2>2, <4>1, <4>2
    <3>4. CASE n = m
      <4>1. f = u /\ f # "empty" BY <2>1, <2>2, <3>1, <3>4, ParkedIs
      <4>2. pc'[t] = "wake" /\ op'[t] = op[t] BY <1>17, <1>18, <4>1
      <4>3. Begin(t)' + op'[t].written = n BY <1>4, <1>21, <3>4, <4>2
      <4>4. Wakes(t, Begin(u))' BY <3>2, <4>2, <4>3 DEF Wakes
      <4> QED BY <4>4
    <3> QED BY <3>3, <3>4
  <2>3. \A w \in {t}, n \in Nat : (Wakes(w, n) => Wakes(w, n)') /\ (Suspended(w, n) => Suspended(w, n)')
    BY <1>22
  <2>4. {t} \in SUBSET Tokens OBVIOUS
  <2> QED BY <1>18, <2>1, <2>2, <2>3, <2>4, ParksBeside
<1>27. \A n \in Nat : \A d \in blocks, j \in Index : \A flag, value :
           First(d) + j = n /\ CellOK(n, flags[d][j], stored[d][j])
           /\ flag = flags'[d][j] /\ value = stored'[d][j] => CellOK(n, flag, value)'
  <2> SUFFICES ASSUME NEW n \in Nat, NEW d \in blocks, NEW j \in Index, NEW flag, NEW value,
                      First(d) + j = n, CellOK(n, flags[d][j], stored[d][j]),
                      flag = flags'[d][j], value = stored'[d][j]
               PROVE  CellOK(n, flag, value)'
    OBVIOUS
  <2>1. d \in Block /\ TypeOK /\ Linked BY Types DEF Running
  <2>2. CASE n = m
    <3>1. d = b /\ j = i BY <1>14, <2>1, <2>2, OneCell
    <3>2. flag = g /\ value = m - Skip + 1 BY <1>23, <1>25, <3>1
    <3>3. Done(m)' /\ (Turn' <= m \/ Taken(m)') BY <1>14, <1>22
    <3>4. g = "data" \/ (g \in Tokens /\ Takes(g, m)')
      <4>1. CASE f = "empty" BY <1>24, <4>1
      <4>2. CASE f # "empty"
        <5>1. g = f /\ f \in Tokens /\ Suspended(f, m) BY <1>20, <1>24, <4>2
        <5>2. Takes(f, m) BY <5>1, ParkedIs DEF Suspended
        <5> QED BY <1>14, <1>22, <5>1, <5>2
      <4> QED BY <4>1, <4>2
    <3> QED BY <2>2, <3>2, <3>3, <3>4 DEF CellOK
  <2>3. CASE n # m
    <3>1. d # b \/ j # i BY <1>14, <2>3
    <3>2. flag = flags[d][j] /\ value = stored[d][j] BY <1>25, <2>1, <3>1
    <3>3. CellOK(n, flag, value) BY <3>2
    <3>4. Done(n)' = Done(n) BY <1>22, <2>3
    <3>5. \A u \in Tokens : /\ Takes(u, n)' = Takes(u, n) /\ Suspended(u, n)' = Suspended(u, n)
                            /\ Swept(u, n)' = Swept(u, n)
      BY <1>22
    <3>6. (Turn <= n)' = (Turn <= n) /\ (n < Turn)' = (n < Turn)
           /\ (closed = "closed" /\ Cut <= n)' = (closed = "closed" /\ Cut <= n)
      BY <1>22
    <3> QED BY <3>3, <3>4, <3>5, <3>6, CellSame
  <2> QED BY <2>2, <2>3
<1>28. \A n \in Nat : (Done(n) => Done(n)') /\ (Done(n)' => Done(n) \/ Reaches(n))
  <2>1. Reaches(m)
    <3>1. m < First(b) + BlockSize
      <4>1. First(b) \in Nat /\ BlockSize \in Nat BY <1>14, Types, Sizes DEF Running
      <4> QED BY <1>14, <4>1 DEF Index
    <3> QED BY <1>14, <3>1 DEF Reaches
  <2> QED BY <1>22, <2>1
<1>29. /\ write_offset' \in Word /\ read_offset' \in Word /\ Sold <= Sold' /\ Turn <= Turn'
       /\ told' \in [Tokens -> BOOLEAN] /\ under' \in [Tokens -> Tokens \cup {Nobody}]
  <2>1. write_offset' = write_offset /\ read_offset' = read_offset /\ write_offset \in Word /\ read_offset \in Word
    BY <1>11, Types DEF Running, offsets
  <2>2. Sold' = Sold /\ Turn' = Turn /\ Sold \in Nat /\ Turn \in Nat
    BY <2>1, Types DEF Sold, Turn, Running
  <2>3. told' \in [Tokens -> BOOLEAN] /\ under' \in [Tokens -> Tokens \cup {Nobody}]
    BY <1>11 DEF Running, TypeOK
  <2> QED BY <2>1, <2>2, <2>3
<1>30. \A u \in {t} : op'[u].written <= op'[u].count /\ op'[u].seen <= reclaim_counter
  BY <1>15, <1>18, Parts
<1>31. \A d \in Block : d \notin OnList => flags'[d] = flags[d] /\ stored'[d] = stored[d]
  BY <1>14, <1>25
<1>32. \A u \in {t} : Token(u)' BY <1>21
<1>33. {t} \in SUBSET Tokens /\ lock \notin {t} BY <1>14
<1>34. Numbers' /\ Asking' /\ SendersApart' /\ ReadersApart' /\ Served' BY <1>22
<1> QED BY <1>11, <1>18, <1>25, <1>26, <1>27, <1>28, <1>29, <1>30, <1>31, <1>32, <1>33, <1>34, Deed

\* No ticket is drawn by two posts.
LEMMA SenderAlone ==
  ASSUME Running, NEW t \in Tokens, NEW u \in Tokens \ {t}, Sender(t), Sender(u), NEW m \in Nat,
         Begin(t) <= m, m < Finish(t)
  PROVE  ~(Begin(u) <= m /\ m < Finish(u)) /\ ~Owns(u, m)
<1> HIDE DEF Running
<1>1. op[u].count \in Nat /\ op[u].written \in Nat /\ Begin(u) \in Nat /\ Finish(u) = Begin(u) + op[u].count
  BY Parts
<1>2. op[t].count \in Nat /\ Begin(t) \in Nat /\ Finish(t) = Begin(t) + op[t].count BY Parts
<1>3. ASSUME Begin(u) <= m /\ m < Finish(u)
      PROVE  FALSE
  <2>1. op[u].count > 0 /\ op[t].count > 0 BY <1>1, <1>2, <1>3
  <2>2. Finish(t) <= Begin(u) \/ Finish(u) <= Begin(t) BY <2>1 DEF Running, SendersApart
  <2> QED BY <1>1, <1>2, <1>3, <2>2
<1>4. Owns(u, m) => Begin(u) <= m /\ m < Finish(u) BY <1>1 DEF Owns, Ahead
<1> QED BY <1>3, <1>4

\* The consumer that write_element() found in the flag.
LEMMA Resumed ==
  ASSUME Running, NEW t \in Tokens, pc[t] = "wake", NEW m, m = Begin(t) + op[t].written,
         NEW c, c = FlagAt(op[t].block, WriteAt(t))
  PROVE  /\ c \in Tokens \ {t} /\ pc[c] = "parked" /\ Begin(c) = m /\ Suspended(c, m) /\ Done(m)
         /\ \A u \in Tokens \ {t} : \A n \in Nat : Wakes(u, n) => n # m
         /\ \A u \in Tokens \ {c} : Reader(u) => Begin(u) # m
<1> HIDE DEF Running
<1>1. /\ m \in Nat /\ Skip <= Begin(t) /\ Begin(t) <= m /\ m < Finish(t) /\ Finish(t) <= Cut /\ m < Cut /\ Sender(t)
      /\ Begin(t) \in Nat /\ op[t].written \in Nat
  BY Writes
<1>2. PICK b : b = op[t].block OBVIOUS
<1>3. PICK i : i = IndexOf(WriteAt(t)) OBVIOUS
<1>4. b \in blocks /\ i \in Index /\ First(b) + i = m /\ c = flags[b][i]
  <2>1. op[t].block \in blocks /\ IndexOf(WriteAt(t)) \in Index /\ First(op[t].block) + IndexOf(WriteAt(t)) = m
    BY Writes
  <2> QED BY <1>2, <1>3, <2>1 DEF FlagAt
<1>5. PICK u \in Tokens : Suspended(u, m) BY Parts DEF Parks
<1>6. pc[u] = "parked" /\ Begin(u) = m BY <1>5 DEF Suspended
<1>7. c = u
  <2>1. PICK d : d = op[u].block OBVIOUS
  <2>2. PICK j : j = IndexOf(op[u].idx) OBVIOUS
  <2>3. d \in blocks /\ j \in Index /\ First(d) + j = m /\ flags[d][j] = u
    BY <1>6, <2>1, <2>2, ParkedIs
  <2>4. TypeOK /\ Linked BY DEF Running
  <2>5. d = b /\ j = i BY <1>4, <2>3, <2>4, OneCell
  <2> QED BY <1>4, <2>3, <2>5
<1>8. Done(m)
  <2>1. ~Owns(t, m) BY <1>1 DEF Owns, Ahead
  <2>2. \A w \in Tokens \ {t} : ~Owns(w, m)
    <3>1. \A w \in Tokens \ {t} : Sender(w) => ~Owns(w, m) BY <1>1, SenderAlone
    <3> QED BY <3>1 DEF Owns
  <2>3. Skip <= m BY <1>1, OriginIs
  <2> QED BY <1>1, <2>1, <2>2, <2>3 DEF Done
<1>9. \A w \in Tokens \ {t} : \A n \in Nat : Wakes(w, n) => n # m
  <2> SUFFICES ASSUME NEW w \in Tokens \ {t}, Wakes(w, m)
               PROVE  FALSE
    OBVIOUS
  <2>1. pc[w] = "wake" /\ m = Begin(w) + op[w].written BY DEF Wakes
  <2>2. Sender(w) /\ Begin(w) <= m /\ m < Finish(w) BY <2>1, Writes
  <2> QED BY <1>1, <2>2, SenderAlone
<1>10. \A w \in Tokens \ {c} : Reader(w) => Begin(w) # m
  <2>1. Reader(c) /\ Begin(c) = m /\ c \in Tokens BY <1>6, <1>7, ParkedIs
  <2> QED BY <2>1 DEF Running, ReadersApart
<1> QED BY <1>5, <1>6, <1>7, <1>8, <1>9, <1>10

\* The call of a consumer that has been resumed, or that found its value.
LEMMA HolderToken ==
  ASSUME Running, NEW c \in Tokens, pc[c] \in {"parked", "wait"}, Done(Begin(c)), Done(Begin(c))',
         NEW S \in SUBSET Tokens, Only(S), c \in S, lock \notin S,
         UNCHANGED <<list, cutoff, counters, reclaim, setup>>, UNCHANGED offsets,
         pc'[c] = "holding", op'[c] = op[c], haz'[c] = haz[c]
  PROVE  /\ Token(c)' /\ Begin(c)' = Begin(c) /\ Finish(c)' = Finish(c) /\ ~Sender(c)' /\ ~Sender(c)
         /\ \A n : /\ Takes(c, n)' = Takes(c, n) /\ ~Owns(c, n)' /\ ~Owns(c, n)
                   /\ ~Swept(c, n)' /\ ~Swept(c, n) /\ ~Wakes(c, n)' /\ ~Wakes(c, n) /\ ~Suspended(c, n)'
         /\ (Reader(c)' <=> Reader(c)) /\ op'[c].written <= op'[c].count /\ op'[c].seen <= reclaim_counter
<1> HIDE DEF Running
<1>1. op[c].name = "pull" /\ ~Posting(c) /\ Drawn(c) /\ Reader(c) /\ lock # c /\ op[c].written = 0
      /\ Control(c) /\ Begin(c) \in Nat /\ Acquired(c) /\ Member(c)
  <2>1. op[c].name = "pull" /\ lock # c /\ op[c].written = 0 /\ Control(c) /\ Begin(c) \in Nat
    BY Parts DEF Control, Named, Writing
  <2>2. ~Posting(c) /\ Drawn(c) /\ Reader(c) BY <2>1 DEF Posting, Drawn, Reading, Reader
  <2> QED BY <2>1, <2>2, Members
<1>2. /\ Calm(S) /\ Resting /\ (\A places : At(places)' = At(places)) /\ rec' = rec /\ lock' = lock
      /\ OnList' = OnList /\ blocks' = blocks /\ (\A b : First(b)' = First(b))
      /\ ListHead' = ListHead /\ First(ListHead)' = First(ListHead)
      /\ Sold' = Sold /\ Turn' = Turn /\ Cut' = Cut /\ closed' = closed
  <2>1. write_offset' = write_offset /\ read_offset' = read_offset /\ write_offset \in Word /\ read_offset \in Word
    BY Types DEF Running, offsets
  <2>2. Sold' = Sold /\ Turn' = Turn /\ Sold \in Nat /\ Turn \in Nat
    BY <2>1, Types DEF Sold, Turn, Running
  <2>3. write_offset' \in Word /\ read_offset' \in Word /\ Sold <= Sold' /\ Turn <= Turn'
    BY <2>1, <2>2
  <2>4. /\ Calm(S) /\ Resting /\ (\A places : At(places)' = At(places)) /\ rec' = rec /\ lock' = lock
        /\ OnList' = OnList /\ blocks' = blocks /\ (\A b : First(b)' = First(b))
        /\ ListHead' = ListHead /\ First(ListHead)' = First(ListHead)
        /\ closed' = closed /\ (Sold' = Sold => Cut' = Cut)
    BY <2>3, Alongside
  <2> QED BY <2>2, <2>4
<1>3. /\ Begin(c)' = Begin(c) /\ Finish(c)' = Finish(c) /\ Active(c)' = Active(c)
      /\ ~Posting(c)' /\ Field(c)' = Field(c)
  BY <1>1 DEF Begin, Finish, Active, Posting, Field
<1>4. Drawn(c)' /\ Reader(c)' /\ ~Unaware(c)' /\ ~Sender(c)' /\ ~Sender(c) /\ ~Reclaimer(c)'
  BY <1>1, <1>3 DEF Drawn, Reader, Unaware, Sender, Reading, Reclaimer, Reclaiming, Scanning, Visiting, Announcing,
     Moves, Posting
<1>5. Control(c)'
  BY <1>1, <1>2, <1>3 DEF Control, Named, Calling, Acquiring, Polling, Closing, Reclaiming, Writing, Posting,
     Scanning, Visiting, Announcing, Moves, Sweeping, Walking, Reading
<1>6. Closer(c)' /\ Acquires(c)' /\ Parks(c)' /\ Sought(c)' /\ Post(c)'
  BY <1>4 DEF Closer, Acquires, Parks, Sought, Post, Sweeping
<1>7. Pull(c)'
  <2>1. Skip <= Begin(c) /\ Begin(c) < Turn /\ Begin(c) <= Turn BY <1>1, Parts DEF Pull
  <2> QED BY <1>1, <1>2, <1>3, <2>1 DEF Pull
<1>8. Has(c)' BY <1>1, <1>2, HasStays DEF Keeps
<1>9. Uses(c)'
  <2>1. /\ op[c].block \in OnList /\ First(op[c].block) = Base(Begin(c) + op[c].written)
        /\ Active(c) <= From(c) /\ First(ListHead) <= Base(Begin(c)) /\ Active(c) <= Base(Begin(c))
    BY <1>1, Parts DEF Uses, Reading
  <2>2. Active(c)' <= From(c)' /\ First(ListHead)' <= Base(Begin(c)') /\ Active(c)' <= Base(Begin(c)')
    <3>1. PICK y : y = haz[c][Field(c)] OBVIOUS
    <3>2. haz'[c][Field(c)'] = y /\ First(y)' = First(y) BY <1>2, <1>3, <3>1
    <3> QED BY <1>2, <1>3, <2>1, <3>1, <3>2 DEF From
  <2>3. PICK b : b = op[c].block OBVIOUS
  <2>4. op'[c].block = b /\ First(op[c].block)' = Base(Begin(c)' + op'[c].written) /\ b \in OnList'
    <3>1. op'[c].block = b /\ First(b)' = First(b) BY <1>2, <2>3
    <3>2. First(op[c].block)' = First(b)' BY <3>1
    <3> QED BY <1>2, <1>3, <2>1, <2>3, <3>1, <3>2
  <2>5. pc'[c] \in {"write", "wake", "claim"} \cup Reading \cup Reclaiming BY DEF Reading
  <2> QED BY <2>2, <2>4, <2>5, UsesPlaced
<1>10. Met(c)'
  <2>1. Member(c)' /\ NobodyCame' => Member(c) /\ \A g \in Fields :
             \/ haz'[c][g] = haz[c][g]
             \/ Drawn(c) /\ haz'[c][g] \in blocks /\ Base(Begin(c)) <= First(haz'[c][g])
    BY <1>1
  <2>2. Drawn(c)' => Drawn(c) /\ Begin(c)' \in Nat /\ Begin(c) <= Begin(c)' BY <1>1, <1>3
  <2>3. pc'[c] \in Walking =>
             /\ haz'[c] = haz[c] /\ Field(c)' = Field(c)
             /\ (pc[c] \in Walking /\ Search(c)' = Search(c)) \/ Search(c)' = From(c)'
    BY DEF Walking
  <2>4. At({"swap", "revalidate"}) /\ c = rec.at => Near(haz[c].active_offset)'
    BY Parts DEF Met, Near, Pos
  <2> QED BY <1>1, <1>2, <2>1, <2>2, <2>3, <2>4, MetStays
<1>11. \A n : /\ Takes(c, n)' = Takes(c, n) /\ ~Owns(c, n)' /\ ~Owns(c, n)
              /\ ~Swept(c, n)' /\ ~Swept(c, n) /\ ~Wakes(c, n)' /\ ~Wakes(c, n) /\ ~Suspended(c, n)'
  BY <1>1, <1>3, <1>4 DEF Takes, Owns, Swept, Wakes, Suspended
<1> QED BY <1>1, <1>3, <1>4, <1>5, <1>6, <1>7, <1>8, <1>9, <1>10, <1>11, Parts DEF Token

\* The step of write_element() that resumes a suspended consumer.
LEMMA ResumeConsumerKeeps ==
  ASSUME Running, NEW t \in Tokens, ResumeConsumer(t)
  PROVE  Running'
<1> HIDE DEF Running
<1>1. PICK m : m = Begin(t) + op[t].written OBVIOUS
<1>2. PICK c : c = FlagAt(op[t].block, WriteAt(t)) OBVIOUS
<1>3. PICK k : k = [op[t] EXCEPT !.written = @ + 1] OBVIOUS
<1>4. PICK p : p = AfterElement(t) OBVIOUS
<1>5. PICK r : r = IF setup.inline THEN t ELSE Nobody OBVIOUS
<1>6. /\ pc[t] = "wake" /\ UNCHANGED <<list, cutoff, counters, reclaim, setup>> /\ UNCHANGED offsets
      /\ haz' = haz /\ told' = told /\ flags' = flags /\ stored' = stored
      /\ pc' = [pc EXCEPT ![c] = "holding", ![t] = p]
      /\ op' = [op EXCEPT ![t] = k] /\ under' = [under EXCEPT ![c] = r]
  BY <1>2, <1>3, <1>4, <1>5 DEF ResumeConsumer, Resume, queue, elements
<1>7. /\ c \in Tokens /\ c # t /\ pc[c] = "parked" /\ Begin(c) = m /\ Suspended(c, m) /\ Done(m)
      /\ \A u \in Tokens \ {t} : \A n \in Nat : Wakes(u, n) => n # m
      /\ \A u \in Tokens \ {c} : Reader(u) => Begin(u) # m
  <2>1. /\ c \in Tokens \ {t} /\ pc[c] = "parked" /\ Begin(c) = m /\ Suspended(c, m) /\ Done(m)
        /\ \A u \in Tokens \ {t} : \A n \in Nat : Wakes(u, n) => n # m
        /\ \A u \in Tokens \ {c} : Reader(u) => Begin(u) # m
    BY <1>1, <1>2, <1>6, Resumed
  <2> QED BY <2>1
<1>8. /\ lock # t /\ lock # c /\ m \in Nat /\ Begin(t) \in Nat /\ op[t].written \in Nat /\ op[t].count \in Nat
      /\ op[t].written < op[t].count /\ op[t].count <= MaxTicket /\ Sender(t) /\ ~Reader(t)
      /\ op[t].name \in {"post", "post_bulk"}
  <2>1. /\ lock # t /\ m \in Nat /\ Begin(t) \in Nat /\ op[t].written \in Nat /\ op[t].count \in Nat
        /\ op[t].written < op[t].count /\ op[t].count <= MaxTicket /\ Sender(t) /\ ~Reader(t)
        /\ op[t].name \in {"post", "post_bulk"}
    BY <1>1, <1>6, Writes
  <2> QED BY <1>7, <2>1, ParkedIs
<1>9. /\ k \in CallType /\ k.name = op[t].name /\ k.idx = op[t].idx /\ k.count = op[t].count /\ k.block = op[t].block
      /\ k.written = op[t].written + 1 /\ k.seen = op[t].seen
  <2>1. op[t] \in CallType BY Parts
  <2>2. op[t].written + 1 \in 0 .. MaxTicket BY <1>8, Sizes
  <2>3. PICK x \in 0 .. MaxTicket : x = op[t].written + 1 BY <2>2
  <2>4. k = [op[t] EXCEPT !.written = x] BY <1>3, <2>3
  <2>5. k \in CallType BY <2>1, <2>4, Edited
  <2>6. k.name = op[t].name /\ k.idx = op[t].idx /\ k.count = op[t].count /\ k.block = op[t].block
        /\ k.written = x /\ k.seen = op[t].seen
    BY <2>1, <2>4 DEF CallType
  <2> QED BY <2>3, <2>5, <2>6
<1>10. p \in {"cross", "write", "release"} BY <1>1, <1>4, <1>6, AfterElementIs
<1>11. PICK S : S = {t, c} OBVIOUS
<1>12. /\ pc'[t] = p /\ pc'[c] = "holding" /\ op'[t] = k /\ op'[c] = op[c] /\ haz'[t] = haz[t] /\ haz'[c] = haz[c]
       /\ Only(S) /\ S \in SUBSET Tokens /\ t \in S /\ c \in S /\ lock \notin S
       /\ pc' \in [Tokens -> Places] /\ op' \in [Tokens -> CallType] /\ haz' \in [Tokens -> HazType]
       /\ told' \in [Tokens -> BOOLEAN] /\ under' \in [Tokens -> Tokens \cup {Nobody}]
  <2>1. p \in Places /\ "holding" \in Places BY <1>10 DEF Places, Writing, Reading
  <2>2. pc \in [Tokens -> Places] /\ op \in [Tokens -> CallType] /\ haz \in [Tokens -> HazType]
        /\ told \in [Tokens -> BOOLEAN] /\ under \in [Tokens -> Tokens \cup {Nobody}]
    BY DEF Running, TypeOK
  <2>3. /\ pc'[t] = p /\ pc'[c] = "holding" /\ pc' \in [Tokens -> Places]
        /\ \A u \in Tokens : u # t /\ u # c => pc'[u] = pc[u]
    BY <1>6, <1>7, <2>1, <2>2
  <2>4. /\ op'[t] = k /\ op'[c] = op[c] /\ op' \in [Tokens -> CallType]
        /\ \A u \in Tokens : u # t => op'[u] = op[u]
    BY <1>6, <1>7, <1>9, <2>2
  <2>5. under' \in [Tokens -> Tokens \cup {Nobody}] BY <1>5, <1>6, <2>2
  <2> QED BY <1>6, <1>7, <1>8, <1>11, <2>2, <2>3, <2>4, <2>5 DEF Only
<1>13. /\ Token(t)' /\ ~Reader(t)'
       /\ \A n \in Nat : /\ Owns(t, n)' <=> m < n /\ n < Finish(t)
                         /\ Owns(t, n) <=> n < Finish(t) /\ (m < n \/ (m = n /\ pc[t] = "write"))
       /\ Begin(t)' = Begin(t) /\ Finish(t)' = Finish(t) /\ p \in {"cross", "write", "release"}
  <2>1. pc[t] \in {"write", "wake"} BY <1>6
  <2> QED BY <1>1, <1>4, <1>6, <1>9, <1>12, <2>1, PosterToken
<1>14. \A n \in Nat : Owns(t, n)' <=> Owns(t, n) BY <1>6, <1>13
<1>15. /\ Calm(S) /\ (\A places : At(places)' = At(places)) /\ lock' = lock
       /\ Sold' = Sold /\ Turn' = Turn /\ Cut' = Cut /\ closed' = closed /\ CutDrawn' = CutDrawn
       /\ write_offset' \in Word /\ read_offset' \in Word /\ Sold <= Sold' /\ Turn <= Turn'
       /\ Sold \in Nat /\ Turn \in Nat
  <2>1. write_offset' = write_offset /\ read_offset' = read_offset /\ write_offset \in Word /\ read_offset \in Word
    BY <1>6, Types DEF Running, offsets
  <2>2. Sold' = Sold /\ Turn' = Turn /\ Sold \in Nat /\ Turn \in Nat
    BY <2>1, Types DEF Sold, Turn, Running
  <2>3. write_offset' \in Word /\ read_offset' \in Word /\ Sold <= Sold' /\ Turn <= Turn'
    BY <2>1, <2>2
  <2>4. /\ Calm(S) /\ (\A places : At(places)' = At(places)) /\ lock' = lock
        /\ closed' = closed /\ (Sold' = Sold => Cut' = Cut) /\ CutDrawn' = CutDrawn
    BY <1>6, <1>12, <2>3, Alongside
  <2> QED BY <2>2, <2>3, <2>4
<1>16. \A u \in Tokens : u # t /\ u # c => u \in Tokens \ S BY <1>11
<1>17. /\ ~Owns(c, m)
       /\ \A n \in Nat : Owns(c, n)' <=> Owns(c, n)
  BY <1>7, ParkedIs, <1>12 DEF Owns, Sender, Writing, Walking
<1>18. \A n \in Nat : Done(n)' = Done(n)
  <2> SUFFICES ASSUME NEW n \in Nat
               PROVE  Done(n)' = Done(n)
    OBVIOUS
  <2>1. \A u \in Tokens : Owns(u, n)' <=> Owns(u, n)
    <3>1. \A u \in Tokens \ S : Owns(u, n)' <=> Owns(u, n) BY <1>12, Same DEF Only
    <3> QED BY <1>14, <1>16, <1>17, <3>1
  <2> QED BY <1>15, <2>1 DEF Done
<1>19. /\ Token(c)' /\ Begin(c)' = Begin(c) /\ Finish(c)' = Finish(c) /\ ~Sender(c)' /\ ~Sender(c)
       /\ \A n : /\ Takes(c, n)' = Takes(c, n) /\ ~Owns(c, n)' /\ ~Owns(c, n)
                 /\ ~Swept(c, n)' /\ ~Swept(c, n) /\ ~Wakes(c, n)' /\ ~Wakes(c, n) /\ ~Suspended(c, n)'
       /\ (Reader(c)' <=> Reader(c)) /\ op'[c].written <= op'[c].count /\ op'[c].seen <= reclaim_counter
  <2>1. Done(Begin(c)) /\ Done(Begin(c))'
    <3>1. Done(m) /\ Done(m)' BY <1>7, <1>8, <1>18
    <3>2. Begin(c)' = Begin(c) BY <1>12 DEF Begin
    <3>3. (Done(Begin(c)) <=> Done(m)) /\ (Done(Begin(c))' <=> Done(m)') BY <1>7, <3>2 DEF Done
    <3> QED BY <3>1, <3>3
  <2>2. pc[c] \in {"parked", "wait"} /\ c \in Tokens BY <1>7
  <2> QED BY <1>6, <1>12, <2>1, <2>2, HolderToken
<1>20. \A u \in Tokens, n \in Nat : /\ Takes(u, n)' <=> Takes(u, n)
                                    /\ n # m => (Suspended(u, n)' <=> Suspended(u, n))
                                    /\ Swept(u, n)' <=> Swept(u, n)
  <2> SUFFICES ASSUME NEW u \in Tokens, NEW n \in Nat
               PROVE  /\ Takes(u, n)' <=> Takes(u, n)
                      /\ n # m => (Suspended(u, n)' <=> Suspended(u, n))
                      /\ Swept(u, n)' <=> Swept(u, n)
    OBVIOUS
  <2>1. CASE u = t
    <3>1. ~Suspended(t, n) /\ ~Suspended(t, n)' BY <1>6, <1>10, <1>12 DEF Suspended
    <3>2. ~Swept(t, n) /\ ~Swept(t, n)' BY <1>8, <1>9, <1>12 DEF Swept
    <3> QED BY <1>8, <1>13, <2>1, <3>1, <3>2 DEF Takes
  <2>2. CASE u = c
    <3>1. n # m => ~Suspended(c, n) BY <1>7 DEF Suspended
    <3> QED BY <1>19, <2>2, <3>1
  <2>3. CASE u # t /\ u # c
    <3>1. u \in Tokens \ S BY <1>16, <2>3
    <3> QED BY <1>12, <3>1, Same DEF Only
  <2> QED BY <2>1, <2>2, <2>3
<1>21. \A n \in Nat : Taken(n)' <=> Taken(n) BY <1>20 DEF Taken
<1>22. Numbers' /\ Asking'
  <2>1. Numbers' BY <1>6, <1>15 DEF Running, Numbers
  <2>2. \A u \in Tokens : pc'[u] \in BeforeDraw =>
             pc[u] \in BeforeDraw /\ op'[u].name = op[u].name /\ op'[u].count = op[u].count
    <3>1. pc'[t] \notin BeforeDraw /\ pc'[c] \notin BeforeDraw BY <1>10, <1>12 DEF BeforeDraw
    <3> QED BY <1>12, <1>16, <3>1 DEF Only
  <2>3. Asking BY DEF Running
  <2> QED BY <1>15, <2>1, <2>2, <2>3, AskingKeeps
<1>23. SendersApart' /\ ReadersApart' /\ Served'
  <2>1. \A u \in Tokens : /\ Sender(u)' => Sender(u)
                          /\ Begin(u)' = Begin(u) /\ Finish(u)' = Finish(u) /\ op'[u].count = op[u].count
                          /\ (Reader(u)' <=> Reader(u))
    <3>1. \A u \in Tokens \ S : /\ Sender(u)' = Sender(u) /\ Begin(u)' = Begin(u) /\ Finish(u)' = Finish(u)
                                /\ op'[u].count = op[u].count /\ Reader(u)' = Reader(u)
      BY <1>12, Same DEF Only
    <3>2. Sender(t) /\ Begin(t)' = Begin(t) /\ Finish(t)' = Finish(t) /\ op'[t].count = op[t].count
          /\ (Reader(t)' <=> Reader(t))
      BY <1>8, <1>9, <1>12, <1>13
    <3>3. ~Sender(c)' /\ Begin(c)' = Begin(c) /\ Finish(c)' = Finish(c) /\ op'[c].count = op[c].count
          /\ (Reader(c)' <=> Reader(c))
      BY <1>12, <1>19
    <3>4. ASSUME NEW u \in Tokens
          PROVE  /\ Sender(u)' => Sender(u)
                 /\ Begin(u)' = Begin(u) /\ Finish(u)' = Finish(u) /\ op'[u].count = op[u].count
                 /\ (Reader(u)' <=> Reader(u))
      <4>1. CASE u = t BY <3>2, <4>1
      <4>2. CASE u = c BY <3>3, <4>2
      <4>3. CASE u # t /\ u # c BY <1>16, <3>1, <4>3
      <4> QED BY <4>1, <4>2, <4>3
    <3> QED BY <3>4
  <2>2. SendersApart /\ ReadersApart /\ Served BY DEF Running
  <2>3. SendersApart' /\ ReadersApart' BY <2>1, <2>2 DEF SendersApart, ReadersApart
  <2>4. Served' BY <1>15, <1>18, <1>21, <2>2 DEF Served
  <2> QED BY <2>3, <2>4
<1>24. ASSUME NEW u \in Tokens \ S
       PROVE  Parks(u)'
  <2>1. u \in Tokens /\ u # t /\ u # c /\ pc'[u] = pc[u] /\ op'[u] = op[u] /\ Begin(u)' = Begin(u)
    BY <1>11, <1>12, Same DEF Only
  <2>2. PICK n \in Nat : n = Begin(u) + op[u].written BY Parts
  <2>3. PICK l \in Nat : l = Begin(u) BY Parts
  <2>4. ASSUME pc'[u] = "parked"
        PROVE  /\ flags'[op'[u].block][IndexOf(op'[u].idx)] = u
               /\ Done(Begin(u))' => \E w \in Tokens : pc'[w] = "wake" /\ Begin(w)' + op'[w].written = Begin(u)'
    <3>1. pc[u] = "parked" /\ flags[op[u].block][IndexOf(op[u].idx)] = u /\ Reader(u)
      BY <2>1, <2>4, ParkedIs
    <3>2. flags'[op'[u].block][IndexOf(op'[u].idx)] = u BY <1>6, <2>1, <3>1
    <3>3. l # m BY <1>7, <2>1, <2>3, <3>1
    <3>4. ASSUME Done(Begin(u))'
          PROVE  \E w \in Tokens : pc'[w] = "wake" /\ Begin(w)' + op'[w].written = Begin(u)'
      <4>1. Done(l)' BY <2>1, <2>3, <3>4 DEF Done
      <4>2. Done(l) BY <1>18, <4>1
      <4>3. Done(Begin(u)) BY <2>3, <4>2
      <4>4. PICK w \in Tokens : pc[w] = "wake" /\ Begin(w) + op[w].written = l
        BY <2>3, <3>1, <4>3, Parts DEF Parks
      <4>5. w # t /\ w # c BY <1>1, <1>7, <3>3, <4>4
      <4>6. pc'[w] = pc[w] /\ op'[w] = op[w] /\ Begin(w)' = Begin(w)
        BY <1>12, <1>16, <4>5, Same DEF Only
      <4> QED BY <2>1, <2>3, <4>4, <4>6
    <3> QED BY <3>2, <3>4
  <2>5. ASSUME pc'[u] = "wake"
        PROVE  \E v \in Tokens : pc'[v] = "parked" /\ Begin(v)' = Begin(u)' + op'[u].written
    <3>1. pc[u] = "wake" BY <2>1, <2>5
    <3>2. PICK v \in Tokens : pc[v] = "parked" /\ Begin(v) = n
      BY <2>2, <3>1, Parts DEF Parks, Suspended
    <3>3. n # m
      <4>1. Wakes(u, n) BY <2>2, <3>1 DEF Wakes
      <4> QED BY <1>7, <2>1, <4>1
    <3>4. v # t /\ v # c BY <1>6, <1>7, <3>2, <3>3
    <3>5. pc'[v] = pc[v] /\ Begin(v)' = Begin(v) BY <1>12, <1>16, <3>4, Same DEF Only
    <3> QED BY <2>1, <2>2, <3>2, <3>5
  <2> QED BY <2>4, <2>5 DEF Parks, Suspended
<1>25. \A n \in Nat : \A d \in blocks, j \in Index : \A flag, value :
           First(d) + j = n /\ CellOK(n, flags[d][j], stored[d][j])
           /\ flag = flags'[d][j] /\ value = stored'[d][j] => CellOK(n, flag, value)'
  <2> SUFFICES ASSUME NEW n \in Nat, NEW d \in blocks, NEW j \in Index, NEW flag, NEW value,
                      First(d) + j = n, CellOK(n, flags[d][j], stored[d][j]),
                      flag = flags'[d][j], value = stored'[d][j]
               PROVE  CellOK(n, flag, value)'
    OBVIOUS
  <2>1. CellOK(n, flag, value) BY <1>6
  <2>2. CASE n = m
    <3>1. Done(n) /\ Done(n)' BY <1>7, <1>18, <2>2
    <3>2. Turn' = Turn /\ (Taken(n)' <=> Taken(n)) /\ \A u \in Tokens : Takes(u, n)' <=> Takes(u, n)
      BY <1>15, <1>20, <1>21
    <3> QED BY <2>1, <3>1, <3>2 DEF CellOK
  <2>3. CASE n # m
    <3>1. Done(n)' = Done(n) BY <1>18
    <3>2. \A u \in Tokens : /\ Takes(u, n)' = Takes(u, n) /\ Suspended(u, n)' = Suspended(u, n)
                            /\ Swept(u, n)' = Swept(u, n)
      <4>1. \A u \in Tokens : /\ Takes(u, n)' <=> Takes(u, n)
                              /\ Suspended(u, n)' <=> Suspended(u, n)
                              /\ Swept(u, n)' <=> Swept(u, n)
        BY <1>20, <2>3
      <4>2. \A u \in Tokens : /\ Takes(u, n) \in BOOLEAN /\ Suspended(u, n) \in BOOLEAN /\ Swept(u, n) \in BOOLEAN
                              /\ Takes(u, n)' \in BOOLEAN /\ Suspended(u, n)' \in BOOLEAN /\ Swept(u, n)' \in BOOLEAN
        BY DEF Takes, Suspended, Swept
      <4> QED BY <4>1, <4>2
    <3>3. (Turn <= n)' = (Turn <= n) /\ (n < Turn)' = (n < Turn)
           /\ (closed = "closed" /\ Cut <= n)' = (closed = "closed" /\ Cut <= n)
      BY <1>15
    <3> QED BY <2>1, <3>1, <3>2, <3>3, CellSame
  <2> QED BY <2>2, <2>3
<1>26. \A n \in Nat : (Done(n) => Done(n)') /\ (Done(n)' => Done(n) \/ Reaches(n)) BY <1>18
<1>27. \A u \in S : op'[u].written <= op'[u].count /\ op'[u].seen <= reclaim_counter
  <2>1. op'[t].written <= op'[t].count /\ op'[t].seen <= reclaim_counter
    BY <1>8, <1>9, <1>12, Parts
  <2> QED BY <1>11, <1>19, <2>1
<1>28. \A u \in S : Token(u)' BY <1>11, <1>13, <1>19
<1>29. /\ flags' \in [Block -> [Index -> Flag]] /\ stored' \in [Block -> [Index -> Value \cup {NoValue}]]
       /\ \A d \in Block : d \notin OnList => flags'[d] = flags[d] /\ stored'[d] = stored[d]
  BY <1>6 DEF Running, TypeOK
<1> QED BY <1>6, <1>12, <1>15, <1>22, <1>23, <1>24, <1>25, <1>26, <1>27, <1>28, <1>29, Deed

\* What a consumer does to the element of its index.
LEMMA ReaderActs ==
  ASSUME Running, NEW t \in Tokens, Only({t}), lock # t,
         UNCHANGED <<list, cutoff, counters, reclaim, setup>>, UNCHANGED offsets,
         pc' \in [Tokens -> Places], op' \in [Tokens -> CallType], haz' \in [Tokens -> HazType],
         told' \in [Tokens -> BOOLEAN], under' \in [Tokens -> Tokens \cup {Nobody}],
         \A u \in Tokens : told'[u] => told[u],
         op'[t].written <= op'[t].count, op'[t].seen <= reclaim_counter,
         Reader(t), NEW m \in Nat, Begin(t) = m, Begin(t)' = m, ~Sender(t), ~Sender(t)',
         op[t].name # "close", op'[t].name # "close", pc[t] \notin {"parked", "wake"},
         pc'[t] # "wake", pc'[t] \notin BeforeDraw,
         NEW b \in OnList, NEW i \in Index, First(b) + i = m, NEW g \in Flag, NEW v \in Value \cup {NoValue},
         flags' = [flags EXCEPT ![b][i] = g], stored' = [stored EXCEPT ![b][i] = v],
         flags[b][i] \in Tokens => g = flags[b][i],
         CellOK(m, g, v)', Reader(t)' \/ Done(m) \/ (closed = "closed" /\ Cut <= m), Token(t)'
  PROVE  Running'
<1> HIDE DEF Running
<1>1. {t} \in SUBSET Tokens /\ lock \notin {t} OBVIOUS
<1>2. /\ Calm({t}) /\ (\A places : At(places)' = At(places)) /\ lock' = lock
      /\ Sold' = Sold /\ Turn' = Turn /\ Cut' = Cut /\ closed' = closed /\ CutDrawn' = CutDrawn
      /\ write_offset' \in Word /\ read_offset' \in Word /\ Sold <= Sold' /\ Turn <= Turn'
      /\ Sold \in Nat /\ Turn \in Nat
  <2>1. write_offset' = write_offset /\ read_offset' = read_offset /\ write_offset \in Word /\ read_offset \in Word
    BY Types DEF Running, offsets
  <2>2. Sold' = Sold /\ Turn' = Turn /\ Sold \in Nat /\ Turn \in Nat
    BY <2>1, Types DEF Sold, Turn, Running
  <2>3. write_offset' \in Word /\ read_offset' \in Word /\ Sold <= Sold' /\ Turn <= Turn'
    BY <2>1, <2>2
  <2>4. /\ Calm({t}) /\ (\A places : At(places)' = At(places)) /\ lock' = lock
        /\ closed' = closed /\ (Sold' = Sold => Cut' = Cut) /\ CutDrawn' = CutDrawn
    BY <1>1, <2>3, Alongside
  <2> QED BY <2>2, <2>3, <2>4
<1>3. b \in blocks /\ b \in Block /\ TypeOK /\ Linked BY Types DEF Running
<1>4. \A n : ~Wakes(t, n) /\ ~Wakes(t, n)' /\ ~Suspended(t, n) /\ ~Owns(t, n) /\ ~Owns(t, n)'
             /\ ~Swept(t, n) /\ ~Swept(t, n)'
  BY DEF Wakes, Suspended, Owns, Swept
<1>5. \A n : n # m => ~Takes(t, n) /\ ~Takes(t, n)' /\ ~Suspended(t, n)' BY DEF Takes, Suspended
<1>6. \A n \in Nat : Done(n)' = Done(n)
  <2> SUFFICES ASSUME NEW n \in Nat
               PROVE  Done(n)' = Done(n)
    OBVIOUS
  <2>1. \A u \in Tokens : Owns(u, n)' <=> Owns(u, n) BY <1>4, Same DEF Only
  <2> QED BY <1>2, <2>1 DEF Done
<1>7. \A n \in Nat : n # m =>
          \A u \in Tokens : /\ Takes(u, n)' = Takes(u, n) /\ Suspended(u, n)' = Suspended(u, n)
                            /\ Swept(u, n)' = Swept(u, n)
  <2> SUFFICES ASSUME NEW n \in Nat, n # m, NEW u \in Tokens
               PROVE  /\ Takes(u, n)' = Takes(u, n) /\ Suspended(u, n)' = Suspended(u, n)
                      /\ Swept(u, n)' = Swept(u, n)
    OBVIOUS
  <2>1. CASE u = t BY <1>4, <1>5, <2>1 DEF Takes, Suspended, Swept
  <2>2. CASE u # t BY <2>2, Same DEF Only
  <2> QED BY <2>1, <2>2
<1>8. \A n \in Nat : n # m => (Taken(n)' <=> Taken(n)) BY <1>7 DEF Taken
<1>9. /\ flags' \in [Block -> [Index -> Flag]] /\ stored' \in [Block -> [Index -> Value \cup {NoValue}]]
      /\ \A d \in Block : \A j \in Index : d # b \/ j # i =>
            flags'[d][j] = flags[d][j] /\ stored'[d][j] = stored[d][j]
      /\ flags'[b][i] = g /\ stored'[b][i] = v
      /\ \A d \in Block : d # b => flags'[d] = flags[d] /\ stored'[d] = stored[d]
  <2>1. flags \in [Block -> [Index -> Flag]] /\ stored \in [Block -> [Index -> Value \cup {NoValue}]]
    BY DEF Running, TypeOK
  <2>3. flags' \in [Block -> [Index -> Flag]] /\ \A d \in Block : d # b => flags'[d] = flags[d]
    BY <1>3, <2>1
  <2>4. stored' \in [Block -> [Index -> Value \cup {NoValue}]] /\ \A d \in Block : d # b => stored'[d] = stored[d]
    BY <1>3, <2>1
  <2>5. flags'[b][i] = g /\ stored'[b][i] = v BY <1>3, <2>1
  <2>6. \A j \in Index : j # i => flags'[b][j] = flags[b][j] /\ stored'[b][j] = stored[b][j]
    BY <1>3, <2>1
  <2> QED BY <2>3, <2>4, <2>5, <2>6
<1>10. ASSUME NEW u \in Tokens \ {t}
       PROVE  Parks(u)'
  <2>1. ASSUME pc[u] = "parked"
        PROVE  flags'[op[u].block][IndexOf(op[u].idx)] = u
    <3>1. PICK d : d = op[u].block OBVIOUS
    <3>2. PICK j : j = IndexOf(op[u].idx) OBVIOUS
    <3>3. d \in Block /\ j \in Index /\ flags[d][j] = u BY <2>1, <3>1, <3>2, ParkedIs
    <3>4. flags'[d][j] = u
      <4>1. CASE d = b /\ j = i BY <1>9, <3>3, <4>1
      <4>2. CASE d # b \/ j # i BY <1>9, <3>3, <4>2
      <4> QED BY <4>1, <4>2
    <3> QED BY <3>1, <3>2, <3>4
  <2>2. Done(Begin(u))' => Done(Begin(u))
    <3>1. PICK n \in Nat : n = Begin(u) BY Parts
    <3>2. Begin(u)' = n BY <3>1, Same DEF Only
    <3>3. Done(n)' => Done(n) BY <1>6
    <3>4. (Done(Begin(u))' <=> Done(n)') /\ (Done(Begin(u)) <=> Done(n)) BY <3>1, <3>2 DEF Done
    <3> QED BY <3>3, <3>4
  <2>3. \A w \in {t}, n \in Nat : (Wakes(w, n) => Wakes(w, n)') /\ (Suspended(w, n) => Suspended(w, n)')
    BY <1>4
  <2> QED BY <1>1, <2>1, <2>2, <2>3, ParksBeside
<1>11. Numbers' /\ Asking'
  <2>1. Numbers' BY <1>2 DEF Running, Numbers
  <2>2. \A u \in Tokens : pc'[u] \in BeforeDraw =>
             pc[u] \in BeforeDraw /\ op'[u].name = op[u].name /\ op'[u].count = op[u].count
    BY DEF Only
  <2>3. Asking BY DEF Running
  <2> QED BY <1>2, <2>1, <2>2, <2>3, AskingKeeps
<1>12. SendersApart' /\ ReadersApart' /\ Served'
  <2>1. \A u \in Tokens \ {t} : /\ Sender(u)' = Sender(u) /\ Begin(u)' = Begin(u) /\ Finish(u)' = Finish(u)
                                /\ op'[u].count = op[u].count /\ Reader(u)' = Reader(u)
    BY Same DEF Only
  <2>2. SendersApart /\ ReadersApart /\ Served BY DEF Running
  <2>3. SendersApart' BY <2>1, <2>2 DEF SendersApart
  <2>4. ReadersApart' BY <2>1, <2>2 DEF ReadersApart
  <2>5. Served'
    <3> SUFFICES ASSUME NEW n \in Nat, Skip <= n, n < Turn'
                 PROVE  Taken(n)' \/ Done(n)' \/ (closed' = "closed" /\ Cut' <= n)
      BY DEF Served
    <3>1. Taken(n) \/ Done(n) \/ (closed = "closed" /\ Cut <= n) BY <1>2, <2>2 DEF Served
    <3>2. CASE n # m BY <1>2, <1>6, <1>8, <3>1, <3>2
    <3>3. CASE n = m
      <4>1. Reader(t)' => Taken(m)' BY DEF Taken, Takes
      <4> QED BY <1>2, <1>6, <3>3, <4>1
    <3> QED BY <3>2, <3>3
  <2> QED BY <2>3, <2>4, <2>5
<1>13. \A n \in Nat : \A d \in blocks, j \in Index : \A flag, value :
           First(d) + j = n /\ CellOK(n, flags[d][j], stored[d][j])
           /\ flag = flags'[d][j] /\ value = stored'[d][j] => CellOK(n, flag, value)'
  <2> SUFFICES ASSUME NEW n \in Nat, NEW d \in blocks, NEW j \in Index, NEW flag, NEW value,
                      First(d) + j = n, CellOK(n, flags[d][j], stored[d][j]),
                      flag = flags'[d][j], value = stored'[d][j]
               PROVE  CellOK(n, flag, value)'
    OBVIOUS
  <2>1. d \in Block BY Types DEF Running
  <2>2. CASE n = m
    <3>1. d = b /\ j = i BY <1>3, <2>2, OneCell
    <3>2. flag = g /\ value = v BY <1>9, <3>1
    <3> QED BY <2>2, <3>2
  <2>3. CASE n # m
    <3>1. d # b \/ j # i BY <2>3
    <3>2. flag = flags[d][j] /\ value = stored[d][j] BY <1>9, <2>1, <3>1
    <3>3. CellOK(n, flag, value) BY <3>2
    <3>4. Done(n)' = Done(n) BY <1>6
    <3>5. \A u \in Tokens : /\ Takes(u, n)' = Takes(u, n) /\ Suspended(u, n)' = Suspended(u, n)
                            /\ Swept(u, n)' = Swept(u, n)
      BY <1>7, <2>3
    <3>6. (Turn <= n)' = (Turn <= n) /\ (n < Turn)' = (n < Turn)
           /\ (closed = "closed" /\ Cut <= n)' = (closed = "closed" /\ Cut <= n)
      BY <1>2
    <3> QED BY <3>3, <3>4, <3>5, <3>6, CellSame
  <2> QED BY <2>2, <2>3
<1>14. \A n \in Nat : (Done(n) => Done(n)') /\ (Done(n)' => Done(n) \/ Reaches(n)) BY <1>6
<1>15. /\ \A u \in {t} : op'[u].written <= op'[u].count /\ op'[u].seen <= reclaim_counter
       /\ \A d \in Block : d \notin OnList => flags'[d] = flags[d] /\ stored'[d] = stored[d]
       /\ \A u \in {t} : Token(u)'
  BY <1>9
<1> QED BY <1>1, <1>2, <1>9, <1>10, <1>11, <1>12, <1>13, <1>14, <1>15, Deed

\* A consumer at its element.
LEMMA ReaderPlaced ==
  ASSUME Running, NEW t \in Tokens, pc[t] \in {"wait", "holding"}
  PROVE  /\ op[t].name \in {"pull", "try_pull"} /\ (pc[t] = "wait" => op[t].name = "pull")
         /\ Reader(t) /\ Drawn(t) /\ ~Posting(t) /\ ~Sender(t) /\ lock # t /\ op[t].written = 0
         /\ Acquired(t) /\ Member(t) /\ Begin(t) \in Nat /\ Skip <= Begin(t) /\ Begin(t) < Turn
         /\ op[t].block \in OnList /\ op[t].block \in blocks /\ op[t].block \in Block
         /\ First(op[t].block) = Base(Begin(t) + op[t].written)
         /\ First(op[t].block) + IndexOf(op[t].idx) = Begin(t) /\ IndexOf(op[t].idx) \in Index
         /\ CellOK(Begin(t), flags[op[t].block][IndexOf(op[t].idx)], stored[op[t].block][IndexOf(op[t].idx)])
         /\ flags[op[t].block][IndexOf(op[t].idx)] \in Flag
         /\ Active(t) <= From(t) /\ First(ListHead) <= Base(Begin(t)) /\ Active(t) <= Base(Begin(t))
         /\ (pc[t] = "holding" => Done(Begin(t)))
<1> HIDE DEF Running
<1>1. op[t].name \in {"pull", "try_pull"} /\ (pc[t] = "wait" => op[t].name = "pull") /\ lock # t
  BY Parts DEF Control, Named, Reclaiming, Closing, Scanning, Visiting, Announcing, Moves, Sweeping
<1>2. Reader(t) /\ Drawn(t) /\ ~Posting(t) /\ ~Sender(t)
  BY <1>1 DEF Reader, Drawn, Reading, Posting, Sender
<1>3. op[t].written = 0 /\ op[t].idx \in Word /\ Begin(t) \in Nat
  <2>1. op[t].written = 0 BY Parts DEF Control, Writing
  <2> QED BY <2>1, Parts, Fixed
<1>4. Skip <= Begin(t) /\ Begin(t) < Turn /\ (pc[t] = "holding" => Done(Begin(t)))
  BY <1>1, <1>2, Parts DEF Pull
<1>5. Acquired(t) /\ Member(t) BY <1>2, Members
<1>6. op[t].block \in OnList /\ First(op[t].block) = Base(Begin(t) + op[t].written)
      /\ Active(t) <= From(t) /\ First(ListHead) <= Base(Begin(t)) /\ Active(t) <= Base(Begin(t))
  BY <1>2, Parts DEF Uses, Reading
<1>7. PICK b : b = op[t].block OBVIOUS
<1>8. PICK x \in Word : x = op[t].idx BY <1>3
<1>9. Pos(x) = Begin(t) /\ Begin(t) + op[t].written = Begin(t) BY <1>3, <1>8 DEF Begin
<1>10. /\ CellOK(Pos(x), flags[b][IndexOf(x)], stored[b][IndexOf(x)])
       /\ flags[b][IndexOf(x)] \in Flag
       /\ IndexOf(x) \in Index /\ First(b) + IndexOf(x) = Pos(x)
       /\ b \in blocks /\ b \in Block
  <2>1. b \in OnList /\ First(b) = Base(Pos(x)) BY <1>6, <1>7, <1>9
  <2> QED BY <2>1, CellAt
<1> QED BY <1>1, <1>2, <1>3, <1>4, <1>5, <1>6, <1>7, <1>8, <1>9, <1>10

\* The call of a consumer that is done with its element.
LEMMA ReaderLeaves ==
  ASSUME Running, NEW t \in Tokens, pc[t] \in {"holding", "seek"}, op[t].name \in {"pull", "try_pull"},
         Only({t}), lock # t,
         UNCHANGED <<list, cutoff, counters, reclaim, setup>>, UNCHANGED offsets,
         pc'[t] = "release", op'[t] = op[t], haz'[t] = haz[t]
  PROVE  Token(t)' /\ Begin(t)' = Begin(t) /\ ~Sender(t)' /\ ~Reader(t)'
<1> HIDE DEF Running
<1>1. Drawn(t) /\ Member(t) /\ Acquired(t) /\ ~Posting(t) /\ op[t].written = 0 /\ op[t].count = 0
      /\ Finish(t) <= Top /\ Begin(t) \in Nat
  <2>1. Drawn(t) BY DEF Drawn, Walking, Reading
  <2>2. ~Posting(t) /\ op[t].written = 0 /\ op[t].count = 0
    BY Parts DEF Control, Posting, Writing
  <2> QED BY <2>1, <2>2, Members, InUse
<1>2. /\ Calm({t}) /\ Resting /\ (\A places : At(places)' = At(places)) /\ rec' = rec /\ lock' = lock
  <2>1. write_offset' = write_offset /\ read_offset' = read_offset /\ write_offset \in Word /\ read_offset \in Word
    BY Types DEF Running, offsets
  <2>2. Sold' = Sold /\ Turn' = Turn /\ Sold \in Nat /\ Turn \in Nat
    BY <2>1, Types DEF Sold, Turn, Running
  <2>3. write_offset' \in Word /\ read_offset' \in Word /\ Sold <= Sold' /\ Turn <= Turn'
        /\ {t} \in SUBSET Tokens /\ lock \notin {t}
    BY <2>1, <2>2
  <2> QED BY <2>3, Alongside
<1>3. /\ Begin(t)' = Begin(t) /\ Finish(t)' = Finish(t) /\ ~Posting(t)'
  BY <1>1 DEF Begin, Finish, Posting
<1>4. pc'[t] \in Outer /\ pc'[t] \notin {"publish", "draw", "load_head", "init", "count", "recheck"}
  BY DEF Outer
<1>5. ~Sender(t)' /\ ~Drawn(t)' /\ ~Reader(t)' BY <1>4, Outside
<1>6. Post(t)' /\ Pull(t)' /\ Sought(t)' /\ Parks(t)' /\ Closer(t)' /\ Uses(t)' /\ Acquires(t)'
  BY <1>4, OuterToken
<1>7. Control(t)'
  BY <1>1, <1>2, <1>3, Parts DEF Control, Named, Calling, Acquiring, Polling, Closing, Reclaiming, Writing, Posting,
     Scanning, Visiting, Announcing, Moves, Sweeping, Walking, Reading
<1>8. Has(t)' BY <1>1, <1>2, HasStays DEF Keeps
<1>9. Met(t)'
  <2>1. Member(t)' /\ NobodyCame' => Member(t) /\ \A g \in Fields :
             \/ haz'[t][g] = haz[t][g]
             \/ Drawn(t) /\ haz'[t][g] \in blocks /\ Base(Begin(t)) <= First(haz'[t][g])
    BY <1>1
  <2>2. Drawn(t)' => Drawn(t) /\ Begin(t)' \in Nat /\ Begin(t) <= Begin(t)' BY <1>5
  <2>3. pc'[t] \in Walking =>
             /\ haz'[t] = haz[t] /\ Field(t)' = Field(t)
             /\ (pc[t] \in Walking /\ Search(t)' = Search(t)) \/ Search(t)' = From(t)'
    BY DEF Walking
  <2>4. At({"swap", "revalidate"}) /\ t = rec.at => Near(haz[t].active_offset)'
    BY Parts DEF Met, Near, Pos
  <2> QED BY <1>2, <2>1, <2>2, <2>3, <2>4, MetStays
<1> QED BY <1>3, <1>5, <1>6, <1>7, <1>8, <1>9 DEF Token

\* The consumer destroys its value.
LEMMA DestroyValueKeeps ==
  ASSUME Running, NEW t \in Tokens, DestroyValue(t)
  PROVE  Running'
<1> HIDE DEF Running
<1>1. PICK b : b = op[t].block OBVIOUS
<1>2. PICK i : i = IndexOf(op[t].idx) OBVIOUS
<1>3. PICK m : m = Begin(t) OBVIOUS
<1>4. PICK g : g = flags[b][i] OBVIOUS
<1>5. /\ pc[t] = "holding" /\ UNCHANGED <<list, cutoff, counters, reclaim, setup>> /\ UNCHANGED offsets
      /\ haz' = haz /\ op' = op /\ told' = told /\ under' = under /\ flags' = flags
      /\ stored' = [stored EXCEPT ![b][i] = NoValue] /\ pc' = [pc EXCEPT ![t] = "release"]
  BY <1>1, <1>2 DEF DestroyValue, GoTo, clients
<1>6. /\ op[t].name \in {"pull", "try_pull"} /\ Reader(t) /\ ~Sender(t) /\ lock # t
      /\ m \in Nat /\ Skip <= m /\ m < Turn /\ Done(m)
      /\ b \in OnList /\ b \in Block /\ First(b) + i = m /\ i \in Index
      /\ CellOK(m, g, stored[b][i]) /\ g \in Flag
  <2>1. /\ op[t].name \in {"pull", "try_pull"} /\ Reader(t) /\ ~Sender(t) /\ lock # t
        /\ Begin(t) \in Nat /\ Skip <= Begin(t) /\ Begin(t) < Turn /\ Done(Begin(t))
        /\ op[t].block \in OnList /\ op[t].block \in Block
        /\ First(op[t].block) + IndexOf(op[t].idx) = Begin(t) /\ IndexOf(op[t].idx) \in Index
        /\ CellOK(Begin(t), flags[op[t].block][IndexOf(op[t].idx)], stored[op[t].block][IndexOf(op[t].idx)])
        /\ flags[op[t].block][IndexOf(op[t].idx)] \in Flag
    BY <1>5, ReaderPlaced
  <2> QED BY <1>1, <1>2, <1>3, <1>4, <2>1
<1>7. /\ pc'[t] = "release" /\ op'[t] = op[t] /\ haz'[t] = haz[t] /\ Only({t})
      /\ pc' \in [Tokens -> Places] /\ op' \in [Tokens -> CallType] /\ haz' \in [Tokens -> HazType]
      /\ told' \in [Tokens -> BOOLEAN] /\ under' \in [Tokens -> Tokens \cup {Nobody}]
  <2>1. "release" \in Places BY DEF Places
  <2>2. pc \in [Tokens -> Places] /\ op \in [Tokens -> CallType] /\ haz \in [Tokens -> HazType]
        /\ told \in [Tokens -> BOOLEAN] /\ under \in [Tokens -> Tokens \cup {Nobody}]
    BY DEF Running, TypeOK
  <2> QED BY <1>5, <2>1, <2>2 DEF Only
<1>8. Token(t)' /\ Begin(t)' = Begin(t) /\ ~Sender(t)' /\ ~Reader(t)'
  <2>1. pc[t] \in {"holding", "seek"} BY <1>5
  <2> QED BY <1>5, <1>6, <1>7, <2>1, ReaderLeaves
<1>9. /\ Turn' = Turn /\ closed' = closed /\ Turn \in Nat
  <2>1. read_offset' = read_offset /\ Turn \in Nat BY <1>5, Types DEF Running, offsets
  <2> QED BY <1>5, <2>1 DEF Turn, Pos, cutoff
<1>10. flags' = [flags EXCEPT ![b][i] = g] BY <1>4, <1>5 DEF Running, TypeOK
<1>11. CellOK(m, g, NoValue)'
  <2>1. ~Taken(m)'
    <3>1. \A u \in Tokens \ {t} : Reader(u)' = Reader(u) /\ Begin(u)' = Begin(u)
      BY <1>7, Same DEF Only
    <3>2. \A u \in Tokens \ {t} : Reader(u) => Begin(u) # m
      BY <1>3, <1>6 DEF Running, ReadersApart
    <3> QED BY <1>8, <3>1, <3>2 DEF Taken, Takes
  <2>2. ~(Turn' <= m) BY <1>6, <1>9
  <2>3. g = "data" \/ g \in Tokens BY <1>6 DEF CellOK
  <2>4. Done(m)'
    <3>1. \A u \in Tokens : ~Owns(u, m)'
      <4>1. \A u \in Tokens \ {t} : ~Owns(u, m)' BY <1>6, <1>7, Same DEF Only, Done
      <4>2. ~Owns(t, m)' BY <1>8 DEF Owns
      <4> QED BY <4>1, <4>2
    <3>2. m < Cut'
      <4>1. m < Cut /\ UNCHANGED cutoff /\ write_offset' = write_offset
        BY <1>5, <1>6 DEF Done, offsets
      <4>3. Cut' = Cut
        <5>1. write_offset' \in Word /\ read_offset' \in Word /\ Sold' = Sold /\ Sold \in Nat
          BY <1>5, Types DEF Running, offsets, Sold, Pos
        <5>2. Sold <= Sold' /\ Turn <= Turn' /\ {t} \in SUBSET Tokens /\ lock \notin {t}
          BY <1>6, <1>9, <5>1
        <5>3. Sold' = Sold => Cut' = Cut BY <1>5, <1>7, <5>1, <5>2, Alongside
        <5> QED BY <5>1, <5>3
      <4> QED BY <4>1, <4>3
    <3> QED BY <1>6, <3>1, <3>2 DEF Done
  <2> QED BY <2>1, <2>2, <2>3, <2>4 DEF CellOK
<1>12. /\ op[t].name # "close" /\ op'[t].name # "close" /\ pc[t] \notin {"parked", "wake"}
       /\ pc'[t] # "wake" /\ pc'[t] \notin BeforeDraw
       /\ op'[t].written <= op'[t].count /\ op'[t].seen <= reclaim_counter
       /\ \A u \in Tokens : told'[u] => told[u]
       /\ NoValue \in Value \cup {NoValue}
       /\ Begin(t) = m /\ Begin(t)' = m
       /\ (flags[b][i] \in Tokens => g = flags[b][i])
       /\ (Reader(t)' \/ Done(m) \/ (closed = "closed" /\ Cut <= m))
  BY <1>3, <1>4, <1>5, <1>6, <1>7, <1>8, Parts DEF BeforeDraw
<1> QED BY <1>5, <1>6, <1>7, <1>8, <1>10, <1>11, <1>12, ReaderActs

\* The consumer past the cutoff tells close() not to wait for it.
LEMMA SetNotWaitingKeeps ==
  ASSUME Running, NEW t \in Tokens, SetNotWaiting(t)
  PROVE  Running'
<1> HIDE DEF Running
<1>1. PICK b : b = op[t].walk OBVIOUS
<1>2. PICK i : i = IndexOf(op[t].idx) OBVIOUS
<1>3. PICK m : m = Begin(t) OBVIOUS
<1>4. PICK v : v = stored[b][i] OBVIOUS
<1>5. /\ pc[t] = "seek" /\ UNCHANGED <<list, cutoff, counters, reclaim, setup>> /\ UNCHANGED offsets
      /\ op[t].name = "pull" /\ op[t].past /\ Found(t)
      /\ haz' = haz /\ op' = op /\ told' = told /\ under' = under /\ stored' = stored
      /\ flags' = [flags EXCEPT ![b][i] = "both"] /\ pc' = [pc EXCEPT ![t] = "release"]
  BY <1>1, <1>2 DEF SetNotWaiting, GoTo, clients
<1>6. /\ Reader(t) /\ ~Sender(t) /\ lock # t /\ m \in Nat /\ Skip <= m /\ m < Turn
      /\ closed = "closed" /\ Cut <= m /\ ~Done(m)
      /\ b \in OnList /\ b \in Block /\ First(b) + i = m /\ i \in Index
      /\ v = NoValue /\ flags[b][i] = "empty"
  <2>1. lock # t /\ Drawn(t) /\ Reader(t) /\ ~Sender(t)
    <3>1. lock # t
      BY <1>5, Parts DEF Control, Reclaiming, Closing, Scanning, Visiting, Announcing, Moves, Sweeping
    <3> QED BY <1>5, <3>1 DEF Drawn, Walking, Reader, Sender, Posting
  <2>2. m \in Nat /\ Skip <= m /\ m < Turn /\ closed = "closed" /\ Cut <= m
    BY <1>3, <1>5, <2>1, Parts DEF Pull
  <2>3. ~Done(m)
    <3>1. Cut \in Nat BY Bounds
    <3> QED BY <2>2, <3>1 DEF Done
  <2>4. op[t].walk \in OnList /\ First(op[t].walk) = Base(Begin(t)) BY <1>5, Placed
  <2>5. PICK x \in Word : x = op[t].idx BY Fixed
  <2>6. Pos(x) = m BY <1>3, <2>5 DEF Begin
  <2>7. /\ CellOK(Pos(x), flags[b][IndexOf(x)], stored[b][IndexOf(x)])
        /\ flags[b][IndexOf(x)] \in Flag
        /\ IndexOf(x) \in Index /\ First(b) + IndexOf(x) = Pos(x)
        /\ b \in blocks /\ b \in Block
    <3>1. b \in OnList /\ First(b) = Base(Pos(x)) BY <1>1, <1>3, <2>4, <2>6
    <3> QED BY <3>1, CellAt
  <2>8. PICK f \in Flag : f = flags[b][i] BY <1>2, <2>5, <2>7
  <2>9. CellOK(m, f, v) BY <1>2, <1>4, <2>5, <2>6, <2>7, <2>8
  <2>10. v = NoValue /\ (f = "empty" \/ (f = t /\ pc[t] = "parked"))
    <3>1. CellOK(Begin(t), f, v) /\ ~Done(Begin(t)) BY <1>3, <2>3, <2>9
    <3> QED BY <2>1, <3>1, ReaderFinds
  <2> QED BY <1>1, <1>2, <1>5, <2>1, <2>2, <2>3, <2>4, <2>5, <2>6, <2>7, <2>8, <2>10
<1>7. /\ pc'[t] = "release" /\ op'[t] = op[t] /\ haz'[t] = haz[t] /\ Only({t})
      /\ pc' \in [Tokens -> Places] /\ op' \in [Tokens -> CallType] /\ haz' \in [Tokens -> HazType]
      /\ told' \in [Tokens -> BOOLEAN] /\ under' \in [Tokens -> Tokens \cup {Nobody}]
  <2>1. "release" \in Places BY DEF Places
  <2>2. pc \in [Tokens -> Places] /\ op \in [Tokens -> CallType] /\ haz \in [Tokens -> HazType]
        /\ told \in [Tokens -> BOOLEAN] /\ under \in [Tokens -> Tokens \cup {Nobody}]
    BY DEF Running, TypeOK
  <2> QED BY <1>5, <2>1, <2>2 DEF Only
<1>8. Token(t)' /\ Begin(t)' = Begin(t) /\ ~Sender(t)' /\ ~Reader(t)'
  <2>1. pc[t] \in {"holding", "seek"} /\ op[t].name \in {"pull", "try_pull"} BY <1>5
  <2> QED BY <1>5, <1>6, <1>7, <2>1, ReaderLeaves
<1>9. /\ Turn' = Turn /\ closed' = closed /\ Cut' = Cut /\ Turn \in Nat /\ Cut \in Nat
  <2>1. write_offset' \in Word /\ read_offset' \in Word /\ Sold' = Sold /\ Sold \in Nat /\ Turn' = Turn /\ Turn \in Nat
    BY <1>5, Types DEF Running, offsets, Sold, Turn, Pos
  <2>2. Sold <= Sold' /\ Turn <= Turn' /\ {t} \in SUBSET Tokens /\ lock \notin {t} BY <1>6, <2>1
  <2>3. Sold' = Sold => Cut' = Cut BY <1>5, <1>7, <2>1, <2>2, Alongside
  <2>4. closed' = closed /\ Cut \in Nat BY <1>5, Bounds DEF cutoff
  <2> QED BY <2>1, <2>3, <2>4
<1>10. stored' = [stored EXCEPT ![b][i] = v] BY <1>4, <1>5 DEF Running, TypeOK
<1>11. CellOK(m, "both", v)'
  <2>1. ~Taken(m)'
    <3>1. \A u \in Tokens \ {t} : Reader(u)' = Reader(u) /\ Begin(u)' = Begin(u)
      BY <1>7, Same DEF Only
    <3>2. \A u \in Tokens \ {t} : Reader(u) => Begin(u) # m
      BY <1>3, <1>6 DEF Running, ReadersApart
    <3> QED BY <1>8, <3>1, <3>2 DEF Taken, Takes
  <2>2. ~Done(m)' BY <1>6, <1>9 DEF Done
  <2> QED BY <1>6, <1>9, <2>1, <2>2 DEF CellOK
<1>12. /\ op[t].name # "close" /\ op'[t].name # "close" /\ pc[t] \notin {"parked", "wake"}
       /\ pc'[t] # "wake" /\ pc'[t] \notin BeforeDraw
       /\ op'[t].written <= op'[t].count /\ op'[t].seen <= reclaim_counter
       /\ \A u \in Tokens : told'[u] => told[u]
       /\ v \in Value \cup {NoValue} /\ "both" \in Flag
       /\ Begin(t) = m /\ Begin(t)' = m
       /\ (flags[b][i] \in Tokens => "both" = flags[b][i])
       /\ (Reader(t)' \/ Done(m) \/ (closed = "closed" /\ Cut <= m))
  BY <1>3, <1>4, <1>5, <1>6, <1>7, <1>8, Parts, TokenAssumption DEF BeforeDraw, Flag
<1>30. PICK g \in Flag : g = "both" BY <1>12
<1>31. flags' = [flags EXCEPT ![b][i] = g] /\ CellOK(m, g, v)' /\ (flags[b][i] \in Tokens => g = flags[b][i])
  BY <1>5, <1>11, <1>12, <1>30
<1>32. /\ Only({t}) /\ lock # t
       /\ UNCHANGED <<list, cutoff, counters, reclaim, setup>> /\ UNCHANGED offsets
  BY <1>5, <1>6, <1>7
<1>33. /\ pc' \in [Tokens -> Places] /\ op' \in [Tokens -> CallType] /\ haz' \in [Tokens -> HazType]
       /\ told' \in [Tokens -> BOOLEAN] /\ under' \in [Tokens -> Tokens \cup {Nobody}]
  BY <1>7
<1>34. /\ \A u \in Tokens : told'[u] => told[u]
       /\ op'[t].written <= op'[t].count /\ op'[t].seen <= reclaim_counter
       /\ op[t].name # "close" /\ op'[t].name # "close" /\ pc[t] \notin {"parked", "wake"}
       /\ pc'[t] # "wake" /\ pc'[t] \notin BeforeDraw
  BY <1>12
<1>35. /\ Reader(t) /\ m \in Nat /\ Begin(t) = m /\ Begin(t)' = m /\ ~Sender(t) /\ ~Sender(t)'
       /\ b \in OnList /\ i \in Index /\ First(b) + i = m /\ v \in Value \cup {NoValue}
  BY <1>6, <1>8, <1>12
<1>36. /\ stored' = [stored EXCEPT ![b][i] = v]
       /\ (Reader(t)' \/ Done(m) \/ (closed = "closed" /\ Cut <= m)) /\ Token(t)'
  BY <1>8, <1>10, <1>12
<1> QED BY <1>30, <1>31, <1>32, <1>33, <1>34, <1>35, <1>36, ReaderActs

\* A consumer that finds its element empty suspends.
LEMMA WaitParksKeeps ==
  ASSUME Running, NEW t \in Tokens, Wait(t), FlagAt(op[t].block, op[t].idx) = "empty"
  PROVE  Running'
<1> HIDE DEF Running
<1>1. PICK b : b = op[t].block OBVIOUS
<1>2. PICK i : i = IndexOf(op[t].idx) OBVIOUS
<1>3. PICK m : m = Begin(t) OBVIOUS
<1>4. PICK v : v = stored[b][i] OBVIOUS
<1>5. /\ pc[t] = "wait" /\ UNCHANGED <<list, cutoff, counters, reclaim, setup>> /\ UNCHANGED offsets
      /\ haz' = haz /\ op' = op /\ told' = told /\ under' = [under EXCEPT ![t] = Nobody]
      /\ stored' = stored /\ flags[b][i] = "empty"
      /\ flags' = [flags EXCEPT ![b][i] = t] /\ pc' = [pc EXCEPT ![t] = "parked"]
  BY <1>1, <1>2 DEF Wait, GoTo, FlagAt
<1>6. /\ op[t].name = "pull" /\ Reader(t) /\ Drawn(t) /\ ~Posting(t) /\ ~Sender(t) /\ lock # t /\ op[t].written = 0
      /\ Acquired(t) /\ Member(t)
      /\ m \in Nat /\ Skip <= m /\ m < Turn
      /\ b \in OnList /\ b \in Block /\ First(b) + i = m /\ i \in Index
      /\ First(b) = Base(m + op[t].written)
      /\ CellOK(m, "empty", v)
      /\ Active(t) <= From(t) /\ First(ListHead) <= Base(m) /\ Active(t) <= Base(m)
  <2>1. /\ op[t].name = "pull" /\ Reader(t) /\ Drawn(t) /\ ~Posting(t) /\ ~Sender(t) /\ lock # t /\ op[t].written = 0
        /\ Acquired(t) /\ Member(t) /\ Begin(t) \in Nat /\ Skip <= Begin(t) /\ Begin(t) < Turn
        /\ op[t].block \in OnList /\ op[t].block \in Block
        /\ First(op[t].block) = Base(Begin(t) + op[t].written)
        /\ First(op[t].block) + IndexOf(op[t].idx) = Begin(t) /\ IndexOf(op[t].idx) \in Index
        /\ CellOK(Begin(t), flags[op[t].block][IndexOf(op[t].idx)], stored[op[t].block][IndexOf(op[t].idx)])
        /\ Active(t) <= From(t) /\ First(ListHead) <= Base(Begin(t)) /\ Active(t) <= Base(Begin(t))
    BY <1>5, ReaderPlaced
  <2> QED BY <1>1, <1>2, <1>3, <1>4, <1>5, <2>1
<1>7. ~Done(m) /\ v = NoValue BY <1>6, TokenAssumption DEF CellOK
<1>8. /\ pc'[t] = "parked" /\ op'[t] = op[t] /\ haz'[t] = haz[t] /\ Only({t})
      /\ pc' \in [Tokens -> Places] /\ op' \in [Tokens -> CallType] /\ haz' \in [Tokens -> HazType]
      /\ told' \in [Tokens -> BOOLEAN] /\ under' \in [Tokens -> Tokens \cup {Nobody}]
  <2>1. "parked" \in Places BY DEF Places, Reading
  <2>2. pc \in [Tokens -> Places] /\ op \in [Tokens -> CallType] /\ haz \in [Tokens -> HazType]
        /\ told \in [Tokens -> BOOLEAN] /\ under \in [Tokens -> Tokens \cup {Nobody}]
    BY DEF Running, TypeOK
  <2> QED BY <1>5, <2>1, <2>2 DEF Only
<1>9. /\ Calm({t}) /\ Resting /\ (\A places : At(places)' = At(places)) /\ rec' = rec /\ lock' = lock
      /\ OnList' = OnList /\ blocks' = blocks /\ (\A d : First(d)' = First(d))
      /\ ListHead' = ListHead /\ First(ListHead)' = First(ListHead)
      /\ Sold' = Sold /\ Turn' = Turn /\ Cut' = Cut /\ closed' = closed
  <2>1. write_offset' = write_offset /\ read_offset' = read_offset /\ write_offset \in Word /\ read_offset \in Word
    BY <1>5, Types DEF Running, offsets
  <2>2. Sold' = Sold /\ Turn' = Turn /\ Sold \in Nat /\ Turn \in Nat
    BY <2>1, Types DEF Sold, Turn, Running
  <2>3. write_offset' \in Word /\ read_offset' \in Word /\ Sold <= Sold' /\ Turn <= Turn'
        /\ {t} \in SUBSET Tokens /\ lock \notin {t}
    BY <1>6, <2>1, <2>2
  <2>4. /\ Calm({t}) /\ Resting /\ (\A places : At(places)' = At(places)) /\ rec' = rec /\ lock' = lock
        /\ OnList' = OnList /\ blocks' = blocks /\ (\A d : First(d)' = First(d))
        /\ ListHead' = ListHead /\ First(ListHead)' = First(ListHead)
        /\ closed' = closed /\ (Sold' = Sold => Cut' = Cut)
    BY <1>5, <1>8, <2>3, Alongside
  <2> QED BY <2>2, <2>4
<1>10. /\ Begin(t)' = m /\ Begin(t)' = Begin(t) /\ Finish(t)' = Finish(t) /\ Active(t)' = Active(t)
       /\ ~Posting(t)' /\ Field(t)' = Field(t)
  BY <1>3, <1>6, <1>8 DEF Begin, Finish, Active, Posting, Field
<1>11. Drawn(t)' /\ Reader(t)' /\ Unaware(t)' /\ Unaware(t) /\ ~Sender(t)' /\ ~Reclaimer(t)'
  BY <1>5, <1>6, <1>8, <1>10 DEF Drawn, Reader, Unaware, Sender, Reading, Reclaimer, Reclaiming, Scanning, Visiting, Announcing,
     Moves, Posting
<1>12. ~Done(m)'
  <2>1. \A u \in Tokens : Owns(u, m)' <=> Owns(u, m)
    <3>1. ~Owns(t, m)' /\ ~Owns(t, m) BY <1>6, <1>11 DEF Owns
    <3> QED BY <1>8, <3>1, Same DEF Only
  <2> QED BY <1>7, <1>9, <2>1 DEF Done
<1>13. Control(t)'
  BY <1>5, <1>6, <1>8, <1>9, <1>10, Parts DEF Control, Named, Calling, Acquiring, Polling, Closing, Reclaiming, Writing, Posting,
     Scanning, Visiting, Announcing, Moves, Sweeping, Walking, Reading
<1>14. Closer(t)' /\ Acquires(t)' /\ Post(t)' /\ Sought(t)'
  <2>1. Closer(t)' /\ Acquires(t)' /\ Post(t)'
    BY <1>8, <1>11 DEF Closer, Acquires, Post, Sweeping
  <2> QED BY <1>8, <1>9, <1>10, <1>11, <2>1, SoughtStays
<1>15. Pull(t)' BY <1>6, <1>8, <1>9, <1>10, Parts DEF Pull
<1>16. Has(t)' BY <1>6, <1>8, <1>9, HasStays DEF Keeps
<1>17. Uses(t)'
  <2>2. Active(t)' <= From(t)' /\ First(ListHead)' <= Base(Begin(t)') /\ Active(t)' <= Base(Begin(t)')
    <3>1. PICK y : y = haz[t][Field(t)] OBVIOUS
    <3>2. haz'[t][Field(t)'] = y /\ First(y)' = First(y) BY <1>8, <1>9, <1>10, <3>1
    <3> QED BY <1>6, <1>9, <1>10, <3>1, <3>2 DEF From
  <2>4. op'[t].block = b /\ First(op[t].block)' = Base(Begin(t)' + op'[t].written) /\ b \in OnList'
    <3>1. op'[t].block = b /\ First(b)' = First(b) BY <1>1, <1>8, <1>9
    <3>2. First(op[t].block)' = First(b)' BY <3>1
    <3> QED BY <1>6, <1>8, <1>9, <1>10, <3>1, <3>2
  <2>5. pc'[t] \in {"write", "wake", "claim"} \cup Reading \cup Reclaiming /\ pc'[t] \notin {"write", "wake", "claim"}
    BY <1>8 DEF Reading
  <2> QED BY <2>2, <2>4, <2>5, UsesPlaced
<1>18. Met(t)'
  <2>1. Member(t)' /\ NobodyCame' => Member(t) /\ \A g \in Fields :
             \/ haz'[t][g] = haz[t][g]
             \/ Drawn(t) /\ haz'[t][g] \in blocks /\ Base(Begin(t)) <= First(haz'[t][g])
    BY <1>6, <1>8
  <2>2. Drawn(t)' => Drawn(t) /\ Begin(t)' \in Nat /\ Begin(t) <= Begin(t)' BY <1>3, <1>6, <1>10
  <2>3. pc'[t] \in Walking =>
             /\ haz'[t] = haz[t] /\ Field(t)' = Field(t)
             /\ (pc[t] \in Walking /\ Search(t)' = Search(t)) \/ Search(t)' = From(t)'
    BY <1>8 DEF Walking
  <2>4. At({"swap", "revalidate"}) /\ t = rec.at => Near(haz[t].active_offset)'
    BY <1>8, Parts DEF Met, Near, Pos
  <2> QED BY <1>6, <1>9, <2>1, <2>2, <2>3, <2>4, MetStays
<1>19. Parks(t)'
  <2>1. flags'[op'[t].block][IndexOf(op'[t].idx)] = t
    <3>1. flags \in [Block -> [Index -> Flag]] BY DEF Running, TypeOK
    <3> QED BY <1>1, <1>2, <1>5, <1>6, <1>8, <3>1
  <2>2. ~Done(Begin(t))'
    <3>1. Done(Begin(t))' <=> Done(m)' BY <1>10 DEF Done
    <3> QED BY <1>12, <3>1
  <2> QED BY <1>8, <2>1, <2>2 DEF Parks
<1>20. Token(t)' BY <1>13, <1>14, <1>15, <1>16, <1>17, <1>18, <1>19 DEF Token
<1>21. stored' = [stored EXCEPT ![b][i] = v] BY <1>4, <1>5 DEF Running, TypeOK
<1>22. CellOK(m, t, v)'
  <2>1. Suspended(t, m)' BY <1>8, <1>10 DEF Suspended
  <2> QED BY <1>7, <1>12, <2>1 DEF CellOK
<1>23. /\ op[t].name # "close" /\ op'[t].name # "close" /\ pc[t] \notin {"parked", "wake"}
       /\ pc'[t] # "wake" /\ pc'[t] \notin BeforeDraw
       /\ op'[t].written <= op'[t].count /\ op'[t].seen <= reclaim_counter
       /\ \A u \in Tokens : told'[u] => told[u]
       /\ v \in Value \cup {NoValue} /\ t \in Flag
       /\ Begin(t) = m /\ Begin(t)' = m
       /\ (flags[b][i] \in Tokens => t = flags[b][i])
       /\ (Reader(t)' \/ Done(m) \/ (closed = "closed" /\ Cut <= m))
  BY <1>3, <1>5, <1>6, <1>7, <1>8, <1>10, <1>11, Parts, TokenAssumption DEF BeforeDraw, Flag
<1>30. PICK g \in Flag : g = t BY <1>23
<1>31. flags' = [flags EXCEPT ![b][i] = g] /\ CellOK(m, g, v)' /\ (flags[b][i] \in Tokens => g = flags[b][i])
  BY <1>5, <1>22, <1>23, <1>30
<1>32. /\ Only({t}) /\ lock # t
       /\ UNCHANGED <<list, cutoff, counters, reclaim, setup>> /\ UNCHANGED offsets
  BY <1>5, <1>6, <1>8
<1>33. /\ pc' \in [Tokens -> Places] /\ op' \in [Tokens -> CallType] /\ haz' \in [Tokens -> HazType]
       /\ told' \in [Tokens -> BOOLEAN] /\ under' \in [Tokens -> Tokens \cup {Nobody}]
  BY <1>8
<1>34. /\ \A u \in Tokens : told'[u] => told[u]
       /\ op'[t].written <= op'[t].count /\ op'[t].seen <= reclaim_counter
       /\ op[t].name # "close" /\ op'[t].name # "close" /\ pc[t] \notin {"parked", "wake"}
       /\ pc'[t] # "wake" /\ pc'[t] \notin BeforeDraw
  BY <1>23
<1>35. /\ Reader(t) /\ m \in Nat /\ Begin(t) = m /\ Begin(t)' = m /\ ~Sender(t) /\ ~Sender(t)'
       /\ b \in OnList /\ i \in Index /\ First(b) + i = m /\ v \in Value \cup {NoValue}
  BY <1>6, <1>11, <1>23
<1>36. /\ stored' = [stored EXCEPT ![b][i] = v]
       /\ (Reader(t)' \/ Done(m) \/ (closed = "closed" /\ Cut <= m)) /\ Token(t)'
  BY <1>20, <1>21, <1>23
<1> QED BY <1>30, <1>31, <1>32, <1>33, <1>34, <1>35, <1>36, ReaderActs

\* close()
\* A close() takes no ticket.
LEMMA CloserIs ==
  ASSUME NEW t
  PROVE  /\ op[t].name = "close" /\ pc[t] \in Closing \cup {"lock", "unlock"} =>
               /\ ~Sender(t) /\ ~Drawn(t) /\ ~Reclaimer(t) /\ ~Reader(t) /\ ~Unaware(t) /\ ~Posting(t)
               /\ \A m : ~Owns(t, m) /\ ~Takes(t, m) /\ ~Suspended(t, m) /\ ~Wakes(t, m)
               /\ pc[t] \notin Sweeping \cup {"load_readers"} => \A m : ~Swept(t, m)
         /\ op'[t].name = "close" /\ pc'[t] \in Closing \cup {"lock", "unlock"} =>
               /\ ~Sender(t)' /\ ~Drawn(t)' /\ ~Reclaimer(t)' /\ ~Reader(t)' /\ ~Unaware(t)' /\ ~Posting(t)'
               /\ \A m : ~Owns(t, m)' /\ ~Takes(t, m)' /\ ~Suspended(t, m)' /\ ~Wakes(t, m)'
               /\ pc'[t] \notin Sweeping \cup {"load_readers"} => \A m : ~Swept(t, m)'
<1>1. op[t].name = "close" /\ pc[t] \in Closing \cup {"lock", "unlock"} =>
        /\ ~Posting(t) /\ ~Sender(t) /\ ~Reclaimer(t) /\ ~Drawn(t) /\ ~Unaware(t) /\ pc[t] \notin {"parked", "wake"}
  BY DEF Closing, Sweeping, Posting, Sender, Reclaimer, Drawn, Unaware, Walking, Writing, Polling, Reading
<1>2. op'[t].name = "close" /\ pc'[t] \in Closing \cup {"lock", "unlock"} =>
        /\ ~Posting(t)' /\ ~Sender(t)' /\ ~Reclaimer(t)' /\ ~Drawn(t)' /\ ~Unaware(t)' /\ pc'[t] \notin {"parked", "wake"}
  BY DEF Closing, Sweeping, Posting, Sender, Reclaimer, Drawn, Unaware, Walking, Writing, Polling, Reading
<1>3. op[t].name = "close" => ~Reader(t) BY DEF Reader
<1>4. op'[t].name = "close" => ~Reader(t)' BY DEF Reader
<1>5. op[t].name = "close" /\ pc[t] \in Closing \cup {"lock", "unlock"} =>
        /\ \A m : ~Owns(t, m) /\ ~Takes(t, m) /\ ~Suspended(t, m) /\ ~Wakes(t, m)
        /\ pc[t] \notin Sweeping \cup {"load_readers"} => \A m : ~Swept(t, m)
  BY <1>1, <1>3 DEF Owns, Takes, Suspended, Wakes, Swept
<1>6. op'[t].name = "close" /\ pc'[t] \in Closing \cup {"lock", "unlock"} =>
        /\ \A m : ~Owns(t, m)' /\ ~Takes(t, m)' /\ ~Suspended(t, m)' /\ ~Wakes(t, m)'
        /\ pc'[t] \notin Sweeping \cup {"load_readers"} => \A m : ~Swept(t, m)'
  BY <1>2, <1>4 DEF Owns, Takes, Suspended, Wakes, Swept
<1> QED BY <1>1, <1>2, <1>3, <1>4, <1>5, <1>6

\* What close() leaves alone while it has the lock.
LEMMA ClosingFrame ==
  ASSUME Running, NEW t \in Tokens, NEW S \in SUBSET Tokens, t \in S, Only(S),
         pc'[t] \in Closing \cup {"unlock"}, pc[t] \in Closing \cup {"lock"}, lock' = t,
         lock = t \/ (pc[t] = "lock" /\ lock = Nobody),
         UNCHANGED <<list, counters, heads, rec, setup>>,
         read_offset' = read_offset, write_offset' \in Word, Sold <= Sold',
         closed = "closed" => closed' = "closed"
  PROVE  /\ \A places : (At(places)' <=> pc'[t] \in places) /\ (At(places) <=> lock = t /\ pc[t] \in places)
         /\ ListHead' = ListHead /\ ListHead = head_block /\ Lowest' = Lowest
         /\ head_block' = head_block /\ head_offset' = head_offset /\ tail_block' = tail_block /\ rec' = rec
         /\ blocks' = blocks /\ OnList' = OnList /\ next' = next /\ offset' = offset
         /\ (\A b : First(b)' = First(b)) /\ (\A m : Reaches(m)' = Reaches(m))
         /\ {Sold, Sold', Turn, Cut} \subseteq Nat /\ Turn' = Turn
         /\ Linked' /\ Heads' /\ Reclaim' /\ Unlinked' = Unlinked /\ ~At({"relink"}) /\ ~At({"relink"})'
         /\ (\A u \in Tokens : Met(u)')
         /\ (Cut' = Cut => Calm(S))
<1> HIDE DEF Running
<1>1. t # Nobody BY TokenAssumption
<1>2. \A places : (At(places)' <=> pc'[t] \in places) /\ (At(places) <=> lock = t /\ pc[t] \in places)
  BY <1>1 DEF At
<1>3. /\ pc[t] \notin {"scan", "load_count", "commit", "announce", "validate", "rollback", "reset", "relink"}
      /\ pc'[t] \notin {"scan", "load_count", "commit", "announce", "validate", "rollback", "reset", "relink"}
      /\ pc[t] \notin Aiming \cup Moves /\ pc'[t] \notin Aiming \cup Moves
  BY DEF Closing, Sweeping, Aiming, Visiting, Announcing, Moves
<1>4. /\ head_block' = head_block /\ head_offset' = head_offset /\ tail_block' = tail_block /\ rec' = rec
      /\ blocks' = blocks /\ next' = next /\ offset' = offset /\ reclaim_counter' = reclaim_counter /\ setup' = setup
  BY DEF heads, list, counters
<1>5. ListHead = head_block /\ ListHead' = ListHead
  <2>1. ListHead = head_block BY <1>1, <1>3 DEF ListHead
  <2>2. ListHead' = head_block' BY <1>1, <1>3 DEF ListHead
  <2> QED BY <1>4, <2>1, <2>2
<1>6. ~At({"commit"}) /\ ~At({"commit"})' /\ ~At(Moves) /\ ~At(Moves)' /\ ~At({"relink"}) /\ ~At({"relink"})'
  BY <1>2, <1>3
<1>7. Lowest' = Lowest BY <1>5, <1>6 DEF Lowest
<1>8. Linked' /\ OnList' = OnList /\ (\A b : First(b)' = First(b)) /\ (\A m : Reaches(m)' = Reaches(m))
  BY <1>4, <1>5, <1>7, ListKeeps
<1>9. {Sold, Sold', Turn, Cut} \subseteq Nat /\ Turn' = Turn
  <2>1. TypeOK BY DEF Running
  <2>2. Sold \in Nat /\ Turn \in Nat /\ Cut \in Nat BY <2>1, Types, Bounds
  <2>3. Turn' = Turn BY DEF Turn
  <2>4. Sold' \in Nat
    <3>1. PICK w \in Word : w = write_offset' OBVIOUS
    <3>2. Sold' = Pos(w) BY <3>1 DEF Sold, Pos
    <3> QED BY <3>2, PosIs
  <2> QED BY <2>2, <2>3, <2>4
<1>10. Heads'
  <2>1. Heads /\ First(head_block) \in Nat
    <3>1. TypeOK /\ head_block \in Block BY DEF Running, TypeOK
    <3> QED BY <3>1, Types DEF Running
  <2>2. PICK h : h = head_block OBVIOUS
  <2>3. head_block' = h /\ First(h)' = First(h) /\ ListHead' = h /\ ListHead = h
    BY <1>4, <1>5, <1>8, <2>2
  <2>4. h \in OnList' /\ First(h)' <= Sold' /\ First(h)' <= Turn' /\ Pos(head_offset') <= First(h)'
    BY <1>4, <1>8, <1>9, <2>1, <2>2, <2>3 DEF Heads
  <2>5. First(head_block)' = First(h)' /\ First(ListHead)' = First(h)' /\ Pos(head_offset)' = Pos(head_offset')
    BY <2>3 DEF First, Pos
  <2> QED BY <2>3, <2>4, <2>5 DEF Heads
<1>11. Reclaim'
  <2>1. rec'.unlinked = <<>>
    <3>1. rec.unlinked = <<>> BY <1>6 DEF Running, Reclaim
    <3> QED BY <1>4, <3>1
  <2>2. ~At({"load_count", "scan", "commit"} \cup Aiming \cup Moves)' BY <1>2, <1>3
  <2> QED BY <2>1, <2>2, NothingReclaimed
<1>12. \A u \in Tokens : Met(u)'
  <2>1. ~At({"scan"} \cup Aiming)' BY <1>2, <1>3
  <2> QED BY <2>1, NothingMet
<1>13. Unlinked' = Unlinked BY <1>4 DEF Unlinked
<1>14. ASSUME Cut' = Cut PROVE Calm(S)
  <2>1. \A u \in Tokens \ S : lock' = u <=> lock = u BY TokenAssumption
  <2>2. ~At({"validate"})' BY <1>2, <1>3
  <2>3. Turn' \in Nat /\ Sold' \in Nat /\ Turn <= Turn' /\ Cut' \in Nat BY <1>9, <1>14
  <2> QED BY <1>4, <1>5, <1>14, <2>1, <2>2, <2>3 DEF Calm
<1> QED BY <1>2, <1>4, <1>5, <1>6, <1>7, <1>8, <1>9, <1>10, <1>11, <1>12, <1>13, <1>14

\* ... and what is known of the token of a close().
LEMMA ClosingToken ==
  ASSUME Running, NEW t \in Tokens, NEW S, Calm(S), pc'[t] \in Closing \cup {"unlock"},
         pc[t] \in Closing \cup {"lock"}, lock' = t, haz'[t] = haz[t],
         op'[t].name = "close", op'[t].count = 0, op'[t].written = 0
  PROVE  Control(t)' /\ Post(t)' /\ Pull(t)' /\ Sought(t)' /\ Parks(t)' /\ Acquires(t)' /\ Has(t)' /\ Uses(t)'
<1> HIDE DEF Running, Calm
<1>1. /\ ~Sender(t)' /\ ~Drawn(t)' /\ ~Reclaimer(t)' /\ ~Reader(t)' /\ ~Unaware(t)' /\ ~Posting(t)'
  BY CloserIs
<1>2. pc'[t] \notin {"parked", "wake", "load_head", "init", "count", "recheck", "seek", "claim", "holding", "draw", "release",
                     "reserve", "write", "cross", "acquire", "own", "protect", "load_block", "check_closed", "idle",
                     "disown", "lock"}
      /\ pc'[t] \notin Writing \cup Reading \cup Seeking \cup Walking \cup Acquiring \cup Polling
      /\ pc'[t] \notin Reclaiming \ {"unlock"}
      /\ pc[t] \notin Uncounted /\ pc[t] # "recheck" /\ pc'[t] \notin Uncounted
  BY DEF Closing, Sweeping, Writing, Reading, Seeking, Walking, Acquiring, Polling, Uncounted, Reclaiming, Scanning,
     Visiting, Announcing, Moves
<1>3. Control(t)'
  <2>1. Named(t)' BY <1>2 DEF Named, Closing, Sweeping, Writing
  <2>2. pc'[t] \in Reclaiming \cup Closing BY DEF Reclaiming
  <2> QED BY <1>1, <1>2, <2>1, <2>2 DEF Control, Writing
<1>4. Post(t)' /\ Pull(t)' /\ Sought(t)' /\ Parks(t)' /\ Acquires(t)'
  BY <1>1, <1>2 DEF Post, Pull, Sought, Parks, Acquires
<1>5. Has(t)'
  <2>1. Acquired(t)' => Acquired(t) BY <1>2 DEF Acquired, Uncounted
  <2> QED BY <2>1, HasStays DEF Keeps
<1>6. Uses(t)' BY <1>1, <1>2 DEF Uses
<1> QED BY <1>3, <1>4, <1>5, <1>6

\* A pull knows no less when close() goes on.
LEMMA PullStays ==
  ASSUME Running, NEW S, Calm(S), NEW u \in Tokens \ S, \A m \in Nat : Done(m) => Done(m)'
  PROVE  Pull(u)'
<1> HIDE DEF Running, Calm
<1>1. TypeOK /\ Pull(u) BY DEF Running, Token
<1>2. pc'[u] = pc[u] /\ op'[u] = op[u] /\ haz'[u] = haz[u] BY DEF Calm, Only
<1>3. /\ Begin(u)' = Begin(u) /\ Drawn(u)' = Drawn(u) /\ Reader(u)' = Reader(u) BY <1>2, Same
<1>4. /\ closed = "closed" => closed' = "closed" /\ Cut' = Cut
      /\ Turn <= Turn' /\ Sold <= Sold'
      /\ {Turn, Sold, Turn', Sold', Begin(u), Pos(op[u].end)} \subseteq Nat
  BY <1>1, Types, Shared DEF Calm
<1>5. op'[u].name \in {"pull", "try_pull"} /\ Drawn(u)' => Skip <= Begin(u)' /\ Begin(u)' <= Turn'
  BY <1>1, <1>2, <1>3, <1>4 DEF Pull
<1>6. Reader(u)' => Begin(u)' < Turn' BY <1>1, <1>2, <1>3, <1>4 DEF Pull
<1>7. op'[u].name = "try_pull" /\ pc'[u] \in {"load_block", "seek", "claim", "reread", "status", "try_lock"} =>
         Pos(op'[u].end) <= Sold'
  BY <1>1, <1>2, <1>3, <1>4 DEF Pull
<1>8. pc'[u] \in {"claim", "holding"} \/ (op'[u].name = "try_pull" /\ Reader(u)') => Done(Begin(u))'
  <2>1. PICK m : m = Begin(u) OBVIOUS
  <2>2. pc'[u] \in {"claim", "holding"} \/ (op'[u].name = "try_pull" /\ Reader(u)') => Done(m)'
    BY <1>1, <1>2, <1>3, <1>4, <2>1 DEF Pull
  <2> QED BY <1>3, <2>1, <2>2 DEF Done
<1>9. op'[u].name = "pull" /\ pc'[u] = "seek" /\ op'[u].past => closed' = "closed" /\ Cut' <= Begin(u)'
  BY <1>1, <1>2, <1>3, <1>4 DEF Pull
<1> QED BY <1>5, <1>6, <1>7, <1>8, <1>9 DEF Pull

\* A step of close() while it has the lock.
LEMMA ClosingStep ==
  ASSUME Running, NEW t \in Tokens, NEW S \in SUBSET Tokens, t \in S, Only(S),
         pc'[t] \in Closing \cup {"unlock"}, pc[t] \in Closing \cup {"lock"}, lock' = t,
         lock = t \/ (pc[t] = "lock" /\ lock = Nobody),
         op'[t].name = "close", op'[t].count = 0, op'[t].written = 0, op'[t].seen <= reclaim_counter,
         haz' = haz, UNCHANGED <<list, elements, counters, heads, rec, setup>>,
         read_offset' = read_offset, write_offset' \in Word, Sold <= Sold',
         closed' \in {"open", "closing", "closed"}, write_closed_at' \in Word,
         closed = "closed" => closed' = "closed", Cut' = Cut,
         pc' \in [Tokens -> Places], op' \in [Tokens -> CallType],
         told' \in [Tokens -> BOOLEAN], under' \in [Tokens -> Tokens \cup {Nobody}],
         \A u \in S \ {t} : Token(u)' /\ op'[u].written <= op'[u].count /\ op'[u].seen <= reclaim_counter,
         Closer(t)', \A u \in Tokens \ S : Parks(u)' /\ Sought(u)',
         \A m \in Nat : Done(m)' = Done(m),
         Numbers', Asking', SendersApart', ReadersApart', Served', Cells'
  PROVE  Running'
<1> HIDE DEF Running
<1>1. /\ Linked' /\ Heads' /\ Reclaim' /\ (\A u \in Tokens : Met(u)') /\ Calm(S)
      /\ ~At({"relink"}) /\ ~At({"relink"})' /\ blocks' = blocks
  BY ClosingFrame
<1>2. TypeOK'
  <2>1. TypeOK BY DEF Running
  <2>2. \A u \in Tokens : op'[u].written <= op'[u].count /\ op'[u].seen <= reclaim_counter
    <3>1. \A u \in Tokens \ S : op'[u] = op[u] BY DEF Only
    <3>2. 0 <= 0 OBVIOUS
    <3> QED BY <2>1, <3>1, <3>2 DEF TypeOK
  <2>3. /\ blocks' = blocks /\ next' = next /\ offset' = offset /\ flags' = flags /\ stored' = stored
        /\ head_block' = head_block /\ head_offset' = head_offset /\ tail_block' = tail_block
        /\ haz_ptr_counter' = haz_ptr_counter /\ reclaim_counter' = reclaim_counter /\ rec' = rec /\ setup' = setup
    BY DEF list, elements, heads, counters
  <2> QED BY <2>1, <2>2, <2>3 DEF TypeOK
<1>3. Clean'
  <2>1. stored' = stored /\ Clean BY DEF elements, Running
  <2> QED BY <1>1, <2>1 DEF Clean
<1>4. Token(t)'
  <2>1. haz'[t] = haz[t] OBVIOUS
  <2>2. Control(t)' /\ Post(t)' /\ Pull(t)' /\ Sought(t)' /\ Parks(t)' /\ Acquires(t)' /\ Has(t)' /\ Uses(t)'
    BY <1>1, <2>1, ClosingToken
  <2> QED BY <1>1, <2>2 DEF Token
<1>5. ASSUME NEW u \in Tokens \ S
      PROVE  Token(u)'
  <2>1. Control(u)' /\ Closer(u)' /\ Post(u)' /\ Acquires(u)' /\ Has(u)' /\ Uses(u)'
    BY <1>1, OthersKeep
  <2>2. Pull(u)' BY <1>1, PullStays
  <2> QED BY <1>1, <2>1, <2>2 DEF Token
<1>6. \A u \in Tokens : Token(u)' BY <1>4, <1>5
<1> QED BY <1>1, <1>2, <1>3, <1>6 DEF Running

\* A step that no other can see.
LEMMA ClosingSeen ==
  ASSUME Running, NEW t \in Tokens, Only({t}), Seen({t}),
         pc'[t] \in Closing \cup {"unlock"}, pc[t] \in Closing \cup {"lock"}, lock' = t,
         lock = t \/ (pc[t] = "lock" /\ lock = Nobody),
         op'[t].name = "close", op'[t].count = 0, op'[t].written = 0, op'[t].seen <= reclaim_counter,
         haz' = haz, UNCHANGED <<list, elements, counters, heads, rec, setup, write_closed_at>>,
         read_offset' = read_offset, write_offset' \in Word, Sold <= Sold',
         closed' \in {"open", "closing", "closed"}, closed' = "closed" <=> closed = "closed", Cut' = Cut,
         pc' \in [Tokens -> Places], op' \in [Tokens -> CallType], told' = told, under' = under,
         Closer(t)', Numbers', Asking'
  PROVE  Running'
<1> HIDE DEF Running
<1>1. /\ Calm({t}) /\ {t} \in SUBSET Tokens
      /\ ~At({"relink"}) /\ ~At({"relink"})' /\ blocks' = blocks /\ rec' = rec
  BY ClosingFrame
<1>2. /\ TypeOK /\ SendersApart /\ ReadersApart /\ Served BY DEF Running
<1>3. Seen(Tokens) /\ SendersApart' /\ ReadersApart' /\ \A m \in Nat : Done(m)' = Done(m)
  BY <1>1, <1>2, ViewsKeep
<1>4. Cells' /\ Served'
  <2>1. UNCHANGED <<list, elements, read_offset>> OBVIOUS
  <2>2. At({"relink"})' = At({"relink"}) /\ rec'.unlinked = rec.unlinked BY <1>1 DEF At
  <2> QED BY <1>2, <1>3, <2>1, <2>2, CellsKeep
<1>5. ASSUME NEW u \in Tokens \ {t}
      PROVE  Parks(u)' /\ Sought(u)'
  <2>1. pc[u] = "parked" => flags'[op[u].block][IndexOf(op[u].idx)] = u
    <3>1. Parks(u) /\ flags' = flags BY DEF Running, Token, elements
    <3> QED BY <3>1 DEF Parks
  <2>2. Parks(u)' BY <1>1, <2>1, ParksKeep
  <2>3. \A w \in {t} : Unaware(u) /\ Swept(w, Begin(u)) => Swept(w, Begin(u))'
    <3>1. PICK m : m = Begin(u) OBVIOUS
    <3>2. m \in Nat /\ Begin(u)' = m BY <1>1, <1>2, <3>1, Types, Same DEF Only
    <3>3. Swept(t, m)' = Swept(t, m) BY <3>2 DEF Seen
    <3>4. Swept(t, Begin(u))' = Swept(t, m)' BY <3>2 DEF Swept
    <3> QED BY <3>1, <3>3, <3>4
  <2>4. Sought(u)' BY <1>1, <1>3, <2>3, PullsKeep
  <2> QED BY <2>2, <2>4
<1>6. write_closed_at' \in Word BY <1>2 DEF TypeOK
<1>7. told' \in [Tokens -> BOOLEAN] /\ under' \in [Tokens -> Tokens \cup {Nobody}]
  BY <1>2 DEF TypeOK
<1>8. UNCHANGED <<list, elements, counters, heads, rec, setup>> /\ t \in {t} /\ {t} \ {t} = {}
  OBVIOUS
<1> QED BY <1>1, <1>3, <1>4, <1>5, <1>6, <1>7, <1>8, ClosingStep

\* close() takes blocks_lock.
LEMMA LockTakesKeeps ==
  ASSUME Running, NEW t \in Tokens, Lock(t), closed = "open"
  PROVE  Running'
<1> HIDE DEF Running
<1>1. /\ pc[t] = "lock" /\ lock = Nobody /\ lock' = t /\ closed' = "closing" /\ op' = op /\ haz' = haz
      /\ pc' = [pc EXCEPT ![t] = "cutoff"]
      /\ UNCHANGED <<list, elements, counters, heads, rec, setup, write_closed_at>>
      /\ read_offset' = read_offset /\ write_offset' = write_offset /\ told' = told /\ under' = under
  BY DEF Lock, GoTo, offsets, clients
<1>2. TypeOK /\ pc \in [Tokens -> Places] /\ op \in [Tokens -> CallType] /\ Numbers /\ Asking
  BY DEF Running, TypeOK
<1>3. /\ op[t].name = "close" /\ op[t].count = 0 /\ op[t].written = 0 /\ op[t].seen <= reclaim_counter
  BY <1>1, Parts DEF Control, Named, Posting, Writing, Closing
<1>4. /\ pc'[t] = "cutoff" /\ op'[t] = op[t] /\ Only({t}) /\ pc' \in [Tokens -> Places] /\ op' \in [Tokens -> CallType]
  <2>1. "cutoff" \in Places BY DEF Places, Closing
  <2> QED BY <1>1, <1>2, <2>1 DEF Only
<1>5. Seen({t})
  <2>1. /\ ~Sender(t) /\ ~Reader(t) /\ \A m : ~Owns(t, m) /\ ~Takes(t, m) /\ ~Suspended(t, m) /\ ~Wakes(t, m) /\ ~Swept(t, m)
    BY <1>1, <1>3, CloserIs DEF Sweeping
  <2>2. /\ ~Sender(t)' /\ ~Reader(t)'
        /\ \A m : ~Owns(t, m)' /\ ~Takes(t, m)' /\ ~Suspended(t, m)' /\ ~Wakes(t, m)' /\ ~Swept(t, m)'
    BY <1>3, <1>4, CloserIs DEF Sweeping, Closing
  <2> QED BY <2>1, <2>2 DEF Seen, Owns, Takes, Suspended, Swept, Wakes
<1>6. /\ \A places : (At(places)' <=> "cutoff" \in places) /\ ~At(places)
  BY <1>1, <1>4, TokenAssumption DEF At
<1>7. /\ write_offset' \in Word /\ Sold' = Sold /\ Turn' = Turn /\ Sold \in Nat /\ Turn \in Nat
  BY <1>1, <1>2, Types DEF Sold, Turn
<1>8. ~CutDrawn /\ ~CutDrawn' /\ Cut = Sold /\ Cut' = Cut BY <1>1, <1>6, <1>7 DEF CutDrawn, Cut
<1>9. Numbers' BY <1>1, <1>2, <1>6, <1>7, <1>8 DEF Numbers
<1>10. Asking'
  <2>1. CutDrawn' = CutDrawn BY <1>8 DEF CutDrawn
  <2>2. \A u \in Tokens : pc'[u] \in BeforeDraw =>
             pc[u] \in BeforeDraw /\ op'[u].name = op[u].name /\ op'[u].count = op[u].count
    BY <1>1, <1>2 DEF BeforeDraw
  <2> QED BY <1>2, <1>7, <2>1, <2>2, AskingKeeps
<1>11. Closer(t)' BY <1>4 DEF Closer, Sweeping
<1>12. /\ pc'[t] \in Closing \cup {"unlock"} /\ pc[t] \in Closing \cup {"lock"} /\ Sold <= Sold'
       /\ closed' \in {"open", "closing", "closed"} /\ (closed' = "closed" <=> closed = "closed")
       /\ op'[t].name = "close" /\ op'[t].count = 0 /\ op'[t].written = 0 /\ op'[t].seen <= reclaim_counter
  BY <1>1, <1>3, <1>4, <1>7 DEF Closing
<1> QED BY <1>1, <1>4, <1>5, <1>7, <1>8, <1>9, <1>10, <1>11, <1>12, ClosingSeen

\* ... unless the channel is closed.
LEMMA LockReturnsKeeps ==
  ASSUME Running, NEW t \in Tokens, Lock(t), closed # "open"
  PROVE  Running'
<1>1. /\ pc[t] = "lock" /\ UNCHANGED <<queue, reclaim_counter, reclaim, clients>> /\ lock = Nobody /\ lock' = lock
      /\ haz_ptr_counter' = haz_ptr_counter /\ haz' = haz
      /\ pc' = [pc EXCEPT ![t] = "idle"] /\ op' = [op EXCEPT ![t] = NoCall]
  BY DEF Lock, counters, clients, reclaim, queue, cutoff, Return, GoTo
<1>2. /\ Control(t) /\ Acquires(t) /\ Has(t) /\ reclaim_counter \in Nat /\ haz_ptr_counter \in Nat /\ haz[t] \in HazType
  BY Fixed, Unmoved
<1>3. PICK c \in CallType : c = NoCall BY <1>2, Edited
<1>4. PICK h \in HazType : h = haz[t] BY <1>2
<1>5. pc' = [pc EXCEPT ![t] = "idle"] /\ op' = [op EXCEPT ![t] = c] /\ haz' = [haz EXCEPT ![t] = h]
  BY <1>1, <1>3, <1>4, Unmoved
<1>6. c.name = "none" /\ c.count = 0 /\ c.written = 0 /\ c.seen = 0 BY <1>3 DEF NoCall
<1>7. /\ "idle" \in Outer \ {"cutoff", "publish"} /\ pc[t] \in Outer \ {"cutoff", "publish"}
      /\ "idle" \in Places /\ lock # t
  BY <1>1, TokenAssumption DEF Outer, Places
<1>8. pc'[t] = "idle" /\ op'[t] = c /\ haz'[t] = h /\ Only({t}) BY <1>5, <1>7, Moved
<1>9. Control(t)'
  BY <1>1, <1>2, <1>6, <1>7, <1>8 DEF Control, Named, Acquiring, Polling, Closing, Reclaiming, Writing, Posting,
     Scanning, Visiting, Announcing, Moves, Sweeping
<1>10. haz_ptr_counter' \in Nat /\ haz_ptr_counter <= haz_ptr_counter' BY <1>1, <1>2
<1>11. (Member(t)' => Member(t)) /\ (Acquired(t)' => Acquired(t))
  BY <1>1, <1>4, <1>8 DEF Member, Acquired, Uncounted
<1>12. c.written <= c.count /\ c.seen <= reclaim_counter BY <1>2, <1>6
<1>13. Keeps(h, haz[t]) /\ (\A f \in Fields : h[f] = haz[t][f]) /\ h.active_offset = haz[t].active_offset
  BY <1>4 DEF Keeps
<1> QED BY <1>1, <1>2, <1>5, <1>6, <1>7, <1>9, <1>10, <1>11, <1>12, <1>13, OuterStep DEF BeforeDraw

\* Its ticket is the cutoff.
LEMMA DrawCutoffKeeps ==
  ASSUME Running, NEW t \in Tokens, DrawCutoff(t)
  PROVE  Running'
<1> HIDE DEF Running
<1>1. PICK k : k = [op[t] EXCEPT !.idx = write_offset] OBVIOUS
<1>2. TypeOK /\ pc \in [Tokens -> Places] /\ op \in [Tokens -> CallType] /\ Numbers /\ Asking /\ Heads
  BY DEF Running, TypeOK
<1>3. /\ pc[t] = "cutoff" /\ pc' = [pc EXCEPT ![t] = "publish"] /\ op' = [op EXCEPT ![t] = k] /\ haz' = haz
      /\ write_offset' = Plus(write_offset, 1) /\ read_offset' = read_offset /\ lock' = lock /\ closed' = closed
      /\ UNCHANGED <<list, elements, counters, heads, rec, setup, write_closed_at>>
      /\ told' = told /\ under' = under
  BY <1>1, <1>2, Unmoved DEF DrawCutoff, GoTo, clients, cutoff, reclaim
<1>4. /\ op[t].name = "close" /\ op[t].count = 0 /\ op[t].written = 0 /\ op[t].seen <= reclaim_counter /\ lock = t
      /\ op[t] \in CallType /\ write_offset \in Word
  <2>1. write_offset \in Word BY <1>2 DEF TypeOK
  <2> QED BY <1>3, <2>1, Parts DEF Control, Named, Posting, Writing, Closing
<1>5. /\ k \in CallType /\ k.idx = write_offset /\ k.name = "close" /\ k.count = 0 /\ k.written = 0 /\ k.seen = op[t].seen
  <2>1. k \in CallType BY <1>1, <1>4, Edited
  <2> QED BY <1>1, <1>4, <2>1 DEF CallType
<1>6. /\ pc'[t] = "publish" /\ op'[t] = k /\ Only({t}) /\ pc' \in [Tokens -> Places] /\ op' \in [Tokens -> CallType]
  <2>1. "publish" \in Places BY DEF Places, Closing
  <2> QED BY <1>2, <1>3, <1>5, <2>1 DEF Only
<1>7. Seen({t})
  <2>1. /\ ~Sender(t) /\ ~Reader(t) /\ \A m : ~Owns(t, m) /\ ~Takes(t, m) /\ ~Suspended(t, m) /\ ~Wakes(t, m) /\ ~Swept(t, m)
    BY <1>3, <1>4, CloserIs DEF Sweeping, Closing
  <2>2. /\ ~Sender(t)' /\ ~Reader(t)'
        /\ \A m : ~Owns(t, m)' /\ ~Takes(t, m)' /\ ~Suspended(t, m)' /\ ~Wakes(t, m)' /\ ~Swept(t, m)'
    BY <1>5, <1>6, CloserIs DEF Sweeping, Closing
  <2> QED BY <2>1, <2>2 DEF Seen, Owns, Takes, Suspended, Swept, Wakes
<1>8. \A places : (At(places)' <=> "publish" \in places) /\ (At(places) <=> "cutoff" \in places)
  BY <1>3, <1>4, <1>6, TokenAssumption DEF At
<1>9. /\ closed = "closing" /\ ~CutDrawn /\ CutDrawn' /\ Cut = Sold
  <2>1. closed = "closing" BY <1>2, <1>8 DEF Numbers
  <2> QED BY <1>3, <1>8, <2>1 DEF CutDrawn, Cut
<1>10. Begin(t)' = Sold /\ Cut' = Cut
  <2>1. Begin(t)' = Sold BY <1>5, <1>6 DEF Begin, Sold, Pos
  <2>2. Cut' = Begin(t)'
    <3>1. lock' = t /\ At({"publish"})' /\ closed' # "closed" BY <1>3, <1>4, <1>8, <1>9
    <3> QED BY <3>1 DEF Cut
  <2> QED BY <1>9, <2>1, <2>2
<1>11. /\ write_offset' \in Word /\ Sold' = Sold + 1 /\ Turn' = Turn /\ Sold \in Nat /\ Turn \in Nat
  <2>1. Sold \in Nat /\ Turn \in Nat /\ Turn' = Turn BY <1>2, <1>3, Types DEF Turn
  <2>2. Sold <= Top /\ Top \in Nat /\ 4 * Top < WordMod /\ WordMod \in Nat /\ Top = Skip + MaxTicket + MaxPull + 1 /\ Skip \in Nat
        /\ MaxTicket \in Nat /\ MaxPull \in Nat
    BY Bounds, TopIs, OriginIs, Sizes
  <2>3. Pos(write_offset) = Sold /\ 1 \in Nat BY DEF Sold
  <2>4. Pos(write_offset) + 1 < WordMod BY <2>1, <2>2, <2>3
  <2>5. Plus(write_offset, 1) \in Word /\ Pos(Plus(write_offset, 1)) = Sold + 1
    BY <1>4, <2>3, <2>4, PosPlus
  <2>6. Sold' = Pos(Plus(write_offset, 1)) BY <1>3 DEF Sold, Pos
  <2> QED BY <1>3, <2>1, <2>5, <2>6
<1>12. Numbers'
  <2>1. /\ Skip <= Turn' /\ Turn' <= Top /\ Skip <= Cut' /\ Cut' <= Sold' /\ Cut' < Sold'
    BY <1>2, <1>9, <1>10, <1>11 DEF Numbers
  <2>2. closed' = "closing" <=> At({"cutoff", "publish"})' BY <1>3, <1>8, <1>9
  <2>3. \A u \in Tokens : ~told'[u] BY <1>2, <1>3, <1>9 DEF Numbers
  <2> QED BY <2>1, <2>2, <2>3 DEF Numbers
<1>13. Asking'
  <2>1. \A names : Asked(names)' = Asked(names) BY <1>2, <1>3, <1>6 DEF Asked, BeforeDraw, Only
  <2>2. \A u \in Asked({"post", "post_bulk"}) : op'[u].count = op[u].count
    BY <1>3, <1>6 DEF Asked, BeforeDraw, Only
  <2>3. Asked({"post", "post_bulk"})' = Asked({"post", "post_bulk"}) /\ Pullers' = Pullers
    BY <2>1 DEF Pullers
  <2>4. TicketPairs' = TicketPairs BY <2>2, <2>3 DEF TicketPairs
  <2>5. PICK n \in Nat : n = Cardinality(TicketPairs) BY PairsAreFew
  <2>6. PICK n2 \in Nat : n2 = Cardinality(Pullers) BY PairsAreFew
  <2>7. Cardinality(TicketPairs') = n /\ Cardinality(Pullers') = n2 BY <2>3, <2>4, <2>5, <2>6
  <2>8. Sold + n <= Skip + MaxTicket + 0 /\ Turn + n2 <= Top /\ n2 <= MaxPull
    BY <1>2, <1>9, <2>5, <2>6 DEF Asking
  <2>9. Sold' + n <= Skip + MaxTicket + 1 /\ Turn' + n2 <= Top BY <1>11, <2>8, OriginIs, Sizes
  <2> QED BY <1>9, <2>7, <2>8, <2>9 DEF Asking
<1>14. Closer(t)'
  <2>1. First(head_block)' <= Begin(t)'
    <3>1. First(head_block)' = First(head_block) BY <1>3 DEF First, heads, list, Pos
    <3> QED BY <1>2, <1>10, <3>1 DEF Heads
  <2> QED BY <1>6, <2>1 DEF Closer, Sweeping
<1>15. /\ pc'[t] \in Closing \cup {"unlock"} /\ pc[t] \in Closing \cup {"lock"} /\ Sold <= Sold' /\ lock' = t
       /\ closed' \in {"open", "closing", "closed"} /\ (closed' = "closed" <=> closed = "closed")
       /\ op'[t].name = "close" /\ op'[t].count = 0 /\ op'[t].written = 0 /\ op'[t].seen <= reclaim_counter
  BY <1>3, <1>4, <1>5, <1>6, <1>9, <1>11 DEF Closing
<1> QED BY <1>3, <1>4, <1>6, <1>7, <1>10, <1>11, <1>12, <1>13, <1>14, <1>15, ClosingSeen

\* Who neither posts nor reads after the step disturbs no other.
LEMMA Silent ==
  ASSUME Running, NEW S \in SUBSET Tokens, Only(S), Cut' = Cut,
         \A u \in S : ~Sender(u) /\ ~Sender(u)' /\ ~Reader(u)'
  PROVE  SendersApart' /\ ReadersApart' /\ (\A m \in Nat : Done(m)' = Done(m))
<1> HIDE DEF Running
<1>1. \A u \in Tokens \ S : /\ Begin(u)' = Begin(u) /\ Finish(u)' = Finish(u) /\ Sender(u)' = Sender(u)
                            /\ Reader(u)' = Reader(u) /\ op'[u] = op[u] /\ \A m : Owns(u, m)' = Owns(u, m)
  BY Same DEF Only
<1>2. SendersApart /\ ReadersApart BY DEF Running
<1>3. \A u \in Tokens : Sender(u)' =>
         Begin(u)' = Begin(u) /\ Finish(u)' = Finish(u) /\ Sender(u) /\ op'[u] = op[u]
  BY <1>1
<1>4. SendersApart' BY <1>2, <1>3 DEF SendersApart
<1>5. \A u \in Tokens : Reader(u)' => Begin(u)' = Begin(u) /\ Reader(u) BY <1>1
<1>6. ReadersApart' BY <1>2, <1>5 DEF ReadersApart
<1>7. \A u \in S, m \in Nat : ~Owns(u, m) /\ ~Owns(u, m)' BY DEF Owns
<1>8. \A u \in Tokens, m \in Nat : Owns(u, m)' = Owns(u, m) BY <1>1, <1>7 DEF Owns
<1>9. \A m \in Nat : Done(m)' = Done(m) BY <1>8 DEF Done
<1> QED BY <1>4, <1>6, <1>9

\* A step of close() that waiting consumers can see.
LEMMA ClosingShown ==
  ASSUME Running, NEW t \in Tokens, Only({t}), NEW k \in CallType, op' = [op EXCEPT ![t] = k],
         pc'[t] \in Sweeping \cup {"load_readers", "unlock"}, pc[t] \in Closing, lock = t, lock' = t, op[t].name = "close",
         k.name = "close", k.count = 0, k.written = 0, k.seen <= reclaim_counter,
         haz' = haz, UNCHANGED <<list, elements, counters, heads, rec, setup>>,
         read_offset' = read_offset, write_offset' = write_offset,
         closed' = "closed", CutDrawn, write_closed_at' \in Word, Cut' = Cut,
         pc' \in [Tokens -> Places], told' = told, under' = under,
         Closer(t)', \A u \in Tokens \ {t} : Sought(u)',
         closed = "closed" \/ \A u \in Tokens : ~told[u],
         \A m \in Nat : Skip <= m /\ closed = "closed" /\ ~Swept(t, m) => ~Swept(t, m)'
  PROVE  Running'
<1> HIDE DEF Running
<1>1. TypeOK /\ Numbers /\ Asking /\ Served /\ op \in [Tokens -> CallType]
  BY DEF Running, TypeOK
<1>2. op'[t] = k /\ op' \in [Tokens -> CallType] /\ {t} \in SUBSET Tokens /\ write_offset' \in Word
  BY <1>1 DEF TypeOK
<1>16. pc'[t] \in Closing \cup {"unlock"} /\ pc'[t] \notin {"cutoff", "publish"}
  BY DEF Closing, Sweeping
<1>3. /\ ~Sender(t) /\ ~Reader(t) /\ \A m : ~Owns(t, m) /\ ~Takes(t, m) /\ ~Suspended(t, m) /\ ~Wakes(t, m)
  BY CloserIs
<1>4. /\ ~Sender(t)' /\ ~Reader(t)' /\ \A m : ~Owns(t, m)' /\ ~Takes(t, m)' /\ ~Suspended(t, m)' /\ ~Wakes(t, m)'
  BY <1>2, <1>16, CloserIs
<1>5. Sold' = Sold /\ Turn' = Turn /\ Sold \in Nat /\ Turn \in Nat /\ Cut \in Nat
  BY <1>1, Types, Bounds DEF Sold, Turn
<1>6. /\ \A places : (At(places)' <=> pc'[t] \in places) /\ (At(places) <=> lock = t /\ pc[t] \in places)
      /\ blocks' = blocks /\ (\A b : First(b)' = First(b)) /\ (\A m : Reaches(m)' = Reaches(m))
      /\ Unlinked' = Unlinked /\ ~At({"relink"}) /\ ~At({"relink"})'
  BY <1>2, <1>5, <1>16, ClosingFrame
<1>7. SendersApart' /\ ReadersApart' /\ (\A m \in Nat : Done(m)' = Done(m))
  BY <1>2, <1>3, <1>4, Silent
<1>8. \A u \in Tokens \ {t} : /\ pc'[u] = pc[u] /\ op'[u] = op[u]
                              /\ \A m : /\ Takes(u, m)' = Takes(u, m) /\ Suspended(u, m)' = Suspended(u, m)
                                        /\ Swept(u, m)' = Swept(u, m)
  BY Same DEF Only
<1>9. /\ \A u \in Tokens, m \in Nat : /\ Takes(u, m)' <=> Takes(u, m)
                                      /\ Suspended(u, m)' <=> Suspended(u, m)
      /\ \A m \in Nat : Taken(m)' <=> Taken(m)
  <2>1. \A u \in Tokens, m \in Nat : (Takes(u, m)' <=> Takes(u, m)) /\ (Suspended(u, m)' <=> Suspended(u, m))
    BY <1>3, <1>4, <1>8
  <2> QED BY <2>1 DEF Taken
<1>10. Served' BY <1>1, <1>5, <1>7, <1>9 DEF Served
<1>11. Cells'
  <2>1. ASSUME NEW m \in Nat, NEW flag, NEW value, CellOK(m, flag, value) PROVE CellOK(m, flag, value)'
    <3>1. value = IF Done(m)' /\ (Turn' <= m \/ Taken(m)') THEN m - Skip + 1 ELSE NoValue
      BY <1>5, <1>7, <1>9, <2>1 DEF CellOK
    <3>2. Done(m)' => \/ flag = "data"
                      \/ flag \in Tokens /\ (Turn' <= m \/ Taken(m)' => Takes(flag, m)')
      BY <1>5, <1>7, <1>9, <2>1 DEF CellOK
    <3>3. ASSUME Skip <= m, ~Done(m)'
          PROVE  \/ flag = "empty"
                 \/ flag \in Tokens /\ Suspended(flag, m)'
                 \/ /\ closed' = "closed" /\ Cut' <= m /\ m < Turn' /\ ~Taken(m)'
                    /\ \/ flag = "both"
                       \/ flag \in Tokens /\ \A w \in Tokens : ~Swept(w, m)'
      <4>1. closed = "closed" => ((\A w \in Tokens : ~Swept(w, m)) => \A w \in Tokens : ~Swept(w, m)')
        BY <1>8, <3>3
      <4> QED BY <1>5, <1>7, <1>9, <2>1, <3>3, <4>1 DEF CellOK
    <3> QED BY <3>1, <3>2, <3>3 DEF CellOK
  <2>2. \A m \in Nat : \A b \in blocks, i \in Index : \A flag, value :
             First(b) + i = m /\ CellOK(m, flags[b][i], stored[b][i])
             /\ flag = flags'[b][i] /\ value = stored'[b][i] => CellOK(m, flag, value)'
    <3>1. flags' = flags /\ stored' = stored BY DEF elements
    <3> QED BY <2>1, <3>1
  <2>3. \A m \in Nat : Done(m)' => Done(m) \/ Reaches(m) BY <1>7
  <2>4. At({"relink"})' = At({"relink"}) BY <1>6 DEF At
  <2> QED BY <1>6, <2>2, <2>3, <2>4, CellsFrom
<1>12. ASSUME NEW u \in Tokens \ {t}
       PROVE  Parks(u)'
  <2>1. pc[u] = "parked" => flags'[op[u].block][IndexOf(op[u].idx)] = u
    <3>1. Parks(u) /\ flags' = flags BY DEF Running, Token, elements
    <3> QED BY <3>1 DEF Parks
  <2>2. pc[u] = "parked" /\ Done(Begin(u))' => Done(Begin(u)) \/ \E w \in Tokens : Wakes(w, Begin(u))'
    <3>1. PICK m : m = Begin(u) OBVIOUS
    <3>2. m \in Nat /\ Begin(u)' = m BY <1>1, <3>1, Types, Same DEF Only
    <3>3. Done(Begin(u))' <=> Done(m)' BY <3>2 DEF Done
    <3> QED BY <1>7, <3>1, <3>2, <3>3
  <2>3. \A w \in {t}, m \in Nat : (Wakes(w, m) => Wakes(w, m)') /\ (Suspended(w, m) => Suspended(w, m)')
    BY <1>3
  <2> QED BY <1>2, <2>1, <2>2, <2>3, ParksBeside
<1>13. CutDrawn' BY DEF CutDrawn
<1>14. Numbers'
  <2>1. ~At({"cutoff", "publish"})' \/ pc'[t] \in {"cutoff", "publish"} BY <1>6
  <2>2. pc'[t] \notin {"cutoff", "publish"} BY <1>16
  <2> QED BY <1>1, <1>5, <2>1, <2>2 DEF Numbers
<1>15. Asking'
  <2>1. CutDrawn' = CutDrawn BY <1>13 DEF CutDrawn
  <2>2. \A u \in Tokens : pc'[u] \in BeforeDraw =>
             pc[u] \in BeforeDraw /\ op'[u].name = op[u].name /\ op'[u].count = op[u].count
    BY <1>8 DEF BeforeDraw, Closing, Sweeping
  <2> QED BY <1>1, <1>5, <2>1, <2>2, AskingKeeps
<1>17. /\ op'[t].name = "close" /\ op'[t].count = 0 /\ op'[t].written = 0 /\ op'[t].seen <= reclaim_counter
       /\ Sold <= Sold' /\ pc[t] \in Closing \cup {"lock"} /\ closed' \in {"open", "closing", "closed"}
       /\ (closed = "closed" => closed' = "closed")
       /\ told' \in [Tokens -> BOOLEAN] /\ under' \in [Tokens -> Tokens \cup {Nobody}]
       /\ \A u \in {t} \ {t} : Token(u)' /\ op'[u].written <= op'[u].count /\ op'[u].seen <= reclaim_counter
       /\ t \in {t}
  BY <1>1, <1>2, <1>5 DEF TypeOK
<1>18. /\ pc'[t] \in Closing \cup {"unlock"} /\ lock' = t /\ (lock = t \/ (pc[t] = "lock" /\ lock = Nobody))
       /\ UNCHANGED <<list, elements, counters, heads, rec, setup>>
  BY <1>16
<1>19. \A u \in Tokens \ {t} : Parks(u)' /\ Sought(u)' BY <1>12
<1> QED BY <1>2, <1>7, <1>10, <1>11, <1>14, <1>15, <1>17, <1>18, <1>19, ClosingStep

\* The cutoff is for all to see.
LEMMA PublishCutoffKeeps ==
  ASSUME Running, NEW t \in Tokens, PublishCutoff(t)
  PROVE  Running'
<1> HIDE DEF Running
<1>1. TypeOK /\ pc \in [Tokens -> Places] /\ op \in [Tokens -> CallType] /\ Numbers /\ Closer(t)
  BY DEF Running, TypeOK, Token
<1>2. PICK k \in CallType : k = op[t] BY <1>1
<1>3. /\ pc[t] = "publish" /\ pc' = [pc EXCEPT ![t] = "load_readers"] /\ op' = [op EXCEPT ![t] = k] /\ haz' = haz /\ op' = op
      /\ write_offset' = write_offset /\ read_offset' = read_offset /\ lock' = lock /\ closed' = "closed"
      /\ write_closed_at' = op[t].idx
      /\ UNCHANGED <<list, elements, counters, heads, rec, setup>>
      /\ told' = told /\ under' = under
  BY <1>1, <1>2 DEF PublishCutoff, GoTo, clients, offsets, reclaim
<1>4. /\ op[t].name = "close" /\ op[t].count = 0 /\ op[t].written = 0 /\ op[t].seen <= reclaim_counter /\ lock = t
      /\ op[t].idx \in Word
  BY <1>3, Parts, Fixed DEF Control, Named, Posting, Writing, Closing
<1>5. /\ k.name = "close" /\ k.count = 0 /\ k.written = 0 /\ k.seen <= reclaim_counter
  BY <1>2, <1>4
<1>6. /\ pc'[t] = "load_readers" /\ op'[t] = op[t] /\ Only({t}) /\ pc' \in [Tokens -> Places]
  <2>1. "load_readers" \in Places BY DEF Places, Closing
  <2> QED BY <1>1, <1>3, <2>1 DEF Only
<1>7. At({"publish"}) /\ CutDrawn /\ closed = "closing"
  <2>1. At({"publish"}) /\ At({"cutoff", "publish"}) BY <1>3, <1>4, TokenAssumption DEF At
  <2> QED BY <1>1, <2>1 DEF CutDrawn, Numbers
<1>8. Cut' = Cut /\ Cut = Begin(t) /\ Begin(t)' = Begin(t)
  <2>1. Cut = Begin(lock) /\ lock = t BY <1>4, <1>7 DEF Cut
  <2>2. Begin(t)' = Begin(t) BY <1>6 DEF Begin
  <2>3. Cut' = Pos(write_closed_at') BY <1>3 DEF Cut, Pos
  <2>4. Pos(write_closed_at') = Begin(t) BY <1>3 DEF Begin
  <2> QED BY <2>1, <2>2, <2>3, <2>4
<1>9. Closer(t)'
  <2>1. First(head_block)' = First(head_block) BY <1>3 DEF First, heads, list, Pos
  <2>2. First(head_block) <= Begin(t) BY <1>1, <1>3 DEF Closer
  <2> QED BY <1>3, <1>6, <1>8, <2>1, <2>2 DEF Closer, Sweeping
<1>10. \A u \in Tokens \ {t} : Sought(u)'
  <2>2. ASSUME NEW u \in Tokens PROVE Swept(t, Begin(u))' BY <1>4, <1>6 DEF Swept
  <2> QED BY <2>2 DEF Sought
<1>11. \A u \in Tokens : ~told[u] BY <1>1, <1>7 DEF Numbers
<1>12. /\ pc'[t] \in Sweeping \cup {"load_readers", "unlock"} /\ pc[t] \in Closing
       /\ write_closed_at' \in Word /\ lock' = t
       /\ (closed = "closed" \/ \A u \in Tokens : ~told[u])
       /\ \A m \in Nat : Skip <= m /\ closed = "closed" /\ ~Swept(t, m) => ~Swept(t, m)'
  BY <1>3, <1>4, <1>6, <1>7, <1>11 DEF Closing
<1> QED BY <1>3, <1>4, <1>5, <1>6, <1>7, <1>8, <1>9, <1>10, <1>12, ClosingShown

\* From now on readers see that the channel is closed.
LEMMA LoadReadersKeeps ==
  ASSUME Running, NEW t \in Tokens, LoadReaders(t)
  PROVE  Running'
<1> HIDE DEF Running
<1>1. TypeOK /\ pc \in [Tokens -> Places] /\ op \in [Tokens -> CallType] /\ Numbers /\ Closer(t) /\ Heads
  BY DEF Running, TypeOK, Token
<1>2. PICK k : k = [op[t] EXCEPT !.end = read_offset, !.walk = head_block] OBVIOUS
<1>3. PICK p : p = (IF CircularLess(op[t].idx, read_offset) THEN "seek_reader" ELSE "unlock")
  OBVIOUS
<1>4. /\ pc[t] = "load_readers" /\ pc' = [pc EXCEPT ![t] = p] /\ op' = [op EXCEPT ![t] = k] /\ haz' = haz
      /\ UNCHANGED <<queue, counters, reclaim, haz, clients>>
  BY <1>1, <1>2, <1>3 DEF LoadReaders, GoTo
<1>5. /\ write_offset' = write_offset /\ read_offset' = read_offset /\ lock' = lock /\ closed' = closed
      /\ write_closed_at' = write_closed_at
      /\ UNCHANGED <<list, elements, counters, heads, rec, setup>>
      /\ told' = told /\ under' = under
  BY <1>4 DEF clients, offsets, reclaim, queue, cutoff
<1>6. /\ op[t].name = "close" /\ op[t].count = 0 /\ op[t].written = 0 /\ op[t].seen <= reclaim_counter /\ lock = t
      /\ op[t].idx \in Word /\ op[t] \in CallType
  BY <1>4, Parts, Fixed DEF Control, Named, Posting, Writing, Closing
<1>7. /\ k \in CallType /\ k.name = "close" /\ k.count = 0 /\ k.written = 0 /\ k.seen <= reclaim_counter
      /\ k.idx = op[t].idx /\ k.end = read_offset /\ k.walk = head_block
  <2>1. read_offset \in Word /\ head_block \in Block BY <1>1 DEF TypeOK
  <2>2. k \in CallType BY <1>2, <1>6, <2>1 DEF CallType
  <2> QED BY <1>2, <1>6, <2>2 DEF CallType
<1>8. /\ pc'[t] = p /\ op'[t] = k /\ Only({t}) /\ pc' \in [Tokens -> Places] /\ p \in {"seek_reader", "unlock"}
  <2>1. {"seek_reader", "unlock"} \subseteq Places BY DEF Places, Closing, Sweeping, Reclaiming
  <2> QED BY <1>1, <1>3, <1>4, <2>1 DEF Only
<1>9. closed = "closed" /\ CutDrawn /\ Begin(t) = Cut /\ Begin(t)' = Begin(t) /\ First(head_block) <= Begin(t)
  <2>1. Begin(t)' = Begin(t) BY <1>7, <1>8 DEF Begin
  <2> QED BY <1>1, <1>4, <2>1 DEF Closer, CutDrawn
<1>10. Cut' = Cut /\ Turn' = Turn /\ Turn \in Nat /\ Cut \in Nat /\ Begin(t) \in Nat
  <2>1. Cut' = Cut BY <1>5, <1>9 DEF Cut
  <2>2. Turn' = Turn BY <1>5 DEF Turn
  <2> QED BY <1>9, <2>1, <2>2, Bounds, Parts
<1>11. Pos(k.end) = Turn /\ (p = "seek_reader" <=> Begin(t) < Turn)
  <2>1. Pos(op[t].idx) = Begin(t) /\ Pos(read_offset) = Turn BY DEF Begin, Turn
  <2>2. read_offset \in Word /\ Turn <= Top /\ Begin(t) <= Top
    <3>1. Cut <= Sold /\ Sold <= Top /\ Turn <= Top /\ Sold \in Nat /\ Top \in Nat BY Parts
    <3> QED BY <1>1, <1>9, <1>10, <3>1 DEF TypeOK
  <2>3. CircularLess(op[t].idx, read_offset) <=> Begin(t) < Turn
    BY <1>6, <2>1, <2>2, AtOrBeforeIs
  <2> QED BY <1>3, <1>7, <2>1, <2>3
<1>12. Closer(t)'
  <2>1. Turn <= Turn /\ Cut <= Begin(t) BY <1>9, <1>10
  <2>2. k.walk \in OnList' /\ First(k.walk)' <= Base(Begin(t))
    <3>1. PICK h \in OnList : h = head_block BY <1>1 DEF Heads
    <3>2. h \in OnList' /\ First(h)' = First(h)
      <4>1. ListHead' = ListHead BY <1>4, <1>5, <1>6, <1>8 DEF ListHead, heads
      <4>2. UNCHANGED <<list, offsets, head_block, head_offset>> BY <1>5 DEF offsets, heads
      <4> QED BY <4>1, <4>2, HeadsStay
    <3>3. First(h) \in Starts BY <3>1, Bounds DEF OnList
    <3>4. First(h) <= Begin(t) BY <1>9, <3>1
    <3>5. First(h) <= Base(Begin(t)) BY <1>10, <3>3, <3>4, BaseOf
    <3> QED BY <1>7, <3>1, <3>2, <3>5
  <2>3. PICK w : w = k.walk OBVIOUS
  <2>4. First(op[t].walk)' = First(w)' BY <1>8, <2>3
  <2>5. /\ pc'[t] \in Sweeping =>
            /\ Cut' <= Begin(t)' /\ Begin(t)' < Pos(op'[t].end) /\ Pos(op'[t].end) <= Turn'
            /\ op'[t].walk \in OnList' /\ First(op[t].walk)' <= Base(Begin(t)')
    BY <1>8, <1>9, <1>10, <1>11, <2>1, <2>2, <2>3, <2>4 DEF Sweeping
  <2>6. Pos(op[t].end)' = Pos(op'[t].end) BY DEF Pos
  <2> QED BY <1>5, <1>8, <1>9, <2>5, <2>6 DEF Closer, Sweeping
<1>13. \A u \in Tokens \ {t} : Sought(u)'
  <2>1. ASSUME NEW u \in Tokens \ {t}, Unaware(u)', Cut' <= Begin(u)'
        PROVE  Swept(t, Begin(u))'
    <3>1. Unaware(u)' = Unaware(u) /\ Begin(u)' = Begin(u) /\ Reader(u)' = Reader(u)
      BY <1>8, Same DEF Only
    <3>2. PICK m : m = Begin(u) OBVIOUS
    <3>3. m \in Nat /\ m < Turn /\ Cut <= m
      <4>1. Unaware(u) => Reader(u) BY DEF Unaware, Reader, Drawn, Walking, Reading
      <4> QED BY <1>10, <2>1, <3>1, <3>2, <4>1, Parts DEF Pull
    <3>4. p = "seek_reader" /\ Begin(t)' <= m /\ m < Pos(k.end) BY <1>9, <1>10, <1>11, <3>3
    <3>5. Swept(t, m)'
      <4>1. Pos(op[t].end)' = Pos(k.end) BY <1>8 DEF Pos
      <4> QED BY <1>7, <1>8, <3>4, <4>1 DEF Swept, Sweeping
    <3>6. Begin(u)' = m BY <3>1, <3>2
    <3> QED BY <3>5, <3>6 DEF Swept
  <2> QED BY <2>1 DEF Sought
<1>14. /\ pc'[t] \in Sweeping \cup {"load_readers", "unlock"} /\ pc[t] \in Closing
       /\ write_closed_at' \in Word /\ lock' = t /\ closed' = "closed"
       /\ (closed = "closed" \/ \A u \in Tokens : ~told[u])
       /\ \A m \in Nat : Skip <= m /\ closed = "closed" /\ ~Swept(t, m) => ~Swept(t, m)'
  <2>1. \A m : Swept(t, m) BY <1>4, <1>6 DEF Swept
  <2> QED BY <1>1, <1>4, <1>5, <1>6, <1>8, <1>9, <2>1 DEF Closing, Sweeping, TypeOK
<1> QED BY <1>4, <1>5, <1>6, <1>7, <1>8, <1>9, <1>10, <1>12, <1>13, <1>14, ClosingShown

\* What close() knows of the reader it has come to.
LEMMA SweepIs ==
  ASSUME Running, NEW t \in Tokens, pc[t] \in Sweeping
  PROVE  /\ op[t].name = "close" /\ op[t].count = 0 /\ op[t].written = 0 /\ op[t].seen <= reclaim_counter /\ lock = t
         /\ closed = "closed" /\ CutDrawn /\ op[t] \in CallType /\ op[t].idx \in Word /\ op[t].end \in Word
         /\ {Begin(t), Pos(op[t].end), Turn, Cut, Top, Base(Begin(t)), First(op[t].walk)} \subseteq Nat
         /\ Skip <= Begin(t) /\ Cut <= Begin(t) /\ Begin(t) < Pos(op[t].end) /\ Pos(op[t].end) <= Turn /\ Turn <= Top
         /\ op[t].walk \in OnList /\ op[t].walk \in blocks /\ op[t].walk \in Block
         /\ First(op[t].walk) \in Starts /\ First(op[t].walk) <= Base(Begin(t)) /\ Base(Begin(t)) \in Starts
         /\ Base(Begin(t)) <= Begin(t)
         /\ pc[t] = "spin" => First(op[t].walk) = Base(Begin(t))
<1> HIDE DEF Running
<1>1. TypeOK /\ Numbers /\ Closer(t) BY DEF Running, Token
<1>2. /\ op[t].name = "close" /\ op[t].count = 0 /\ op[t].written = 0 /\ op[t].seen <= reclaim_counter /\ lock = t
      /\ op[t].idx \in Word /\ op[t].end \in Word /\ op[t] \in CallType
  BY Parts, Fixed DEF Control, Named, Posting, Writing, Closing, Sweeping
<1>3. closed = "closed" /\ CutDrawn BY <1>1 DEF Closer, CutDrawn, Sweeping
<1>4. /\ Cut <= Begin(t) /\ Begin(t) < Pos(op[t].end) /\ Pos(op[t].end) <= Turn
      /\ op[t].walk \in OnList /\ First(op[t].walk) <= Base(Begin(t))
      /\ pc[t] = "spin" => First(op[t].walk) = Base(Begin(t))
  BY <1>1 DEF Closer, Sweeping
<1>5. {Begin(t), Pos(op[t].end), Turn, Cut, Top} \subseteq Nat /\ Skip <= Cut /\ Turn <= Top /\ Skip \in Nat
  BY Parts, Bounds, OriginIs
<1>6. op[t].walk \in blocks /\ First(op[t].walk) \in Starts /\ op[t].walk \in Block
  BY <1>1, <1>4, Bounds, Types DEF OnList
<1>7. First(op[t].walk) \in Nat /\ Base(Begin(t)) \in Nat /\ Base(Begin(t)) \in Starts /\ Base(Begin(t)) <= Begin(t)
  BY <1>5, <1>6, BaseOf, StartsApart
<1>8. Skip <= Begin(t) BY <1>4, <1>5
<1> QED BY <1>2, <1>3, <1>4, <1>5, <1>6, <1>7, <1>8

\* close() goes to the block of a reader.
LEMMA SeekReaderKeeps ==
  ASSUME Running, NEW t \in Tokens, SeekReader(t)
  PROVE  Running'
<1> HIDE DEF Running
<1>1. pc[t] = "seek_reader" /\ pc[t] \in Sweeping /\ UNCHANGED <<stored, offsets, cutoff, counters, reclaim, haz, clients>>
  BY DEF SeekReader, Sweeping
<1>2. /\ op[t].name = "close" /\ op[t].count = 0 /\ op[t].written = 0 /\ op[t].seen <= reclaim_counter /\ lock = t
      /\ closed = "closed" /\ CutDrawn /\ op[t] \in CallType
      /\ {Begin(t), Pos(op[t].end), Turn, Cut, Top, Base(Begin(t)), First(op[t].walk)} \subseteq Nat
      /\ Cut <= Begin(t) /\ Begin(t) < Pos(op[t].end) /\ Pos(op[t].end) <= Turn /\ Turn <= Top
      /\ op[t].walk \in OnList /\ op[t].walk \in blocks
      /\ First(op[t].walk) \in Starts /\ First(op[t].walk) <= Base(Begin(t)) /\ Base(Begin(t)) \in Starts
      /\ Base(Begin(t)) <= Begin(t)
  BY <1>1, SweepIs
<1>3. CASE ~Found(t)
  <2>1. PICK c \in Block : Advance(op[t].walk, c) /\ op' = [op EXCEPT ![t].walk = c] /\ pc' = pc
    BY <1>3 DEF SeekReader
  <2>2. PICK k \in CallType : k = [op[t] EXCEPT !.walk = c] BY WalkWith
  <2>3. op' = [op EXCEPT ![t] = k] BY <2>1, <2>2, WalkWith
  <2>4. First(op[t].walk) # Base(Begin(t)) BY <1>2, <1>3, FoundIs
  <2>5. First(op[t].walk) + BlockSize <= Base(Begin(t)) BY <1>2, <2>4, StartsApart
  <2>6. First(op[t].walk) + BlockSize <= Top BY <1>2, <2>5, Sizes
  <2>7. pc[t] \in {"seek", "reserve", "seek_reader"} /\ pc[t] # "reserve" BY <1>1
  <2> QED BY <1>1, <1>2, <2>1, <2>2, <2>3, <2>5, <2>6, <2>7, WalkOn
<1>4. CASE Found(t)
  <2>1. /\ pc' = [pc EXCEPT ![t] = "spin"] /\ UNCHANGED <<list, flags, op>>
    BY <1>4 DEF SeekReader, GoTo
  <2>2. /\ write_offset' = write_offset /\ read_offset' = read_offset /\ lock' = lock /\ closed' = closed /\ haz' = haz
        /\ UNCHANGED <<list, elements, counters, heads, rec, setup, write_closed_at>>
        /\ told' = told /\ under' = under /\ op' = op
    BY <1>1, <2>1 DEF clients, offsets, reclaim, elements, cutoff
  <2>3. TypeOK /\ pc \in [Tokens -> Places] /\ op \in [Tokens -> CallType] /\ Numbers /\ Asking
    BY DEF Running, TypeOK
  <2>4. pc'[t] = "spin" /\ op'[t] = op[t] /\ Only({t}) /\ pc' \in [Tokens -> Places] /\ op' \in [Tokens -> CallType]
    <3>1. "spin" \in Places BY DEF Places, Closing, Sweeping
    <3> QED BY <2>1, <2>2, <2>3, <3>1 DEF Only
  <2>5. /\ write_offset' \in Word /\ Sold' = Sold /\ Turn' = Turn /\ Cut' = Cut /\ Sold \in Nat /\ Turn \in Nat
    <3>1. Sold' = Sold /\ Turn' = Turn BY <2>2 DEF Sold, Turn
    <3>2. Cut' = Cut BY <1>2, <2>2 DEF Cut
    <3> QED BY <2>2, <2>3, <3>1, <3>2, Types DEF TypeOK
  <2>6. Begin(t)' = Begin(t) BY <2>4 DEF Begin
  <2>7. Seen({t})
    <3>1. /\ ~Sender(t) /\ ~Reader(t) /\ \A m : ~Owns(t, m) /\ ~Takes(t, m) /\ ~Suspended(t, m) /\ ~Wakes(t, m)
      BY <1>1, <1>2, CloserIs DEF Sweeping, Closing
    <3>2. /\ ~Sender(t)' /\ ~Reader(t)' /\ \A m : ~Owns(t, m)' /\ ~Takes(t, m)' /\ ~Suspended(t, m)' /\ ~Wakes(t, m)'
      BY <1>2, <2>4, CloserIs DEF Sweeping, Closing
    <3>3. \A m \in Nat : Swept(t, m)' <=> Swept(t, m)
      <4>1. Pos(op[t].end)' = Pos(op[t].end) BY <2>2 DEF Pos
      <4> QED BY <1>1, <2>4, <2>6, <4>1 DEF Swept, Sweeping
    <3> QED BY <3>1, <3>2, <3>3 DEF Seen, Owns, Takes, Suspended, Swept, Wakes
  <2>8. \A places : (At(places)' <=> "spin" \in places) /\ (At(places) <=> "seek_reader" \in places)
    BY <1>1, <1>2, <2>2, <2>4, TokenAssumption DEF At
  <2>9. Numbers'
    <3>1. CutDrawn' /\ ~At({"cutoff", "publish"})' BY <1>2, <2>2, <2>8 DEF CutDrawn
    <3> QED BY <1>2, <2>2, <2>3, <2>5, <3>1 DEF Numbers
  <2>10. Asking'
    <3>1. CutDrawn' = CutDrawn BY <1>2, <2>2 DEF CutDrawn
    <3>2. \A u \in Tokens : pc'[u] \in BeforeDraw =>
             pc[u] \in BeforeDraw /\ op'[u].name = op[u].name /\ op'[u].count = op[u].count
      BY <2>1, <2>3 DEF BeforeDraw
    <3> QED BY <2>3, <2>5, <3>1, <3>2, AskingKeeps
  <2>11. Closer(t)'
    <3>1. First(op[t].walk) = Base(Begin(t)) BY <1>2, <1>4, FoundIs
    <3>2. PICK w : w = op[t].walk OBVIOUS
    <3>3. /\ OnList' = OnList /\ First(w)' = First(w) /\ First(op[t].walk)' = First(w)'
          /\ Pos(op[t].end)' = Pos(op[t].end)
      <4>1. ListHead' = ListHead BY <2>2, <2>8 DEF ListHead, heads, At
      <4>2. UNCHANGED <<list, offsets, head_block, head_offset>> BY <2>2 DEF offsets, heads
      <4>3. OnList' = OnList /\ First(w)' = First(w) BY <4>1, <4>2, HeadsStay
      <4> QED BY <2>2, <3>2, <4>3 DEF Pos
    <3>4. /\ op[t].walk \in OnList' /\ First(op[t].walk)' = Base(Begin(t)') /\ First(op[t].walk)' <= Base(Begin(t)')
          /\ First(op[t].walk)' = First(op[t].walk)
      BY <1>2, <2>2, <2>6, <3>1, <3>2, <3>3
    <3> QED BY <1>2, <2>2, <2>4, <2>5, <2>6, <3>3, <3>4 DEF Closer, Sweeping
  <2>12. /\ pc'[t] \in Closing \cup {"unlock"} /\ pc[t] \in Closing \cup {"lock"} /\ Sold <= Sold' /\ lock' = t
         /\ closed' \in {"open", "closing", "closed"} /\ (closed' = "closed" <=> closed = "closed")
         /\ op'[t].name = "close" /\ op'[t].count = 0 /\ op'[t].written = 0 /\ op'[t].seen <= reclaim_counter
    BY <1>1, <1>2, <2>2, <2>4, <2>5 DEF Closing, Sweeping
  <2> QED BY <1>2, <2>2, <2>4, <2>5, <2>7, <2>9, <2>10, <2>11, <2>12, ClosingSeen
<1> QED BY <1>3, <1>4

\* close() gives blocks_lock up.
LEMMA UnlockCloseKeeps ==
  ASSUME Running, NEW t \in Tokens, Unlock(t), op[t].name = "close"
  PROVE  Running'
<1> HIDE DEF Running
<1>1. /\ pc[t] = "unlock" /\ pc' = [pc EXCEPT ![t] = "idle"] /\ lock' = Nobody /\ rec' = NoRec /\ op' = [op EXCEPT ![t] = NoCall]
      /\ UNCHANGED <<queue, counters, heads, haz, clients>>
  BY DEF Unlock, GoTo, Return
<1>2. /\ setup' = setup /\ told' = told /\ under' = under /\ UNCHANGED <<list, elements, offsets, tail_block>>
      /\ closed' = closed /\ write_closed_at' = write_closed_at /\ write_offset' = write_offset
      /\ head_block' = head_block /\ head_offset' = head_offset /\ tail_block' = tail_block
      /\ haz_ptr_counter' = haz_ptr_counter /\ reclaim_counter' = reclaim_counter /\ haz' = haz
  BY <1>1 DEF clients, queue, cutoff, heads, counters, offsets
<1>3. TypeOK /\ pc \in [Tokens -> Places] /\ op \in [Tokens -> CallType] /\ Numbers /\ Asking
  BY DEF Running, TypeOK
<1>4. lock = t /\ t # Nobody /\ Control(t)
  BY <1>1, Parts, TokenAssumption DEF Control, Reclaiming
<1>5. \A places : ~At(places)' /\ (At(places) <=> "unlock" \in places) BY <1>1, <1>4 DEF At
<1>6. pc'[t] = "idle" /\ op'[t] = NoCall /\ Only({t}) /\ pc' \in [Tokens -> Places] /\ op' \in [Tokens -> CallType]
  <2>1. "idle" \in Places BY DEF Places
  <2> QED BY <1>1, <1>3, <2>1, Edited DEF Only
<1>7. /\ NoCall.name = "none" /\ NoCall.count = 0 /\ NoCall.written = 0 /\ NoCall.seen = 0
  BY DEF NoCall
<1>8. Seen({t})
  <2>1. /\ ~Sender(t) /\ ~Reader(t) /\ \A m : ~Owns(t, m) /\ ~Takes(t, m) /\ ~Suspended(t, m) /\ ~Wakes(t, m) /\ ~Swept(t, m)
    BY <1>1, CloserIs DEF Sweeping
  <2>2. /\ ~Sender(t)' /\ ~Reader(t)'
        /\ \A m : ~Owns(t, m)' /\ ~Takes(t, m)' /\ ~Suspended(t, m)' /\ ~Wakes(t, m)' /\ ~Swept(t, m)'
    BY <1>6, Outside DEF Outer
  <2> QED BY <2>1, <2>2 DEF Seen, Owns, Takes, Suspended, Swept, Wakes
<1>9. /\ ListHead' = ListHead /\ Lowest' = Lowest
  <2>1. ListHead' = ListHead BY <1>1, <1>2, <1>4 DEF ListHead
  <2> QED BY <1>5, <2>1 DEF Lowest, Moves
<1>10. rec'.unlinked = rec.unlinked /\ rec' \in RecType /\ rec'.unlinked = <<>> /\ rec'.count = 0
  <2>1. rec.unlinked = <<>> BY <1>5 DEF Reclaim, Running, Moves
  <2> QED BY <1>1, <2>1, Records DEF NoRec
<1>11. Heads' /\ Sold' = Sold /\ Turn' = Turn
  <2>1. UNCHANGED <<list, offsets, head_block, head_offset>> BY <1>2
  <2> QED BY <1>9, <2>1, HeadsStay
<1>12. (\A u \in Tokens : Met(u)') /\ Reclaim' BY <1>5, <1>10, NothingMet, NothingReclaimed
<1>13. ~At({"publish"}) /\ ~At({"publish"})' /\ (CutDrawn' <=> CutDrawn) /\ Cut' = Cut /\ Cut \in Nat
       /\ Sold \in Nat /\ Turn \in Nat
  <2>1. ~At({"publish"}) /\ ~At({"publish"})' BY <1>5
  <2>2. Cut' = Cut BY <1>2, <1>11, <2>1 DEF Cut
  <2> QED BY <1>2, <1>3, <2>1, <2>2, Bounds, Types DEF CutDrawn
<1>14. Calm({t})
  <2>1. \A u \in Tokens \ {t} : lock' = u <=> lock = u BY <1>1, <1>4, TokenAssumption
  <2>2. ~At({"validate"})' BY <1>5
  <2>3. blocks \subseteq blocks' /\ \A b \in OnList : offset'[b] = offset[b] BY <1>2 DEF list
  <2>4. Sold' \in Nat /\ Turn' \in Nat /\ Sold <= Sold' /\ Turn <= Turn' /\ Cut' \in Nat
    BY <1>11, <1>13
  <2> QED BY <1>2, <1>6, <1>9, <1>13, <2>1, <2>2, <2>3, <2>4 DEF Calm
<1>15. Numbers'
  <2>1. closed' = "closing" <=> At({"cutoff", "publish"})' BY <1>2, <1>3, <1>5 DEF Numbers
  <2> QED BY <1>2, <1>3, <1>11, <1>13, <2>1 DEF Numbers
<1>16. Asking'
  <2>1. CutDrawn' = CutDrawn BY <1>13 DEF CutDrawn
  <2>2. \A u \in Tokens : pc'[u] \in BeforeDraw =>
             pc[u] \in BeforeDraw /\ op'[u].name = op[u].name /\ op'[u].count = op[u].count
    BY <1>6 DEF BeforeDraw, Only
  <2> QED BY <1>3, <1>11, <2>1, <2>2, AskingKeeps
<1>17. Token(t)'
  <2>1. /\ Post(t)' /\ Pull(t)' /\ Sought(t)' /\ Parks(t)' /\ Closer(t)' /\ Uses(t)' /\ Acquires(t)'
    BY <1>6, OuterToken DEF Outer
  <2>2. Control(t)'
    BY <1>1, <1>2, <1>4, <1>6, <1>7 DEF Control, Named, Acquiring, Polling, Closing, Reclaiming, Writing, Posting,
       Scanning, Visiting, Announcing, Moves, Sweeping
  <2>3. Has(t)'
    <3>1. Acquired(t)' => Acquired(t) BY <1>1, <1>2, <1>6 DEF Acquired
    <3> QED BY <1>2, <1>14, <3>1, HasStays DEF Keeps
  <2> QED BY <1>12, <2>1, <2>2, <2>3 DEF Token
<1>18. TypeOK'
  <2>1. \A u \in Tokens : op'[u].written <= op'[u].count /\ op'[u].seen <= reclaim_counter
    <3>1. reclaim_counter \in Nat /\ 0 <= 0 BY <1>3 DEF TypeOK
    <3>2. op'[t].written <= op'[t].count /\ op'[t].seen <= reclaim_counter BY <1>6, <1>7, <3>1
    <3> QED BY <1>3, <1>6, <3>2 DEF TypeOK, Only
  <2>2. rec'.count <= haz_ptr_counter /\ Len(rec'.unlinked) <= GroupSize
    BY <1>3, <1>10 DEF TypeOK, GroupSize
  <2>3. /\ blocks' = blocks /\ next' = next /\ offset' = offset /\ flags' = flags /\ stored' = stored
        /\ read_offset' = read_offset
    BY <1>2 DEF list, elements, offsets
  <2> QED BY <1>1, <1>2, <1>3, <1>6, <1>10, <2>1, <2>2, <2>3 DEF TypeOK
<1>19. /\ (closed' = "closed" <=> closed = "closed")
       /\ (\A u \in Tokens \ {t} : Met(u)') /\ (\A u \in {t} : Token(u)')
  BY <1>2, <1>12, <1>17
<1>20. At({"relink"})' = At({"relink"})
  <2>1. ~At({"relink"})' /\ ~At({"relink"}) BY <1>5
  <2> QED BY <2>1 DEF At
<1> QED
  BY <1>20, <1>2, <1>6, <1>8, <1>9, <1>10, <1>11, <1>12, <1>13, <1>14, <1>15, <1>16, <1>18, <1>19, CalmStep

\* Where close() goes from a reader.
LEMMA AfterReaderIs ==
  ASSUME Running, NEW t \in Tokens, pc[t] = "spin", NEW m \in Nat, m = Begin(t)
  PROVE  /\ Plus(op[t].idx, 1) \in Word /\ Pos(Plus(op[t].idx, 1)) = m + 1
         /\ AfterReader(t) \in Sweeping \cup {"unlock"}
         /\ AfterReader(t) \in Sweeping <=> m + 1 < Pos(op[t].end)
         /\ AfterReader(t) = "spin" => Base(m + 1) = Base(m)
         /\ Base(m) <= Base(m + 1)
<1> HIDE DEF Running
<1>1. /\ op[t].idx \in Word /\ op[t].end \in Word /\ {Turn, Top, Pos(op[t].end)} \subseteq Nat
      /\ m < Pos(op[t].end) /\ Pos(op[t].end) <= Turn /\ Turn <= Top
  BY SweepIs DEF Sweeping
<1>2. 4 * Top < WordMod /\ WordMod \in Nat /\ Top \in Nat BY Bounds
<1>3. PICK x : x = Plus(op[t].idx, 1) OBVIOUS
<1>4. x \in Word /\ Pos(x) = m + 1
  <2>1. Pos(op[t].idx) = m /\ 1 \in Nat BY DEF Begin
  <2>2. m + 1 < WordMod BY <1>1, <1>2
  <2> QED BY <1>1, <1>3, <2>1, <2>2, PosPlus
<1>5. CircularLess(x, op[t].end) <=> m + 1 < Pos(op[t].end)
  <2>1. Pos(x) <= Top /\ Pos(op[t].end) <= Top BY <1>1, <1>2, <1>4
  <2> QED BY <1>1, <1>4, <2>1, AtOrBeforeIs
<1>6. /\ AfterReader(t) \in Sweeping \cup {"unlock"}
      /\ AfterReader(t) \in Sweeping <=> CircularLess(x, op[t].end)
      /\ AfterReader(t) = "spin" => IndexOf(x) # 0
  BY <1>3 DEF AfterReader, Sweeping
<1>7. IndexOf(x) # 0 => Base(m + 1) = Base(m)
  <2>1. IndexOf(x) = (m + 1) - Base(m + 1)
    <3>1. IndexOf(x) = Pos(x) - Base(Pos(x)) BY <1>4, PlaceOf
    <3>2. Pos(x) = m + 1 BY <1>4
    <3>3. PICK n \in Nat : n = m + 1 OBVIOUS
    <3>4. Pos(x) = n /\ Base(Pos(x)) = Base(n) BY <3>2, <3>3
    <3>5. IndexOf(x) = n - Base(n) BY <3>1, <3>4
    <3> QED BY <3>3, <3>5
  <2>2. m + 1 \in Nat /\ Base(m + 1) \in Starts /\ Base(m + 1) <= m + 1 /\ Base(m) <= Base(m + 1)
        /\ {Base(m), Base(m + 1)} \subseteq Nat
    BY BaseOf, BaseGrows
  <2>3. IndexOf(x) # 0 => Base(m + 1) <= m BY <2>1, <2>2
  <2>4. IndexOf(x) # 0 => Base(m + 1) <= Base(m) BY <2>2, <2>3, BaseOf
  <2> QED BY <2>2, <2>4
<1>8. Base(m) <= Base(m + 1) BY BaseGrows
<1> QED BY <1>3, <1>4, <1>5, <1>6, <1>7, <1>8

\* close() leaves a reader behind: those of S are the close() and who it resumes.
LEMMA SweepFrame ==
  ASSUME Running, NEW t \in Tokens, pc[t] = "spin", NEW S \in SUBSET Tokens, t \in S, Only(S),
         NEW m \in Nat, m = Begin(t), NEW k \in CallType, k = [op[t] EXCEPT !.idx = Plus(op[t].idx, 1)],
         op'[t] = k, pc'[t] = AfterReader(t), haz' = haz, UNCHANGED <<queue, counters, reclaim, setup>>,
         \A u \in S \ {t} : pc[u] = "parked" /\ Begin(u) = m /\ pc'[u] = "idle" /\ op'[u] = NoCall,
         \A u \in Tokens \ S : Reader(u) => Begin(u) # m
  PROVE  /\ Begin(t)' = m + 1 /\ k.name = "close" /\ k.count = 0 /\ k.written = 0 /\ k.seen <= reclaim_counter
         /\ k.end = op[t].end /\ k.walk = op[t].walk
         /\ (\A u \in S : ~Sender(u) /\ ~Sender(u)' /\ ~Reader(u)')
         /\ (\A u \in Tokens, n \in Nat : n # m =>
                /\ Takes(u, n)' <=> Takes(u, n)
                /\ Suspended(u, n) => Suspended(u, n)'
                /\ Swept(u, n)' <=> Swept(u, n))
         /\ (\A u \in Tokens : ~Swept(u, m)' /\ ~Takes(u, m)')
         /\ (\A u \in Tokens, n \in Nat : Wakes(u, n)' <=> Wakes(u, n))
<1> HIDE DEF Running
<1>1. /\ op[t].name = "close" /\ op[t].count = 0 /\ op[t].written = 0 /\ op[t].seen <= reclaim_counter /\ lock = t
      /\ op[t] \in CallType /\ Begin(t) < Pos(op[t].end) /\ Pos(op[t].end) \in Nat
  BY SweepIs DEF Sweeping
<1>2. /\ Plus(op[t].idx, 1) \in Word /\ Pos(Plus(op[t].idx, 1)) = m + 1
      /\ pc'[t] \in Sweeping \cup {"unlock"} /\ (pc'[t] \in Sweeping <=> m + 1 < Pos(op[t].end))
  BY AfterReaderIs
<1>3. /\ k.name = "close" /\ k.count = 0 /\ k.written = 0 /\ k.seen = op[t].seen /\ k.idx = Plus(op[t].idx, 1)
      /\ k.end = op[t].end /\ k.walk = op[t].walk
  BY <1>1 DEF CallType
<1>4. Begin(t)' = m + 1 BY <1>2, <1>3 DEF Begin, Pos
<1>5. /\ ~Sender(t) /\ ~Reader(t) /\ \A n : ~Owns(t, n) /\ ~Takes(t, n) /\ ~Suspended(t, n) /\ ~Wakes(t, n)
  BY <1>1, CloserIs DEF Closing, Sweeping
<1>6. /\ ~Sender(t)' /\ ~Reader(t)' /\ \A n : ~Owns(t, n)' /\ ~Takes(t, n)' /\ ~Suspended(t, n)' /\ ~Wakes(t, n)'
  BY <1>2, <1>3, CloserIs DEF Closing
<1>7. ASSUME NEW n \in Nat
      PROVE  Swept(t, n)' <=> Swept(t, n) /\ n # m
  <2>1. Pos(op[t].end)' = Pos(op[t].end) BY <1>3 DEF Pos
  <2>2. Swept(t, n) <=> m <= n /\ n < Pos(op[t].end) BY <1>1 DEF Swept, Sweeping
  <2>3. Swept(t, n)' <=> pc'[t] \in Sweeping /\ m + 1 <= n /\ n < Pos(op[t].end)
    <3>1. pc'[t] # "load_readers" BY <1>2 DEF Sweeping
    <3> QED BY <1>3, <1>4, <2>1, <3>1 DEF Swept
  <2> QED BY <1>1, <1>2, <2>2, <2>3
<1>8. ASSUME NEW u \in S \ {t}
      PROVE  /\ ~Sender(u) /\ ~Sender(u)' /\ ~Reader(u)'
             /\ \A n : /\ ~Takes(u, n)' /\ ~Suspended(u, n)' /\ ~Swept(u, n)' /\ ~Wakes(u, n)'
                       /\ ~Swept(u, n) /\ ~Wakes(u, n) /\ (Takes(u, n) => n = m) /\ (Suspended(u, n) => n = m)
  <2>1. pc[u] = "parked" /\ Begin(u) = m BY <1>8
  <2>2. ~Sender(u)' /\ ~Reader(u)' /\ \A n : ~Takes(u, n)' /\ ~Suspended(u, n)' /\ ~Swept(u, n)' /\ ~Wakes(u, n)'
    BY <1>8, Outside DEF Outer
  <2>3. ~Sender(u) BY <2>1 DEF Sender, Walking, Writing
  <2>4. \A n : ~Swept(u, n) /\ ~Wakes(u, n) /\ (Takes(u, n) => n = m) /\ (Suspended(u, n) => n = m)
    BY <2>1 DEF Swept, Sweeping, Wakes, Takes, Suspended
  <2> QED BY <2>2, <2>3, <2>4
<1>9. ASSUME NEW u \in Tokens \ S
      PROVE  \A n : /\ Takes(u, n)' = Takes(u, n) /\ Suspended(u, n)' = Suspended(u, n)
                    /\ Swept(u, n)' = Swept(u, n) /\ Wakes(u, n)' = Wakes(u, n)
                    /\ ~Swept(u, n) /\ ~Takes(u, m)
  <2>1. \A n : /\ Takes(u, n)' = Takes(u, n) /\ Suspended(u, n)' = Suspended(u, n)
               /\ Swept(u, n)' = Swept(u, n) /\ Wakes(u, n)' = Wakes(u, n)
    BY Same DEF Only
  <2>2. \A n : ~Swept(u, n)
    <3>1. lock # u /\ Control(u) BY <1>1, Parts
    <3> QED BY <3>1 DEF Control, Swept, Closing
  <2>3. ~Takes(u, m) BY DEF Takes
  <2> QED BY <2>1, <2>2, <2>3
<1>10. \A u \in S : ~Sender(u) /\ ~Sender(u)' /\ ~Reader(u)' BY <1>5, <1>6, <1>8
<1>11. ASSUME NEW u \in Tokens, NEW n \in Nat, n # m
       PROVE  /\ Takes(u, n)' <=> Takes(u, n)
              /\ Suspended(u, n) => Suspended(u, n)'
              /\ Swept(u, n)' <=> Swept(u, n)
  BY <1>5, <1>6, <1>7, <1>8, <1>9, <1>11
<1>12. ASSUME NEW u \in Tokens
       PROVE  ~Swept(u, m)' /\ ~Takes(u, m)'
  BY <1>6, <1>7, <1>8, <1>9
<1>13. ASSUME NEW u \in Tokens, NEW n \in Nat
       PROVE  Wakes(u, n)' <=> Wakes(u, n)
  BY <1>5, <1>6, <1>8, <1>9
<1> QED BY <1>1, <1>3, <1>4, <1>10, <1>11, <1>12, <1>13

\* Who waits, or is about to wake another, does so still: the reader that close()
\* has come to was nobody's.
LEMMA SweepParks ==
  ASSUME Running, NEW t \in Tokens, pc[t] = "spin", NEW S \in SUBSET Tokens, t \in S, Only(S),
         NEW m \in Nat, m = Begin(t), UNCHANGED elements, \A u \in S \ {t} : pc[u] = "parked" /\ Begin(u) = m,
         \A n \in Nat : Done(n)' = Done(n),
         \A u \in Tokens, n \in Nat : n # m /\ Suspended(u, n) => Suspended(u, n)',
         \A u \in Tokens, n \in Nat : Wakes(u, n)' <=> Wakes(u, n),
         NEW u \in Tokens \ S
  PROVE  Parks(u)'
<1> HIDE DEF Running
<1>1. TypeOK /\ Parks(u) /\ Post(u) /\ Control(u) BY DEF Running, Token
<1>2. pc'[u] = pc[u] /\ op'[u] = op[u] /\ haz'[u] = haz[u] /\ flags' = flags
  BY DEF Only, elements
<1>3. Begin(u)' = Begin(u) /\ Begin(u) \in Nat /\ op[u].written \in Nat /\ op[u].count \in Nat
      /\ Finish(u) = Begin(u) + op[u].count /\ Cut <= m /\ Cut \in Nat
  BY <1>1, <1>2, Same, Types, Parts, SweepIs DEF Sweeping
<1>4. pc[u] = "parked" => flags'[op'[u].block][IndexOf(op'[u].idx)] = u BY <1>1, <1>2 DEF Parks
<1>5. pc[u] = "parked" /\ Done(Begin(u))' => \E w \in Tokens : pc'[w] = "wake" /\ Begin(w)' + op'[w].written = Begin(u)
  <2>1. PICK n : n = Begin(u) OBVIOUS
  <2>2. Done(Begin(u))' <=> Done(n)' BY <1>3, <2>1 DEF Done
  <2>3. pc[u] = "parked" /\ Done(n) => \E w \in Tokens : Wakes(w, n)
    BY <1>1, <2>1 DEF Parks, Wakes
  <2>4. pc[u] = "parked" /\ Done(n) => \E w \in Tokens : Wakes(w, n)' BY <1>3, <2>1, <2>3
  <2> QED BY <1>3, <2>1, <2>2, <2>4 DEF Wakes
<1>6. pc[u] = "wake" => \E w \in Tokens : Suspended(w, Begin(u) + op[u].written)'
  <2> SUFFICES ASSUME pc[u] = "wake" PROVE \E w \in Tokens : Suspended(w, Begin(u) + op[u].written)'
    OBVIOUS
  <2>1. PICK n \in Nat : n = Begin(u) + op[u].written BY <1>3
  <2>2. PICK w \in Tokens : Suspended(w, n) BY <1>1, <2>1 DEF Parks
  <2>3. op[u].written < op[u].count /\ op[u].name \in {"post", "post_bulk"}
    BY <1>1 DEF Control, Named
  <2>4. Finish(u) <= Cut BY <1>1, <1>3, <2>3 DEF Post, Sender, Posting, Writing
  <2>5. n # m BY <1>3, <2>1, <2>3, <2>4
  <2>6. Suspended(w, n)' BY <2>2, <2>5
  <2>7. Begin(u)' + op'[u].written = n BY <1>2, <1>3, <2>1
  <2> QED BY <1>2, <1>3, <2>1, <2>6, <2>7 DEF Suspended
<1> QED
  <2>1. pc'[u] = "wake" => \E w \in Tokens : Suspended(w, Begin(u) + op[u].written)'
    BY <1>2, <1>6
  <2>2. pc'[u] = "parked" =>
          /\ flags'[op'[u].block][IndexOf(op'[u].idx)] = u
          /\ Done(Begin(u))' => \E w \in Tokens : pc'[w] = "wake" /\ Begin(w)' + op'[w].written = Begin(u)'
    BY <1>2, <1>3, <1>4, <1>5
  <2> QED BY <2>1, <2>2 DEF Parks

\* Every other pull that is to be told is still ahead of close().
LEMMA SweepSeeks ==
  ASSUME Running, NEW t \in Tokens, pc[t] = "spin", NEW S \in SUBSET Tokens, t \in S, Only(S),
         NEW m \in Nat, m = Begin(t), closed' = closed, Cut' = Cut,
         \A u \in Tokens \ S : Reader(u) => Begin(u) # m,
         \A u \in Tokens, n \in Nat : n # m => (Swept(u, n)' <=> Swept(u, n)),
         NEW u \in Tokens \ S
  PROVE  Sought(u)'
<1> HIDE DEF Running
<1>1. TypeOK /\ Sought(u) BY DEF Running, Token
<1>2. Begin(u)' = Begin(u) /\ Begin(u) \in Nat /\ Unaware(u)' = Unaware(u)
  BY <1>1, Same, Types DEF Only
<1>3. ASSUME Unaware(u), closed = "closed", Cut <= Begin(u)
      PROVE  \E w \in Tokens : Swept(w, Begin(u))'
  <2>1. PICK n \in Nat : n = Begin(u) BY <1>2
  <2>2. Reader(u) BY <1>3 DEF Unaware, Reader, Drawn, Walking, Reading
  <2>3. n # m BY <2>1, <2>2
  <2>4. PICK w \in Tokens : Swept(w, n) BY <1>1, <1>3, <2>1 DEF Sought
  <2>5. Swept(w, n)' BY <2>3, <2>4
  <2> QED BY <1>2, <2>1, <2>5 DEF Swept
<1> QED BY <1>2, <1>3 DEF Sought

\* The elements past a reader that close() leaves behind.
LEMMA SweepCells ==
  ASSUME Running, NEW t \in Tokens, pc[t] = "spin", NEW m \in Nat, m = Begin(t),
         UNCHANGED <<queue, rec>>, Cut' = Cut, ~At({"relink"}), ~At({"relink"})', Unlinked' = Unlinked,
         \A n \in Nat : Done(n)' = Done(n),
         \A u \in Tokens, n \in Nat : n # m =>
                /\ Takes(u, n)' <=> Takes(u, n)
                /\ Suspended(u, n) => Suspended(u, n)'
                /\ Swept(u, n)' <=> Swept(u, n),
         \A u \in Tokens : ~Swept(u, m)' /\ ~Takes(u, m)',
         flags[op[t].walk][IndexOf(op[t].idx)] \in {"both"} \cup Tokens
  PROVE  Cells' /\ Served'
<1> HIDE DEF Running
<1>1. TypeOK /\ Served /\ Linked /\ Cells BY DEF Running
<1>2. /\ closed = "closed" /\ Cut <= m /\ m < Turn /\ Skip <= m /\ Cut \in Nat /\ Turn \in Nat
      /\ op[t].walk \in OnList /\ op[t].walk \in blocks /\ First(op[t].walk) = Base(m) /\ op[t].idx \in Word
  BY SweepIs DEF Sweeping
<1>3. /\ flags' = flags /\ stored' = stored /\ closed' = closed /\ Turn' = Turn /\ blocks' = blocks /\ \A b : First(b)' = First(b)
  BY DEF queue, elements, cutoff, offsets, list, Turn, First
<1>4. ~Done(m) BY <1>2 DEF Done
<1>5. \A n \in Nat : n # m => (Taken(n)' <=> Taken(n)) BY DEF Taken
<1>6. ~Taken(m)' BY DEF Taken
<1>7. Served' BY <1>1, <1>2, <1>3, <1>5 DEF Served
<1>8. PICK b, i : b = op[t].walk /\ i = IndexOf(op[t].idx) OBVIOUS
<1>9. /\ b \in blocks /\ i \in Index /\ First(b) + i = m /\ flags[b][i] \in {"both"} \cup Tokens
      /\ CellOK(m, flags[b][i], stored[b][i])
  <2>1. Pos(op[t].idx) = m BY DEF Begin
  <2>2. /\ CellOK(Pos(op[t].idx), flags[op[t].walk][IndexOf(op[t].idx)], stored[op[t].walk][IndexOf(op[t].idx)])
        /\ IndexOf(op[t].idx) \in Index /\ First(op[t].walk) + IndexOf(op[t].idx) = Pos(op[t].idx)
    BY <1>2, <2>1, CellAt
  <2> QED BY <1>2, <1>8, <2>1, <2>2
<1>10. CellOK(m, flags[b][i], stored[b][i])'
  <2>1. PICK f, v : f = flags[b][i] /\ v = stored[b][i] OBVIOUS
  <2>2. v = NoValue BY <1>4, <1>9, <2>1 DEF CellOK
  <2>3. f \in {"both"} \cup Tokens BY <1>9, <2>1
  <2>4. ~Done(m)' BY <1>4
  <2>5. CellOK(m, f, v)' BY <1>2, <1>3, <1>6, <2>2, <2>3, <2>4 DEF CellOK
  <2>6. flags'[b][i] = f /\ stored'[b][i] = v BY <1>3, <2>1
  <2> QED BY <2>5, <2>6
<1>11. ASSUME NEW n \in Nat, n # m, NEW flag, NEW value, CellOK(n, flag, value)
       PROVE  CellOK(n, flag, value)'
  <2>1. value = IF Done(n)' /\ (Turn' <= n \/ Taken(n)') THEN n - Skip + 1 ELSE NoValue
    BY <1>3, <1>5, <1>11 DEF CellOK
  <2>2. Done(n)' => \/ flag = "data"
                    \/ flag \in Tokens /\ (Turn' <= n \/ Taken(n)' => Takes(flag, n)')
    BY <1>3, <1>5, <1>11 DEF CellOK
  <2>3. ASSUME Skip <= n, ~Done(n)'
        PROVE  \/ flag = "empty"
               \/ flag \in Tokens /\ Suspended(flag, n)'
               \/ /\ closed' = "closed" /\ Cut' <= n /\ n < Turn' /\ ~Taken(n)'
                  /\ \/ flag = "both"
                     \/ flag \in Tokens /\ \A w \in Tokens : ~Swept(w, n)'
    BY <1>3, <1>5, <1>11, <2>3 DEF CellOK
  <2> QED BY <2>1, <2>2, <2>3 DEF CellOK
<1>12. Cells'
  <2>1. ASSUME NEW n \in Nat, NEW d \in blocks, NEW j \in Index, First(d) + j = n, CellOK(n, flags[d][j], stored[d][j])
        PROVE  CellOK(n, flags[d][j], stored[d][j])'
    <3>1. CASE n = m
      <4>1. d = b /\ j = i BY <1>1, <1>9, <2>1, <3>1, OneCell
      <4> QED BY <1>10, <3>1, <4>1
    <3>2. CASE n # m
      <4>1. PICK f, v : f = flags[d][j] /\ v = stored[d][j] OBVIOUS
      <4>2. CellOK(n, f, v) BY <2>1, <4>1
      <4>3. CellOK(n, f, v)' BY <1>11, <3>2, <4>2
      <4>4. flags'[d][j] = f /\ stored'[d][j] = v BY <1>3, <4>1
      <4> QED BY <4>3, <4>4
    <3> QED BY <3>1, <3>2
  <2>2. ASSUME NEW n \in Nat, NEW d \in blocks, NEW j \in Index, NEW flag, NEW value,
               First(d) + j = n, CellOK(n, flags[d][j], stored[d][j]), flag = flags'[d][j], value = stored'[d][j]
        PROVE  CellOK(n, flag, value)'
    BY <2>1, <2>2
  <2>3. \A n \in Nat : Done(n)' => Done(n) \/ Reaches(n) OBVIOUS
  <2>4. At({"relink"})' = At({"relink"}) BY DEF At
  <2> QED BY <1>3, <2>2, <2>3, <2>4, CellsFrom
<1> QED BY <1>7, <1>12

\* close() leaves a reader behind, and resumes who waits there.
LEMMA SweptPast ==
  ASSUME Running, NEW t \in Tokens, pc[t] = "spin", NEW S \in SUBSET Tokens, t \in S, Only(S),
         NEW m \in Nat, m = Begin(t), NEW k \in CallType, k = [op[t] EXCEPT !.idx = Plus(op[t].idx, 1)],
         op'[t] = k, pc'[t] = AfterReader(t), haz' = haz, UNCHANGED <<queue, counters, reclaim, setup>>,
         \A u \in S \ {t} : pc[u] = "parked" /\ Begin(u) = m /\ pc'[u] = "idle" /\ op'[u] = NoCall,
         \A u \in Tokens \ S : Reader(u) => Begin(u) # m,
         pc' \in [Tokens -> Places], op' \in [Tokens -> CallType],
         told' \in [Tokens -> BOOLEAN], under' \in [Tokens -> Tokens \cup {Nobody}],
         flags[op[t].walk][IndexOf(op[t].idx)] \in {"both"} \cup Tokens
  PROVE  Running'
<1> HIDE DEF Running
<1>1. /\ UNCHANGED <<list, elements, counters, heads, rec, setup>> /\ UNCHANGED elements /\ UNCHANGED <<queue, rec>>
      /\ read_offset' = read_offset /\ write_offset' = write_offset /\ closed' = closed
      /\ write_closed_at' = write_closed_at /\ lock' = lock
  BY DEF queue, offsets, cutoff, reclaim
<1>2. /\ op[t].name = "close" /\ op[t].count = 0 /\ op[t].written = 0 /\ op[t].seen <= reclaim_counter /\ lock = t
      /\ closed = "closed" /\ CutDrawn /\ {Pos(op[t].end), Turn, Cut, Top, First(op[t].walk)} \subseteq Nat
      /\ Cut <= m /\ m < Pos(op[t].end) /\ Pos(op[t].end) <= Turn
      /\ op[t].walk \in OnList /\ First(op[t].walk) = Base(m) /\ Base(m) \in Nat
  BY SweepIs DEF Sweeping
<1>3. TypeOK /\ Numbers /\ Asking BY DEF Running
<1>4. /\ Begin(t)' = m + 1 /\ k.name = "close" /\ k.count = 0 /\ k.written = 0 /\ k.seen <= reclaim_counter
      /\ k.end = op[t].end /\ k.walk = op[t].walk
      /\ (\A u \in S : ~Sender(u) /\ ~Sender(u)' /\ ~Reader(u)')
      /\ (\A u \in Tokens, n \in Nat : n # m =>
             /\ Takes(u, n)' <=> Takes(u, n)
             /\ Suspended(u, n) => Suspended(u, n)'
             /\ Swept(u, n)' <=> Swept(u, n))
      /\ (\A u \in Tokens : ~Swept(u, m)' /\ ~Takes(u, m)')
      /\ (\A u \in Tokens, n \in Nat : Wakes(u, n)' <=> Wakes(u, n))
  <2>1. Begin(t)' = m + 1 BY SweepFrame
  <2>2. /\ k.name = "close" /\ k.count = 0 /\ k.written = 0 /\ k.seen <= reclaim_counter
        /\ k.end = op[t].end /\ k.walk = op[t].walk
    <3>1. op[t] \in CallType BY <1>3 DEF TypeOK
    <3> QED BY <1>2, <3>1 DEF CallType
  <2>3. \A u \in S : ~Sender(u) /\ ~Sender(u)' /\ ~Reader(u)' BY SweepFrame
  <2>4. \A u \in Tokens, n \in Nat : n # m =>
           /\ Takes(u, n)' <=> Takes(u, n)
           /\ Suspended(u, n) => Suspended(u, n)'
           /\ Swept(u, n)' <=> Swept(u, n)
    BY SweepFrame
  <2>5. \A u \in Tokens : ~Swept(u, m)' /\ ~Takes(u, m)' BY SweepFrame
  <2>6. \A u \in Tokens, n \in Nat : Wakes(u, n)' <=> Wakes(u, n) BY SweepFrame
  <2> QED BY <2>1, <2>2, <2>3, <2>4, <2>5, <2>6
<1>5. /\ AfterReader(t) \in Sweeping \cup {"unlock"}
      /\ AfterReader(t) \in Sweeping <=> m + 1 < Pos(op[t].end)
      /\ AfterReader(t) = "spin" => Base(m + 1) = Base(m)
      /\ Base(m) <= Base(m + 1)
  BY AfterReaderIs
<1>6. /\ pc'[t] \in Closing \cup {"unlock"} /\ pc[t] \in Closing /\ pc[t] \in Closing \cup {"lock"} /\ lock' = t
      /\ pc'[t] \notin {"cutoff", "publish", "load_readers"} /\ pc[t] \notin {"cutoff", "publish"}
  BY <1>1, <1>2, <1>5 DEF Closing, Sweeping
<1>7. Sold' = Sold /\ Turn' = Turn /\ Sold \in Nat /\ write_offset' \in Word /\ write_closed_at' \in Word
  BY <1>1, <1>3, Types DEF Sold, Turn, TypeOK
<1>8. /\ \A places : (At(places)' <=> pc'[t] \in places) /\ (At(places) <=> lock = t /\ pc[t] \in places)
      /\ blocks' = blocks /\ OnList' = OnList /\ (\A b : First(b)' = First(b))
      /\ Unlinked' = Unlinked /\ ~At({"relink"}) /\ ~At({"relink"})'
      /\ (\A u \in Tokens : Met(u)') /\ (Cut' = Cut => Calm(S))
  <2>1. lock = t \/ (pc[t] = "lock" /\ lock = Nobody) BY <1>2
  <2>2. Sold <= Sold' /\ (closed = "closed" => closed' = "closed") BY <1>1, <1>7
  <2> QED BY <1>1, <1>6, <1>7, <2>1, <2>2, ClosingFrame
<1>9. CutDrawn' /\ Cut' = Cut BY <1>1, <1>2 DEF CutDrawn, Cut
<1>10. SendersApart' /\ ReadersApart' /\ (\A n \in Nat : Done(n)' = Done(n))
  BY <1>4, <1>9, Silent
<1>11. Cells' /\ Served' BY <1>1, <1>4, <1>8, <1>9, <1>10, SweepCells
<1>12. ASSUME NEW u \in Tokens \ S
       PROVE  Parks(u)' /\ Sought(u)'
  <2>1. \A n \in Nat : Done(n)' = Done(n) BY <1>10
  <2>2. \A w \in S \ {t} : pc[w] = "parked" /\ Begin(w) = m OBVIOUS
  <2>3. \A w \in Tokens, n \in Nat : n # m /\ Suspended(w, n) => Suspended(w, n)' BY <1>4
  <2>4. \A w \in Tokens, n \in Nat : Wakes(w, n)' <=> Wakes(w, n) BY <1>4
  <2>5. \A w \in Tokens, n \in Nat : n # m => (Swept(w, n)' <=> Swept(w, n)) BY <1>4
  <2>6. Parks(u)' BY <1>1, <2>1, <2>2, <2>3, <2>4, SweepParks
  <2>7. Sought(u)' BY <1>1, <1>9, <2>5, SweepSeeks
  <2> QED BY <2>6, <2>7
<1>13. ASSUME NEW u \in S \ {t}
       PROVE  Token(u)' /\ op'[u].written <= op'[u].count /\ op'[u].seen <= reclaim_counter
  <2>1. pc[u] = "parked" /\ pc'[u] = "idle" /\ op'[u] = NoCall /\ u \in Tokens /\ u # t OBVIOUS
  <2>2. /\ NoCall.name = "none" /\ NoCall.count = 0 /\ NoCall.written = 0 /\ NoCall.seen = 0
    BY DEF NoCall
  <2>3. /\ Post(u)' /\ Pull(u)' /\ Sought(u)' /\ Parks(u)' /\ Closer(u)' /\ Uses(u)' /\ Acquires(u)'
    BY <2>1, OuterToken DEF Outer
  <2>4. Control(u)'
    <3>1. lock' # u BY <1>6, <2>1
    <3> QED
      BY <2>1, <2>2, <3>1 DEF Control, Named, Acquiring, Polling, Closing, Reclaiming, Writing, Posting,
         Scanning, Visiting, Announcing, Moves, Sweeping
  <2>5. Has(u)'
    <3>1. Acquired(u)' => Acquired(u) BY <2>1 DEF Acquired
    <3>2. Keeps(haz'[u], haz[u]) /\ haz'[u].active_offset = haz[u].active_offset BY DEF Keeps
    <3> QED BY <1>8, <1>9, <2>1, <3>1, <3>2, HasStays
  <2>6. reclaim_counter \in Nat /\ 0 <= 0 BY <1>3 DEF TypeOK
  <2> QED BY <1>8, <2>1, <2>2, <2>3, <2>4, <2>5, <2>6 DEF Token
<1>14. Numbers'
  <2>1. ~At({"cutoff", "publish"})'
    <3>1. At({"cutoff", "publish"})' <=> pc'[t] \in {"cutoff", "publish"} BY <1>8
    <3> QED BY <1>6, <3>1
  <2> QED BY <1>1, <1>2, <1>3, <1>7, <1>9, <2>1 DEF Numbers
<1>15. Asking'
  <2>1. CutDrawn' = CutDrawn BY <1>2, <1>9 DEF CutDrawn
  <2>2. \A u \in Tokens : pc'[u] \in BeforeDraw =>
             pc[u] \in BeforeDraw /\ op'[u].name = op[u].name /\ op'[u].count = op[u].count
    <3>1. pc'[t] \notin BeforeDraw BY <1>5 DEF BeforeDraw, Sweeping
    <3>2. \A u \in S \ {t} : pc'[u] \notin BeforeDraw BY DEF BeforeDraw
    <3> QED BY <3>1, <3>2 DEF Only
  <2> QED BY <1>3, <1>7, <2>1, <2>2, AskingKeeps
<1>16. Closer(t)'
  <2>1. PICK w, e : w = op[t].walk /\ e = Pos(op[t].end) OBVIOUS
  <2>2. /\ op'[t].walk = w /\ w \in OnList /\ w \in OnList' /\ First(w)' = First(w) /\ First(w) = Base(m)
        /\ First(op[t].walk)' = First(w)' /\ Pos(op[t].end)' = e /\ e \in Nat /\ First(w) \in Nat
    BY <1>2, <1>4, <1>8, <2>1 DEF Pos, First
  <2>3. pc'[t] \in Sweeping => m + 1 < e BY <1>5, <2>1
  <2>4. Base(Begin(t)') = Base(m + 1) /\ Base(m) <= Base(m + 1) /\ (pc'[t] = "spin" => Base(m + 1) = Base(m))
    BY <1>4, <1>5
  <2>5. PICK n \in Nat : n = m + 1 OBVIOUS
  <2>6. /\ Begin(t)' = n /\ Cut' <= n /\ Pos(op[t].end)' <= Turn'
    BY <1>2, <1>4, <1>7, <1>9, <2>1, <2>2, <2>5
  <2> QED BY <1>1, <1>2, <1>6, <2>2, <2>3, <2>4, <2>5, <2>6 DEF Closer
<1>17. op'[t].name = "close" /\ op'[t].count = 0 /\ op'[t].written = 0 /\ op'[t].seen <= reclaim_counter
  BY <1>4
<1>18. /\ Sold <= Sold' /\ closed' \in {"open", "closing", "closed"} /\ (closed = "closed" => closed' = "closed")
       /\ (lock = t \/ (pc[t] = "lock" /\ lock = Nobody))
  BY <1>1, <1>2, <1>7
<1> QED BY <1>1, <1>6, <1>7, <1>9, <1>10, <1>11, <1>12, <1>13, <1>14, <1>15, <1>16, <1>17, <1>18, ClosingStep

\* A flag that close() finds: the mark of a reader, or who waits.
LEMMA SweepFinds ==
  ASSUME Running, NEW t \in Tokens, pc[t] = "spin", NEW m \in Nat, m = Begin(t),
         NEW c, c = FlagAt(op[t].walk, op[t].idx), c # "empty"
  PROVE  \/ c = "both" /\ \A u \in Tokens : Reader(u) => Begin(u) # m
         \/ c \in Tokens \ {t} /\ pc[c] = "parked" /\ Begin(c) = m /\ \A u \in Tokens \ {c} : Reader(u) => Begin(u) # m
<1> HIDE DEF Running
<1>1. /\ op[t].name = "close" /\ Cut <= m /\ Cut \in Nat /\ Skip <= m /\ op[t].idx \in Word /\ op[t].walk \in OnList
      /\ First(op[t].walk) = Base(m) /\ m < Pos(op[t].end)
  BY SweepIs DEF Sweeping
<1>2. Pos(op[t].idx) = m BY DEF Begin
<1>3. CellOK(m, c, stored[op[t].walk][IndexOf(op[t].idx)]) /\ c \in Flag
  <2>1. CellOK(Pos(op[t].idx), flags[op[t].walk][IndexOf(op[t].idx)], stored[op[t].walk][IndexOf(op[t].idx)])
        /\ flags[op[t].walk][IndexOf(op[t].idx)] \in Flag
    BY <1>1, <1>2, CellAt
  <2> QED BY <1>2, <2>1 DEF FlagAt
<1>4. ~Done(m) BY <1>1 DEF Done
<1>5. Swept(t, m) BY <1>1 DEF Swept, Sweeping
<1>6. \/ c \in Tokens /\ Suspended(c, m)
      \/ ~Taken(m) /\ c = "both"
  BY <1>1, <1>3, <1>4, <1>5 DEF CellOK
<1>7. CASE ~Taken(m) /\ c = "both" BY <1>7 DEF Taken, Takes
<1>8. CASE c \in Tokens /\ Suspended(c, m)
  <2>1. pc[c] = "parked" /\ Begin(c) = m /\ c # t BY <1>8 DEF Suspended
  <2>2. Reader(c)
    <3>1. Named(c) BY <1>8, Parts DEF Control
    <3> QED BY <2>1, <3>1 DEF Named, Reader, Drawn, Reading
  <2>3. ReadersApart BY DEF Running
  <2>4. \A u \in Tokens \ {c} : Reader(u) => Begin(u) # m
    BY <1>8, <2>1, <2>2, <2>3 DEF ReadersApart
  <2> QED BY <1>8, <2>1, <2>4
<1> QED BY <1>6, <1>7, <1>8

\* close() tells a reader.
LEMMA WakeReaderKeeps ==
  ASSUME Running, NEW t \in Tokens, WakeReader(t)
  PROVE  Running'
<1> HIDE DEF Running
<1>1. /\ pc[t] = "spin" /\ UNCHANGED <<queue, counters, reclaim, haz, setup>> BY DEF WakeReader
<1>2. PICK c : c = FlagAt(op[t].walk, op[t].idx) OBVIOUS
<1>3. c # "empty" BY <1>2 DEF WakeReader
<1>4. PICK m \in Nat : m = Begin(t) BY Parts
<1>5. TypeOK /\ pc \in [Tokens -> Places] /\ op \in [Tokens -> CallType] /\ told \in [Tokens -> BOOLEAN]
      /\ under \in [Tokens -> Tokens \cup {Nobody}]
  BY DEF Running, TypeOK
<1>6. AfterReader(t) \in Places /\ Plus(op[t].idx, 1) \in Word
  BY <1>1, <1>4, AfterReaderIs DEF Places, Closing, Reclaiming
<1>7. PICK k \in CallType : k = [op[t] EXCEPT !.idx = Plus(op[t].idx, 1)] BY <1>5, <1>6, Edited
<1>8. flags[op[t].walk][IndexOf(op[t].idx)] = c BY <1>2 DEF FlagAt
<1>9. \/ c = "both" /\ \A u \in Tokens : Reader(u) => Begin(u) # m
      \/ c \in Tokens \ {t} /\ pc[c] = "parked" /\ Begin(c) = m /\ \A u \in Tokens \ {c} : Reader(u) => Begin(u) # m
  BY <1>1, <1>2, <1>3, <1>4, SweepFinds
<1>10. UNCHANGED <<queue, counters, reclaim, setup>> /\ haz' = haz BY <1>1
<1>11. CASE c = "both"
  <2>1. /\ pc' = [pc EXCEPT ![t] = AfterReader(t)] /\ op' = [op EXCEPT ![t].idx = Plus(@, 1)]
        /\ told' = told /\ under' = under
    BY <1>2, <1>11 DEF WakeReader, GoTo, clients
  <2>2. /\ op'[t] = k /\ op' \in [Tokens -> CallType] /\ \A u \in Tokens \ {t} : op'[u] = op[u]
    BY <1>5, <1>7, <2>1
  <2>3. pc' \in [Tokens -> Places] /\ pc'[t] = AfterReader(t) /\ \A u \in Tokens \ {t} : pc'[u] = pc[u]
    BY <1>5, <1>6, <2>1
  <2>4. Only({t}) BY <1>10, <2>2, <2>3 DEF Only
  <2>5. c \notin Tokens BY <1>11, TokenAssumption
  <2>6. \A u \in Tokens \ {t} : Reader(u) => Begin(u) # m BY <1>9, <2>5
  <2>7. {t} \in SUBSET Tokens /\ t \in {t} /\ {t} \ {t} = {} OBVIOUS
  <2>8. \A u \in {t} \ {t} : pc[u] = "parked" /\ Begin(u) = m /\ pc'[u] = "idle" /\ op'[u] = NoCall
    BY <2>7
  <2>9. flags[op[t].walk][IndexOf(op[t].idx)] \in {"both"} \cup Tokens BY <1>8, <1>11
  <2>10. told' \in [Tokens -> BOOLEAN] /\ under' \in [Tokens -> Tokens \cup {Nobody}]
    BY <1>5, <2>1
  <2> QED BY <1>1, <1>4, <1>7, <1>10, <2>2, <2>3, <2>4, <2>6, <2>7, <2>8, <2>9, <2>10, SweptPast
<1>12. CASE c # "both"
  <2>1. /\ pc' = [pc EXCEPT ![c] = "idle", ![t] = AfterReader(t)]
        /\ op' = [op EXCEPT ![c] = NoCall, ![t].idx = Plus(@, 1)]
        /\ told' = [told EXCEPT ![c] = TRUE] /\ Resume(t, c)
    BY <1>2, <1>12 DEF WakeReader
  <2>2. c \in Tokens \ {t} /\ pc[c] = "parked" /\ Begin(c) = m /\ \A u \in Tokens \ {c} : Reader(u) => Begin(u) # m
    BY <1>9, <1>12
  <2>3. /\ op'[t] = k /\ op'[c] = NoCall /\ op' \in [Tokens -> CallType] /\ \A u \in Tokens \ {t, c} : op'[u] = op[u]
    <3>1. NoCall \in CallType BY Edited
    <3> QED BY <1>5, <1>7, <2>1, <2>2, <3>1
  <2>4. /\ pc' \in [Tokens -> Places] /\ pc'[t] = AfterReader(t) /\ pc'[c] = "idle"
        /\ \A u \in Tokens \ {t, c} : pc'[u] = pc[u]
    <3>1. "idle" \in Places BY DEF Places
    <3> QED BY <1>5, <1>6, <2>1, <2>2, <3>1
  <2>5. Only({t, c}) BY <1>10, <2>3, <2>4 DEF Only
  <2>6. \A u \in Tokens \ {t, c} : Reader(u) => Begin(u) # m BY <2>2
  <2>7. {t, c} \in SUBSET Tokens /\ t \in {t, c} /\ {t, c} \ {t} = {c} BY <2>2
  <2>8. \A u \in {t, c} \ {t} : pc[u] = "parked" /\ Begin(u) = m /\ pc'[u] = "idle" /\ op'[u] = NoCall
    BY <2>2, <2>3, <2>4, <2>7
  <2>9. flags[op[t].walk][IndexOf(op[t].idx)] \in {"both"} \cup Tokens BY <1>8, <2>2
  <2>10. told' \in [Tokens -> BOOLEAN] /\ under' \in [Tokens -> Tokens \cup {Nobody}]
    BY <1>5, <2>1, <2>2 DEF Resume
  <2> QED BY <1>1, <1>4, <1>7, <1>10, <2>3, <2>4, <2>5, <2>6, <2>7, <2>8, <2>9, <2>10, SweptPast
<1> QED BY <1>11, <1>12

\* Nothing is as it was in a step of nothing.
LEMMA StutterKeeps ==
  ASSUME IInv, UNCHANGED vars
  PROVE  IInv'
<1> HIDE DEF Running
<1>1. CASE Running
  <2>1. /\ UNCHANGED <<queue, counters, reclaim, haz, pc, op, told, setup>>
        /\ under' \in [Tokens -> Tokens \cup {Nobody}]
    BY <1>1 DEF vars, clients, Running, TypeOK
  <2> QED BY <1>1, <2>1, NobodyActs DEF IInv
<1>2. CASE Destroyed
  <2>1. /\ UNCHANGED <<setup, blocks, next, offset, flags, stored, write_offset, read_offset, closed, write_closed_at>>
        /\ UNCHANGED <<haz_ptr_counter, reclaim_counter, head_block, head_offset, tail_block, lock, rec, haz, pc, op,
                       told, under>>
    BY DEF vars, clients, queue, list, elements, offsets, cutoff, counters, reclaim, heads
  <2>2. TypeOK' BY <1>2, <2>1 DEF Destroyed, TypeOK
  <2>3. ClosedMeansDrained' BY <1>2, <2>1 DEF Destroyed, ClosedMeansDrained
  <2>4. /\ pc' = [u \in Tokens |-> "gone"] /\ (\A u \in Tokens : ~haz'[u].owned) /\ lock' = Nobody /\ blocks' = {}
        /\ rec'.unlinked = <<>> /\ (\A b \in Block, i \in Index : stored'[b][i] = NoValue)
    BY <1>2, <2>1 DEF Destroyed
  <2> QED BY <2>2, <2>3, <2>4 DEF Destroyed, IInv
<1> QED BY <1>1, <1>2 DEF IInv

\* The actions of a token that is there.
LEMMA GoneIsGone ==
  ASSUME NEW t \in Tokens, pc[t] = "gone"
  PROVE  ~Call(t) /\ ~Step(t) /\ ~Yield(t) /\ ~Free(t) /\ ~Destruct
<1>1. ~Call(t) /\ ~Yield(t) /\ ~Free(t) /\ ~Destruct BY DEF Call, Start, Yield, Free, Destruct
<1>2. ~AcquireStep(t) /\ ~ReleaseOwnership(t)
  BY DEF AcquireStep, LoadReclaimCounter, TryTakeOwnership, LoadHeadOffset, LoadHead, InitHazPtr, CountHazPtr,
         RecheckReclaim, ReleaseOwnership
<1>3. ~TicketStep(t) BY DEF TicketStep, Protect, Draw, LoadBlock, CheckClosed, Seek, Release
<1>4. ~PostStep(t)
  BY DEF PostStep, SeekEndsInPost, SeekEndsInBulk, Reserve, WriteElement, ResumeConsumer, Cross
<1>5. ~PullStep(t)
  BY DEF PullStep, SeekEndsInPull, SetNotWaiting, Wait, DestroyValue, LoadWriteOffset, Poll, Claim, RereadOffset, Status
<1>6. ~ReclaimStep(t)
  <2>1. ~TryLock(t) /\ ~LoadCount(t) /\ ~Scan(t) /\ ~EndScan(t) /\ ~VisitWrite(t) /\ ~VisitRead(t)
    BY DEF TryLock, LoadCount, Scan, EndScan, VisitWrite, VisitRead
  <2>2. ~SwapHazPtr(t) /\ ~RevalidateHazard(t) /\ ~StoreHead(t) /\ ~Announce(t) /\ ~CheckHazPtrCounter(t)
    BY DEF SwapHazPtr, RevalidateHazard, StoreHead, Announce, CheckHazPtrCounter
  <2>3. ~Rollback(t) /\ ~Commit(t) /\ ~ResetValues(t) /\ ~Relink(t) /\ ~Unlock(t)
    BY DEF Rollback, Commit, ResetValues, Relink, Unlock
  <2> QED BY <2>1, <2>2, <2>3 DEF ReclaimStep
<1>7. ~CloseStep(t)
  BY DEF CloseStep, Lock, DrawCutoff, PublishCutoff, LoadReaders, SeekReader, WakeReader
<1> QED BY <1>1, <1>2, <1>3, <1>4, <1>5, <1>6, <1>7 DEF Step

\* When no token is left nothing happens any more.
LEMMA DestroyedKeeps ==
  ASSUME Destroyed, Next
  PROVE  UNCHANGED vars
<1>1. \A t \in Tokens : pc[t] = "gone" BY DEF Destroyed
<1>2. Maker \in Tokens BY TokenAssumption
<1>3. \A t \in Tokens : ~Call(t) /\ ~Step(t) /\ ~Yield(t) /\ ~Free(t) /\ ~Destruct
  BY <1>1, GoneIsGone
<1> QED BY <1>2, <1>3 DEF Next, Gone

\* No call is under way.
LEMMA AllIdle ==
  ASSUME Running, \A t \in Tokens : pc[t] = "idle"
  PROVE  /\ lock = Nobody /\ rec.unlinked = <<>> /\ ListHead = head_block /\ head_block \in blocks
         /\ ReachableFrom(head_block) = blocks
         /\ \A m \in Nat : /\ Done(m) <=> Skip <= m /\ m < Cut
                           /\ ~Taken(m) /\ \A u \in Tokens : ~Takes(u, m)
         /\ (closed = "closed" => Cut = Pos(write_closed_at)) /\ (closed # "closed" => Cut = Sold)
<1> HIDE DEF Running
<1>1. TypeOK /\ Linked /\ Reclaim BY DEF Running
<1>2. lock = Nobody
  <2>1. \A t \in Tokens : lock # t
    <3>1. \A t \in Tokens : Control(t) BY Parts
    <3> QED BY <3>1 DEF Control, Reclaiming, Scanning, Visiting, Announcing, Moves, Closing, Sweeping
  <2> QED BY <1>1, <2>1 DEF TypeOK
<1>3. \A places : ~At(places) BY <1>2 DEF At
<1>4. ListHead = head_block /\ Lowest = head_block /\ head_block \in blocks /\ rec.unlinked = <<>>
  BY <1>1, <1>2, <1>3 DEF ListHead, Lowest, Linked, Reclaim
<1>5. ReachableFrom(head_block) = blocks
  <2>1. PICK h \in blocks : h = head_block BY <1>4
  <2>2. \A b \in blocks : First(h) <= First(b) BY <1>1, <1>4, <2>1 DEF Linked
  <2>3. ReachableFrom(h) = { c \in blocks : First(h) <= First(c) } BY <1>1, Chain
  <2> QED BY <2>1, <2>2, <2>3
<1>6. ASSUME NEW m \in Nat
      PROVE  (Done(m) <=> Skip <= m /\ m < Cut) /\ ~Taken(m) /\ \A u \in Tokens : ~Takes(u, m)
  <2>1. \A u \in Tokens : ~Owns(u, m) /\ ~Takes(u, m) BY Outside DEF Outer
  <2> QED BY <2>1 DEF Done, Taken
<1>7. (closed = "closed" => Cut = Pos(write_closed_at)) /\ (closed # "closed" => Cut = Sold)
  BY <1>3 DEF Cut
<1> QED BY <1>2, <1>4, <1>5, <1>6, <1>7

\* The values that the destructor takes from the elements.
LEMMA LeftoverIs ==
  ASSUME Running, NEW end \in Word, Pos(end) = Cut, NEW x \in Word, Turn <= Pos(x), Pos(x) < Cut
  PROVE  x \in Leftover(end)
<1> HIDE DEF Running
<1>1. /\ Top \in Nat /\ 4 * Top < WordMod /\ WordMod \in Nat /\ Cut \in Nat /\ Turn \in Nat /\ Sold \in Nat
      /\ Skip <= Turn /\ Turn <= Top /\ Cut <= Sold /\ Sold <= Top /\ Sold <= Skip + MaxTicket + 1
      /\ Pos(x) \in Nat /\ Skip \in Nat /\ MaxTicket \in Nat /\ read_offset \in Word /\ Pos(read_offset) = Turn
  BY Bounds, Types, OriginIs, Sizes, PosIs DEF Running, Turn
<1>2. Cut <= Skip + MaxTicket
  <2>1. CutDrawn => Cut < Sold BY DEF Running, Numbers
  <2>2. ~CutDrawn => Sold <= Skip + MaxTicket
    <3>1. Sold + Cardinality(TicketPairs) <= Skip + MaxTicket + (IF CutDrawn THEN 1 ELSE 0)
      BY DEF Running, Asking
    <3>2. Cardinality(TicketPairs) \in Nat BY PairsAreFew
    <3>3. PICK n \in Nat : n = Cardinality(TicketPairs) BY <3>2
    <3> QED BY <1>1, <3>1, <3>3
  <2> QED BY <1>1, <2>1, <2>2
<1>3. PICK k \in Nat : k = Pos(x) - Turn BY <1>1
<1>4. k <= MaxTicket BY <1>1, <1>2, <1>3
<1>5. ASSUME NEW j \in 0 .. k
      PROVE  Plus(read_offset, j) \in Word /\ Pos(Plus(read_offset, j)) = Turn + j /\ CircularLess(Plus(read_offset, j), end)
  <2>1. j \in Nat /\ Turn + j <= Pos(x) /\ Turn + j < WordMod /\ Turn + j <= Top /\ Turn + j < Cut /\ Cut <= Top
    BY <1>1, <1>3
  <2>2. PICK y : y = Plus(read_offset, j) OBVIOUS
  <2>3. y \in Word /\ Pos(y) = Turn + j BY <1>1, <2>1, <2>2, PosPlus
  <2>4. CircularLess(y, end) <=> Pos(y) < Pos(end) BY <2>1, <2>3, AtOrBeforeIs
  <2> QED BY <2>1, <2>2, <2>3, <2>4
<1>6. Plus(read_offset, k) = x
  <2>1. Plus(read_offset, k) \in Word /\ Pos(Plus(read_offset, k)) = Turn + k BY <1>5
  <2>2. Turn + k = Pos(x) BY <1>1, <1>3
  <2> QED BY <2>1, <2>2, PosTells
<1>7. k \in 0 .. MaxTicket /\ \A j \in 0 .. k : CircularLess(Plus(read_offset, j), end)
  BY <1>1, <1>4, <1>5
<1> QED BY <1>6, <1>7 DEF Leftover

\* The destructor takes every value there is and every block.
LEMMA DestructKeeps ==
  ASSUME Running, Destruct
  PROVE  Destroyed'
<1> HIDE DEF Running
<1>1. PICK end : end = IF closed = "closed" THEN write_closed_at ELSE write_offset OBVIOUS
<1>2. /\ \A t \in Tokens : pc[t] = "idle" /\ ~haz[t].owned /\ under[t] = Nobody
      /\ closed' = "closed" /\ write_closed_at' = end
      /\ blocks' = blocks \ ReachableFrom(head_block)
      /\ write_offset' = IF closed = "closed" THEN write_offset ELSE Plus(write_offset, 1)
      /\ pc' = [t \in Tokens |-> "gone"]
      /\ UNCHANGED <<next, offset, flags, read_offset, counters, reclaim, haz, op, clients>>
  BY <1>1 DEF Destruct
<1>3. stored' = [b \in Block |-> [i \in Index |->
           IF b \in ReachableFrom(head_block) /\ flags[b][i] = "data" /\ Plus(offset[b], i) \in Leftover(end)
              THEN NoValue ELSE stored[b][i]]]
  BY <1>1 DEF Destruct
<1>4. /\ lock = Nobody /\ rec.unlinked = <<>> /\ head_block \in blocks
      /\ ReachableFrom(head_block) = blocks
      /\ \A m \in Nat : /\ Done(m) <=> Skip <= m /\ m < Cut
                        /\ ~Taken(m) /\ \A u \in Tokens : ~Takes(u, m)
      /\ (closed = "closed" => Cut = Pos(write_closed_at)) /\ (closed # "closed" => Cut = Sold)
  BY <1>2, AllIdle
<1>5. TypeOK /\ Numbers /\ Cells /\ Clean /\ Linked BY DEF Running
<1>6. end \in Word /\ Pos(end) = Cut BY <1>1, <1>4, <1>5 DEF TypeOK, Sold
<1>7. /\ setup' = setup /\ next' = next /\ offset' = offset /\ flags' = flags /\ read_offset' = read_offset
      /\ haz_ptr_counter' = haz_ptr_counter /\ reclaim_counter' = reclaim_counter /\ lock' = lock /\ rec' = rec
      /\ head_block' = head_block /\ head_offset' = head_offset /\ tail_block' = tail_block
      /\ haz' = haz /\ op' = op /\ told' = told /\ under' = under
  BY <1>2 DEF counters, reclaim, heads, clients
<1>8. blocks' = {} BY <1>2, <1>4
<1>9. ASSUME NEW b \in Block, NEW i \in Index
      PROVE  stored'[b][i] = NoValue
  <2>1. CASE b \notin blocks
    <3>1. stored[b][i] = NoValue BY <1>5, <2>1 DEF Clean
    <3> QED BY <1>3, <3>1
  <2>2. CASE b \in blocks
    <3>1. First(b) \in Nat /\ offset[b] \in Word /\ i \in Nat /\ First(b) \in Starts /\ First(b) <= 2 * Top
      BY <1>5, <2>2, Types, Bounds, Sizes DEF Index
    <3>2. PICK m \in Nat : m = First(b) + i BY <3>1
    <3>3. CellOK(m, flags[b][i], stored[b][i])
      <4>1. ~At({"relink"}) BY <1>4 DEF At
      <4> QED BY <1>5, <2>2, <3>2, <4>1 DEF Cells
    <3>4. CASE ~(Done(m) /\ Turn <= m)
      <4>1. stored[b][i] = NoValue BY <1>4, <3>3, <3>4 DEF CellOK
      <4> QED BY <1>3, <4>1
    <3>5. CASE Done(m) /\ Turn <= m
      <4>1. flags[b][i] = "data" BY <1>4, <3>3, <3>5 DEF CellOK
      <4>2. m < Cut BY <1>4, <3>5
      <4>3. PICK x : x = Plus(offset[b], i) OBVIOUS
      <4>4. x \in Word /\ Pos(x) = m
        <5>1. Cut <= Top /\ Cut \in Nat /\ Top \in Nat /\ 4 * Top < WordMod /\ WordMod \in Nat
          BY Bounds, Types, <1>5
        <5>2. Pos(offset[b]) + i < WordMod /\ Pos(offset[b]) = First(b)
          BY <3>1, <3>2, <4>2, <5>1 DEF First
        <5> QED BY <3>1, <3>2, <4>3, <5>2, PosPlus
      <4>5. x \in Leftover(end) BY <1>6, <3>5, <4>2, <4>4, LeftoverIs
      <4> QED BY <1>3, <1>4, <2>2, <4>1, <4>3, <4>5
    <3> QED BY <3>4, <3>5
  <2> QED BY <2>1, <2>2
<1>10. TypeOK'
  <2>1. stored' \in [Block -> [Index -> Value \cup {NoValue}]] BY <1>3, <1>5 DEF TypeOK
  <2>2. write_offset' \in Word
    <3>1. write_offset \in Word /\ 1 \in Nat BY <1>5 DEF TypeOK
    <3>2. Plus(write_offset, 1) \in Word BY <3>1, PosPlus
    <3> QED BY <1>2, <3>1, <3>2
  <2>3. write_closed_at' \in Word /\ closed' \in {"open", "closing", "closed"} /\ blocks' \subseteq Block
    BY <1>2, <1>6, <1>8
  <2> QED BY <1>5, <1>7, <2>1, <2>2, <2>3 DEF TypeOK
<1>11. ClosedMeansDrained'
  <2>1. ASSUME NEW t \in Tokens, told[t]
        PROVE  AtOrBefore(end, read_offset)
    <3>1. closed = "closed" /\ Cut <= Turn BY <1>5, <2>1 DEF Numbers
    <3>2. read_offset \in Word /\ Pos(read_offset) = Turn /\ Turn <= Top /\ Cut <= Top /\ Cut \in Nat
          /\ Turn \in Nat /\ Top \in Nat
      BY <1>5, Bounds, Types DEF Turn
    <3> QED BY <1>6, <3>1, <3>2, AtOrBeforeIs
  <2> QED BY <1>2, <1>7, <2>1 DEF ClosedMeansDrained
<1> QED BY <1>2, <1>4, <1>7, <1>8, <1>9, <1>10, <1>11 DEF Destroyed

\* Where the blocks of a channel start, new or used.
LEMMA InitList ==
  ASSUME Init
  PROVE  /\ blocks \subseteq Block /\ {1, 2, 3} \subseteq Block /\ 1 \in blocks /\ tail_block \in blocks
         /\ ListHead = 1 /\ Lowest = 1 /\ OnList = blocks
         /\ Sold = Skip /\ Turn = Skip /\ Cut = Skip /\ Pos(head_offset) = 0
         /\ First(1) = 0 /\ \A b \in blocks : First(b) = (b - 1) * BlockSize /\ First(b) <= Skip
         /\ BlockSize \in Starts /\ 2 * BlockSize \in Starts
         /\ Used => blocks = {1, 2, 3} /\ BlockSize = 2 /\ Skip = 2 * BlockSize /\ FirstTicket >= 6
                    /\ FirstTicket \in Word /\ First(2) = BlockSize
         /\ ~Used => blocks = {1} /\ Skip = 0
         /\ \A places : ~At(places)
<1>1. /\ BlockSize \in Nat /\ BlockSize > 0 /\ FirstTicket \in Nat /\ WordMod \in Nat /\ WordMod > 0 /\ MaxBlocks \in Nat
      /\ MaxBlocks >= 3 /\ FirstTicket < WordMod
  BY Sizes
<1>2. /\ blocks = IF Used THEN {1, 2, 3} ELSE {1}
      /\ offset = [b \in Block |-> IF Used /\ b <= 3 THEN FirstTicket - (3 - b) * BlockSize ELSE 0]
      /\ write_offset = FirstTicket /\ read_offset = FirstTicket /\ closed = "open"
      /\ head_block = 1 /\ head_offset = offset[1] /\ tail_block = IF Used THEN 3 ELSE 1
      /\ lock = Nobody
  BY DEF Init
<1>3. \A places : ~At(places) BY <1>2 DEF At
<1>4. ListHead = 1 /\ Lowest = 1 BY <1>2, <1>3 DEF ListHead, Lowest
<1>5. {1, 2, 3} \subseteq Block /\ blocks \subseteq Block /\ 1 \in blocks /\ tail_block \in blocks
  BY <1>1, <1>2 DEF Block
<1>6. Used => BlockSize = 2 /\ FirstTicket >= 6 /\ Skip = 2 * BlockSize /\ Skip = 4 /\ Origin = FirstTicket - 4 /\ Origin \in Word
  BY <1>1, StartAssumption, OriginIs DEF Used, Skip, Origin
<1>7. ~Used => Skip = 0 /\ Origin = 0 BY DEF Skip, Origin
<1>8. Sold = Skip /\ Turn = Skip /\ Cut = Skip
  <2>1. Sold = Skip /\ Turn = Skip BY <1>2, TopIs DEF Sold, Turn
  <2> QED BY <1>2, <1>3, <2>1 DEF Cut
<1>9. 0 \in Starts /\ BlockSize \in Starts /\ 2 * BlockSize \in Starts
  <2>1. 0 \in Starts /\ 0 + BlockSize \in Starts BY StartsApart
  <2>2. BlockSize \in Starts BY <1>1, <2>1
  <2>3. BlockSize + BlockSize \in Starts BY <2>2, StartsApart
  <2> QED BY <1>1, <2>1, <2>2, <2>3
<1>10. ASSUME NEW b \in blocks
       PROVE  First(b) = (b - 1) * BlockSize /\ First(b) <= Skip
  <2>1. CASE Used
    <3>1. b \in 1 .. 3 /\ b \in Block BY <1>2, <1>5, <2>1
    <3>2. offset[b] = FirstTicket - (3 - b) * 2 BY <1>2, <1>6, <2>1, <3>1
    <3>3. PICK x \in Word : x = FirstTicket - (3 - b) * 2 BY <1>1, <1>6, <2>1, <3>1 DEF Word
    <3>4. Pos(x) = x - Origin
      <4>1. x >= Origin BY <1>1, <1>6, <2>1, <3>1, <3>3
      <4> QED BY <4>1, PosIs
    <3>5. Pos(x) = (b - 1) * 2 /\ (b - 1) * 2 <= 4 BY <1>1, <1>6, <2>1, <3>1, <3>3, <3>4
    <3> QED BY <1>6, <2>1, <3>2, <3>3, <3>5 DEF First
  <2>2. CASE ~Used
    <3>1. b = 1 /\ offset[b] = 0 /\ 0 \in Word BY <1>1, <1>2, <1>5, <2>2 DEF Word
    <3>2. Pos(0) = 0 BY <1>7, <2>2, <3>1, PosIs
    <3>3. (b - 1) * BlockSize = 0 BY <1>1, <3>1
    <3> QED BY <1>7, <2>2, <3>1, <3>2, <3>3 DEF First
  <2> QED BY <2>1, <2>2
<1>11. First(1) = 0
  <2>1. First(1) = (1 - 1) * BlockSize BY <1>5, <1>10
  <2> QED BY <1>1, <2>1
<1>12. Pos(head_offset) = 0 BY <1>2, <1>11 DEF First
<1>13. OnList = blocks
  <2>1. \A b \in blocks : 0 <= First(b)
    <3>2. \A b \in blocks : (b - 1) * BlockSize >= 0 BY <1>1, <1>2
    <3> QED BY <1>10, <3>2
  <2> QED BY <1>4, <1>11, <2>1 DEF OnList
<1>14. Used => First(2) = BlockSize
  <2>1. Used => First(2) = (2 - 1) * BlockSize BY <1>2, <1>10
  <2> QED BY <1>1, <2>1
<1> QED BY <1>1, <1>2, <1>3, <1>4, <1>5, <1>6, <1>7, <1>8, <1>9, <1>10, <1>11, <1>12, <1>13, <1>14, TopIs

\* The hazard pointer of the maker of a used channel.
LEMMA InitHaz ==
  ASSUME Init, Used
  PROVE  /\ haz[Maker] = [owned |-> TRUE, active_offset |-> Inactive(FirstTicket - 1),
                          write_block |-> 2, read_block |-> 2,
                          next_protect_write |-> offset[2], next_protect_read |-> offset[2]]
         /\ Inactive(FirstTicket - 1) \in Word /\ Near(Inactive(FirstTicket - 1))
         /\ offset[2] \in Word /\ haz[Maker] \in HazType
<1>1. /\ FirstTicket \in Nat /\ FirstTicket >= 6 /\ FirstTicket \in Word /\ BlockSize = 2 /\ 2 \in Block /\ 3 \in Block
      /\ Skip = 2 * BlockSize
  BY InitList, Sizes
<1>2. haz[Maker] = [owned |-> TRUE, active_offset |-> Inactive(FirstTicket - 1),
                    write_block |-> 2, read_block |-> 2,
                    next_protect_write |-> offset[2], next_protect_read |-> offset[2]]
  BY TokenAssumption DEF Init
<1>3. PICK x \in Word : x = FirstTicket - 1 BY <1>1, Sizes DEF Word
<1>4. Pos(x) <= Top
  <2>1. Origin = FirstTicket - 4 BY <1>1 DEF Origin
  <2>2. x >= Origin BY <1>1, <1>3, <2>1
  <2>3. Pos(x) = 3 BY <1>1, <1>3, <2>1, <2>2, PosIs
  <2>4. Top >= 4 BY <1>1, TopIs, Sizes
  <2> QED BY <2>3, <2>4, TopIs
<1>5. Inactive(FirstTicket - 1) \in Word /\ Near(Inactive(FirstTicket - 1))
  BY <1>3, <1>4, InactiveIs
<1>6. offset[2] \in Word
  <2>1. offset[2] = FirstTicket - (3 - 2) * BlockSize BY <1>1 DEF Init
  <2> QED BY <1>1, <2>1, Sizes DEF Word
<1>7. haz[Maker] \in HazType BY <1>1, <1>2, <1>5, <1>6 DEF HazType
<1> QED BY <1>2, <1>5, <1>6, <1>7

\* What a channel begins with is well typed.
LEMMA InitType ==
  ASSUME Init
  PROVE  TypeOK
<1>1. /\ BlockSize \in Nat /\ BlockSize > 0 /\ FirstTicket \in Nat /\ WordMod \in Nat /\ WordMod > 0 /\ FirstTicket < WordMod
      /\ MaxTicket \in Nat
  BY Sizes
<1>2. /\ blocks \subseteq Block /\ {1, 2, 3} \subseteq Block /\ tail_block \in blocks /\ 0 \in Word /\ FirstTicket \in Word
  BY <1>1, InitList DEF Word
<1>3. next \in [Block -> Block \cup {Null}]
  <2>1. \A b \in Block : b < 3 => b + 1 \in Block BY <1>2 DEF Block
  <2>2. next = [b \in Block |-> IF Used /\ b < 3 THEN b + 1 ELSE Null] BY DEF Init
  <2> QED BY <2>1, <2>2
<1>4. offset \in [Block -> Word]
  <2>1. ASSUME NEW b \in Block, Used, b <= 3
        PROVE  FirstTicket - (3 - b) * BlockSize \in Word
    <3>1. BlockSize = 2 /\ FirstTicket >= 6 /\ b \in 1 .. 3 BY <2>1, InitList DEF Block
    <3>2. FirstTicket - (3 - b) * 2 \in 0 .. WordMod - 1 BY <1>1, <3>1
    <3> QED BY <3>1, <3>2 DEF Word
  <2>2. offset = [b \in Block |-> IF Used /\ b <= 3 THEN FirstTicket - (3 - b) * BlockSize ELSE 0]
    BY DEF Init
  <2> QED BY <1>2, <2>1, <2>2
<1>5. flags \in [Block -> [Index -> Flag]] /\ stored \in [Block -> [Index -> Value \cup {NoValue}]]
  BY DEF Init, Flag, Fresh
<1>6. haz \in [Tokens -> HazType]
  <2>1. NoHaz \in HazType
    <3>1. InactiveHazptrOffset \in Word
      <4>1. InactiveHazptrOffset \in Nat /\ 4 * InactiveHazptrOffset = WordMod
        <5>1. Pos(FirstTicket) = Skip /\ Skip <= Top BY TopIs, OriginIs, Sizes
        <5> QED BY <1>2, <5>1, InactiveIs
      <4> QED BY <1>1, <4>1 DEF Word
    <3> QED BY <1>2, <3>1 DEF NoHaz, HazType
  <2>2. \A t \in Tokens : haz[t] = IF Used /\ t = Maker THEN haz[Maker] ELSE NoHaz
    BY TokenAssumption DEF Init
  <2>3. Used => haz[Maker] \in HazType BY InitHaz
  <2>4. DOMAIN haz = Tokens /\ haz = [t \in Tokens |-> haz[t]] BY DEF Init
  <2> QED BY <2>1, <2>2, <2>3, <2>4
<1>7. NoCall \in CallType /\ NoCall.written = 0 /\ NoCall.count = 0 /\ NoCall.seen = 0
  BY Edited DEF NoCall
<1>8. NoRec \in RecType /\ NoRec.count = 0 /\ NoRec.unlinked = <<>> /\ Len(NoRec.unlinked) <= GroupSize
  <2>1. NoRec.count = 0 /\ NoRec.unlinked = <<>> BY DEF NoRec
  <2>2. Len(NoRec.unlinked) = 0 /\ 0 <= GroupSize BY <2>1 DEF GroupSize
  <2> QED BY <2>1, <2>2, Records
<1>9. head_offset \in Word /\ head_block \in Block BY <1>2, <1>4 DEF Init
<1>10. /\ setup \in Setups /\ {write_offset, read_offset, write_closed_at, head_offset} \subseteq Word
       /\ closed \in {"open", "closing", "closed"} /\ {haz_ptr_counter, reclaim_counter} \subseteq Nat
       /\ {head_block, tail_block} \subseteq Block /\ lock \in Tokens \cup {Nobody}
  BY <1>2, <1>9 DEF Init
<1>11. rec \in RecType /\ rec.count <= haz_ptr_counter /\ Len(rec.unlinked) <= GroupSize
  <2>1. rec = NoRec /\ haz_ptr_counter = 0 BY DEF Init
  <2> QED BY <1>8, <2>1
<1>12. op \in [Tokens -> CallType] /\ \A t \in Tokens : op[t].written <= op[t].count /\ op[t].seen <= reclaim_counter
  <2>1. op = [t \in Tokens |-> NoCall] /\ reclaim_counter = 0 BY DEF Init
  <2> QED BY <1>7, <2>1
<1>13. told \in [Tokens -> BOOLEAN] /\ under \in [Tokens -> Tokens \cup {Nobody}] BY DEF Init
<1> QED BY <1>2, <1>3, <1>4, <1>5, <1>6, <1>10, <1>11, <1>12, <1>13 DEF TypeOK

\* A channel begins as it goes on.
LEMMA InitRuns ==
  ASSUME Init
  PROVE  Running
<1>1. /\ blocks \subseteq Block /\ {1, 2, 3} \subseteq Block /\ 1 \in blocks /\ tail_block \in blocks
      /\ ListHead = 1 /\ Lowest = 1 /\ OnList = blocks
      /\ Sold = Skip /\ Turn = Skip /\ Cut = Skip /\ Pos(head_offset) = 0
      /\ First(1) = 0 /\ \A b \in blocks : First(b) = (b - 1) * BlockSize /\ First(b) <= Skip
      /\ BlockSize \in Starts /\ 2 * BlockSize \in Starts
      /\ Used => blocks = {1, 2, 3} /\ BlockSize = 2 /\ Skip = 2 * BlockSize /\ FirstTicket >= 6
                 /\ FirstTicket \in Word /\ First(2) = BlockSize
      /\ ~Used => blocks = {1} /\ Skip = 0
      /\ \A places : ~At(places)
  BY InitList
<1>2. TypeOK BY InitType
<1>3. /\ BlockSize \in Nat /\ BlockSize > 0 /\ MaxTicket \in Nat /\ MaxPull \in Nat /\ Skip \in Nat /\ Top \in Nat
      /\ Top = Skip + MaxTicket + MaxPull + 1 /\ 0 \in Starts
  BY Sizes, OriginIs, TopIs, StartsApart
<1>4. /\ pc = [t \in Tokens |-> "idle"] /\ op = [t \in Tokens |-> NoCall] /\ lock = Nobody /\ rec = NoRec
      /\ told = [t \in Tokens |-> FALSE] /\ closed = "open" /\ head_block = 1
      /\ stored = [b \in Block |-> [i \in Index |-> NoValue]]
      /\ flags = [b \in Block |-> IF Used /\ b < 3 THEN [i \in Index |-> "data"] ELSE Fresh]
      /\ next = [b \in Block |-> IF Used /\ b < 3 THEN b + 1 ELSE Null]
  BY DEF Init
<1>5. /\ NoCall.name = "none" /\ NoCall.count = 0 /\ NoCall.written = 0 /\ NoRec.unlinked = <<>>
  BY DEF NoCall, NoRec
<1>6. \A t \in Tokens : pc[t] = "idle" /\ op[t] = NoCall /\ ~told[t] /\ lock # t
  BY <1>4, TokenAssumption
<1>7. pc \in [Tokens -> Places]
  <2>1. "idle" \in Places BY DEF Places
  <2> QED BY <1>4, <2>1
<1>8. \A t \in Tokens : /\ ~Sender(t) /\ ~Drawn(t) /\ ~Reclaimer(t) /\ ~Reader(t) /\ ~Unaware(t)
                        /\ \A m : ~Owns(t, m) /\ ~Takes(t, m) /\ ~Suspended(t, m) /\ ~Swept(t, m) /\ ~Wakes(t, m)
  BY <1>6, Outside DEF Outer
<1>9. \A m \in Nat : ~Done(m) BY <1>1 DEF Done
<1>10. Linked
  <2>1. {Lowest, ListHead, tail_block} \subseteq blocks BY <1>1
  <2>2. CASE ~Used
    <3>1. blocks = {1} /\ next[1] = Null /\ First(1) = 0 /\ 0 \in Starts /\ 0 <= Top + 0
      BY <1>1, <1>3, <1>4, <2>2
    <3> QED BY <1>1, <2>1, <3>1 DEF Linked
  <2>3. CASE Used
    <3>1. /\ blocks = {1, 2, 3} /\ BlockSize = 2 /\ First(1) = 0 /\ First(2) = 2 /\ First(3) = 4 /\ 2 \in Starts /\ 4 \in Starts
          /\ Skip = 4
      BY <1>1, <2>3
    <3>2. next[1] = 2 /\ next[2] = 3 /\ next[3] = Null /\ Null # 1 /\ Null # 2 /\ Null # 3
      BY <1>1, <1>4, <2>3 DEF Null
    <3>3. 4 <= Top BY <1>3, <3>1
    <3>4. \A b \in blocks : First(b) \in Starts /\ First(Lowest) <= First(b) /\ First(b) <= Top + First(Lowest)
      BY <1>1, <1>3, <3>1, <3>3
    <3>5. \A b, c \in blocks : First(b) = First(c) => b = c BY <3>1
    <3>6. \A b \in blocks : next[b] # Null => next[b] \in blocks /\ First(next[b]) = First(b) + BlockSize
      BY <3>1, <3>2
    <3>7. \A b, c \in blocks : next[b] = Null => First(c) <= First(b) BY <3>1, <3>2
    <3> QED BY <2>1, <3>4, <3>5, <3>6, <3>7 DEF Linked
  <2> QED BY <2>2, <2>3
<1>11. Heads
  <2>1. PICK h : h = head_block OBVIOUS
  <2>2. h = 1 /\ ListHead = h BY <1>1, <1>4, <2>1
  <2> QED BY <1>1, <1>3, <2>1, <2>2 DEF Heads
<1>12. Numbers
  <2>1. ~CutDrawn /\ ~At({"cutoff", "publish"}) /\ closed # "closing" BY <1>1, <1>4 DEF CutDrawn
  <2>2. Skip <= Top BY <1>3
  <2> QED BY <1>1, <1>3, <1>6, <2>1, <2>2 DEF Numbers
<1>13. Asking
  <2>1. \A names : "none" \notin names => Asked(names) = {} BY <1>6 DEF Asked, BeforeDraw
  <2>2. Pullers = {} BY <2>1 DEF Pullers
  <2>3. TicketPairs = {}
    <3>1. Asked({"post", "post_bulk"}) = {} BY <2>1
    <3> QED BY <3>1 DEF TicketPairs
  <2>4. Cardinality(Pullers) = 0 /\ Cardinality(TicketPairs) = 0 BY <2>2, <2>3, FS_EmptySet
  <2>5. ~CutDrawn BY <1>1, <1>4 DEF CutDrawn
  <2> QED BY <1>1, <1>3, <2>4, <2>5 DEF Asking
<1>14. SendersApart /\ ReadersApart BY <1>8 DEF SendersApart, ReadersApart
<1>15. Served BY <1>1, <1>3 DEF Served
<1>16. Reclaim BY <1>1, <1>4, <1>5 DEF Reclaim
<1>17. Cells
  <2>1. ASSUME NEW b \in blocks, NEW i \in Index
        PROVE  CellOK(First(b) + i, flags[b][i], stored[b][i])
    <3>1. b \in Block /\ First(b) \in Nat /\ i \in Nat /\ i < BlockSize
      BY <1>1, <1>2, <1>3, Types DEF Index
    <3>2. PICK m \in Nat : m = First(b) + i BY <3>1
    <3>3. stored[b][i] = NoValue /\ ~Done(m) BY <1>4, <1>9, <3>1
    <3>4. Skip <= m => flags[b][i] = "empty"
      <4>1. CASE ~Used BY <1>4, <3>1, <4>1 DEF Fresh
      <4>2. CASE Used /\ b = 3 BY <1>4, <3>1, <4>2 DEF Fresh
      <4>3. CASE Used /\ b # 3
        <5>1. b \in {1, 2} /\ BlockSize = 2 /\ Skip = 4 /\ First(1) = 0 /\ First(2) = 2
          BY <1>1, <4>3
        <5>2. m < 4 BY <3>1, <3>2, <5>1
        <5> QED BY <5>1, <5>2
      <4> QED BY <4>1, <4>2, <4>3
    <3>5. CellOK(m, flags[b][i], stored[b][i]) BY <3>3, <3>4 DEF CellOK
    <3> QED BY <3>2, <3>5
  <2> QED BY <1>9, <2>1 DEF Cells
<1>18. Clean BY <1>1, <1>4 DEF Clean
<1>19. ASSUME NEW t \in Tokens
       PROVE  Token(t)
  <2>1. pc[t] = "idle" /\ op[t] = NoCall /\ lock # t BY <1>6
  <2>2. Control(t)
    BY <1>5, <2>1 DEF Control, Named, Acquiring, Polling, Closing, Reclaiming, Writing, Posting,
       Scanning, Visiting, Announcing, Moves, Sweeping
  <2>3. Closer(t) /\ Post(t) /\ Pull(t) /\ Sought(t) /\ Parks(t) /\ Acquires(t)
    BY <1>5, <1>8, <2>1 DEF Closer, Sweeping, Post, Pull, Sought, Parks, Acquires
  <2>4. Uses(t) BY <1>8, <2>1 DEF Uses, Seeking, Walking, Polling, Writing, Reading
  <2>5. Met(t) BY <1>1 DEF Met
  <2>6. Has(t)
    <3>1. CASE Used /\ t = Maker
      <4>1. haz[t] = [owned |-> TRUE, active_offset |-> Inactive(FirstTicket - 1),
                      write_block |-> 2, read_block |-> 2,
                      next_protect_write |-> offset[2], next_protect_read |-> offset[2]]
            /\ Near(Inactive(FirstTicket - 1))
        BY <3>1, InitHaz
      <4>2. /\ haz[t].write_block = 2 /\ haz[t].read_block = 2 /\ haz[t].next_protect_write = offset[2]
            /\ haz[t].next_protect_read = offset[2] /\ Near(haz[t].active_offset)
        BY <4>1
      <4>3. 2 \in blocks /\ 2 \in OnList /\ First(2) <= Sold /\ First(2) <= Turn /\ Pos(offset[2]) = First(2) /\ First(2) \in Nat
        BY <1>1, <1>3, <3>1 DEF First
      <4>4. haz[t].write_block \in blocks /\ haz[t].read_block \in blocks
            /\ {haz[t].write_block, haz[t].read_block} \subseteq OnList
        BY <4>2, <4>3
      <4>5. /\ Pos(haz[t].next_protect_write) <= First(haz[t].write_block)
            /\ Pos(haz[t].next_protect_read) <= First(haz[t].read_block)
            /\ First(haz[t].write_block) <= Sold /\ First(haz[t].read_block) <= Turn
        BY <4>2, <4>3
      <4> QED BY <4>2, <4>4, <4>5 DEF Has, Fields
    <3>2. CASE ~(Used /\ t = Maker)
      <4>1. haz[t] = NoHaz BY <3>2 DEF Init
      <4>2. ~haz[t].owned /\ haz[t].write_block = Null /\ haz[t].read_block = Null
        BY <4>1 DEF NoHaz
      <4> QED BY <4>2 DEF Has, Fields, Acquired
    <3> QED BY <3>1, <3>2
  <2> QED BY <2>2, <2>3, <2>4, <2>5, <2>6 DEF Token
<1> QED BY <1>2, <1>7, <1>10, <1>11, <1>12, <1>13, <1>14, <1>15, <1>16, <1>17, <1>18, <1>19 DEF Running

\* Every step of a running channel goes on so, or is its last.
LEMMA StepKeeps ==
  ASSUME Running, Next
  PROVE  Running' \/ Destroyed'
<1> HIDE DEF Running, Destroyed
<1>1. ASSUME NEW t \in Tokens, Call(t)
      PROVE  Running'
  <2>1. PICK name \in setup.does[t] \ {"leave"} : \E n \in Counts(name) : Start(t, name, n)
    BY <1>1 DEF Call
  <2>2. PICK n \in Counts(name) : Start(t, name, n) BY <2>1
  <2>3. setup.does[t] \subseteq Calls BY SetupAssumption DEF Running, TypeOK
  <2> QED BY <2>1, <2>2, <2>3, StartKeeps
<1>2. ASSUME NEW t \in Tokens, AcquireStep(t)
      PROVE  Running'
  BY <1>2, LoadReclaimCounterKeeps, TryTakeOwnershipKeeps, LoadHeadOffsetKeeps, LoadHeadKeeps, InitHazPtrKeeps,
     CountHazPtrKeeps, RecheckReclaimKeeps DEF AcquireStep
<1>3. ASSUME NEW t \in Tokens, TicketStep(t)
      PROVE  Running'
  <2>1. Draw(t) => Running'
    <3>1. Draw(t) => Posting(t) \/ op[t].name = "pull" \/ op[t].name = "try_pull" BY DEF Draw
    <3> QED BY <3>1, DrawPostKeeps, DrawPullKeeps, DrawTryPullKeeps
  <2> QED
    BY <1>3, <2>1, ProtectKeeps, LoadBlockKeeps, CheckClosedKeeps, SeekKeeps, ReleaseKeeps DEF TicketStep
<1>4. ASSUME NEW t \in Tokens, PostStep(t)
      PROVE  Running'
  BY <1>4, SeekEndsInPostKeeps, SeekEndsInBulkKeeps, ReserveKeeps, WriteElementKeeps, ResumeConsumerKeeps, CrossKeeps
     DEF PostStep
<1>5. ASSUME NEW t \in Tokens, PullStep(t)
      PROVE  Running'
  <2>1. Wait(t) => Running' BY WaitFindsKeeps, WaitParksKeeps DEF FlagAt
  <2>2. Claim(t) => Running' BY ClaimTakesKeeps, ClaimFailsKeeps
  <2> QED
    BY <1>5, <2>1, <2>2, SeekEndsInPullKeeps, SetNotWaitingKeeps, DestroyValueKeeps, LoadWriteOffsetKeeps, PollKeeps,
       RereadOffsetKeeps, StatusKeeps DEF PullStep
<1>6. ASSUME NEW t \in Tokens, ReclaimStep(t)
      PROVE  Running'
  <2>1. TryLock(t) => Running' BY TryLockTakesKeeps, TryLockFailsKeeps
  <2>2. Unlock(t) => Running' BY UnlockPullKeeps, UnlockCloseKeeps
  <2> QED
    BY <1>6, <2>1, <2>2, LoadCountKeeps, ScanKeeps, EndScanKeeps, VisitWriteKeeps, VisitReadKeeps, SwapHazPtrKeeps,
       RevalidateHazardKeeps, StoreHeadKeeps, AnnounceKeeps, CheckHazPtrCounterKeeps, RollbackKeeps, CommitKeeps,
       ResetValuesKeeps, RelinkKeeps DEF ReclaimStep
<1>7. ASSUME NEW t \in Tokens, CloseStep(t)
      PROVE  Running'
  <2>1. Lock(t) => Running' BY LockTakesKeeps, LockReturnsKeeps
  <2> QED
    BY <1>7, <2>1, DrawCutoffKeeps, PublishCutoffKeeps, LoadReadersKeeps, SeekReaderKeeps, WakeReaderKeeps DEF CloseStep
<1>8. ASSUME NEW t \in Tokens, Step(t)
      PROVE  Running'
  BY <1>2, <1>3, <1>4, <1>5, <1>6, <1>7, <1>8, ReleaseOwnershipKeeps DEF Step
<1>9. ~Gone
  <2>1. Maker \in Tokens /\ pc[Maker] \in Places BY TokenAssumption DEF Running
  <2>2. "gone" \notin Places
    BY DEF Places, Acquiring, Walking, Writing, Polling, Reading, Reclaiming, Closing, Scanning, Visiting, Announcing,
           Moves, Sweeping
  <2> QED BY <2>1, <2>2 DEF Gone
<1> QED BY <1>1, <1>8, <1>9, YieldKeeps, FreeKeeps, DestructKeeps DEF Next

\* What a channel keeps to, from its construction to the end of its destructor.
THEOREM Invariance == Spec => []IInv
<1> HIDE DEF Running, Destroyed
<1>1. Init => IInv BY InitRuns DEF IInv
<1>2. IInv /\ [Next]_vars => IInv'
  <2> SUFFICES ASSUME IInv, [Next]_vars PROVE IInv' OBVIOUS
  <2>1. CASE UNCHANGED vars BY <2>1, StutterKeeps
  <2>2. CASE Next /\ Running BY <2>2, StepKeeps DEF IInv
  <2>3. CASE Next /\ Destroyed BY <2>3, DestroyedKeeps, StutterKeeps
  <2> QED BY <2>1, <2>2, <2>3 DEF IInv
<1> QED BY <1>1, <1>2, PTL DEF Spec

\* While it runs it has a maker.
LEMMA NotAllGone ==
  ASSUME Running
  PROVE  ~(\A t \in Tokens : pc[t] = "gone")
<1>1. Maker \in Tokens /\ pc[Maker] \in Places BY TokenAssumption DEF Running
<1>2. "gone" \notin Places
  BY DEF Places, Acquiring, Walking, Writing, Polling, Reading, Reclaiming, Closing, Scanning, Visiting, Announcing,
         Moves, Sweeping
<1> QED BY <1>1, <1>2

\* The blocks from the head of the list on, and those that a reclaimer moves.
LEMMA TwoLists ==
  ASSUME Running
  PROVE  /\ ReachableFrom(ListHead) = OnList /\ \A b \in OnList : ReachableFrom(b) \subseteq OnList
         /\ Unlinked \cap OnList = {} /\ blocks = OnList \cup Moving
<1> HIDE DEF Running
<1>1. TypeOK /\ Linked /\ Reclaim BY DEF Running
<1>2. PICK h \in blocks : h = ListHead BY <1>1 DEF Linked
<1>3. \A b \in blocks : First(b) \in Nat /\ b \in Block BY <1>1, Types
<1>4. \A b \in blocks : ReachableFrom(b) = { c \in blocks : First(b) <= First(c) }
  BY <1>1, Chain
<1>5. OnList = { c \in blocks : First(h) <= First(c) } BY <1>2 DEF OnList
<1>6. ReachableFrom(ListHead) = OnList /\ \A b \in OnList : ReachableFrom(b) \subseteq OnList
  BY <1>2, <1>3, <1>4, <1>5
<1>7. Unlinked \cap OnList = {}
  <2>1. CASE At(Moves) BY <2>1, ListApart
  <2>2. CASE ~At(Moves)
    <3>1. rec.unlinked = <<>> BY <1>1, <2>2 DEF Reclaim
    <3>2. Unlinked = {} BY <3>1 DEF Unlinked
    <3> QED BY <3>2
  <2> QED BY <2>1, <2>2
<1>8. PICK k \in blocks : k = Lowest BY <1>1 DEF Linked
<1>9. \A b \in blocks : First(k) <= First(b) BY <1>1, <1>8 DEF Linked
<1>10. ReachableFrom(k) = blocks BY <1>4, <1>9
<1>11. CASE At({"commit"} \cup Moves)
  <2>1. Moving = ReachableFrom(k) BY <1>8, <1>11 DEF Moving, Lowest, At, Moves
  <2> QED BY <1>5, <1>6, <1>7, <1>10, <2>1
<1>12. CASE ~At({"commit"} \cup Moves)
  <2>1. k = h BY <1>2, <1>8, <1>12 DEF Lowest, At
  <2>2. Moving = {} BY <1>12 DEF Moving, At, Moves
  <2>3. OnList = blocks BY <1>5, <1>9, <2>1
  <2> QED BY <1>6, <1>7, <2>2, <2>3
<1> QED BY <1>11, <1>12

\* Offsets on the list as positions, and how they compare with words.
LEMMA OffsetIs ==
  ASSUME Running, NEW b \in OnList
  PROVE  /\ b \in blocks /\ b \in Block /\ b # Null /\ offset[b] \in Word /\ Pos(offset[b]) = First(b) /\ First(b) \in Nat
         /\ \A x \in Word : Pos(x) <= Top /\ First(b) <= Top =>
               /\ AtOrBefore(offset[b], x) <=> First(b) <= Pos(x)
               /\ AtOrBefore(x, offset[b]) <=> Pos(x) <= First(b)
<1> HIDE DEF Running
<1>1. /\ b \in blocks /\ b \in Block /\ b # Null /\ offset[b] \in Word /\ First(b) \in Nat
  <2>1. TypeOK BY DEF Running
  <2> QED BY <2>1, Types
<1>2. PICK y \in Word : y = offset[b] BY <1>1
<1>3. Pos(y) = First(b) BY <1>2 DEF First
<1>4. \A x \in Word : Pos(x) <= Top /\ Pos(y) <= Top =>
         /\ AtOrBefore(y, x) <=> Pos(y) <= Pos(x)
         /\ AtOrBefore(x, y) <=> Pos(x) <= Pos(y)
  BY AtOrBeforeIs
<1> QED BY <1>1, <1>2, <1>3, <1>4

\* What the invariant comes to
\* Once destroyed there is no block.
LEMMA NothingLeft ==
  ASSUME Destroyed
  PROVE  /\ blocks = {} /\ Maker \in Tokens /\ lock = Nobody /\ \A b : ReachableFrom(b) = {}
         /\ \A t \in Tokens : pc[t] = "gone" /\ ~haz[t].owned
<1>1. blocks = {} /\ lock = Nobody /\ Maker \in Tokens /\ \A t \in Tokens : pc[t] = "gone" /\ ~haz[t].owned
  BY TokenAssumption DEF Destroyed
<1>2. \A b : ReachableFrom(b) \subseteq blocks BY DEF ReachableFrom
<1> QED BY <1>1, <1>2

\* The blocks follow each other in order and none is lost.
LEMMA StorageFollows ==
  ASSUME IInv
  PROVE  StorageIsSound
<1> HIDE DEF Running, Destroyed
<1>1. CASE Running
  <2>1. TypeOK /\ Linked BY <1>1 DEF Running
  <2>2. NoBlockLost BY <1>1, NotAllGone, TwoLists DEF NoBlockLost
  <2>3. ASSUME NEW b \in ReachableFrom(ListHead), next[b] # Null
        PROVE  offset[next[b]] = Plus(offset[b], BlockSize)
    <3>1. b \in OnList BY <1>1, <2>3, TwoLists
    <3>2. b \in blocks /\ b \in Block BY <2>1, <3>1, Types
    <3>3. PICK c \in blocks : c = next[b] /\ First(c) = First(b) + BlockSize
      BY <2>1, <2>3, <3>2 DEF Linked
    <3>4. PICK x \in Word, y \in Word : x = offset[b] /\ y = offset[c] /\ c \in Block
      BY <2>1, <3>2, <3>3, Types
    <3>5. Pos(x) = First(b) /\ Pos(y) = First(c) BY <3>4 DEF First
    <3>6. Pos(x) + BlockSize < WordMod /\ BlockSize \in Nat
      <4>1. First(c) \in Nat /\ First(c) < WordMod BY <2>1, <3>4, Types
      <4> QED BY <3>3, <3>5, <4>1, Sizes
    <3>7. Plus(x, BlockSize) \in Word /\ Pos(Plus(x, BlockSize)) = Pos(x) + BlockSize
      BY <3>4, <3>6, PosPlus
    <3>8. Plus(x, BlockSize) = y BY <3>3, <3>4, <3>5, <3>7, PosTells
    <3> QED BY <3>3, <3>4, <3>8
  <2> QED BY <2>1, <2>2, <2>3 DEF StorageIsSound, ListInOrder
<1>2. CASE Destroyed
  <2>1. TypeOK BY <1>2 DEF Destroyed
  <2> QED BY <1>2, <2>1, NothingLeft DEF StorageIsSound, ListInOrder, NoBlockLost
<1> QED BY <1>1, <1>2 DEF IInv

\* A block that is being moved is neither in use nor before one that is.
LEMMA ReclaimedFollows ==
  ASSUME IInv
  PROVE  ReclaimedIsUnprotected
<1> HIDE DEF Running, Destroyed
<1>1. CASE Running
  <2>1. ASSUME NEW t \in Tokens, NEW b \in Walks(t) \cup Hazards(t)
        PROVE  b \in OnList
    <3>1. Uses(t) /\ Has(t) BY <1>1, Fixed
    <3>2. CASE b \in Walks(t) BY <3>1, <3>2 DEF Walks, Uses, Drawn, Walking, Writing
    <3>3. CASE b \in Hazards(t) BY <3>1, <3>3 DEF Hazards, Has
    <3> QED BY <2>1, <3>2, <3>3
  <2>2. ASSUME NEW t \in Tokens, At(Moves), NEW b \in Holds(t)
        PROVE  b \in OnList
    <3>1. Uses(t) /\ Control(t) BY <1>1, Fixed
    <3>2. b = op[t].block BY <2>2 DEF Holds
    <3>3. CASE pc[t] \in {"write", "wake", "try_lock", "wait", "parked", "holding", "claim"}
      BY <3>1, <3>2, <3>3 DEF Uses, Reading
    <3>4. CASE lock = t /\ op[t].name # "close"
      BY <2>2, <3>1, <3>2, <3>4 DEF Uses, Reclaimer, At, Moves, Reclaiming
    <3> QED BY <2>2, <3>3, <3>4 DEF Holds
  <2>3. /\ Unlinked \cap OnList = {} /\ \A b \in OnList : ReachableFrom(b) \subseteq OnList
    BY <1>1, TwoLists
  <2>4. \A t \in Tokens : \A b \in Walks(t) \cup Hazards(t) : Unlinked \cap ReachableFrom(b) = {}
    BY <2>1, <2>3
  <2>5. At(Moves) => \A t \in Tokens : Unlinked \cap Holds(t) = {} BY <2>2, <2>3
  <2> QED BY <2>4, <2>5 DEF ReclaimedIsUnprotected, At, Moves
<1>2. CASE Destroyed BY <1>2, NothingLeft DEF ReclaimedIsUnprotected
<1> QED BY <1>1, <1>2 DEF IInv

\* What a token acquired is on the list, at or after what it will protect.
LEMMA AcquiredFollows ==
  ASSUME IInv
  PROVE  AcquiredIsLive
<1> HIDE DEF Running, Destroyed
<1>1. CASE Running
  <2> SUFFICES ASSUME NEW t \in Tokens, Acquired(t)
               PROVE  /\ {haz[t].write_block, haz[t].read_block} \subseteq ReachableFrom(ListHead)
                      /\ AtOrBefore(haz[t].next_protect_write, offset[haz[t].write_block])
                      /\ AtOrBefore(haz[t].next_protect_read, offset[haz[t].read_block])
    BY DEF AcquiredIsLive
  <2>1. Has(t) /\ TypeOK BY <1>1, Fixed DEF Running
  <2>2. PICK w \in OnList : w = haz[t].write_block BY <2>1 DEF Has
  <2>3. PICK r \in OnList : r = haz[t].read_block BY <2>1 DEF Has
  <2>4. PICK x \in Word : x = haz[t].next_protect_write BY <2>1, Types
  <2>5. PICK y \in Word : y = haz[t].next_protect_read BY <2>1, Types
  <2>6. First(w) <= Sold /\ First(r) <= Turn /\ Pos(x) <= First(w) /\ Pos(y) <= First(r)
    BY <2>1, <2>2, <2>3, <2>4, <2>5 DEF Has
  <2>7. Sold <= Top /\ Turn <= Top /\ Top \in Nat /\ Sold \in Nat /\ Turn \in Nat
    BY <1>1, <2>1, Bounds, Types
  <2>8. First(w) \in Nat /\ First(r) \in Nat BY <1>1, OffsetIs
  <2>9. Pos(x) \in Nat /\ Pos(y) \in Nat BY PosIs
  <2>10. First(w) <= Top /\ First(r) <= Top /\ Pos(x) <= Top /\ Pos(y) <= Top
    BY <2>6, <2>7, <2>8, <2>9
  <2>11. AtOrBefore(x, offset[w]) BY <1>1, <2>6, <2>10, OffsetIs
  <2>12. AtOrBefore(y, offset[r]) BY <1>1, <2>6, <2>10, OffsetIs
  <2> QED BY <1>1, <2>2, <2>3, <2>4, <2>5, <2>11, <2>12, TwoLists
<1>2. CASE Destroyed BY <1>2, NothingLeft DEF AcquiredIsLive, Acquired
<1> QED BY <1>1, <1>2 DEF IInv

\* The destructor is the last step, and leaves no value.
LEMMA DestructorFollows ==
  ASSUME IInv
  PROVE  DestructorLeavesNothing
<1> HIDE DEF Running
<1>1. CASE Running BY <1>1, NotAllGone DEF DestructorLeavesNothing
<1>2. CASE Destroyed BY <1>2 DEF DestructorLeavesNothing, Destroyed
<1> QED BY <1>1, <1>2 DEF IInv

\* What a call protects and where it starts are at or before its ticket.
LEMMA StartsFollow ==
  ASSUME Running
  PROVE  StartsAtOrBefore
<1> HIDE DEF Running
<1>1. TypeOK /\ Sold \in Nat /\ Turn \in Nat /\ Top \in Nat /\ Sold <= Top /\ Turn <= Top
  <2>1. TypeOK BY DEF Running
  <2> QED BY <2>1, Bounds, Types
<1>2. ASSUME NEW t \in Tokens, pc[t] \in {"load_block", "check_closed", "seek"}
      PROVE  /\ AtOrBefore(haz[t].active_offset, op[t].idx)
             /\ pc[t] \in {"check_closed", "seek"} => AtOrBefore(offset[op[t].walk], op[t].idx)
  <2>1. Drawn(t) /\ (pc[t] \in {"check_closed", "seek"} => pc[t] \in Walking) /\ Uses(t)
    BY <1>2, Fixed DEF Drawn, Walking
  <2>2. PICK x \in Word : x = op[t].idx /\ Pos(x) = Begin(t) BY <1>1, Types DEF Begin
  <2>3. PICK a \in Word : a = haz[t].active_offset /\ Pos(a) = Active(t)
    BY <1>1, Types DEF Active
  <2>4. Pos(x) \in Nat /\ Pos(x) <= Top /\ Base(Pos(x)) \in Nat /\ Base(Pos(x)) <= Pos(x) /\ Pos(a) \in Nat
    BY <2>1, <2>2, InUse, PosIs
  <2>5. Pos(a) <= Base(Pos(x)) BY <2>1, <2>2, <2>3 DEF Uses
  <2>6. AtOrBefore(a, x) BY <1>1, <2>4, <2>5, AtOrBeforeIs
  <2>7. ASSUME pc[t] \in {"check_closed", "seek"}
        PROVE  AtOrBefore(offset[op[t].walk], op[t].idx)
    <3>1. PICK b \in OnList : b = op[t].walk /\ First(b) <= Base(Pos(x))
      BY <2>1, <2>2, <2>7 DEF Uses
    <3>2. First(b) \in Nat BY OffsetIs
    <3>3. First(b) <= Top /\ First(b) <= Pos(x) BY <1>1, <2>4, <3>1, <3>2
    <3> QED BY <2>2, <2>4, <3>1, <3>3, OffsetIs
  <2> QED BY <2>2, <2>3, <2>6, <2>7
<1>3. ASSUME NEW t \in Tokens, pc[t] = "idle", haz[t].owned
      PROVE  /\ AtOrBefore(offset[haz[t].write_block], write_offset)
             /\ AtOrBefore(offset[haz[t].read_block], read_offset)
  <2>1. Acquired(t) /\ Has(t) BY <1>3, Fixed DEF Acquired
  <2>2. PICK w \in OnList : w = haz[t].write_block /\ First(w) <= Sold BY <2>1 DEF Has
  <2>3. PICK r \in OnList : r = haz[t].read_block /\ First(r) <= Turn BY <2>1 DEF Has
  <2>4. PICK x \in Word : x = write_offset /\ Pos(x) = Sold BY <1>1, Types DEF Sold
  <2>5. PICK y \in Word : y = read_offset /\ Pos(y) = Turn BY <1>1, Types DEF Turn
  <2>6. First(w) \in Nat /\ First(r) \in Nat BY OffsetIs
  <2>7. First(w) <= Top /\ First(r) <= Top BY <1>1, <2>2, <2>3, <2>6
  <2>8. AtOrBefore(offset[w], x) BY <1>1, <2>2, <2>4, <2>7, OffsetIs
  <2>9. AtOrBefore(offset[r], y) BY <1>1, <2>3, <2>5, <2>7, OffsetIs
  <2> QED BY <2>2, <2>3, <2>4, <2>5, <2>8, <2>9
<1>4. \A t \in Tokens : pc[t] \in {"load_block", "check_closed", "seek"} => AtOrBefore(haz[t].active_offset, op[t].idx)
  BY <1>2
<1>5. \A t \in Tokens : pc[t] \in {"check_closed", "seek"} => AtOrBefore(offset[op[t].walk], op[t].idx)
  BY <1>2
<1> QED BY <1>3, <1>4, <1>5 DEF StartsAtOrBefore

\* An element is clear for the post that comes to it.
LEMMA PostFinds ==
  ASSUME Running, NEW t \in Tokens, pc[t] = "write"
  PROVE  /\ op[t].block # Null
         /\ offset[op[t].block] = StartOf(WriteAt(t))
         /\ FlagAt(op[t].block, WriteAt(t)) \in {"empty"} \cup Tokens
         /\ stored[op[t].block][IndexOf(WriteAt(t))] = NoValue
<1> HIDE DEF Running
<1>1. PICK m : m = Begin(t) + op[t].written OBVIOUS
<1>2. PICK b : b = op[t].block OBVIOUS
<1>3. PICK x : x = WriteAt(t) OBVIOUS
<1>4. PICK f : f = flags[b][IndexOf(x)] OBVIOUS
<1>5. PICK v : v = stored[b][IndexOf(x)] OBVIOUS
<1>6. /\ x \in Word /\ Pos(x) = m /\ m \in Nat /\ Skip <= m /\ m < Cut /\ Sender(t) /\ m < Finish(t)
      /\ b \in OnList /\ First(b) = Base(m) /\ CellOK(m, f, v)
  <2>1. pc[t] \in {"write", "wake"} /\ Skip \in Nat /\ Begin(t) \in Nat
    BY OriginIs, <1>1, Writes
  <2>2. /\ WriteAt(t) \in Word /\ Pos(WriteAt(t)) = m /\ m \in Nat /\ Skip <= Begin(t) /\ Begin(t) <= m /\ m < Cut
        /\ Sender(t) /\ m < Finish(t) /\ op[t].block \in OnList /\ First(op[t].block) = Base(m)
    BY <1>1, <2>1, Writes
  <2>3. CellOK(m, flags[op[t].block][IndexOf(WriteAt(t))], stored[op[t].block][IndexOf(WriteAt(t))])
    BY <1>1, <2>1, Writes
  <2> QED BY <1>2, <1>3, <1>4, <1>5, <2>1, <2>2, <2>3
<1>7. ~Done(m)
  <2>1. TypeOK BY DEF Running
  <2>2. Ahead(t) = m BY <1>1, <2>1, Types
  <2>3. Owns(t, m) BY <1>6, <2>2 DEF Owns
  <2> QED BY <2>3 DEF Done
<1>8. v = NoValue /\ f \in {"empty"} \cup Tokens
  <2>1. v = NoValue BY <1>6, <1>7 DEF CellOK
  <2>2. f = "empty" \/ f \in Tokens \/ Cut <= m BY <1>6, <1>7 DEF CellOK
  <2>3. ~(Cut <= m) BY <1>6, Bounds
  <2> QED BY <2>1, <2>2, <2>3
<1>9. b # Null /\ offset[b] = StartOf(x)
  <2>1. b # Null /\ offset[b] \in Word /\ Pos(offset[b]) = First(b) BY <1>6, OffsetIs
  <2>2. StartOf(x) \in Word /\ Pos(StartOf(x)) = Base(Pos(x)) BY <1>6, PlaceOf
  <2>3. PICK y \in Word : y = offset[b] BY <2>1
  <2>4. PICK z \in Word : z = StartOf(x) BY <2>2
  <2>5. Pos(y) = Pos(z) BY <1>6, <2>1, <2>2, <2>3, <2>4
  <2> QED BY <2>1, <2>3, <2>4, <2>5, PosTells
<1> QED BY <1>2, <1>3, <1>4, <1>5, <1>8, <1>9 DEF FlagAt

\* Calls get to the elements of their tickets.
LEMMA WritesFollow ==
  ASSUME IInv
  PROVE  WritesAreSafe
<1> HIDE DEF Running, Destroyed
<1>1. CASE Running
  <2>1. PostOverwritesNothing BY <1>1, PostFinds DEF PostOverwritesNothing
  <2> QED BY <1>1, <2>1, StartsFollow DEF WritesAreSafe
<1>2. CASE Destroyed
  BY <1>2, NothingLeft DEF WritesAreSafe, StartsAtOrBefore, PostOverwritesNothing
<1> QED BY <1>1, <1>2 DEF IInv

\* A pull() or try_pull() is handed the value of its index.
LEMMA HandedOver ==
  ASSUME Running, NEW t \in Tokens, pc[t] = "holding"
  PROVE  stored[op[t].block][IndexOf(op[t].idx)] = ValueAt(op[t].idx)
<1> HIDE DEF Running
<1>1. PICK f : f = flags[op[t].block][IndexOf(op[t].idx)] OBVIOUS
<1>2. PICK v : v = stored[op[t].block][IndexOf(op[t].idx)] OBVIOUS
<1>3. pc[t] \in {"wait", "holding"} OBVIOUS
<1>4. /\ Reader(t) /\ Begin(t) \in Nat /\ Skip <= Begin(t) /\ Done(Begin(t)) /\ f \in Flag /\ CellOK(Begin(t), f, v)
  BY <1>1, <1>2, <1>3, ReaderPlaced
<1>5. v = Begin(t) - Skip + 1 BY <1>4, ReaderFinds
<1>6. PICK x \in Word : x = op[t].idx
  <2>1. TypeOK BY DEF Running
  <2> QED BY <2>1, Types
<1>7. Pos(x) = Begin(t) BY <1>6 DEF Begin
<1>8. (x - FirstTicket) % WordMod = Pos(x) - Skip BY <1>4, <1>6, <1>7, Count
<1>9. v = ValueAt(x) BY <1>5, <1>7, <1>8 DEF ValueAt
<1> QED BY <1>2, <1>6, <1>9

\* Each value is handed to one consumer, in the order of the tickets.
LEMMA DeliveredFollows ==
  ASSUME IInv
  PROVE  DeliveredOnce
<1> HIDE DEF Running, Destroyed
<1>1. CASE Running
  <2>1. \A t \in Tokens : pc[t] \in {"wait", "parked", "holding"} => Reader(t)
    BY <1>1, ReaderPlaced, ParkedIs
  <2>2. ASSUME NEW t \in Tokens, pc[t] = "holding", NEW u \in Tokens \ {t}, pc[u] \in {"wait", "parked", "holding"}
        PROVE  op[u].idx # op[t].idx
    <3>1. Reader(t) /\ Reader(u) /\ t # u BY <2>1, <2>2
    <3>2. Begin(t) # Begin(u) BY <1>1, <2>2, <3>1 DEF Running, ReadersApart
    <3> QED BY <3>2 DEF Begin
  <2> QED BY <1>1, <2>2, HandedOver DEF DeliveredOnce
<1>2. CASE Destroyed BY <1>2, NothingLeft DEF DeliveredOnce
<1> QED BY <1>1, <1>2 DEF IInv

\* Who was told CLOSED left nothing.
LEMMA DrainedFollows ==
  ASSUME IInv
  PROVE  ClosedMeansDrained
<1> HIDE DEF Running
<1>1. CASE Running
  <2>1. ASSUME NEW t \in Tokens, told[t]
        PROVE  closed = "closed" /\ AtOrBefore(write_closed_at, read_offset)
    <3>1. closed = "closed" /\ Cut <= Turn /\ TypeOK BY <1>1, <2>1 DEF Running, Numbers
    <3>2. PICK x \in Word : x = write_closed_at /\ Pos(x) = Cut BY <3>1, Types DEF Cut
    <3>3. PICK y \in Word : y = read_offset /\ Pos(y) = Turn BY <3>1, Types DEF Turn
    <3>4. Cut <= Top /\ Turn <= Top
      <4>1. Cut \in Nat /\ Cut <= Sold /\ Sold <= Top /\ Turn <= Top /\ Sold \in Nat /\ Top \in Nat
        BY <1>1, <3>1, Bounds, Types
      <4> QED BY <4>1
    <3> QED BY <3>1, <3>2, <3>3, <3>4, AtOrBeforeIs
  <2> QED BY <2>1 DEF ClosedMeansDrained
<1>2. CASE Destroyed BY <1>2 DEF Destroyed
<1> QED BY <1>1, <1>2 DEF IInv

\* A post that has not come to a position yet owns its offset.
LEMMA OwnerIs ==
  ASSUME Running, NEW t \in Tokens, NEW m \in Nat, NEW x \in Word, Pos(x) = m, m <= Top,
         Owns(t, m) \/ (pc[t] = "wake" /\ m = Begin(t) + op[t].written)
  PROVE  Owner(t, x)
<1> HIDE DEF Running
<1>1. TypeOK BY DEF Running
<1>2. /\ op[t].written \in Nat /\ op[t].count \in Nat /\ Begin(t) \in Nat /\ Finish(t) = Begin(t) + op[t].count
      /\ op[t].idx \in Word /\ Ahead(t) \in Nat /\ Begin(t) + op[t].written <= Ahead(t)
  BY <1>1, Types, Fixed
<1>3. Posting(t) /\ Sender(t) /\ Begin(t) + op[t].written <= m /\ m < Finish(t)
  <2>1. CASE Owns(t, m) BY <1>2, <2>1 DEF Owns, Sender
  <2>2. CASE pc[t] = "wake" /\ m = Begin(t) + op[t].written
    <3>1. pc[t] \in {"write", "wake"} BY <2>2
    <3>2. Posting(t) /\ Sender(t) /\ m < Finish(t) BY <2>2, <3>1, Writes
    <3> QED BY <1>2, <2>2, <3>2
  <2> QED BY <2>1, <2>2
<1>4. pc[t] \notin BeforeDraw BY <1>3 DEF Sender, BeforeDraw, Walking, Writing
<1>5. PICK k \in Nat : m = Begin(t) + k
  <2>1. m - Begin(t) \in Nat /\ m = Begin(t) + (m - Begin(t)) BY <1>2, <1>3
  <2> QED BY <2>1
<1>6. k \in op[t].written .. op[t].count - 1 BY <1>2, <1>3, <1>5
<1>7. Plus(op[t].idx, k) = x
  <2>1. PICK y \in Word : y = op[t].idx /\ Pos(y) = Begin(t) BY <1>2 DEF Begin
  <2>2. Pos(y) + k < WordMod BY <1>5, <2>1, TopIs, Sizes
  <2>3. Plus(y, k) \in Word /\ Pos(Plus(y, k)) = m BY <1>5, <2>1, <2>2, PosPlus
  <2> QED BY <2>1, <2>3, PosTells
<1> QED BY <1>3, <1>4, <1>6, <1>7 DEF Owner

\* Somebody is on the way to a suspended consumer.
LEMMA SomebodyComes ==
  ASSUME Running, NEW c \in Tokens, pc[c] = "parked"
  PROVE  /\ FlagAt(op[c].block, op[c].idx) = c
         /\ IF closed = "closed" /\ AtOrBefore(write_closed_at, op[c].idx)
               THEN \E t \in Tokens : Sweeps(t, op[c].idx)
               ELSE \/ AtOrBefore(write_offset, op[c].idx)
                    \/ \E t \in Tokens : Owner(t, op[c].idx) \/ pc[t] = "publish"
<1> HIDE DEF Running
<1>1. TypeOK /\ Numbers /\ Sought(c) /\ Parks(c) /\ \A t \in Tokens : Closer(t)
  BY DEF Running, Token
<1>2. PICK x \in Word : x = op[c].idx /\ Pos(x) = Begin(c) BY <1>1, Types DEF Begin
<1>3. Unaware(c) /\ Begin(c) \in Nat /\ Skip <= Begin(c) /\ Begin(c) < Turn
      /\ flags[op[c].block][IndexOf(op[c].idx)] = c
  BY ParkedIs
<1>4. Cut \in Nat /\ Cut <= Sold /\ Sold <= Top /\ Turn <= Top /\ Sold \in Nat /\ Turn \in Nat /\ Top \in Nat
  BY <1>1, Bounds, Types
<1>5. Pos(x) <= Top /\ Pos(x) \in Nat BY <1>2, <1>3, <1>4
<1>6. closed = "closed" => (AtOrBefore(write_closed_at, x) <=> Cut <= Pos(x))
  <2>1. ASSUME closed = "closed"
        PROVE  AtOrBefore(write_closed_at, x) <=> Cut <= Pos(x)
    <3>1. PICK y \in Word : y = write_closed_at /\ Pos(y) = Cut BY <1>1, <2>1, Types DEF Cut
    <3>2. Pos(y) <= Top BY <1>4, <3>1
    <3> QED BY <1>5, <3>1, <3>2, AtOrBeforeIs
  <2> QED BY <2>1
<1>7. ASSUME closed = "closed", Cut <= Pos(x)
      PROVE  \E t \in Tokens : Sweeps(t, x)
  <2>1. PICK t \in Tokens : Swept(t, Begin(c)) BY <1>1, <1>2, <1>3, <1>7 DEF Sought
  <2>2. CASE pc[t] = "load_readers" BY <2>1, <2>2 DEF Swept, Sweeps
  <2>3. CASE pc[t] # "load_readers"
    <3>1. op[t].name = "close" /\ pc[t] \in Sweeping /\ Begin(t) <= Pos(x) /\ Pos(x) < Pos(op[t].end)
      BY <1>2, <2>1, <2>3 DEF Swept
    <3>2. Pos(op[t].end) <= Turn BY <1>1, <3>1 DEF Closer
    <3>3. PICK y \in Word : y = op[t].idx /\ Pos(y) = Begin(t) /\ Begin(t) \in Nat
      BY <1>1, Types DEF Begin
    <3>4. PICK z \in Word : z = op[t].end /\ Pos(z) \in Nat BY <1>1, Types
    <3>5. Pos(y) <= Top /\ Pos(z) <= Top BY <1>4, <1>5, <3>1, <3>2, <3>3, <3>4
    <3>6. AtOrBefore(y, x) /\ CircularLess(x, z) BY <1>5, <3>1, <3>3, <3>4, <3>5, AtOrBeforeIs
    <3> QED BY <3>1, <3>3, <3>4, <3>6 DEF Sweeps, Sweeping
  <2> QED BY <2>2, <2>3
<1>8. ASSUME Pos(x) < Cut
      PROVE  \E t \in Tokens : Owner(t, x)
  <2>1. CASE Done(Begin(c))
    <3>1. PICK u \in Tokens : pc[u] = "wake" /\ Begin(u) + op[u].written = Begin(c)
      BY <1>1, <2>1 DEF Parks
    <3> QED BY <1>2, <1>3, <1>5, <3>1, OwnerIs
  <2>2. CASE ~Done(Begin(c))
    <3>1. PICK u \in Tokens : Owns(u, Begin(c)) BY <1>2, <1>3, <1>8, <2>2 DEF Done
    <3> QED BY <1>2, <1>3, <1>5, <3>1, OwnerIs
  <2> QED BY <2>1, <2>2
<1>9. ASSUME closed # "closed", Cut <= Pos(x)
      PROVE  AtOrBefore(write_offset, x) \/ \E t \in Tokens : pc[t] = "publish"
  <2>1. CASE At({"publish"}) BY <1>1, <2>1 DEF At, TypeOK
  <2>2. CASE ~At({"publish"})
    <3>1. Sold <= Pos(x) BY <1>9, <2>2 DEF Cut
    <3>2. PICK y \in Word : y = write_offset /\ Pos(y) = Sold BY <1>1, Types DEF Sold
    <3> QED BY <1>4, <1>5, <3>1, <3>2, AtOrBeforeIs
  <2> QED BY <2>1, <2>2
<1>10. IF closed = "closed" /\ AtOrBefore(write_closed_at, x)
          THEN \E t \in Tokens : Sweeps(t, x)
          ELSE AtOrBefore(write_offset, x) \/ \E t \in Tokens : Owner(t, x) \/ pc[t] = "publish"
  <2>1. CASE closed = "closed" /\ AtOrBefore(write_closed_at, x) BY <1>6, <1>7, <2>1
  <2>2. CASE ~(closed = "closed" /\ AtOrBefore(write_closed_at, x))
    <3>1. Pos(x) < Cut \/ (closed # "closed" /\ Cut <= Pos(x)) BY <1>4, <1>5, <1>6, <2>2
    <3> QED BY <1>8, <1>9, <2>2, <3>1
  <2> QED BY <2>1, <2>2
<1> QED BY <1>2, <1>3, <1>10 DEF FlagAt

\* No suspended consumer is forgotten, and close() resumes nobody else.
LEMMA NobodyForgotten ==
  ASSUME IInv
  PROVE  NoConsumerForgotten
<1> HIDE DEF Running, Destroyed
<1>1. CASE Running
  <2>1. Expected BY <1>1, SomebodyComes DEF Expected
  <2>2. ASSUME NEW t \in Tokens, pc[t] = "spin"
        PROVE  FlagAt(op[t].walk, op[t].idx) \in {"empty", "both"} \cup { c \in Tokens : pc[c] = "parked" }
    <3>1. PICK m \in Nat : m = Begin(t)
      <4>1. TypeOK BY <1>1 DEF Running
      <4> QED BY <4>1, Types
    <3>2. PICK c : c = FlagAt(op[t].walk, op[t].idx) OBVIOUS
    <3>3. c # "empty" => c = "both" \/ (c \in Tokens /\ pc[c] = "parked")
      BY <1>1, <2>2, <3>1, <3>2, SweepFinds
    <3> QED BY <3>2, <3>3
  <2>3. SweepFindsReaders BY <2>2 DEF SweepFindsReaders
  <2> QED BY <2>1, <2>3 DEF NoConsumerForgotten
<1>2. CASE Destroyed BY <1>2, NothingLeft DEF NoConsumerForgotten, Expected, SweepFindsReaders
<1> QED BY <1>1, <1>2 DEF IInv

\* Theorems
\* While tokens and a reclaimer append to the list, move its head and recycle
\* blocks, everything keeps its type, the blocks from the head on follow each other
\* in the order of their offsets (what find_block() asserts), every block is on the
\* list or being moved, and the destructor frees them all.
THEOREM StorageSound == Spec => []StorageIsSound
<1>1. IInv => StorageIsSound BY StorageFollows
<1> QED BY <1>1, Invariance, PTL

\* While reclaim_blocks() resets a block and moves it to the tail, no call uses it
\* or can walk to it, and no hazard pointer leads to it.
THEOREM ReclaimedUnprotected == Spec => []ReclaimedIsUnprotected
<1>1. IInv => ReclaimedIsUnprotected BY ReclaimedFollows
<1> QED BY <1>1, Invariance, PTL

\* A hazard pointer that get_hazard_ptr() has returned leads to blocks on the list,
\* at or after what its token will protect, however head_block moved meanwhile.
THEOREM AcquiredLive == Spec => []AcquiredIsLive
<1>1. IInv => AcquiredIsLive BY AcquiredFollows
<1> QED BY <1>1, Invariance, PTL

\* A call starts its search at or before its ticket, and write_element() finds the
\* block of its ticket and an element that is clear, recycled or not.
THEOREM WritesSafe == Spec => []WritesAreSafe
<1>1. IInv => WritesAreSafe BY WritesFollow
<1> QED BY <1>1, Invariance, PTL

\* A consumer is handed the value posted under its own ticket, and no other has it,
\* whether pull() drew the ticket or try_pull() claimed it.
THEOREM Delivered == Spec => []DeliveredOnce
<1>1. IInv => DeliveredOnce BY DeliveredFollows
<1> QED BY <1>1, Invariance, PTL

\* A consumer is told CLOSED only when every ticket before the cutoff of close() has
\* its consumer.
THEOREM ClosedDrained == Spec => []ClosedMeansDrained
<1>1. IInv => ClosedMeansDrained BY DrainedFollows
<1> QED BY <1>1, Invariance, PTL

\* Each suspended pull() is in the flag of its element and the post of its ticket,
\* or close(), is still to come to it; and close() resumes only who is suspended.
THEOREM NoneForgotten == Spec => []NoConsumerForgotten
<1>1. IInv => NoConsumerForgotten BY NobodyForgotten
<1> QED BY <1>1, Invariance, PTL

\* The destructor of the channel destroys every value that was posted and not
\* pulled.
THEOREM NothingLeaks == Spec => []DestructorLeavesNothing
<1>1. IInv => DestructorLeavesNothing BY DestructorFollows
<1> QED BY <1>1, Invariance, PTL
================================================================================
