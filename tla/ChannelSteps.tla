----------------------------- MODULE ChannelSteps -----------------------------
(***************************************************************************)
(* More steps of Channel that keep IInv: a try_pull() claims its index, a  *)
(* search goes on or appends a block, and a consumer reclaims blocks, from *)
(* the lock to where they are linked to the end of the list again.         *)
(***************************************************************************)
EXTENDS ChannelTokens

\* try_pull() takes the index that it found data at.
LEMMA ClaimTakesKeeps ==
  ASSUME Running, NEW t \in Tokens, Claim(t), read_offset = op[t].idx
  PROVE  Running'
<1> HIDE DEF Running
<1>1. /\ pc[t] = "claim"
      /\ UNCHANGED <<list, cutoff, counters, reclaim, setup>> /\ UNCHANGED elements /\ op' = op
      /\ under' = under /\ write_offset' = write_offset /\ read_offset' = Plus(read_offset, 1)
      /\ told' = [told EXCEPT ![t] = FALSE]
      /\ haz' = [haz EXCEPT ![t].read_block = op[t].block, ![t].next_protect_read = op[t].boff]
      /\ pc' = [pc EXCEPT ![t] = IF AtIndexOne(t) THEN "try_lock" ELSE "holding"]
  BY DEF Claim, GoTo
<1>2. /\ op[t].name = "try_pull" /\ lock # t
  BY <1>1, Parts DEF Control, Named, Calling, Acquiring, Polling, Closing, Reclaiming, Writing, Posting,
     Scanning, Visiting, Announcing, Moves, Sweeping
<1>3. /\ Drawn(t) /\ ~Posting(t) /\ Begin(t) \in Nat /\ Skip <= Begin(t) /\ Begin(t) = Turn /\ Turn \in Nat
      /\ Base(Begin(t)) \in Nat /\ Base(Begin(t)) <= Begin(t)
      /\ Active(t) <= From(t) /\ First(ListHead) <= Base(Begin(t)) /\ Active(t) <= Base(Begin(t))
      /\ op[t].written = 0 /\ Acquired(t) /\ Member(t) /\ Active(t) \in Nat
  <2>1. Drawn(t) /\ ~Posting(t) /\ Begin(t) \in Nat /\ Skip <= Begin(t) /\ Turn \in Nat /\ Base(Begin(t)) \in Nat
        /\ Active(t) <= From(t) /\ First(ListHead) <= Base(Begin(t)) /\ Active(t) <= Base(Begin(t))
        /\ op[t].written = 0 /\ Active(t) \in Nat
    BY <1>1, <1>2, Polls
  <2>2. Begin(t) = Turn BY DEF Begin, Turn
  <2> QED BY <2>1, <2>2, Members, InUse
<1>4. /\ op[t].block \in OnList /\ op[t].block \in blocks /\ op[t].block \in Block
      /\ First(op[t].block) = Base(Begin(t)) /\ Search(t) <= First(op[t].block)
      /\ Done(Begin(t)) /\ op[t].boff \in Word /\ op[t] \in CallType
  <2>1. op[t].block \in OnList /\ First(op[t].block) = Base(Begin(t) + op[t].written)
        /\ Search(t) <= First(op[t].block) /\ Done(Begin(t))
    BY <1>1, Parts DEF Uses, Pull
  <2>2. OnList \subseteq blocks /\ blocks \subseteq Block BY Types DEF Running
  <2> QED BY <1>3, <2>1, <2>2, Fixed, Parts
<1>5. PICK x \in OnList : x = op[t].block /\ x \in Block /\ x \in blocks BY <1>4
<1>6. PICK c \in CallType : c = op[t] BY <1>4
<1>7. PICK h \in HazType : h = [haz[t] EXCEPT !.read_block = x, !.next_protect_read = op[t].boff]
  BY <1>4, <1>5, HazAt, Unmoved
<1>8. PICK p \in {"try_lock", "holding"} : p = (IF AtIndexOne(t) THEN "try_lock" ELSE "holding")
  OBVIOUS
<1>9. pc' = [pc EXCEPT ![t] = p] /\ op' = [op EXCEPT ![t] = c] /\ haz' = [haz EXCEPT ![t] = h]
  <2>1. haz \in [Tokens -> HazType] BY DEF Running, TypeOK
  <2>2. haz' = [haz EXCEPT ![t].read_block = x, ![t].next_protect_read = op[t].boff]
    BY <1>1, <1>5
  <2>3. haz' = [haz EXCEPT ![t] = h] BY <1>7, <2>1, <2>2
  <2>4. op' = [op EXCEPT ![t] = c] /\ pc' = [pc EXCEPT ![t] = p] BY <1>1, <1>6, <1>8, Unmoved
  <2> QED BY <2>3, <2>4
<1>10. /\ h.active_offset = haz[t].active_offset /\ h.owned = haz[t].owned /\ h.read_block = x
       /\ h.next_protect_read = op[t].boff
       /\ h.write_block = haz[t].write_block /\ h.next_protect_write = haz[t].next_protect_write
  <2>1. haz[t] \in HazType BY Unmoved
  <2> QED BY <1>7, <2>1 DEF HazType
<1>11. pc'[t] = p /\ op'[t] = op[t] /\ haz'[t] = h /\ Only({t})
       /\ pc' \in [Tokens -> Places] /\ op' \in [Tokens -> CallType] /\ haz' \in [Tokens -> HazType]
  <2>1. p \in Places BY DEF Places, Reading
  <2> QED BY <1>6, <1>9, <2>1, Moved
<1>12. /\ Sold \in Nat /\ Cut \in Nat /\ Skip \in Nat /\ Top \in Nat /\ 4 * Top < WordMod /\ WordMod \in Nat
       /\ Cut <= Sold /\ Sold <= Skip + MaxTicket + 1 /\ Top = Skip + MaxTicket + MaxPull + 1 /\ MaxPull \in Nat
       /\ MaxTicket \in Nat /\ read_offset \in Word /\ write_offset \in Word /\ TypeOK /\ Asking
  BY Bounds, Types, OriginIs, Sizes, TopIs DEF Running
<1>13. Turn + 1 <= Skip + MaxTicket + 1 /\ Turn + 1 <= Top
  <2>1. Turn < Cut BY <1>3, <1>4 DEF Done
  <2> QED BY <1>3, <1>12, <2>1
<1>14. Turn' = Turn + 1 /\ read_offset' \in Word
  <2>1. Turn + 1 < WordMod BY <1>3, <1>12, <1>13
  <2> QED BY <1>1, <1>12, <2>1, PosPlus DEF Turn
<1>15. /\ Calm({t}) /\ Resting /\ (\A places : At(places)' = At(places)) /\ rec' = rec /\ lock' = lock
       /\ OnList' = OnList /\ blocks' = blocks /\ (\A b : First(b)' = First(b))
       /\ First(ListHead)' = First(ListHead)
       /\ Sold' = Sold /\ Cut' = Cut /\ closed' = closed /\ CutDrawn' = CutDrawn
  <2>1. Sold' = Sold BY <1>1 DEF Sold
  <2>2. {t} \in SUBSET Tokens /\ lock \notin {t} /\ write_offset' \in Word /\ Sold <= Sold' /\ Turn <= Turn'
    BY <1>1, <1>2, <1>3, <1>12, <1>14, <2>1
  <2> QED BY <1>1, <1>11, <1>14, <2>1, <2>2, Alongside
<1>16. /\ Begin(t)' = Turn /\ Active(t)' = Active(t) /\ ~Posting(t)' /\ Field(t)' = "read_block"
       /\ Search(t)' = Search(t) /\ Begin(t)' = Begin(t)
  BY <1>2, <1>3, <1>10, <1>11 DEF Begin, Active, Posting, Field, Search
<1>17. /\ ~Sender(t) /\ ~Sender(t)' /\ ~Reader(t) /\ Reader(t)' /\ Drawn(t)' /\ ~Unaware(t)'
  BY <1>1, <1>2, <1>3, <1>11, <1>16 DEF Sender, Reader, Drawn, Unaware, Reclaimer, Reclaiming, Scanning, Visiting, Announcing,
     Moves, Reading
<1>18. Control(t)'
  <2>1. Control(t) BY Parts
  <2> QED
    BY <1>1, <1>2, <1>3, <1>10, <1>11, <1>15, <1>16, <2>1 DEF Control, Named, Calling, Acquiring, Polling, Closing, Reclaiming,
       Writing, Posting, Scanning, Visiting, Announcing, Moves, Sweeping
<1>19. Closer(t)' /\ Sought(t)' /\ Parks(t)' /\ Acquires(t)' /\ Post(t)'
  BY <1>11, <1>17 DEF Closer, Sweeping, Sought, Parks, Acquires, Post
<1>20. Pull(t)'
  <2>1. Done(Begin(t))'
    <3>1. PICK m : m = Begin(t) OBVIOUS
    <3>2. \A u \in Tokens : Owns(u, m)' <=> Owns(u, m) BY <1>11, <1>17, Same DEF Only, Owns
    <3>3. Done(m)' BY <1>4, <1>15, <3>1, <3>2 DEF Done
    <3> QED BY <1>16, <3>1, <3>3 DEF Done
  <2>2. Pos(op[t].end) <= Sold BY <1>1, <1>2, Parts DEF Pull
  <2>3. Skip <= Begin(t)' /\ Begin(t)' <= Turn' /\ Begin(t)' < Turn' /\ Pos(op'[t].end) <= Sold'
    BY <1>3, <1>11, <1>14, <1>15, <1>16, <2>2
  <2>4. pc'[t] \notin {"load_block", "seek", "claim", "reread", "status"} BY <1>11
  <2> QED BY <2>1, <2>3, <2>4, PullReads
<1>21. Has(t)'
  <2>1. Has(t) /\ Null \notin blocks /\ Search(t) = Pos(op[t].boff)
    BY Parts, Types, SearchIs DEF Running
  <2>2. PICK w : w = haz[t].write_block OBVIOUS
  <2>3. /\ w \in OnList /\ w \in blocks /\ First(w) <= Sold /\ Pos(haz[t].next_protect_write) <= First(w)
        /\ Near(haz[t].active_offset)
    <3>1. w \in blocks BY <1>3, <2>2, Members
    <3> QED BY <1>3, <2>1, <2>2, <3>1 DEF Has, Fields
  <2>4. haz'[t].write_block = w /\ haz'[t].read_block = x /\ haz'[t].active_offset = haz[t].active_offset
        /\ haz'[t].next_protect_write = haz[t].next_protect_write /\ haz'[t].next_protect_read = op[t].boff
    BY <1>10, <1>11, <2>2
  <2>5. First(x) <= Turn /\ Turn <= Turn' /\ Pos(op[t].boff) <= First(x) /\ First(x) \in Nat
    BY <1>3, <1>4, <1>5, <1>14, <2>1
  <2>6. First(w)' = First(w) /\ First(x)' = First(x) BY <1>15
  <2>7. /\ First(w)' <= Sold' /\ First(x)' <= Turn' /\ Pos(haz'[t].next_protect_write) <= First(w)'
        /\ Pos(haz'[t].next_protect_read) <= First(x)'
    BY <1>3, <1>14, <1>15, <2>3, <2>4, <2>5, <2>6
  <2>8. /\ {haz[t].write_block, haz[t].read_block}' \subseteq OnList'
        /\ First(haz[t].write_block)' <= Sold' /\ First(haz[t].read_block)' <= Turn'
        /\ Pos(haz'[t].next_protect_write) <= First(haz[t].write_block)'
        /\ Pos(haz'[t].next_protect_read) <= First(haz[t].read_block)'
    BY <1>5, <1>15, <2>3, <2>4, <2>7
  <2>9. Near(haz[t].active_offset)' /\ \A f \in Fields : haz'[t][f] \in blocks'
    <3>1. \A f \in Fields : haz'[t][f] \in blocks' BY <1>5, <1>15, <2>3, <2>4 DEF Fields
    <3> QED BY <2>3, <2>4, <3>1 DEF Near
  <2> QED BY <2>8, <2>9 DEF Has
<1>22. Uses(t)'
  <2>1. Active(t)' <= From(t)' /\ First(ListHead)' <= Base(Begin(t)') /\ Active(t)' <= Base(Begin(t)')
    <3>1. From(t)' = First(x) BY <1>10, <1>11, <1>15, <1>16 DEF From
    <3> QED BY <1>3, <1>4, <1>5, <1>15, <1>16, <3>1
  <2>2. op'[t].block \in OnList' /\ First(op[t].block)' = Base(Begin(t)' + op'[t].written)
    <3>1. op'[t].block = x /\ op'[t].written = 0 /\ Begin(t) \in Nat BY <1>3, <1>5, <1>11
    <3>2. First(op[t].block)' = First(x)' BY <3>1
    <3> QED BY <1>4, <1>5, <1>15, <1>16, <3>1, <3>2
  <2> QED BY <1>11, <2>1, <2>2, UsesPlaced DEF Reading
<1>23. Met(t)'
  <2>1. Member(t)' /\ NobodyCame' => Member(t) /\ \A f \in Fields :
             \/ haz'[t][f] = haz[t][f]
             \/ Drawn(t) /\ haz'[t][f] \in blocks /\ Base(Begin(t)) <= First(haz'[t][f])
    <3>1. \A f \in Fields : haz'[t][f] = haz[t][f] \/ haz'[t][f] = x BY <1>10, <1>11 DEF Fields
    <3>2. Base(Begin(t)) <= First(x) /\ x \in blocks BY <1>3, <1>4, <1>5
    <3> QED BY <1>3, <3>1, <3>2
  <2>2. Drawn(t)' => Drawn(t) /\ Begin(t)' \in Nat /\ Begin(t) <= Begin(t)' BY <1>3, <1>16
  <2>3. pc'[t] \notin Walking BY <1>11 DEF Walking
  <2>4. At({"swap", "revalidate"}) /\ t = rec.at => Near(haz[t].active_offset)'
    <3>1. haz'[t].active_offset = haz[t].active_offset BY <1>10, <1>11
    <3> QED BY <3>1, Parts DEF Met, Near
  <2> QED BY <1>2, <1>15, <2>1, <2>2, <2>3, <2>4, MetStays
<1>24. Token(t)' BY <1>18, <1>19, <1>20, <1>21, <1>22, <1>23 DEF Token
<1>25. Asking'
  <2>1. TicketPairs' = TicketPairs /\ Pullers' = Pullers
    <3>1. \A names : Asked(names)' = Asked(names) BY <1>1, <1>11 DEF Asked, Only, BeforeDraw
    <3> QED BY <1>1, <3>1 DEF TicketPairs, Pullers
  <2>2. Cardinality(Pullers) <= MaxPull /\ Cardinality(Pullers) \in Nat
    BY <1>12, PairsAreFew DEF Asking
  <2>3. Turn' + Cardinality(Pullers) <= Top BY <1>3, <1>12, <1>13, <1>14, <2>2
  <2>4. Sold + Cardinality(TicketPairs) <= Skip + MaxTicket + (IF CutDrawn THEN 1 ELSE 0)
    BY <1>12 DEF Asking
  <2> QED BY <1>15, <2>1, <2>2, <2>3, <2>4, Zenon DEF Asking
<1>26. /\ told' \in [Tokens -> BOOLEAN] /\ under' \in [Tokens -> Tokens \cup {Nobody}]
       /\ \A u \in Tokens : told'[u] => told[u]
  BY <1>1, <1>12 DEF TypeOK
<1>27. op'[t].written <= op'[t].count /\ op'[t].seen <= reclaim_counter BY <1>11, Parts
<1>28. op[t].name # "close" /\ op'[t].name # "close" /\ pc[t] \notin {"parked", "wake"} /\ pc'[t] \notin {"parked", "wake"}
       /\ Turn' <= Top
  BY <1>1, <1>2, <1>11, <1>13, <1>14
<1> QED BY <1>1, <1>2, <1>11, <1>14, <1>16, <1>17, <1>24, <1>25, <1>26, <1>27, <1>28, TakesNext

\* Walking, and appending a block where the list ends
\* Where find_block() gets to, and that the list is as before up to there.
LEMMA Advanced ==
  ASSUME Running, NEW b \in OnList, NEW c \in Block, Advance(b, c), First(b) + BlockSize <= Top,
         Lowest' = Lowest, ListHead' = ListHead, tail_block' = tail_block, UNCHANGED stored
  PROVE  /\ c \in OnList' /\ First(c)' = First(b) + BlockSize
         /\ blocks \subseteq blocks' /\ blocks' \subseteq Block /\ OnList \subseteq OnList'
         /\ \A d \in blocks : First(d)' = First(d) /\ offset'[d] = offset[d] /\ flags'[d] = flags[d]
         /\ next' \in [Block -> Block \cup {Null}] /\ offset' \in [Block -> Word]
         /\ flags' \in [Block -> [Index -> Flag]]
         /\ Linked'
         /\ \A d \in blocks' \ blocks : flags'[d] = Fresh /\ \A i \in Index : ~Reaches(First(d)' + i)
         /\ \A m : Reaches(m) => Reaches(m)'
         /\ \A d \in blocks' : First(d)' \in Nat
<1> HIDE DEF Running
<1>1. /\ TypeOK /\ Linked /\ OnList \subseteq blocks /\ blocks \subseteq Block /\ Null \notin Block
      /\ {Lowest, ListHead, tail_block} \subseteq blocks /\ First(Lowest) <= First(ListHead)
      /\ \A d \in blocks : First(d) \in Starts /\ First(d) \in Nat
      /\ \A d \in Block : offset[d] \in Word
      /\ Top \in Nat /\ 4 * Top < WordMod /\ WordMod \in Nat
  BY Bounds, Types DEF Running
<1>2. b \in blocks /\ First(ListHead) <= First(b) BY <1>1 DEF OnList
<1>3. CASE next[b] # Null /\ c = next[b] /\ UNCHANGED <<list, flags>>
  <2>1. c \in blocks /\ First(c) = First(b) + BlockSize BY <1>1, <1>2, <1>3 DEF Linked
  <2>2. c \in OnList BY <1>1, <1>2, <2>1, Sizes DEF OnList
  <2>3. Linked' /\ OnList' = OnList /\ blocks' = blocks /\ (\A d : First(d)' = First(d))
        /\ \A m : Reaches(m)' = Reaches(m)
    <3>1. UNCHANGED <<list, tail_block>> BY <1>3
    <3> QED BY <3>1, ListKeeps
  <2>4. offset' = offset /\ flags' = flags /\ next' = next BY <1>3 DEF list
  <2>5. /\ next \in [Block -> Block \cup {Null}] /\ offset \in [Block -> Word]
        /\ flags \in [Block -> [Index -> Flag]]
    BY <1>1 DEF TypeOK
  <2> QED BY <1>1, <2>1, <2>2, <2>3, <2>4, <2>5
<1>4. CASE /\ next[b] = Null /\ blocks # Block /\ c = NewBlock
           /\ blocks' = blocks \cup {c}
           /\ next' = [next EXCEPT ![b] = c, ![c] = Null]
           /\ offset' = [offset EXCEPT ![c] = Plus(offset[b], BlockSize)]
           /\ flags' = [flags EXCEPT ![c] = Fresh]
  <2>1. c \in Block /\ c \notin blocks /\ c # b BY <1>1, <1>2, <1>4, NewBlockIsNew
  <2>2. /\ next \in [Block -> Block \cup {Null}] /\ offset \in [Block -> Word]
        /\ flags \in [Block -> [Index -> Flag]]
    BY <1>1 DEF TypeOK
  <2>3. Plus(offset[b], BlockSize) \in Word /\ Pos(Plus(offset[b], BlockSize)) = First(b) + BlockSize
    <3>1. First(b) + BlockSize < WordMod BY <1>1, <1>2, Sizes
    <3>2. offset[b] \in Word /\ BlockSize \in Nat BY <1>1, <1>2, Sizes
    <3> QED BY <3>1, <3>2, PosPlus DEF First
  <2>4. Fresh \in [Index -> Flag] BY DEF Fresh, Flag
  <2>5. /\ next' \in [Block -> Block \cup {Null}] /\ offset' \in [Block -> Word]
        /\ flags' \in [Block -> [Index -> Flag]]
    BY <1>4, <2>1, <2>2, <2>3, <2>4
  <2>6. /\ \A d \in blocks : offset'[d] = offset[d] /\ flags'[d] = flags[d]
        /\ offset'[c] = Plus(offset[b], BlockSize) /\ flags'[c] = Fresh
        /\ next'[b] = c /\ next'[c] = Null /\ \A d \in blocks : d # b => next'[d] = next[d]
    BY <1>1, <1>2, <1>4, <2>1, <2>2
  <2>7. /\ \A d \in blocks : First(d)' = First(d)
        /\ First(c)' = First(b) + BlockSize
    BY <2>3, <2>6 DEF First
  <2>8. /\ BlockSize \in Nat /\ BlockSize > 0 /\ First(b) + BlockSize \in Starts /\ First(b) \in Nat
        /\ \A d \in blocks : First(d) <= First(b)
        /\ First(Lowest) \in Nat /\ First(Lowest) <= First(b)
    <3>1. \A d \in blocks : First(d) <= First(b) BY <1>1, <1>2, <1>4 DEF Linked
    <3>2. First(b) + BlockSize \in Starts BY <1>1, <1>2, StartsApart
    <3> QED BY <1>1, <1>2, <3>1, <3>2, Sizes
  <2>9. First(Lowest)' = First(Lowest) /\ First(ListHead)' = First(ListHead)
    <3>1. PICK x, y : x = Lowest /\ y = ListHead OBVIOUS
    <3>2. First(x)' = First(x) /\ First(y)' = First(y) BY <1>1, <2>7, <3>1
    <3> QED BY <3>1, <3>2
  <2>10. \A d \in blocks' : d = c \/ d \in blocks BY <1>4
  <2>11. Linked'
    <3>1. {Lowest, ListHead, tail_block} \subseteq blocks' BY <1>1, <1>4
    <3>2. \A d \in blocks' : First(d)' \in Starts /\ First(Lowest) <= First(d)'
      BY <1>1, <2>7, <2>8, <2>10 DEF Linked
    <3>3. \A d, e \in blocks' : First(d)' = First(e)' => d = e
      BY <1>1, <2>7, <2>8, <2>10 DEF Linked
    <3>4. \A d \in blocks' : next'[d] # Null => next'[d] \in blocks' /\ First(next[d])' = First(d)' + BlockSize
      <4> SUFFICES ASSUME NEW d \in blocks', next'[d] # Null
                   PROVE  next'[d] \in blocks' /\ First(next[d])' = First(d)' + BlockSize
        OBVIOUS
      <4>1. d \in blocks BY <2>6, <2>10
      <4>2. CASE d = b
        <5>1. First(next[d])' = First(c)' BY <2>6, <4>2
        <5> QED BY <1>2, <1>4, <2>6, <2>7, <4>2, <5>1
      <4>3. CASE d # b
        <5>1. PICK e : e = next[d] OBVIOUS
        <5>2. e \in blocks /\ First(e) = First(d) + BlockSize /\ next'[d] = e
          BY <1>1, <2>6, <4>1, <4>3, <5>1 DEF Linked
        <5>3. First(e)' = First(d)' + BlockSize BY <2>7, <4>1, <5>2
        <5> QED BY <1>4, <5>2, <5>3
      <4> QED BY <4>2, <4>3
    <3>5. \A d, e \in blocks' : next'[d] = Null => First(e)' <= First(d)'
      <4> SUFFICES ASSUME NEW d \in blocks', NEW e \in blocks', next'[d] = Null
                   PROVE  First(e)' <= First(d)'
        OBVIOUS
      <4>1. CASE d = c BY <1>1, <2>7, <2>8, <2>10, <4>1
      <4>2. CASE d # c
        <5>1. d \in blocks /\ d # b /\ next[d] = Null BY <1>1, <2>1, <2>6, <2>10, <4>2
        <5>2. First(b) <= First(d) /\ First(d) <= First(b) BY <1>1, <1>2, <2>8, <5>1 DEF Linked
        <5>3. d = b BY <1>1, <1>2, <5>1, <5>2 DEF Linked
        <5> QED BY <5>1, <5>3
      <4> QED BY <4>1, <4>2
    <3>6. \A d \in blocks' : First(d)' <= Top + First(Lowest)
      BY <1>1, <2>7, <2>8, <2>10 DEF Linked
    <3> QED BY <2>9, <3>1, <3>2, <3>3, <3>4, <3>5, <3>6 DEF Linked
  <2>12. c \in OnList' /\ OnList \subseteq OnList'
    <3>1. First(ListHead) <= First(c)' /\ First(ListHead) \in Nat BY <1>1, <1>2, <2>7, <2>8
    <3>2. \A d \in OnList : d \in blocks /\ First(ListHead) <= First(d)' BY <2>7 DEF OnList
    <3> QED BY <1>4, <2>9, <3>1, <3>2 DEF OnList
  <2>13. \A i \in Index : ~Reaches(First(c)' + i)
    <3> SUFFICES ASSUME NEW i \in Index, NEW d \in blocks, First(b) + BlockSize + i < First(d) + BlockSize
                 PROVE  FALSE
      BY <2>7 DEF Reaches
    <3> QED BY <1>1, <2>8 DEF Index
  <2>14. \A m : Reaches(m) => Reaches(m)' BY <1>4, <2>7 DEF Reaches
  <2>15. blocks \subseteq blocks' /\ blocks' \subseteq Block /\ \A d \in blocks' : First(d)' \in Nat
    BY <1>1, <1>4, <2>1, <2>7, <2>8, <2>10
  <2> QED BY <2>5, <2>6, <2>7, <2>10, <2>11, <2>12, <2>13, <2>14, <2>15
<1> QED BY <1>3, <1>4 DEF Advance

\* A step that changes the locals of one call only.
LEMMA WalkMoves ==
  ASSUME Running, NEW t \in Tokens, NEW k \in CallType, op' = [op EXCEPT ![t] = k], pc' = pc, haz' = haz
  PROVE  /\ pc'[t] = pc[t] /\ op'[t] = k /\ haz'[t] = haz[t] /\ Only({t})
         /\ pc' \in [Tokens -> Places] /\ op' \in [Tokens -> CallType] /\ haz' \in [Tokens -> HazType]
<1>1. PICK p \in Places, h \in HazType : p = pc[t] /\ h = haz[t] BY Unmoved
<1>2. pc' = [pc EXCEPT ![t] = p] /\ op' = [op EXCEPT ![t] = k] /\ haz' = [haz EXCEPT ![t] = h]
  BY <1>1, Unmoved
<1>3. /\ pc'[t] = p /\ op'[t] = k /\ haz'[t] = h /\ Only({t})
      /\ pc' \in [Tokens -> Places] /\ op' \in [Tokens -> CallType] /\ haz' \in [Tokens -> HazType]
  BY <1>2, Moved
<1> QED BY <1>1, <1>3

\* A step of find_block(), for a call's block, a bulk's last block or a reader's.
LEMMA WalkOn ==
  ASSUME Running, NEW t \in Tokens, NEW c \in Block, pc[t] \in {"seek", "reserve", "seek_reader"},
         op[t].walk \in OnList, Advance(op[t].walk, c), NEW k \in CallType, k = [op[t] EXCEPT !.walk = c],
         op' = [op EXCEPT ![t] = k], pc' = pc,
         UNCHANGED <<stored, offsets, cutoff, counters, reclaim, haz, clients>>,
         pc[t] # "reserve" => First(op[t].walk) + BlockSize <= Base(Begin(t)),
         pc[t] = "reserve" => First(op[t].walk) + BlockSize <= Base(LastPos(t)),
         First(op[t].walk) + BlockSize <= Top
  PROVE  Running'
<1> HIDE DEF Running
<1>1. /\ TypeOK /\ Linked /\ Heads /\ Numbers /\ Asking /\ SendersApart /\ ReadersApart /\ Served /\ Reclaim /\ Cells
      /\ Clean /\ Token(t) /\ OnList \subseteq blocks /\ blocks \subseteq Block
      /\ haz_ptr_counter \in Nat /\ {Sold, Turn, Cut} \subseteq Nat
  BY Types, Bounds DEF Running, TypeOK
<1>2. /\ UNCHANGED <<lock, rec, head_block, tail_block, head_offset, closed, write_closed_at, write_offset, read_offset,
                     haz_ptr_counter, reclaim_counter, setup, told, under, stored, haz>>
      /\ lock' = lock /\ rec' = rec /\ head_block' = head_block /\ tail_block' = tail_block /\ closed' = closed
      /\ haz' = haz /\ told' = told /\ stored' = stored /\ haz_ptr_counter' = haz_ptr_counter
      /\ reclaim_counter' = reclaim_counter
  BY DEF offsets, cutoff, counters, reclaim, heads, clients
<1>5. /\ pc'[t] = pc[t] /\ op'[t] = k /\ haz'[t] = haz[t] /\ Only({t})
      /\ pc' \in [Tokens -> Places] /\ op' \in [Tokens -> CallType] /\ haz' \in [Tokens -> HazType]
  BY <1>2, WalkMoves
<1>6. /\ k.name = op[t].name /\ k.idx = op[t].idx /\ k.count = op[t].count /\ k.written = op[t].written
      /\ k.seen = op[t].seen /\ k.end = op[t].end /\ k.boff = op[t].boff /\ k.past = op[t].past /\ k.block = op[t].block
      /\ k.walk = c
  <2>1. op[t] \in CallType BY Parts
  <2> QED BY <2>1 DEF CallType
<1>7. \A u \in Tokens : /\ pc'[u] = pc[u] /\ op'[u].idx = op[u].idx /\ op'[u].name = op[u].name
                        /\ op'[u].count = op[u].count /\ op'[u].written = op[u].written /\ op'[u].seen = op[u].seen
  BY <1>5, <1>6 DEF Only
<1>8. /\ \A places : At(places)' = At(places)
      /\ ListHead' = ListHead /\ Lowest' = Lowest /\ Unlinked' = Unlinked
  BY <1>2 DEF At, ListHead, Lowest, Unlinked
<1>9. PICK b \in OnList : b = op[t].walk OBVIOUS
<1>10. /\ c \in OnList' /\ First(c)' = First(b) + BlockSize
       /\ blocks \subseteq blocks' /\ blocks' \subseteq Block /\ OnList \subseteq OnList'
       /\ \A d \in blocks : First(d)' = First(d) /\ offset'[d] = offset[d] /\ flags'[d] = flags[d]
       /\ next' \in [Block -> Block \cup {Null}] /\ offset' \in [Block -> Word]
       /\ flags' \in [Block -> [Index -> Flag]]
       /\ Linked'
       /\ \A d \in blocks' \ blocks : flags'[d] = Fresh /\ \A i \in Index : ~Reaches(First(d)' + i)
       /\ \A m : Reaches(m) => Reaches(m)'
       /\ \A d \in blocks' : First(d)' \in Nat
  BY <1>2, <1>8, <1>9, Advanced
<1>11. /\ Begin(t)' = Begin(t) /\ Finish(t)' = Finish(t) /\ Ahead(t)' = Ahead(t) /\ Search(t)' = Search(t)
       /\ Active(t)' = Active(t) /\ LastPos(t)' = LastPos(t) /\ Posting(t)' = Posting(t) /\ Field(t)' = Field(t)
  <2>1. Begin(t)' = Begin(t) /\ Search(t)' = Search(t) /\ Active(t)' = Active(t) /\ Posting(t)' = Posting(t)
    BY <1>5, <1>6 DEF Begin, Search, Active, Posting
  <2>2. Finish(t)' = Finish(t) /\ Ahead(t)' = Ahead(t) /\ Field(t)' = Field(t)
    BY <1>5, <1>6, <2>1 DEF Finish, Ahead, Field
  <2> QED BY <1>5, <1>6, <2>1, <2>2 DEF LastPos
<1>12. /\ Sender(t)' = Sender(t) /\ Drawn(t)' = Drawn(t) /\ Reclaimer(t)' = Reclaimer(t)
       /\ Reader(t)' = Reader(t) /\ Unaware(t)' = Unaware(t)
  <2>1. Reclaimer(t)' = Reclaimer(t) BY <1>5, <1>6 DEF Reclaimer
  <2>2. Drawn(t)' = Drawn(t) /\ Sender(t)' = Sender(t)
    BY <1>5, <1>6, <1>11, <2>1 DEF Sender, Drawn
  <2> QED BY <1>5, <1>6, <2>1, <2>2 DEF Reader, Unaware
<1>13. \A m : /\ Owns(t, m)' = Owns(t, m) /\ Takes(t, m)' = Takes(t, m) /\ Suspended(t, m)' = Suspended(t, m)
              /\ Swept(t, m)' = Swept(t, m) /\ Wakes(t, m)' = Wakes(t, m)
  BY <1>5, <1>6, <1>11, <1>12 DEF Owns, Takes, Suspended, Swept, Wakes
<1>14. Seen({t}) BY <1>6, <1>5, <1>11, <1>12, <1>13 DEF Seen
<1>15. Sold' = Sold /\ Turn' = Turn /\ CutDrawn' = CutDrawn /\ Cut' = Cut
  <2>1. Sold' = Sold /\ Turn' = Turn /\ CutDrawn' = CutDrawn
    BY <1>2, <1>8 DEF Sold, Turn, CutDrawn
  <2>2. At({"publish"}) => Begin(lock)' = Begin(lock) BY <1>1, <1>2, <1>7 DEF Begin, At, TypeOK
  <2> QED BY <1>2, <1>8, <2>1, <2>2 DEF Cut
<1>16. Calm({t}) /\ Resting
  <2>1. Calm({t})
    <3>1. \A d \in OnList : offset'[d] = offset[d] BY <1>1, <1>10
    <3>2. At({"validate"})' = At({"validate"}) BY <1>8
    <3> QED BY <1>1, <1>2, <1>5, <1>8, <1>10, <1>15, <3>1, <3>2 DEF Calm
  <2>2. Resting
    <3>1. At(Watched)' = At(Watched) /\ (At(Watched) => lock \in Tokens)
      BY <1>1, <1>8 DEF At, TypeOK
    <3>2. At(Watched) => pc'[lock] = pc[lock] /\ op'[lock].idx = op[lock].idx BY <1>7, <3>1
    <3> QED BY <1>1, <1>2, <1>10, <3>1, <3>2 DEF Resting
  <2> QED BY <2>1, <2>2
<1>17. \A u \in Tokens \ {t} : Met(u)' BY <1>16, MetKeeps
<1>18. /\ Seen(Tokens) /\ (\A m \in Nat : Taken(m)' = Taken(m)) /\ (\A m \in Nat : Done(m)' = Done(m))
       /\ SendersApart' /\ ReadersApart'
  <2>1. {t} \in SUBSET Tokens OBVIOUS
  <2> QED BY <1>1, <1>5, <1>14, <1>15, <2>1, ViewsKeep
<1>19. ASSUME NEW u \in Tokens \ {t}
       PROVE  Parks(u)'
  <2>1. pc[u] = "parked" => flags'[op[u].block][IndexOf(op[u].idx)] = u
    <3>1. pc[u] = "parked" => op[u].block \in blocks BY Reads DEF Reading
    <3>2. pc[u] = "parked" => flags[op[u].block][IndexOf(op[u].idx)] = u BY Parts DEF Parks
    <3> QED BY <1>10, <3>1, <3>2
  <2> QED BY <1>5, <1>14, <1>15, <2>1, ParksKeep
<1>20. Served' BY <1>1, <1>2, <1>15, <1>18 DEF Served
<1>21. Numbers' /\ Asking'
  <2>1. Numbers' BY <1>1, <1>2, <1>8, <1>15 DEF Numbers
  <2>2. Asking' BY <1>1, <1>7, <1>15, AskingKeeps
  <2> QED BY <2>1, <2>2
<1>22. Heads'
  <2>1. head_block \in blocks /\ ListHead \in blocks /\ head_block' = head_block /\ head_offset' = head_offset
    BY <1>2, Bounds
  <2>2. First(head_block)' = First(head_block) /\ First(ListHead)' = First(ListHead)
    BY <1>8, <1>10, <2>1 DEF First
  <2> QED BY <1>1, <1>10, <1>15, <2>1, <2>2 DEF Heads
<1>23. Reclaim'
  <2>1. \A x \in blocks : First(x)' = First(x) BY <1>10
  <2>2. /\ rec' = rec /\ Limit' = Limit /\ head_block' = head_block
        /\ At(Aiming) => rec.new \in blocks /\ rec.old \in blocks
        /\ At({"scan"}) => rec.old \in blocks
        /\ At({"swap"}) => rec.expected \in blocks
        /\ At(Announcing \cup {"rollback"}) => rec.old \in blocks
        /\ At({"commit"}) => rec.old \in blocks /\ rec.new \in blocks
        /\ At(Moves) => rec.new \in blocks /\ \A j \in 1 .. Len(rec.unlinked) : rec.unlinked[j] \in blocks
    <3>1. At(Aiming) => At(Visiting) \/ At(Announcing \cup {"rollback"}) BY DEF At, Aiming
    <3>2. At({"commit"}) \/ At(Moves) => At(Announcing \cup {"rollback", "commit"} \cup Moves)
      BY DEF At
    <3>3. At(Visiting) => rec.old \in blocks BY <1>1, Bounds DEF Reclaim
    <3>4. At(Moves) => \A j \in 1 .. Len(rec.unlinked) : rec.unlinked[j] \in blocks
      BY <1>1 DEF Reclaim, Unlinked
    <3> QED BY <1>1, <1>2, <3>1, <3>2, <3>3, <3>4, Bounds DEF Reclaim, Limit
  <2>3. PICK old, new, exp, un : old = rec.old /\ new = rec.new /\ exp = rec.expected /\ un = rec.unlinked
    OBVIOUS
  <2>4. /\ old = rec'.old /\ new = rec'.new /\ exp = rec'.expected /\ un = rec'.unlinked
    BY <2>2, <2>3
  <2>5. /\ At(Aiming) => First(old)' = First(old) /\ First(new)' = First(new)
        /\ At({"scan"}) => First(old)' = First(old)
        /\ At({"swap"}) => First(exp)' = First(exp)
        /\ At({"commit"}) => First(old)' = First(old) /\ First(new)' = First(new)
        /\ At(Moves) => First(new)' = First(new) /\ \A j \in 1 .. Len(un) : First(un[j])' = First(un[j])
    BY <2>1, <2>2, <2>3
  <2>6. /\ At(Aiming) => First(rec.old)' = First(rec.old) /\ First(rec.new)' = First(rec.new)
        /\ At({"scan"}) => First(rec.old)' = First(rec.old)
        /\ At({"swap"}) => First(rec.expected)' = First(rec.expected)
        /\ At({"commit"}) => First(rec.old)' = First(rec.old) /\ First(rec.new)' = First(rec.new)
        /\ At(Moves) => First(rec.new)' = First(rec.new)
                        /\ \A j \in 1 .. Len(rec.unlinked) : First(rec.unlinked[j])' = First(rec.unlinked[j])
    BY <2>3, <2>4, <2>5
  <2>7. /\ At(Visiting) => At(Aiming)
        /\ At({"swap"}) => At(Aiming)
        /\ At(Moves) /\ rec.unlinked # <<>> => First(rec.unlinked[1])' = First(rec.unlinked[1])
    <3>1. rec.unlinked \in Seq(Block) BY <1>1 DEF TypeOK, RecType
    <3>2. rec.unlinked # <<>> => 1 \in 1 .. Len(rec.unlinked) BY <3>1
    <3> QED BY <2>6, <3>2 DEF At, Aiming, Visiting
  <2>8. At({"scan"}) => Spoiled' = Spoiled BY <2>2, <2>6 DEF Spoiled
  <2>9. Near(rec.protect)' = Near(rec.protect) /\ Base(Sold') = Base(Sold)
    BY <1>2, <1>15 DEF Near
  <2> QED BY <1>1, <1>8, <1>10, <1>15, <2>2, <2>6, <2>7, <2>8, <2>9 DEF Reclaim
<1>24. Clean'
  <2>1. \A d \in Block \ blocks', i \in Index : stored'[d][i] = NoValue
    BY <1>1, <1>2, <1>10 DEF Clean
  <2>2. ASSUME At({"relink"}), NEW d \in Unlinked
        PROVE  flags'[d] = Fresh /\ \A i \in Index : stored'[d][i] = NoValue
    <3>1. d \in blocks BY <1>1, <2>2 DEF Reclaim, At, Moves
    <3> QED BY <1>1, <1>2, <1>10, <2>2, <3>1 DEF Clean
  <2> QED BY <1>8, <2>1, <2>2 DEF Clean, Fresh
<1>25. Cells'
  <2>1. \A m \in Nat : Done(m)' => Reaches(m)' BY <1>1, <1>10, <1>18 DEF Cells
  <2>2. ASSUME NEW d \in blocks', NEW i \in Index, ~(At({"relink"}) /\ d \in Unlinked)
        PROVE  CellOK(First(d) + i, flags[d][i], stored[d][i])'
    <3>1. PICK m, flag, value : m = First(d)' + i /\ flag = flags'[d][i] /\ value = stored'[d][i]
      OBVIOUS
    <3>2. m \in Nat
      <4>1. PICK n \in Nat : n = First(d)' BY <1>10
      <4>2. m = n + i /\ i \in Nat BY <3>1, <4>1, Sizes DEF Index
      <4> QED BY <4>2
    <3>3. CASE d \in blocks
      <4>1. First(d) + i = m /\ flag = flags[d][i] /\ value = stored[d][i]
        BY <1>2, <1>10, <3>1, <3>3
      <4>2. CellOK(m, flag, value) BY <1>1, <2>2, <3>3, <4>1 DEF Cells
      <4>3. \A u \in Tokens : /\ Takes(u, m)' = Takes(u, m) /\ Suspended(u, m)' = Suspended(u, m)
                              /\ Swept(u, m)' = Swept(u, m)
        BY <1>18, <3>2 DEF Seen
      <4>4. /\ Done(m)' = Done(m) /\ (Turn <= m)' = (Turn <= m) /\ (m < Turn)' = (m < Turn)
            /\ (closed = "closed" /\ Cut <= m)' = (closed = "closed" /\ Cut <= m)
        BY <1>2, <1>15, <1>18, <3>2
      <4>5. CellOK(m, flag, value)' BY <3>2, <4>2, <4>3, <4>4, CellSame
      <4> QED BY <3>1, <4>5
    <3>4. CASE d \notin blocks
      <4>1. flag = "empty" /\ value = NoValue /\ ~Reaches(m)
        <5>1. flags'[d] = Fresh /\ ~Reaches(m) BY <1>10, <3>1, <3>4
        <5>2. stored[d][i] = NoValue BY <1>1, <1>10, <3>4 DEF Clean
        <5> QED BY <1>2, <3>1, <5>1, <5>2 DEF Fresh
      <4>2. ~Done(m)' BY <1>1, <1>18, <3>2, <4>1 DEF Cells
      <4>3. CellOK(m, flag, value)' BY <4>1, <4>2 DEF CellOK
      <4> QED BY <3>1, <4>3
    <3> QED BY <3>3, <3>4
  <2> QED BY <1>8, <2>1, <2>2 DEF Cells
<1>26. Control(t)' /\ Post(t)' /\ Parks(t)' /\ Acquires(t)'
  <2>1. Named(t)' BY <1>1, <1>5, <1>6 DEF Named, Token, Control
  <2>2. Control(t)' BY <1>1, <1>2, <1>5, <1>6, <1>11, <2>1 DEF Token, Control
  <2>3. Post(t)' BY <1>1, <1>5, <1>6, <1>11, <1>12, <1>15 DEF Token, Post
  <2>4. Parks(t)' /\ Acquires(t)' BY <1>5 DEF Parks, Acquires
  <2> QED BY <2>2, <2>3, <2>4
<1>27. Pull(t)' /\ Sought(t)'
  <2>1. Done(Begin(t))' <=> Done(Begin(t))
    <3>1. PICK m : m = Begin(t) OBVIOUS
    <3>2. m \in Nat BY <3>1, Parts
    <3>3. (Done(Begin(t))' <=> Done(m)') /\ (Done(Begin(t)) <=> Done(m)) BY <1>11, <3>1 DEF Done
    <3> QED BY <1>18, <3>2, <3>3
  <2>2. Pull(t)' BY <1>1, <1>2, <1>5, <1>6, <1>11, <1>12, <1>15, <2>1 DEF Token, Pull
  <2>3. Sought(t)' BY <1>2, <1>5, <1>11, <1>12, <1>15, SoughtStays
  <2> QED BY <2>2, <2>3
<1>28. Has(t)'
  <2>1. Keeps(haz'[t], haz[t]) /\ haz'[t].active_offset = haz[t].active_offset BY <1>5 DEF Keeps
  <2>2. Acquired(t)' => Acquired(t) BY <1>5 DEF Acquired
  <2> QED BY <1>16, <2>1, <2>2, HasStays
<1>29. Met(t)'
  <2>1. CASE pc[t] = "seek_reader"
    <3>1. lock = t BY <2>1, Parts DEF Control, Closing, Sweeping
    <3>2. pc'[lock'] = "seek_reader" BY <1>2, <1>5, <2>1, <3>1
    <3>3. ~At({"scan"})' /\ ~At(Visiting)' /\ ~At(Announcing)' /\ ~At(Aiming)' /\ ~At({"swap", "revalidate"})'
      BY <3>2 DEF At, Visiting, Announcing, Aiming
    <3> QED BY <3>3 DEF Met
  <2>2. CASE pc[t] # "seek_reader"
    <3>1. lock # t /\ pc[t] \in Walking /\ Drawn(t) /\ Member(t)
      <4>1. lock # t
        BY <2>2, Parts DEF Control, Reclaiming, Closing, Sweeping, Scanning, Visiting, Announcing, Moves
      <4> QED BY <2>2, <4>1, Members DEF Walking
    <3>2. /\ \A f \in Fields : haz'[t][f] = haz[t][f]
          /\ Begin(t)' \in Nat /\ Begin(t) <= Begin(t)'
          /\ haz'[t] = haz[t] /\ Search(t)' = Search(t) /\ Field(t)' = Field(t)
      BY <1>5, <1>11, Parts
    <3>3. At({"swap", "revalidate"}) /\ t = rec.at => Near(haz[t].active_offset)'
      BY <1>1, <1>5 DEF Token, Met, Near
    <3> QED BY <1>16, <3>1, <3>2, <3>3, MetStays
  <2> QED BY <2>1, <2>2
<1>30. First(op[t].walk)' = First(b) + BlockSize /\ op'[t].walk \in OnList' /\ First(b) \in Nat /\ BlockSize \in Nat
  <2>1. op'[t].walk = c BY <1>5, <1>6
  <2>2. First(op[t].walk)' = First(c)' BY <2>1
  <2> QED BY <1>1, <1>9, <1>10, <2>1, <2>2, Types, Sizes
<1>31. Closer(t)'
  <2>1. CASE pc[t] = "seek_reader"
    <3>1. First(op[t].walk)' <= Base(Begin(t)') BY <1>9, <1>11, <1>30, <2>1
    <3> QED BY <1>1, <1>2, <1>5, <1>6, <1>11, <1>15, <1>30, <2>1, <3>1 DEF Token, Closer, Sweeping
  <2>2. CASE pc[t] # "seek_reader" BY <1>5, <2>2 DEF Closer, Sweeping
  <2> QED BY <2>1, <2>2
<1>32. First(ListHead)' = First(ListHead) /\ (pc[t] \in {"seek", "reserve"} => From(t)' = From(t))
  <2>1. PICK x, y : x = ListHead /\ y = haz[t][Field(t)] OBVIOUS
  <2>2. x \in blocks /\ (pc[t] \in {"seek", "reserve"} => y \in blocks)
    <3>1. Field(t) \in Fields BY DEF Field, Fields
    <3> QED BY <2>1, <3>1, Bounds, Members DEF Walking
  <2>3. First(x)' = First(x) /\ (pc[t] \in {"seek", "reserve"} => First(y)' = First(y))
    BY <1>10, <2>2
  <2>4. haz'[t][Field(t)'] = y /\ ListHead' = x BY <1>5, <1>8, <1>11, <2>1
  <2> QED BY <2>1, <2>3, <2>4 DEF From
<1>33. Uses(t)'
  <2>1. CASE pc[t] = "seek_reader"
    <3>1. op[t].name = "close" BY <2>1, Parts DEF Control, Named, Closing, Sweeping
    <3>2. ~Drawn(t) BY <2>1, <3>1 DEF Drawn, Walking, Writing, Polling, Reading, Reclaimer
    <3> QED
      BY <1>5, <1>12, <2>1, <3>2 DEF Uses, Seeking, Walking, Polling, Writing, Reading, Reclaimer, Reclaiming, Scanning,
         Visiting, Announcing, Moves
  <2>2. CASE pc[t] = "seek"
    <3>1. /\ Active(t) <= From(t) /\ First(ListHead) <= Base(Begin(t)) /\ Active(t) <= Base(Begin(t))
          /\ From(t) <= Base(Begin(t)) /\ First(ListHead) <= Search(t)
          /\ Search(t) \in Starts /\ Active(t) <= Search(t) /\ Search(t) <= First(b)
      BY <1>1, <1>9, <2>2, Members DEF Token, Uses, Walking, Seeking
    <3>2. Search(t) <= First(b) + BlockSize BY <1>30, <3>1, Parts
    <3>3. First(b) + BlockSize <= Base(Begin(t)) BY <1>9, <2>2
    <3>4. /\ Active(t)' <= From(t)' /\ First(ListHead)' <= Base(Begin(t)') /\ Active(t)' <= Base(Begin(t)')
          /\ From(t)' <= Base(Begin(t)') /\ First(ListHead)' <= Search(t)'
          /\ Search(t)' \in Starts /\ Active(t)' <= Search(t)' /\ Search(t)' <= First(op[t].walk)'
          /\ First(op[t].walk)' <= Base(Begin(t)')
      BY <1>11, <1>30, <1>32, <2>2, <3>1, <3>2, <3>3
    <3> QED BY <1>5, <1>30, <2>2, <3>4, UsesWalking
  <2>3. CASE pc[t] = "reserve"
    <3>1. /\ Active(t) <= From(t) /\ First(ListHead) <= Base(Begin(t)) /\ Active(t) <= Base(Begin(t))
          /\ From(t) <= Base(Begin(t)) /\ First(ListHead) <= Search(t)
          /\ Search(t) \in Starts /\ Active(t) <= Search(t) /\ Search(t) <= First(b)
          /\ op[t].block \in OnList /\ First(op[t].block) = Base(Begin(t)) /\ Base(Begin(t)) \in Nat
          /\ First(op[t].block) <= First(b)
      BY <1>9, <2>3, Reserving
    <3>2. Search(t) <= First(b) + BlockSize /\ First(op[t].block) <= First(b) + BlockSize
      BY <1>30, <3>1, Parts
    <3>3. First(b) + BlockSize <= Base(LastPos(t)) BY <1>9, <2>3
    <3>4. op'[t].block \in OnList' /\ First(op[t].block)' = First(op[t].block)
      <4>1. PICK x : x = op[t].block OBVIOUS
      <4>2. x \in OnList' /\ First(x)' = First(x) /\ op'[t].block = x
        BY <1>1, <1>5, <1>6, <1>10, <3>1, <4>1
      <4> QED BY <4>1, <4>2
    <3>5. /\ Active(t)' <= From(t)' /\ First(ListHead)' <= Base(Begin(t)') /\ Active(t)' <= Base(Begin(t)')
          /\ From(t)' <= Base(Begin(t)') /\ First(ListHead)' <= Search(t)'
          /\ Search(t)' \in Starts /\ Active(t)' <= Search(t)' /\ Search(t)' <= First(op[t].walk)'
          /\ First(op[t].block)' = Base(Begin(t)')
          /\ First(op[t].block)' <= First(op[t].walk)' /\ First(op[t].walk)' <= Base(LastPos(t)')
      BY <1>11, <1>30, <1>32, <2>3, <3>1, <3>2, <3>3, <3>4
    <3> QED BY <1>5, <1>30, <2>3, <3>4, <3>5, UsesReserve
  <2> QED BY <2>1, <2>2, <2>3
<1>34. \A u \in {t} : Token(u)' BY <1>26, <1>27, <1>28, <1>29, <1>31, <1>33 DEF Token
<1>35. TypeOK'
  <2>1. \A u \in Tokens : op'[u].written <= op'[u].count /\ op'[u].seen <= reclaim_counter
    BY <1>1, <1>7 DEF TypeOK
  <2> QED BY <1>1, <1>2, <1>5, <1>10, <2>1 DEF TypeOK
<1>36. \A u \in Tokens \ {t}, w \in {t} : Unaware(u) /\ Swept(w, Begin(u)) => Swept(w, Begin(u))'
  <2> SUFFICES ASSUME NEW u \in Tokens \ {t}, Swept(t, Begin(u))
               PROVE  Swept(t, Begin(u))'
    OBVIOUS
  <2>1. PICK m : m = Begin(u) OBVIOUS
  <2>2. Begin(u)' = m BY <1>5, <2>1, Same DEF Only
  <2>3. Swept(t, m)' BY <1>13, <2>1
  <2> QED BY <2>2, <2>3 DEF Swept
<1> QED
  BY <1>2, <1>5, <1>10, <1>16, <1>17, <1>18, <1>19, <1>20, <1>21, <1>22, <1>23, <1>24, <1>25, <1>34, <1>35, <1>36, OpenStep

\* What a step of find_block() leaves as it is.
LEMMA WalkWith ==
  ASSUME Running, NEW t \in Tokens, NEW c \in Block
  PROVE  /\ [op[t] EXCEPT !.walk = c] \in CallType
         /\ [op EXCEPT ![t].walk = c] = [op EXCEPT ![t] = [op[t] EXCEPT !.walk = c]]
BY Unmoved, Edited

\* find_block(): one step of the search.
LEMMA SeekKeeps ==
  ASSUME Running, NEW t \in Tokens, Seek(t)
  PROVE  Running'
<1> HIDE DEF Running
<1>1. /\ pc[t] = "seek" /\ ~Found(t) /\ pc' = pc
      /\ UNCHANGED <<stored, offsets, cutoff, counters, reclaim, haz, clients>>
  BY DEF Seek
<1>2. PICK c \in Block : Advance(op[t].walk, c) /\ op' = [op EXCEPT ![t].walk = c] BY DEF Seek
<1>3. PICK k \in CallType : k = [op[t] EXCEPT !.walk = c] BY WalkWith
<1>4. op' = [op EXCEPT ![t] = k] BY <1>2, <1>3, WalkWith
<1>5. /\ op[t].walk \in OnList /\ op[t].walk \in blocks /\ First(op[t].walk) \in Starts
      /\ First(op[t].walk) <= Base(Begin(t)) /\ Drawn(t)
  <2>1. op[t].walk \in OnList /\ First(op[t].walk) <= Base(Begin(t)) /\ Drawn(t)
    BY <1>1, Parts, Members DEF Uses, Walking
  <2> QED BY <2>1, Bounds DEF OnList
<1>6. /\ First(op[t].walk) # Base(Begin(t)) /\ Base(Begin(t)) \in Starts /\ Base(Begin(t)) \in Nat
      /\ Base(Begin(t)) <= Begin(t) /\ Begin(t) <= Top /\ Begin(t) \in Nat /\ Top \in Nat
  BY <1>1, <1>5, FoundIs, InUse, Bounds
<1>7. First(op[t].walk) + BlockSize <= Base(Begin(t)) /\ First(op[t].walk) \in Nat
  BY <1>5, <1>6, StartsApart
<1>8. First(op[t].walk) + BlockSize <= Top BY <1>6, <1>7, Sizes
<1> QED BY <1>1, <1>2, <1>3, <1>4, <1>5, <1>7, <1>8, WalkOn

\* find_block(): the block at the end of the list gets a successor, or there is one.
LEMMA ReserveKeeps ==
  ASSUME Running, NEW t \in Tokens, Reserve(t)
  PROVE  Running'
<1> HIDE DEF Running
<1>1. CASE offset[op[t].walk] = StartOf(LastOf(t)) BY <1>1, ReserveEndKeeps
<1>2. CASE offset[op[t].walk] # StartOf(LastOf(t))
  <2>1. /\ pc[t] = "reserve" /\ pc' = pc
        /\ UNCHANGED <<stored, offsets, cutoff, counters, reclaim, haz, clients>>
    BY <1>2 DEF Reserve
  <2>2. PICK c \in Block : Advance(op[t].walk, c) /\ op' = [op EXCEPT ![t].walk = c]
    BY <1>2 DEF Reserve
  <2>3. PICK k \in CallType : k = [op[t] EXCEPT !.walk = c] BY WalkWith
  <2>4. op' = [op EXCEPT ![t] = k] BY <2>2, <2>3, WalkWith
  <2>5. /\ First(op[t].walk) # Base(LastPos(t)) /\ op[t].walk \in OnList
        /\ First(op[t].walk) <= Base(LastPos(t)) /\ First(op[t].walk) \in Starts /\ Base(LastPos(t)) \in Starts
        /\ Base(LastPos(t)) <= LastPos(t) /\ LastPos(t) <= Sold /\ LastPos(t) \in Nat
        /\ Base(LastPos(t)) \in Nat /\ First(op[t].walk) \in Nat
    BY <1>2, <2>1, Reserving, ReservedIs
  <2>6. First(op[t].walk) + BlockSize <= Base(LastPos(t)) BY <2>5, StartsApart
  <2>7. First(op[t].walk) + BlockSize <= Top
    <3>1. Sold <= Top /\ Sold \in Nat /\ Top \in Nat BY Parts
    <3> QED BY <2>5, <2>6, <3>1, Sizes
  <2> QED BY <2>1, <2>2, <2>3, <2>4, <2>5, <2>6, <2>7, WalkOn
<1> QED BY <1>1, <1>2

\* Steps of the reclaimer
\* A step of try_reclaim_blocks(), its first and its last included, that leaves the
\* list from its head on as it is: what it means to others, and for its own call.
LEMMA LockFrame ==
  ASSUME Running, NEW t \in Tokens, NEW p \in Reclaiming \cup {"wait", "holding"},
         (Reclaimer(t) /\ lock = t) \/ (pc[t] = "try_lock" /\ lock = Nobody),
         pc' = [pc EXCEPT ![t] = p], op' = op, haz' = haz,
         UNCHANGED <<offsets, cutoff, counters, clients>>,
         p \in Reclaiming => lock' = t, p \notin Reclaiming => lock' = Nobody,
         p = "wait" => op[t].name = "pull", p = "holding" => op[t].name = "try_pull",
         ListHead' = ListHead, At({"validate"})' => At({"validate"}) /\ rec' = rec,
         head_block' = head_block \/ lock = t, blocks' = blocks, \A b \in OnList : offset'[b] = offset[b],
         Met(t)'
  PROVE  /\ Calm({t}) /\ Only({t}) /\ Seen({t}) /\ Seen(Tokens)
         /\ pc'[t] = p /\ pc' \in [Tokens -> Places]
         /\ Sold' = Sold /\ Turn' = Turn /\ Cut' = Cut /\ CutDrawn' = CutDrawn /\ closed' = closed
         /\ \A m \in Nat : Done(m)' = Done(m) /\ Taken(m)' = Taken(m)
         /\ Token(t)' /\ Numbers' /\ Asking' /\ SendersApart' /\ ReadersApart' /\ Served'
<1> HIDE DEF Running
<1>1. /\ pc \in [Tokens -> Places] /\ op \in [Tokens -> CallType] /\ TypeOK
      /\ Numbers /\ Asking /\ SendersApart /\ ReadersApart /\ Served /\ Token(t)
  BY DEF Running, TypeOK
<1>2. p \in Places /\ p \notin BeforeDraw /\ p \notin Closing /\ p \notin {"parked", "wake", "idle"}
  BY DEF Places, Reclaiming, Scanning, Visiting, Announcing, Moves, BeforeDraw, Closing, Sweeping, Reading
<1>3. /\ pc' \in [Tokens -> Places] /\ pc'[t] = p /\ \A u \in Tokens \ {t} : pc'[u] = pc[u]
      /\ op' = op /\ haz' = haz /\ Only({t})
  BY <1>1, <1>2 DEF Only
<1>4. /\ write_offset' = write_offset /\ read_offset' = read_offset /\ closed' = closed
      /\ write_closed_at' = write_closed_at /\ reclaim_counter' = reclaim_counter
      /\ haz_ptr_counter' = haz_ptr_counter /\ setup' = setup /\ told' = told /\ under' = under
  BY DEF offsets, cutoff, counters, clients
<1>5. /\ pc[t] \in Reading \/ Reclaimer(t)
      /\ pc[t] \notin {"parked", "wake"} /\ pc[t] \notin BeforeDraw /\ pc[t] \notin Closing
  BY DEF Reading, Reclaimer, Reclaiming, Scanning, Visiting, Announcing, Moves, BeforeDraw, Closing, Sweeping
<1>6. /\ op[t].block \in OnList /\ op[t].block \in blocks /\ op[t].written = 0 /\ op[t].count = 0
      /\ First(op[t].block) = Base(Begin(t))
      /\ Drawn(t) /\ Reader(t) /\ ~Posting(t) /\ ~Sender(t) /\ op[t].name \in {"pull", "try_pull"}
      /\ Begin(t) \in Nat /\ Skip <= Begin(t) /\ Begin(t) < Turn
      /\ Active(t) <= From(t) /\ First(ListHead) <= Base(Begin(t)) /\ Active(t) <= Base(Begin(t))
      /\ Base(Begin(t)) \in Nat /\ Acquired(t) /\ Member(t)
      /\ op[t].name = "try_pull" => Done(Begin(t))
  BY <1>5, Reads
<1>7. /\ Begin(t)' = Begin(t) /\ Active(t)' = Active(t) /\ Field(t)' = Field(t) /\ ~Sender(t)'
      /\ Reader(t)' /\ ~Posting(t)'
  <2>1. Begin(t)' = Begin(t) /\ Active(t)' = Active(t) /\ Posting(t)' = Posting(t)
    BY <1>3 DEF Begin, Active, Posting
  <2>2. Drawn(t)' BY <1>3, <1>6 DEF Drawn, Reclaimer, Reading
  <2>3. Reader(t)' BY <1>3, <1>6, <2>2 DEF Reader, Reclaimer
  <2> QED BY <1>3, <1>6, <2>1, <2>3 DEF Field, Sender
<1>8. /\ ~At({"cutoff", "publish"}) /\ ~At({"publish"})
      /\ ~At({"cutoff", "publish"})' /\ ~At({"publish"})'
  <2>1. ~At({"cutoff", "publish"}) /\ ~At({"publish"})
    BY <1>5, <1>1 DEF At, Closing, TypeOK, Reclaimer
  <2>2. ~At({"cutoff", "publish"})' /\ ~At({"publish"})' BY <1>2, <1>3 DEF At, Closing
  <2> QED BY <2>1, <2>2
<1>9. Sold' = Sold /\ Turn' = Turn /\ CutDrawn' = CutDrawn /\ Cut' = Cut
  <2>1. ~At({"publish"}) /\ ~At({"publish"})'
    BY <1>5, <1>2, <1>3, <1>1 DEF At, Closing, TypeOK, Reclaimer
  <2> QED BY <1>4, <1>8, <2>1 DEF Sold, Turn, CutDrawn, Cut
<1>10. Calm({t})
  <2>1. {Sold, Turn, Cut} \subseteq Nat BY Parts
  <2>2. \A u \in Tokens \ {t} : lock' = u <=> lock = u BY TokenAssumption
  <2>3. {t} \subseteq Tokens /\ (head_block' = head_block \/ lock \in {t}) /\ blocks \subseteq blocks'
    OBVIOUS
  <2>4. UNCHANGED <<setup, reclaim_counter>> /\ (closed = "closed" => closed' = "closed")
    BY <1>4
  <2>5. Cut' \in Nat /\ Cut' = Cut /\ Sold' \in Nat /\ Turn' \in Nat /\ Sold <= Sold' /\ Turn <= Turn'
    BY <1>9, <2>1
  <2>6. ListHead' = ListHead /\ (\A b \in OnList : offset'[b] = offset[b]) OBVIOUS
  <2>7. At({"validate"})' => At({"validate"}) /\ rec' = rec OBVIOUS
  <2>8. Only({t}) BY <1>3
  <2>9. Cut' = Cut \/ (closed # "closed" /\ Cut = Sold /\ Cut' = Sold') BY <2>5
  <2> QED BY <2>2, <2>3, <2>4, <2>5, <2>6, <2>7, <2>8, <2>9 DEF Calm
<1>11. Seen({t})
  <2>1. ~Sender(t) /\ ~Sender(t)' /\ Reader(t) /\ Reader(t)' /\ Begin(t)' = Begin(t)
    BY <1>6, <1>7
  <2>2. op[t].name # "close" /\ op'[t].name # "close" /\ op'[t].count = op[t].count
    BY <1>3, <1>6
  <2> QED BY <1>2, <1>3, <1>5, <2>1, <2>2, SeenSame
<1>12. /\ Seen(Tokens) /\ (\A m \in Nat : Taken(m)' = Taken(m)) /\ (\A m \in Nat : Done(m)' = Done(m))
       /\ SendersApart' /\ ReadersApart'
  <2>1. {t} \in SUBSET Tokens OBVIOUS
  <2> QED BY <1>1, <1>3, <1>9, <1>11, <2>1, ViewsKeep
<1>13. Served' BY <1>1, <1>4, <1>9, <1>12 DEF Served
<1>14. Numbers' /\ Asking'
  <2>1. Numbers' BY <1>1, <1>4, <1>8, <1>9 DEF Numbers
  <2>2. \A u \in Tokens : pc'[u] \in BeforeDraw =>
             pc[u] \in BeforeDraw /\ op'[u].name = op[u].name /\ op'[u].count = op[u].count
    BY <1>2, <1>3
  <2>3. Asking' BY <1>1, <1>9, <2>2, AskingKeeps
  <2> QED BY <2>1, <2>3
<1>15. Control(t)' /\ Closer(t)' /\ Post(t)' /\ Parks(t)' /\ Acquires(t)'
  <2>1. Control(t)'
    <3>1. Control(t) /\ Named(t) BY <1>1 DEF Token, Control
    <3>2. Named(t)'
      BY <1>2, <1>3, <1>6 DEF Named, Reclaiming, Closing, Sweeping, Scanning, Visiting, Announcing, Moves, Acquiring,
         Calling, Polling
    <3>3. lock' = t <=> p \in Reclaiming \cup Closing BY <1>2, TokenAssumption
    <3>4. p \notin Writing \cup {"release", "acquire", "own", "write", "wake", "cross"} /\ haz[t].owned = TRUE
      <4>1. haz[t].owned BY <1>6 DEF Acquired
      <4>2. haz[t].owned \in BOOLEAN BY Fixed
      <4> QED BY <4>1, <4>2 DEF Writing, Reclaiming, Scanning, Visiting, Announcing, Moves
    <3> QED BY <1>3, <1>6, <1>7, <3>1, <3>2, <3>3, <3>4 DEF Control
  <2>2. Closer(t)' BY <1>2, <1>3 DEF Closer, Closing, Sweeping
  <2>3. Post(t)' /\ Parks(t)' BY <1>2, <1>3, <1>7 DEF Post, Parks
  <2>4. Acquires(t)' BY <1>2, <1>3 DEF Acquires, BeforeDraw
  <2> QED BY <2>1, <2>2, <2>3, <2>4
<1>16. Pull(t)' /\ Sought(t)'
  <2>1. op[t].name = "try_pull" => Done(Begin(t))'
    <3>1. PICK m : m = Begin(t) OBVIOUS
    <3>2. m \in Nat BY <1>6, <3>1
    <3>3. (Done(Begin(t))' <=> Done(m)') /\ (Done(Begin(t)) <=> Done(m)) BY <1>7, <3>1 DEF Done
    <3> QED BY <1>6, <1>12, <3>2, <3>3
  <2>2. pc'[t] \notin {"load_block", "seek", "claim", "reread", "status", "try_lock"}
    BY <1>3 DEF Reclaiming, Scanning, Visiting, Announcing, Moves
  <2>3. Pull(t)'
    <3>1. /\ Skip <= Begin(t)' /\ Begin(t)' <= Turn' /\ Begin(t)' < Turn'
      <4>1. Turn \in Nat BY Parts
      <4> QED BY <1>6, <1>7, <1>9, <4>1
    <3>2. pc'[t] = "holding" \/ op'[t].name = "try_pull" => Done(Begin(t))' BY <1>3, <2>1
    <3> QED BY <2>2, <3>1, <3>2, PullReads
  <2>4. Unaware(t)' => Unaware(t)
    BY <1>3, <1>5 DEF Unaware, Reclaimer, Reclaiming, Scanning, Visiting, Announcing, Moves
  <2>5. Sought(t)' BY <1>3, <1>4, <1>7, <1>9, <2>4, SoughtStays
  <2> QED BY <2>3, <2>5
<1>17. Has(t)'
  <2>1. Keeps(haz'[t], haz[t]) /\ haz'[t].active_offset = haz[t].active_offset BY <1>3 DEF Keeps
  <2>2. Acquired(t)' => Acquired(t) BY <1>6
  <2> QED BY <1>10, <2>1, <2>2, HasStays
<1>18. Uses(t)'
  <2>1. PICK b : b = op[t].block OBVIOUS
  <2>2. b \in OnList' /\ First(b)' = First(b) /\ First(ListHead)' = First(ListHead)
    BY <1>6, <1>10, <2>1, Shared
  <2>3. op'[t].block = b /\ op'[t].written = 0 BY <1>3, <1>6, <2>1
  <2>4. First(op[t].block)' = Base(Begin(t)' + op'[t].written) BY <1>6, <1>7, <2>1, <2>2, <2>3
  <2>5. Active(t)' <= From(t)'
    <3>1. \A f \in Fields : haz[t][f] \in OnList BY <1>6, Parts DEF Has, Fields
    <3>2. PICK y : y = haz[t][Field(t)] OBVIOUS
    <3>3. y \in OnList BY <3>1, <3>2 DEF Field, Fields
    <3>4. First(y)' = First(y) BY <1>10, <3>3, Shared
    <3>5. haz'[t][Field(t)'] = y BY <1>3, <1>7, <3>2
    <3>6. From(t)' = From(t) BY <3>2, <3>4, <3>5 DEF From
    <3> QED BY <1>6, <1>7, <3>6
  <2>6. First(ListHead)' <= Base(Begin(t)') /\ Active(t)' <= Base(Begin(t)') BY <1>6, <1>7, <2>2
  <2>7. pc'[t] \in {"write", "wake", "claim"} \cup Reading \cup Reclaiming /\ pc'[t] \notin {"write", "wake", "claim"}
    BY <1>3 DEF Reading, Reclaiming, Scanning, Visiting, Announcing, Moves
  <2> QED BY <2>2, <2>3, <2>4, <2>5, <2>6, <2>7, UsesPlaced
<1> QED BY <1>3, <1>4, <1>9, <1>10, <1>11, <1>12, <1>13, <1>14, <1>15, <1>16, <1>17, <1>18 DEF Token

\* A step that moves no block and sets no flag.
LEMMA LockStep ==
  ASSUME Running, NEW t \in Tokens, NEW p \in Reclaiming \cup {"wait", "holding"},
         (Reclaimer(t) /\ lock = t) \/ (pc[t] = "try_lock" /\ lock = Nobody),
         pc' = [pc EXCEPT ![t] = p], op' = op, haz' = haz,
         UNCHANGED <<queue, counters, head_offset, tail_block, clients>>,
         p \in Reclaiming => lock' = t, p \notin Reclaiming => lock' = Nobody,
         p = "wait" => op[t].name = "pull", p = "holding" => op[t].name = "try_pull",
         ListHead' = ListHead, Lowest' = Lowest,
         At({"validate"})' => At({"validate"}) /\ rec' = rec,
         At({"relink"})' = At({"relink"}), rec'.unlinked = rec.unlinked,
         head_block' = head_block \/ lock = t, head_block' \in Block,
         rec' \in RecType, rec'.count <= haz_ptr_counter,
         Heads', Reclaim', \A u \in Tokens : Met(u)'
  PROVE  Running'
<1> HIDE DEF Running
<1>1. /\ UNCHANGED <<offsets, cutoff, counters, clients>> /\ UNCHANGED <<list, elements, offsets, tail_block>>
      /\ blocks' = blocks /\ offset' = offset /\ closed' = closed
  BY DEF queue, list, elements, offsets, cutoff, counters, clients
<1>2. /\ Calm({t}) /\ Seen({t}) /\ pc' \in [Tokens -> Places] /\ Cut' = Cut
      /\ Token(t)' /\ Numbers' /\ Asking'
  BY <1>1, LockFrame
<1>3. TypeOK'
  <2>1. TypeOK /\ lock' \in Tokens \cup {Nobody} /\ Len(rec'.unlinked) <= GroupSize
    BY DEF Running, TypeOK
  <2>2. /\ UNCHANGED <<setup, blocks, next, offset, flags, stored, write_offset, read_offset, write_closed_at,
                       head_offset, closed, haz_ptr_counter, reclaim_counter, tail_block, told, under>>
    BY DEF queue, list, elements, offsets, cutoff, counters, clients
  <2> QED BY <2>1, <2>2 DEF TypeOK
<1>4. closed' = "closed" <=> closed = "closed" BY <1>1
<1> QED BY <1>1, <1>2, <1>3, <1>4, CalmStep

\* Where there is nothing to know of a token.
LEMMA NothingMet ==
  ASSUME ~At({"scan"} \cup Aiming)'
  PROVE  \A u \in Tokens : Met(u)'
BY DEF Met, At, Aiming, Visiting, Announcing

\* Where the reclaimer is not yet, or no longer, it promises nothing.
LEMMA NothingReclaimed ==
  ASSUME ~At({"load_count", "scan", "commit"} \cup Aiming \cup Moves)', rec'.unlinked = <<>>
  PROVE  Reclaim'
BY DEF Reclaim, At, Aiming, Visiting, Announcing, Moves

\* The head and the offsets are as they were.
LEMMA HeadsStay ==
  ASSUME Running, UNCHANGED <<list, offsets, head_block, head_offset>>, ListHead' = ListHead
  PROVE  /\ Heads' /\ OnList' = OnList /\ blocks' = blocks
         /\ (\A b : First(b)' = First(b)) /\ Sold' = Sold /\ Turn' = Turn
<1>1. /\ blocks' = blocks /\ offset' = offset /\ write_offset' = write_offset /\ read_offset' = read_offset
      /\ Heads /\ head_block' = head_block /\ head_offset' = head_offset
  BY DEF Running, list, offsets
<1>2. \A b : First(b)' = First(b) BY <1>1 DEF First
<1>3. First(ListHead)' = First(ListHead) BY <1>1 DEF First
<1>4. OnList' = OnList BY <1>1, <1>2, <1>3 DEF OnList
<1>5. Sold' = Sold /\ Turn' = Turn BY <1>1 DEF Sold, Turn
<1>6. First(head_block)' = First(head_block) BY <1>1 DEF First
<1> QED BY <1>1, <1>2, <1>3, <1>4, <1>5, <1>6 DEF Heads

\* What is known of who holds the lock.
LEMMA Holding ==
  ASSUME Running, NEW t \in Tokens, lock = t
  PROVE  /\ (\A places : At(places) <=> pc[t] \in places)
         /\ rec \in RecType /\ rec.count <= haz_ptr_counter /\ rec.count \in Nat /\ Len(rec.unlinked) <= GroupSize
         /\ rec.protect \in Word /\ Limit \in Nat /\ head_block \in Block /\ haz_ptr_counter \in Nat
         /\ Reclaim /\ lock # Nobody
         /\ pc[t] \in Reclaiming /\ op[t].name # "close" => Reclaimer(t)
         /\ pc[t] \in Reclaiming \ {"unlock"} => Reclaimer(t)
<1>1. lock # Nobody BY TokenAssumption
<1>2. pc[t] \in Reclaiming \ {"unlock"} => op[t].name # "close" BY Parts DEF Control, Named
<1>3. rec \in RecType /\ rec.count <= haz_ptr_counter /\ Len(rec.unlinked) <= GroupSize /\ haz_ptr_counter \in Nat
      /\ Reclaim /\ head_block \in Block
  BY DEF Running, TypeOK
<1>4. rec.count \in Nat /\ rec.protect \in Word BY <1>3 DEF RecType
<1>5. Limit \in Nat BY <1>4, PosIs DEF Limit
<1> QED BY <1>1, <1>2, <1>3, <1>4, <1>5 DEF At, Reclaimer

\* What the reclaimer writes down of its scan is a record of its kind.
LEMMA Records ==
  /\ NoRec \in RecType
  /\ \A x \in Word : [NoRec EXCEPT !.protect = x] \in RecType
  /\ \A r \in RecType, S \in SUBSET Tokens : [r EXCEPT !.todo = S] \in RecType
  /\ \A r \in RecType, S \in SUBSET Tokens, x \in Word : [r EXCEPT !.todo = S, !.protect = x] \in RecType
  /\ \A r \in RecType, S \in SUBSET Tokens, b \in Block : [r EXCEPT !.new = b, !.todo = S] \in RecType
  /\ \A r \in RecType, x \in Word : [r EXCEPT !.protect = x] \in RecType
  /\ \A r \in RecType, b \in Block : [r EXCEPT !.tail = b] \in RecType
  /\ \A r \in RecType, S \in SUBSET Tokens, u \in Tokens, b \in Block, f \in Fields :
        [r EXCEPT !.at = u, !.field = f, !.expected = b, !.todo = S] \in RecType
  /\ \A r \in RecType, S \in SUBSET Tokens, u \in Tokens :
        [r EXCEPT !.at = u, !.todo = S, !.expected = Null] \in RecType
<1>1. 0 \in Word /\ Null \in Block \cup {Null} /\ <<>> \in Seq(Block) BY Sizes DEF Word
<1>2. NoRec \in RecType BY <1>1 DEF NoRec, RecType
<1> QED BY <1>1, <1>2 DEF RecType, NoRec, Fields

\* try_reclaim_blocks(): the lock is free.
LEMMA TryLockTakesKeeps ==
  ASSUME Running, NEW t \in Tokens, TryLock(t), lock = Nobody
  PROVE  Running'
<1> HIDE DEF Running
<1>1. /\ pc[t] = "try_lock" /\ pc' = [pc EXCEPT ![t] = "load_count"] /\ lock' = t
      /\ rec' = [NoRec EXCEPT !.protect = StartOf(IF op[t].name = "pull" THEN write_offset ELSE op[t].end)]
      /\ UNCHANGED <<queue, counters, heads, haz, op, clients>>
  BY DEF TryLock, GoTo
<1>2. PICK w \in Word : /\ w = (IF op[t].name = "pull" THEN write_offset ELSE op[t].end)
                        /\ Pos(w) <= Sold /\ Pos(w) \in Nat
  <2>1. write_offset \in Word /\ op[t].end \in Word /\ Sold \in Nat /\ {Sold, Pos(op[t].end)} \subseteq Nat
    BY Types, Fixed, Parts DEF Running
  <2>2. op[t].name # "pull" => Pos(op[t].end) <= Sold
    <3>1. op[t].name \in {"pull", "try_pull"} BY <1>1, Reads DEF Reading
    <3> QED BY <1>1, <3>1, Parts DEF Pull
  <2>3. CASE op[t].name = "pull"
    <3>1. Pos(write_offset) = Sold BY DEF Sold
    <3> QED BY <2>1, <2>3, <3>1
  <2>4. CASE op[t].name # "pull" BY <2>1, <2>2, <2>4
  <2> QED BY <2>3, <2>4
<1>3. PICK x \in Word : x = StartOf(w) /\ rec' = [NoRec EXCEPT !.protect = x] /\ Pos(x) = Base(Pos(w))
  BY <1>1, <1>2, PlaceOf
<1>4. /\ rec' \in RecType /\ rec'.protect = x /\ rec'.unlinked = <<>> /\ rec'.count = 0
  BY <1>3, Records DEF NoRec
<1>5. \A places : (At(places)' <=> "load_count" \in places) /\ ~At(places)
  <2>1. pc'[t] = "load_count" /\ lock' # Nobody
    <3>1. pc \in [Tokens -> Places] BY DEF Running
    <3> QED BY <1>1, <3>1, TokenAssumption
  <2> QED BY <1>1, <2>1 DEF At
<1>6. /\ ListHead' = ListHead /\ Lowest' = Lowest /\ rec'.unlinked = rec.unlinked
      /\ head_block' = head_block /\ head_offset' = head_offset /\ tail_block' = tail_block
  <2>1. head_block' = head_block /\ head_offset' = head_offset /\ tail_block' = tail_block
    BY <1>1 DEF heads
  <2>2. ListHead' = ListHead BY <1>1, <1>5, <2>1 DEF ListHead, At
  <2>3. rec.unlinked = <<>> BY <1>5 DEF Reclaim, Running
  <2> QED BY <1>4, <1>5, <2>1, <2>2, <2>3 DEF Lowest, Moves
<1>7. Heads' /\ Sold' = Sold
  <2>1. UNCHANGED <<list, offsets, head_block, head_offset>> BY <1>1, <1>6 DEF queue
  <2> QED BY <1>6, <2>1, HeadsStay
<1>8. \A u \in Tokens : Met(u)' BY <1>5, NothingMet DEF Aiming, Visiting, Announcing
<1>9. Reclaim'
  <2>1. Near(rec.protect)' /\ Limit' <= Base(Sold')
    <3>1. Base(Pos(w)) <= Base(Sold) /\ Base(Sold) <= Sold /\ Sold <= Top /\ Top \in Nat /\ 4 * Top < WordMod
          /\ {Base(Pos(w)), Base(Sold), WordMod, Sold} \subseteq Nat
      BY <1>2, Bounds, BaseGrows, BaseOf, Parts
    <3>2. Limit' = Base(Pos(w)) BY <1>3, <1>4 DEF Limit
    <3>3. 2 * Pos(x) < WordMod BY <1>3, <3>1
    <3>4. Near(rec.protect)' BY <1>4, <3>3 DEF Near
    <3> QED BY <1>7, <3>1, <3>2, <3>4
  <2> QED BY <1>4, <1>5, <2>1 DEF Reclaim, Aiming, Visiting, Announcing, Moves
<1>10. /\ "load_count" \in Reclaiming /\ haz_ptr_counter \in Nat /\ head_block \in Block
  BY Bounds, Fixed DEF Reclaiming, Scanning
<1>11. UNCHANGED <<queue, counters, head_offset, tail_block, clients>> /\ haz' = haz /\ op' = op
  BY <1>1, <1>6
<1>12. At({"relink"})' = At({"relink"}) /\ ~At({"validate"})' BY <1>5 DEF At
<1>13. /\ "load_count" \in Reclaiming \cup {"wait", "holding"} /\ head_block' \in Block
       /\ rec'.count <= haz_ptr_counter
  BY <1>4, <1>6, <1>10
<1>14. head_block' = head_block \/ lock = t BY <1>6
<1> QED BY <1>1, <1>4, <1>6, <1>7, <1>8, <1>9, <1>10, <1>11, <1>12, <1>13, <1>14, LockStep

\* try_reclaim_blocks(): the lock is given back, and the pull goes on.
LEMMA UnlockPullKeeps ==
  ASSUME Running, NEW t \in Tokens, Unlock(t), op[t].name # "close"
  PROVE  Running'
<1> HIDE DEF Running
<1>1. /\ pc[t] = "unlock" /\ pc' = [pc EXCEPT ![t] = AfterTicket(t)] /\ lock' = Nobody /\ rec' = NoRec /\ op' = op
      /\ UNCHANGED <<queue, counters, heads, haz, clients>>
  BY DEF Unlock, GoTo
<1>2. lock = t /\ op[t].name \in {"pull", "try_pull"}
  BY <1>1, Parts DEF Control, Named, Reclaiming
<1>3. PICK p \in {"wait", "holding"} : p = AfterTicket(t) BY DEF AfterTicket
<1>4. /\ p = "wait" => op[t].name = "pull"
      /\ p = "holding" => op[t].name = "try_pull"
      /\ p \notin Reclaiming /\ p \in Reclaiming \cup {"wait", "holding"}
  BY <1>2, <1>3 DEF AfterTicket, Reclaiming, Scanning, Visiting, Announcing, Moves
<1>5. \A places : ~At(places)' /\ (At(places) <=> "unlock" \in places)
  BY <1>1, <1>2, Holding DEF At
<1>6. /\ rec' \in RecType /\ rec'.unlinked = <<>> /\ rec'.count = 0 BY <1>1, Records DEF NoRec
<1>7. /\ ListHead' = ListHead /\ Lowest' = Lowest /\ rec'.unlinked = rec.unlinked
      /\ head_block' = head_block /\ head_offset' = head_offset /\ tail_block' = tail_block
  <2>1. head_block' = head_block /\ head_offset' = head_offset /\ tail_block' = tail_block
    BY <1>1 DEF heads
  <2>2. ListHead' = ListHead BY <1>1, <1>2, <2>1 DEF ListHead
  <2>3. rec.unlinked = <<>> BY <1>5 DEF Reclaim, Running, Moves
  <2> QED BY <1>5, <1>6, <2>1, <2>2, <2>3 DEF Lowest, Moves
<1>8. Heads'
  <2>1. UNCHANGED <<list, offsets, head_block, head_offset>> BY <1>1, <1>7 DEF queue
  <2> QED BY <1>7, <2>1, HeadsStay
<1>9. (\A u \in Tokens : Met(u)') /\ Reclaim' BY <1>5, <1>6, NothingMet, NothingReclaimed
<1>10. haz_ptr_counter \in Nat /\ head_block \in Block /\ Reclaimer(t)
  BY <1>1, <1>2, Holding DEF Reclaiming
<1>11. UNCHANGED <<queue, counters, head_offset, tail_block, clients>> /\ haz' = haz
  BY <1>1, <1>7
<1>12. At({"relink"})' = At({"relink"}) /\ ~At({"validate"})' BY <1>5 DEF At
<1>13. pc' = [pc EXCEPT ![t] = p] BY <1>1, <1>3
<1>14. rec'.count <= haz_ptr_counter /\ head_block' \in Block BY <1>6, <1>7, <1>10
<1> QED BY <1>1, <1>2, <1>4, <1>6, <1>7, <1>8, <1>9, <1>10, <1>11, <1>12, <1>13, <1>14, LockStep

\* What a step of the reclaimer does not change of a token.
LEMMA RecFrame ==
  ASSUME Running, NEW t \in Tokens, lock = t, Reclaimer(t), NEW p \in Reclaiming,
         pc' = [pc EXCEPT ![t] = p], lock' = t, op' = op, haz' = haz, UNCHANGED <<list, offsets>>
  PROVE  /\ \A places : At(places)' <=> p \in places
         /\ \A u \in Tokens :
               /\ Begin(u)' = Begin(u) /\ Search(u)' = Search(u) /\ Active(u)' = Active(u)
               /\ Field(u)' = Field(u) /\ From(u)' = From(u)
               /\ (Drawn(u)' <=> Drawn(u)) /\ (Member(u)' <=> Member(u))
               /\ (pc'[u] \in Walking <=> pc[u] \in Walking)
         /\ \A b : First(b)' = First(b)
         /\ blocks' = blocks /\ Sold' = Sold /\ Turn' = Turn
<1> HIDE DEF Running
<1>1. /\ blocks' = blocks /\ offset' = offset /\ write_offset' = write_offset /\ read_offset' = read_offset
  BY DEF list, offsets
<1>2. \A b : First(b)' = First(b) BY <1>1 DEF First
<1>3. pc \in [Tokens -> Places] BY DEF Running
<1>4. pc'[t] = p /\ \A u \in Tokens \ {t} : pc'[u] = pc[u] BY <1>3
<1>5. \A places : At(places)' <=> p \in places BY <1>4, TokenAssumption DEF At
<1>6. /\ pc[t] \notin Walking /\ pc[t] \notin Uncounted /\ p \notin Walking /\ p \notin Uncounted
      /\ Drawn(t) /\ Drawn(t)'
  <2>1. pc[t] \in Reclaiming /\ op[t].name # "close" BY DEF Reclaimer
  <2>2. Reclaimer(t)' BY <1>4, <2>1 DEF Reclaimer
  <2> QED BY <2>1, <2>2 DEF Drawn, Reclaiming, Scanning, Visiting, Announcing, Moves, Walking, Uncounted
<1>7. ASSUME NEW u \in Tokens
      PROVE  /\ Begin(u)' = Begin(u) /\ Search(u)' = Search(u) /\ Active(u)' = Active(u)
             /\ Field(u)' = Field(u) /\ From(u)' = From(u)
             /\ (Drawn(u)' <=> Drawn(u)) /\ (Member(u)' <=> Member(u))
             /\ (pc'[u] \in Walking <=> pc[u] \in Walking)
  <2>1. /\ Begin(u)' = Begin(u) /\ Search(u)' = Search(u) /\ Active(u)' = Active(u) /\ Posting(u)' = Posting(u)
    BY DEF Begin, Search, Active, Posting
  <2>2. Field(u)' = Field(u) BY <2>1 DEF Field
  <2>3. From(u)' = From(u) BY <1>1, <2>2 DEF From, First
  <2>4. CASE u = t BY <1>4, <1>6, <2>1, <2>2, <2>3, <2>4 DEF Member
  <2>5. CASE u # t
    <3>1. pc'[u] = pc[u] BY <1>4, <2>5
    <3> QED BY <2>1, <2>2, <2>3, <3>1 DEF Drawn, Member, Reclaimer
  <2> QED BY <2>4, <2>5
<1> QED BY <1>1, <1>2, <1>5, <1>7 DEF Sold, Turn

\* Before the head moves, and when nothing is to be done.
Early == {"load_count", "scan"} \cup Visiting \cup {"unlock"}

\* A step of the reclaimer before it writes to the list or to another hazard pointer.
LEMMA EarlyStep ==
  ASSUME Running, NEW t \in Tokens, pc[t] \in Early \ {"unlock"}, NEW p \in Early,
         pc' = [pc EXCEPT ![t] = p], UNCHANGED <<queue, counters, heads, lock, haz, op, clients>>,
         rec' \in RecType, rec'.count <= haz_ptr_counter, rec'.unlinked = rec.unlinked,
         Reclaim', \A u \in Tokens : Met(u)'
  PROVE  Running'
<1> HIDE DEF Running
<1>1. lock = t /\ Reclaimer(t) /\ head_block \in Block
  <2>1. lock = t /\ pc[t] \in Reclaiming \ {"unlock"}
    BY Parts DEF Control, Reclaiming, Early, Scanning, Visiting
  <2> QED BY <2>1, Holding
<1>2. /\ head_block' = head_block /\ head_offset' = head_offset /\ tail_block' = tail_block /\ op' = op /\ haz' = haz
      /\ lock' = t
  BY <1>1 DEF heads
<1>3. p \in Reclaiming /\ p \notin {"validate", "relink", "commit", "reset", "announce", "rollback"}
      /\ pc[t] \notin {"validate", "relink", "commit", "reset", "announce", "rollback"}
  BY DEF Early, Reclaiming, Scanning, Visiting
<1>4. (\A places : At(places) <=> pc[t] \in places) /\ (\A places : At(places)' <=> p \in places)
  <2>1. UNCHANGED <<list, offsets>> BY DEF queue
  <2> QED BY <1>1, <1>2, <1>3, <2>1, Holding, RecFrame
<1>5. ListHead' = ListHead /\ Lowest' = Lowest
  <2>1. ListHead = head_block /\ ListHead' = head_block BY <1>2, <1>3, <1>4 DEF ListHead, At
  <2> QED BY <1>3, <1>4, <2>1 DEF Lowest, Moves
<1>6. At({"relink"})' = At({"relink"}) /\ ~At({"validate"})' BY <1>3, <1>4 DEF At
<1>7. Heads'
  <2>1. UNCHANGED <<list, offsets, head_block, head_offset>> BY <1>2 DEF queue
  <2> QED BY <1>5, <2>1, HeadsStay
<1>8. UNCHANGED <<queue, counters, head_offset, tail_block, clients>> /\ head_block' \in Block
  BY <1>1, <1>2
<1>9. p \in Reclaiming \cup {"wait", "holding"} /\ p # "wait" /\ p # "holding"
  BY <1>3 DEF Reclaiming, Scanning, Visiting, Announcing, Moves
<1> QED BY <1>1, <1>2, <1>3, <1>5, <1>6, <1>7, <1>8, <1>9, LockStep

\* try_reclaim_blocks(): haz_ptr_counter before the scan.
LEMMA LoadCountKeeps ==
  ASSUME Running, NEW t \in Tokens, LoadCount(t)
  PROVE  Running'
<1> HIDE DEF Running
<1>1. /\ pc[t] = "load_count" /\ pc' = [pc EXCEPT ![t] = "scan"]
      /\ rec' = [rec EXCEPT !.old = head_block, !.new = head_block, !.count = haz_ptr_counter, !.todo = Tokens]
      /\ UNCHANGED <<queue, counters, heads, lock, haz, op, clients>>
  BY DEF LoadCount, GoTo
<1>2. lock = t /\ Reclaimer(t) /\ lock' = t /\ op' = op /\ haz' = haz /\ UNCHANGED <<list, offsets>>
  <2>1. lock = t /\ pc[t] \in Reclaiming \ {"unlock"}
    BY <1>1, Parts DEF Control, Reclaiming, Scanning
  <2> QED BY <1>1, <2>1, Holding DEF queue
<1>3. /\ (\A places : At(places) <=> "load_count" \in places) /\ (\A places : At(places)' <=> "scan" \in places)
      /\ Sold' = Sold
  <2>1. "scan" \in Reclaiming BY DEF Reclaiming, Scanning
  <2>2. (\A places : At(places)' <=> "scan" \in places) /\ Sold' = Sold
    BY <1>1, <1>2, <2>1, RecFrame
  <2>3. \A places : At(places) <=> pc[t] \in places BY <1>2, Holding
  <2> QED BY <1>1, <2>2, <2>3
<1>4. /\ rec \in RecType /\ head_block \in Block /\ haz_ptr_counter \in Nat /\ Reclaim
  BY <1>2, Holding
<1>5. /\ rec' \in RecType /\ rec'.count = haz_ptr_counter /\ rec'.unlinked = rec.unlinked /\ rec'.protect = rec.protect
      /\ rec'.old = head_block /\ rec'.todo = Tokens
  BY <1>1, <1>4 DEF RecType
<1>6. Near(rec.protect) /\ Limit <= Base(Sold) /\ rec.unlinked = <<>>
  BY <1>3, <1>4 DEF Reclaim, Moves
<1>7. Reclaim'
  <2>1. Near(rec.protect)' /\ Limit' <= Base(Sold)' /\ head_block' = head_block
    BY <1>1, <1>3, <1>5, <1>6 DEF Near, Limit, heads
  <2> QED BY <1>3, <1>5, <1>6, <2>1 DEF Reclaim, Aiming, Visiting, Announcing, Moves
<1>8. \A u \in Tokens : Met(u)' BY <1>3, <1>5 DEF Met, Aiming, Visiting, Announcing
<1>9. "scan" \in Early /\ pc[t] \in Early \ {"unlock"} /\ rec'.count <= haz_ptr_counter
  BY <1>1, <1>4, <1>5 DEF Early
<1> QED BY <1>1, <1>5, <1>7, <1>8, <1>9, EarlyStep

\* Circular comparison where an offset may be anywhere.
LEMMA LessIs ==
  ASSUME NEW x \in Word, NEW y \in Word
  PROVE  /\ Pos(y) <= Pos(x) => (CircularLess(x, y) <=> 2 * (Pos(x) - Pos(y)) > WordMod)
         /\ Pos(x) < Pos(y) => (CircularLess(x, y) <=> 2 * (Pos(y) - Pos(x)) < WordMod)
<1> DEFINE o == Origin
           d == (x - y) % WordMod
<1>1. o \in Nat /\ o < WordMod /\ x \in Nat /\ x < WordMod /\ y \in Nat /\ y < WordMod /\ WordMod \in Nat
  BY OriginIs, Sizes DEF Word
<1>2. /\ x >= o => Pos(x) = x - o
      /\ x < o => Pos(x) = x - o + WordMod
      /\ y >= o => Pos(y) = y - o
      /\ y < o => Pos(y) = y - o + WordMod
      /\ Pos(x) \in Nat /\ Pos(y) \in Nat
  BY PosIs
<1>3. /\ y <= x => d = x - y
      /\ x < y => d = x - y + WordMod
  <2>1. x \in 0 .. WordMod - 1 /\ y \in 0 .. WordMod - 1 BY <1>1
  <2> QED BY <1>1, <2>1, ModMinus
<1>4. CircularLess(x, y) <=> 2 * d > WordMod BY DEF CircularLess
<1> HIDE DEF o, d
<1> QED BY <1>1, <1>2, <1>3, <1>4

\* What the scan has come to.
LEMMA ScanIs ==
  ASSUME Running, NEW t \in Tokens, lock = t, pc[t] = "scan"
  PROVE  /\ rec.old = head_block /\ rec.old \in blocks /\ First(rec.old) \in Nat /\ First(rec.old) <= Top
         /\ Limit \in Nat /\ Limit < WordMod
         /\ Spoiled => ~Going /\ AtOrBefore(rec.protect, offset[rec.old])
         /\ ~Spoiled => /\ Near(rec.protect) /\ Limit <= Base(Sold)
                        /\ Going <=> First(rec.old) < Limit
                        /\ AtOrBefore(rec.protect, offset[rec.old]) <=> Limit <= First(rec.old)
<1> HIDE DEF Running
<1>1. At({"scan"}) /\ Reclaim /\ rec.protect \in Word /\ Limit \in Nat BY Holding
<1>2. rec.old = head_block /\ (Spoiled \/ (Near(rec.protect) /\ Limit <= Base(Sold)))
  BY <1>1 DEF Reclaim
<1>3. head_block \in blocks /\ blocks \subseteq Block /\ Top \in Nat /\ 4 * Top < WordMod /\ WordMod \in Nat
      /\ First(head_block) <= Sold /\ Sold <= Top /\ Sold \in Nat
  BY Bounds, Parts, Fixed DEF Running, Heads
<1>4. PICK x \in Word, y \in Word : x = offset[rec.old] /\ y = rec.protect
  BY <1>1, <1>2, <1>3, Types DEF Running
<1>5. PICK o \in Nat, l \in Nat : /\ o = First(rec.old) /\ o = Pos(x) /\ o <= Top /\ l = Limit /\ l = Pos(y)
                                  /\ l < WordMod
  <2>1. First(rec.old) = Pos(x) /\ Limit = Pos(y) BY <1>4 DEF First, Limit
  <2>2. Pos(x) \in Nat /\ Pos(y) \in Nat /\ Pos(y) < WordMod BY PosIs
  <2> QED BY <1>2, <1>3, <2>1, <2>2
<1>6. Going <=> o < l /\ 2 * (l - o) < WordMod
  <2>1. Going <=> CircularLess(x, y) BY <1>4 DEF Going
  <2>2. /\ l <= o => (CircularLess(x, y) <=> 2 * (o - l) > WordMod)
        /\ o < l => (CircularLess(x, y) <=> 2 * (l - o) < WordMod)
    BY <1>5, LessIs
  <2> QED BY <1>3, <1>5, <2>1, <2>2
<1>7. AtOrBefore(rec.protect, offset[rec.old]) <=> l <= o \/ 2 * (l - o - 1) > WordMod
  <2>1. PICK z \in Word : z = Plus(x, 1) /\ Pos(z) = o + 1
    <3>1. Top >= 1 BY TopIs, Sizes, OriginIs
    <3>2. Pos(x) + 1 < WordMod BY <1>3, <1>5, <3>1
    <3>3. Plus(x, 1) \in Word /\ Pos(Plus(x, 1)) = Pos(x) + 1 BY <3>2, PosPlus
    <3> QED BY <1>5, <3>3
  <2>2. AtOrBefore(rec.protect, offset[rec.old]) <=> CircularLess(y, z)
    BY <1>4, <2>1 DEF AtOrBefore
  <2>3. /\ o + 1 <= l => (CircularLess(y, z) <=> 2 * (l - (o + 1)) > WordMod)
        /\ l < o + 1 => (CircularLess(y, z) <=> 2 * (o + 1 - l) < WordMod)
    BY <1>5, <2>1, LessIs
  <2>4. l < o + 1 => 2 * (o + 1 - l) < WordMod
    <3>1. 2 * (o + 1) < WordMod
      <4>1. Top >= 1 BY TopIs, Sizes, OriginIs
      <4> QED BY <1>3, <1>5, <4>1
    <3> QED BY <1>3, <1>5, <3>1
  <2> QED BY <1>3, <1>5, <2>2, <2>3, <2>4
<1>8. Spoiled <=> 2 * (l - o - 1) > WordMod BY <1>5 DEF Spoiled
<1>9. Near(rec.protect) <=> 2 * l < WordMod BY <1>4, <1>5 DEF Near
<1>10. /\ Spoiled => ~Going /\ AtOrBefore(rec.protect, offset[rec.old])
       /\ Near(rec.protect) => (Going <=> o < l)
       /\ ~Spoiled => (AtOrBefore(rec.protect, offset[rec.old]) <=> l <= o)
  BY <1>3, <1>6, <1>7, <1>8, <1>9
<1> QED BY <1>2, <1>3, <1>5, <1>10

\* Who protects less than what is known protects has an offset that can be compared.
LEMMA ScanKeeps ==
  ASSUME Running, NEW t \in Tokens, Scan(t)
  PROVE  Running'
<1> HIDE DEF Running
<1>1. /\ pc[t] = "scan" /\ Going /\ UNCHANGED <<queue, counters, heads, lock, haz, pc, op, clients>>
  BY DEF Scan
<1>2. PICK u \in rec.todo :
          rec' = [rec EXCEPT !.todo = @ \ {u},
                     !.protect = IF haz[u].owned THEN KeepMin(@, haz[u].active_offset) ELSE @]
  BY DEF Scan
<1>3. lock = t /\ Reclaimer(t) /\ lock' = t /\ op' = op /\ haz' = haz /\ UNCHANGED <<list, offsets>>
      /\ head_block' = head_block
  <2>1. lock = t /\ pc[t] \in Reclaiming \ {"unlock"}
    BY <1>1, Parts DEF Control, Reclaiming, Scanning
  <2> QED BY <1>1, <2>1, Holding DEF queue, heads
<1>4. rec \in RecType /\ Reclaim /\ rec.count <= haz_ptr_counter /\ rec.protect \in Word /\ rec.todo \subseteq Tokens
  BY <1>3, Holding DEF RecType
<1>5. pc' = [pc EXCEPT ![t] = "scan"]
  <2>1. pc = [pc EXCEPT ![t] = pc[t]] BY Unmoved
  <2> QED BY <1>1, <2>1
<1>6. "scan" \in Reclaiming /\ "scan" \in Early /\ pc[t] \in Early \ {"unlock"}
  BY <1>1 DEF Reclaiming, Scanning, Early
<1>7. /\ \A places : At(places)' <=> "scan" \in places
      /\ \A w \in Tokens :
            /\ Begin(w)' = Begin(w) /\ Search(w)' = Search(w) /\ Active(w)' = Active(w) /\ From(w)' = From(w)
            /\ (Drawn(w)' <=> Drawn(w)) /\ (pc'[w] \in Walking <=> pc[w] \in Walking)
      /\ \A b : First(b)' = First(b)
      /\ Sold' = Sold
  BY <1>3, <1>5, <1>6, RecFrame
<1>8. /\ rec.old = head_block /\ rec.old \in blocks /\ First(rec.old) \in Nat /\ First(rec.old) <= Top
      /\ Limit \in Nat /\ ~Spoiled /\ Near(rec.protect) /\ Limit <= Base(Sold) /\ First(rec.old) < Limit
  BY <1>1, <1>3, ScanIs
<1>9. PICK a \in Word : a = haz[u].active_offset BY <1>4, Types DEF Running
<1>10. PICK x \in Word : x = (IF haz[u].owned THEN KeepMin(rec.protect, a) ELSE rec.protect)
  <2>1. KeepMin(rec.protect, a) \in Word BY <1>4 DEF KeepMin
  <2> QED BY <1>4, <2>1
<1>11. /\ rec' = [rec EXCEPT !.todo = rec.todo \ {u}, !.protect = x] BY <1>2, <1>9, <1>10
<1>12. /\ rec' \in RecType /\ rec'.todo = rec.todo \ {u} /\ rec'.protect = x /\ rec'.old = rec.old
       /\ rec'.count = rec.count /\ rec'.unlinked = rec.unlinked
  BY <1>4, <1>11 DEF RecType
<1>13. Limit' = Pos(x) /\ Limit = Pos(rec.protect) /\ Active(u) = Pos(a) /\ Pos(x) \in Nat /\ Pos(a) \in Nat
  BY <1>9, <1>12, PosIs DEF Limit, Active
<1>14. u \in Tokens /\ (Drawn(u) => Active(u) <= Base(Begin(u)) /\ Base(Begin(u)) <= Top /\ haz[u].owned)
       /\ (pc[u] \in Walking => Drawn(u) /\ Active(u) <= Search(u)) /\ (u = lock => Drawn(u))
       /\ Top \in Nat /\ 4 * Top < WordMod /\ WordMod \in Nat
  <2>1. u \in Tokens /\ Top \in Nat /\ 4 * Top < WordMod /\ WordMod \in Nat BY <1>4, Bounds
  <2>2. ASSUME Drawn(u)
        PROVE  Active(u) <= Base(Begin(u)) /\ Base(Begin(u)) <= Top /\ haz[u].owned
    <3>1. Active(u) <= Base(Begin(u)) /\ Acquired(u) BY <2>1, <2>2, Parts, Members DEF Uses
    <3>2. Base(Begin(u)) <= Begin(u) /\ Begin(u) <= Top /\ {Begin(u), Base(Begin(u))} \subseteq Nat
      BY <2>1, <2>2, InUse
    <3> QED BY <2>1, <3>1, <3>2 DEF Acquired
  <2>3. pc[u] \in Walking => Drawn(u) /\ Active(u) <= Search(u) BY <2>1, Parts, Members DEF Uses
  <2>4. u = lock => Drawn(u) BY <1>3 DEF Drawn
  <2> QED BY <2>1, <2>2, <2>3, <2>4
<1>15. \/ Near(x) /\ Limit' <= Limit /\ (Drawn(u) => Limit' <= Active(u))
       \/ Spoiled'
  <2>1. CASE haz[u].owned /\ CircularLess(a, rec.protect)
    <3>1. x = a BY <1>10, <2>1 DEF KeepMin
    <3>2. CASE Pos(rec.protect) <= Pos(a)
      <4>1. 2 * (Pos(a) - Pos(rec.protect)) > WordMod BY <1>4, <2>1, <3>2, LessIs
      <4>2. 2 * (Limit' - First(rec.old) - 1) > WordMod BY <1>8, <1>13, <1>14, <3>1, <4>1
      <4>3. First(rec.old)' = First(rec.old) BY <1>7, <1>12 DEF First
      <4> QED BY <1>12, <4>2, <4>3 DEF Spoiled
    <3>3. CASE Pos(a) < Pos(rec.protect) BY <1>8, <1>13, <1>14, <3>1, <3>3 DEF Near
    <3> QED BY <1>13, <1>8, <3>2, <3>3
  <2>2. CASE ~(haz[u].owned /\ CircularLess(a, rec.protect))
    <3>1. x = rec.protect BY <1>10, <2>2 DEF KeepMin
    <3>2. ASSUME Drawn(u)
          PROVE  Limit <= Active(u)
      <4>1. ~CircularLess(a, rec.protect) /\ 2 * Pos(a) < WordMod /\ 2 * Pos(rec.protect) < WordMod
        <5>1. Pos(a) <= Top BY <1>13, <1>14, <3>2, InUse
        <5> QED BY <1>8, <1>13, <1>14, <2>2, <3>2, <5>1 DEF Near
      <4>2. ~(Pos(a) < Pos(rec.protect)) BY <1>4, <4>1, PosLess
      <4> QED BY <1>8, <1>13, <4>2
    <3> QED BY <1>8, <1>13, <3>1, <3>2
  <2> QED BY <2>1, <2>2
<1>16. Reclaim'
  <2>1. ~Spoiled' => Near(rec.protect)' /\ Limit' <= Base(Sold)'
    <3>1. {Limit, Limit', Base(Sold)} \subseteq Nat BY <1>8, <1>13, Parts, BaseOf
    <3>2. Base(Sold)' = Base(Sold) /\ (Near(rec.protect)' <=> Near(x)) BY <1>7, <1>12 DEF Near
    <3> QED BY <1>8, <1>15, <3>1, <3>2
  <2>2. rec'.old = head_block' /\ rec'.unlinked = <<>>
    <3>1. rec.unlinked = <<>> BY <1>1, <1>3, <1>4, Holding DEF Reclaim, Moves
    <3> QED BY <1>3, <1>8, <1>12, <3>1
  <2> QED BY <1>7, <2>1, <2>2 DEF Reclaim, Aiming, Visiting, Announcing, Moves
<1>17. ASSUME NEW w \in Tokens, ~Spoiled', w \notin rec'.todo
       PROVE  Scanned(w)'
  <2>1. Limit' <= Limit /\ (Drawn(u) => Limit' <= Active(u)) /\ {Limit, Limit'} \subseteq Nat
    BY <1>8, <1>13, <1>15, <1>17
  <2>2. /\ {Active(w), Search(w), Begin(w), Base(Begin(w)), Base(Begin(lock))} \subseteq Nat
        /\ Begin(lock)' = Begin(lock)
    BY <1>3, <1>7, Parts, BaseOf
  <2>3. CASE w = u
    <3>1. /\ w = lock => Limit' <= Active(w)
          /\ Drawn(w) => Limit' <= Base(Begin(w))
          /\ pc[w] \in Walking => Limit' <= Search(w)
      BY <1>14, <2>1, <2>2, <2>3
    <3> QED BY <1>3, <1>7, <3>1 DEF Scanned
  <2>4. CASE w # u
    <3>1. Scanned(w)
      <4>1. w \notin rec.todo /\ At({"scan"}) BY <1>1, <1>3, <1>12, <1>17, <2>4, Holding
      <4>2. Met(w) BY Parts
      <4> QED BY <1>8, <4>1, <4>2 DEF Met
    <3>2. /\ w = lock => Limit' <= Active(w)
          /\ Drawn(w) => Limit' <= Base(Begin(w)) \/ Base(Begin(lock)) <= Base(Begin(w))
          /\ pc[w] \in Walking => Limit' <= Search(w) \/ Search(w) = From(w)
      BY <2>1, <2>2, <3>1 DEF Scanned
    <3> QED BY <1>3, <1>7, <2>2, <3>2 DEF Scanned
  <2> QED BY <2>3, <2>4
<1>18. \A w \in Tokens : Met(w)' BY <1>7, <1>17 DEF Met, Aiming, Visiting, Announcing
<1>19. rec'.count <= haz_ptr_counter /\ UNCHANGED <<queue, counters, heads, lock, haz, op, clients>>
  BY <1>1, <1>4, <1>12
<1> QED BY <1>5, <1>6, <1>12, <1>16, <1>18, <1>19, EarlyStep

\* The reclaimer gives up, or has a first guess at the new head.
LEMMA GiveUpKeeps ==
  ASSUME Running, NEW t \in Tokens, pc[t] \in {"scan", "advance"}, pc' = [pc EXCEPT ![t] = "unlock"],
         UNCHANGED <<queue, counters, heads, lock, haz, op, clients>>,
         rec' \in RecType, rec'.count = rec.count, rec'.unlinked = rec.unlinked
  PROVE  Running'
<1> HIDE DEF Running
<1>1. lock = t /\ Reclaimer(t) /\ lock' = t /\ op' = op /\ haz' = haz /\ UNCHANGED <<list, offsets>>
  <2>1. lock = t /\ pc[t] \in Reclaiming \ {"unlock"}
    BY Parts DEF Control, Reclaiming, Scanning, Visiting
  <2> QED BY <2>1, Holding DEF queue
<1>2. "unlock" \in Early /\ "unlock" \in Reclaiming /\ pc[t] \in Early \ {"unlock"}
  BY DEF Early, Scanning, Visiting, Reclaiming
<1>3. \A places : At(places)' <=> "unlock" \in places BY <1>1, <1>2, RecFrame
<1>4. rec'.unlinked = <<>> /\ rec'.count <= haz_ptr_counter BY <1>1, Holding DEF Reclaim, Moves
<1>5. (\A u \in Tokens : Met(u)') /\ Reclaim'
  BY <1>3, <1>4, NothingMet, NothingReclaimed DEF Aiming, Visiting, Announcing, Moves
<1> QED BY <1>2, <1>4, <1>5, EarlyStep

\* try_reclaim_blocks(): the scan is over: there is a block to go to, or there is not.
LEMMA EndScanKeeps ==
  ASSUME Running, NEW t \in Tokens, EndScan(t)
  PROVE  Running'
<1> HIDE DEF Running
<1>1. /\ pc[t] = "scan" /\ (rec.todo = {} \/ ~Going)
      /\ UNCHANGED <<queue, counters, heads, lock, haz, op, clients>>
  BY DEF EndScan
<1>2. lock = t /\ Reclaimer(t) /\ lock' = t /\ op' = op /\ haz' = haz /\ UNCHANGED <<list, offsets>>
      /\ head_block' = head_block
  <2>1. lock = t /\ pc[t] \in Reclaiming \ {"unlock"}
    BY <1>1, Parts DEF Control, Reclaiming, Scanning
  <2> QED BY <1>1, <2>1, Holding DEF queue, heads
<1>3. rec \in RecType /\ Reclaim /\ rec.count <= haz_ptr_counter /\ rec.protect \in Word
  BY <1>2, Holding
<1>4. CASE AtOrBefore(rec.protect, offset[rec.old])
  <2>1. pc' = [pc EXCEPT ![t] = "unlock"] /\ rec' = rec BY <1>1, <1>4 DEF EndScan, GoTo
  <2> QED BY <1>1, <1>3, <2>1, GiveUpKeeps
<1>5. CASE ~AtOrBefore(rec.protect, offset[rec.old])
  <2>1. /\ rec' = [rec EXCEPT !.new = FirstFrom(rec.old, rec.protect), !.todo = Tokens]
        /\ pc' = [pc EXCEPT ![t] = "advance"]
    BY <1>1, <1>5 DEF EndScan, GoTo
  <2>2. /\ rec.old = head_block /\ rec.old \in blocks /\ First(rec.old) \in Nat
        /\ Limit \in Nat /\ ~Spoiled /\ Near(rec.protect) /\ Limit <= Base(Sold) /\ First(rec.old) < Limit
        /\ rec.todo = {}
    <3>1. /\ rec.old = head_block /\ rec.old \in blocks /\ First(rec.old) \in Nat /\ Limit \in Nat
          /\ ~Spoiled /\ Near(rec.protect) /\ Limit <= Base(Sold)
          /\ (Going <=> First(rec.old) < Limit)
          /\ (AtOrBefore(rec.protect, offset[rec.old]) <=> Limit <= First(rec.old))
      BY <1>1, <1>2, <1>5, ScanIs
    <3> QED BY <1>1, <1>5, <3>1
  <2>3. \A u \in Tokens : Scanned(u)
    <3>1. At({"scan"}) BY <1>1, <1>2, Holding
    <3> QED BY <2>2, <3>1, Parts DEF Met
  <2>4. PICK e \in blocks : /\ e = op[t].block /\ First(e) = Base(Begin(t)) /\ Limit <= First(e)
                            /\ First(rec.old) <= First(e) /\ First(e) \in Nat
    <3>1. op[t].block \in blocks /\ First(op[t].block) = Base(Begin(t)) /\ Active(t) <= Base(Begin(t))
          /\ Base(Begin(t)) \in Nat /\ Active(t) \in Nat
      BY <1>2, Reads, Parts
    <3>2. Limit <= Active(t) BY <1>2, <2>3 DEF Scanned
    <3> QED BY <2>2, <3>1, <3>2
  <2>5. PICK n \in blocks :
          /\ n = FirstFrom(rec.old, rec.protect) /\ First(rec.old) <= First(n) /\ Limit <= First(n)
          /\ First(n) <= First(e) /\ (First(rec.old) < First(n) => First(n) < Limit + BlockSize)
    BY <1>3, <2>2, <2>4, FirstFromIs DEF Limit
  <2>6. /\ First(n) \in Starts /\ First(n) \in Nat /\ First(rec.old) < First(n) /\ First(n) < Limit + BlockSize
        /\ n \in Block /\ BlockSize \in Nat
    <3>1. First(n) \in Starts /\ n \in Block BY Bounds, Fixed
    <3> QED BY <2>2, <2>5, <3>1, Sizes DEF Starts
  <2>7. \A m \in Nat : Limit <= Base(m) => First(n) <= Base(m)
    <3> SUFFICES ASSUME NEW m \in Nat, Limit <= Base(m)
                 PROVE  First(n) <= Base(m)
      OBVIOUS
    <3>1. Base(m) \in Starts /\ Base(m) \in Nat BY BaseOf
    <3>2. Base(m) < First(n) => Base(m) + BlockSize <= First(n) BY <2>6, <3>1, StartsApart
    <3> QED BY <2>2, <2>6, <3>1, <3>2
  <2>8. /\ rec' \in RecType /\ rec'.old = rec.old /\ rec'.new = n /\ rec'.todo = Tokens /\ rec'.protect = rec.protect
        /\ rec'.count = rec.count /\ rec'.unlinked = rec.unlinked
    <3>1. rec' = [rec EXCEPT !.new = n, !.todo = Tokens] BY <2>1, <2>5
    <3> QED BY <1>3, <2>6, <3>1 DEF RecType
  <2>9. "advance" \in Early /\ "advance" \in Reclaiming /\ pc[t] \in Early \ {"unlock"}
    BY <1>1 DEF Early, Reclaiming, Visiting
  <2>10. /\ \A places : At(places)' <=> "advance" \in places
         /\ \A w \in Tokens :
               /\ Begin(w)' = Begin(w) /\ Search(w)' = Search(w) /\ Field(w)' = Field(w) /\ From(w)' = From(w)
               /\ (Drawn(w)' <=> Drawn(w)) /\ (Member(w)' <=> Member(w)) /\ (pc'[w] \in Walking <=> pc[w] \in Walking)
         /\ \A b : First(b)' = First(b)
         /\ blocks' = blocks /\ Sold' = Sold
    BY <1>2, <2>1, <2>9, RecFrame
  <2>11. First(rec.new)' = First(n) /\ First(rec.old)' = First(rec.old) /\ Limit' = Limit
    BY <2>8, <2>10 DEF First, Limit
  <2>12. Reclaim'
    <3>1. n \in OnList'
      <4>1. First(head_block) <= First(n) /\ ListHead' = head_block
        <5>1. ~At({"announce", "validate", "rollback"})' BY <2>10
        <5>2. ListHead' = head_block' BY <5>1 DEF ListHead, At
        <5> QED BY <1>2, <2>2, <2>5, <5>2
      <4> QED BY <2>10, <4>1 DEF OnList
    <3>2. First(rec.old)' < First(rec.new)' /\ First(rec.new)' <= Base(Sold)' /\ Limit' <= First(rec.new)'
      <4>1. Sold \in Nat BY Parts
      <4> QED BY <2>2, <2>5, <2>6, <2>7, <2>10, <2>11, <4>1
    <3>3. Near(rec.protect)' /\ rec'.old = head_block' /\ rec'.new = n
      BY <1>2, <2>2, <2>8 DEF Near
    <3>4. rec'.unlinked = <<>> BY <1>1, <1>2, <1>3, <2>8, Holding DEF Reclaim, Moves
    <3> QED BY <2>10, <3>1, <3>2, <3>3, <3>4 DEF Reclaim, Aiming, Visiting, Announcing, Moves
  <2>13. ASSUME NEW w \in Tokens
         PROVE  Met(w)'
    <3>1. Scanned(w) BY <2>3
    <3>2. ASSUME Drawn(w)
          PROVE  First(n) <= Base(Begin(w))
      <4>1. /\ Limit <= Base(Begin(w)) \/ Base(Begin(t)) <= Base(Begin(w))
            /\ {Begin(w), Base(Begin(w)), Base(Begin(t))} \subseteq Nat
        BY <1>2, <3>1, <3>2, Parts, BaseOf DEF Scanned
      <4> QED BY <2>4, <2>5, <2>6, <2>7, <4>1
    <3>3. \A f \in Fields : Visited(w, f)'
      <4> SUFFICES ASSUME NEW f \in Fields
                   PROVE  Visited(w, f)'
        OBVIOUS
      <4>1. Pending(w, f)' BY <2>8 DEF Pending
      <4>2. pc[w] \in Walking /\ Field(w) = f => Limit <= Search(w) \/ Search(w) = First(haz[w][f])
        BY <3>1 DEF Scanned, From
      <4>3. First(haz[w][f])' = First(haz[w][f]) BY <1>2, <2>10 DEF First
      <4>4. (pc'[w] \in Walking /\ Field(w)' = f) => (Limit' <= Search(w)' \/ Search(w)' = First(haz[w][f])')
        BY <2>10, <2>11, <4>2, <4>3
      <4> QED BY <4>1, <4>4 DEF Visited, Unsure
    <3>4. Drawn(w)' => First(rec.new)' <= Base(Begin(w)') BY <2>10, <2>11, <3>2
    <3> QED BY <2>10, <3>3, <3>4 DEF Met, Aiming, Visiting, Announcing
  <2>14. rec'.count <= haz_ptr_counter BY <1>3, <2>8
  <2> QED BY <1>1, <2>1, <2>8, <2>9, <2>12, <2>13, <2>14, EarlyStep
<1> QED BY <1>4, <1>5

\* While it visits hazard pointers.
LEMMA VisitingIs ==
  ASSUME Running, NEW t \in Tokens, lock = t, pc[t] \in Visiting
  PROVE  /\ rec.old = head_block /\ rec.old \in blocks /\ rec.new \in OnList /\ rec.new \in blocks /\ rec.new \in Block
         /\ First(rec.old) < First(rec.new) /\ First(rec.new) <= Base(Sold) /\ First(rec.new) <= Turn
         /\ {First(rec.old), First(rec.new), Limit, Base(Sold), Sold, Turn} \subseteq Nat
         /\ First(rec.new) \in Starts
         /\ Near(rec.protect) /\ Limit <= First(rec.new) /\ rec.protect \in Word
         /\ \A u \in Tokens : Drawn(u) => First(rec.new) <= Base(Begin(u))
         /\ \A u \in Tokens : Member(u) /\ NobodyCame => \A f \in Fields : Visited(u, f)
         /\ pc[t] \in {"visit_read", "swap", "revalidate"} => rec.at \in Tokens /\ rec.at \notin rec.todo
         /\ pc[t] \in {"swap", "revalidate"} => Near(haz[rec.at].active_offset)
         /\ pc[t] = "swap" => rec.expected \in blocks /\ First(rec.expected) < First(rec.new)
         /\ rec.unlinked = <<>> /\ Reclaimer(t) /\ ListHead = head_block
<1> HIDE DEF Running
<1>1. (\A places : At(places) <=> pc[t] \in places) /\ Reclaim /\ rec \in RecType /\ rec.protect \in Word
      /\ Limit \in Nat
  BY Holding
<1>2. At(Visiting) /\ At(Aiming) /\ ~At(Moves) /\ ~At({"announce", "validate", "rollback"})
  BY <1>1 DEF Aiming, Visiting, Moves
<1>3. /\ rec.old = head_block /\ rec.new \in OnList /\ First(rec.old) < First(rec.new) /\ First(rec.new) <= Base(Sold)
      /\ Near(rec.protect) /\ Limit <= First(rec.new) /\ rec.unlinked = <<>>
      /\ pc[t] \in {"visit_read", "swap", "revalidate"} => rec.at \in Tokens /\ rec.at \notin rec.todo
      /\ pc[t] = "swap" => rec.expected \in blocks /\ First(rec.expected) < First(rec.new)
  BY <1>1, <1>2 DEF Reclaim
<1>4. rec.old \in blocks /\ rec.new \in blocks /\ rec.new \in Block /\ Reclaimer(t) /\ ListHead = head_block
  <2>1. Reclaimer(t) BY Holding DEF Visiting, Reclaiming
  <2>2. ListHead = head_block BY <1>2 DEF ListHead, At
  <2> QED BY <1>3, <2>1, <2>2, Fixed DEF OnList
<1>5. \A u \in Tokens : /\ Drawn(u) => First(rec.new) <= Base(Begin(u))
                        /\ Member(u) /\ NobodyCame => \A f \in Fields : Visited(u, f)
  BY <1>2, Parts DEF Met
<1>6. pc[t] \in {"swap", "revalidate"} => Near(haz[rec.at].active_offset)
  <2> SUFFICES ASSUME pc[t] \in {"swap", "revalidate"}
               PROVE  Near(haz[rec.at].active_offset)
    OBVIOUS
  <2>1. At({"swap", "revalidate"}) /\ rec.at \in Tokens BY <1>1, <1>3
  <2>2. Met(rec.at) BY <2>1, Parts
  <2> QED BY <2>1, <2>2 DEF Met
<1>7. First(rec.new) \in Starts /\ {First(rec.old), First(rec.new), Base(Sold), Sold, Turn} \subseteq Nat
  <2>1. First(rec.new) \in Starts /\ First(rec.old) \in Starts BY <1>4, Bounds
  <2>2. Sold \in Nat /\ Turn \in Nat BY Parts
  <2>3. Base(Sold) \in Nat BY <2>2, BaseOf
  <2> QED BY <2>1, <2>2, <2>3 DEF Starts
<1>8. First(rec.new) <= Turn
  <2>1. First(rec.new) <= Base(Begin(t)) /\ Base(Begin(t)) <= Begin(t) /\ Begin(t) < Turn
        /\ {Base(Begin(t)), Begin(t)} \subseteq Nat
    BY <1>4, <1>5, Reads, BaseOf
  <2> QED BY <1>7, <2>1
<1> QED BY <1>1, <1>3, <1>4, <1>5, <1>6, <1>7, <1>8

\* What is visited stays so while its field and its search stay.
LEMMA VisitedStays ==
  ASSUME NEW u, NEW f, Visited(u, f), haz'[u][f] = haz[u][f], First(haz[u][f])' = First(haz[u][f]),
         pc'[u] \in Walking <=> pc[u] \in Walking, Field(u)' = Field(u), Search(u)' = Search(u),
         {Limit, Limit', Search(u), First(haz[u][f])} \subseteq Nat, Limit' <= Limit,
         Pending(u, f)' => Pending(u, f),
         ~Pending(u, f)' => ~Pending(u, f) \/ Limit' <= First(haz[u][f]),
         pc[u] \in Walking /\ Field(u) = f /\ ~Unsure(u, f)' =>
             ~Unsure(u, f) \/ Limit' <= Search(u) \/ (Pending(u, f) /\ Limit' <= First(haz[u][f]))
  PROVE  Visited(u, f)'
<1>1. /\ ~Pending(u, f) => Limit <= First(haz[u][f])
      /\ pc[u] \in Walking /\ Field(u) = f =>
            /\ Pending(u, f) => Limit <= Search(u) \/ Search(u) = First(haz[u][f])
            /\ ~Unsure(u, f) => Limit <= Search(u)
  BY DEF Visited
<1>2. ~Pending(u, f)' => Limit' <= First(haz[u][f]) BY <1>1
<1>3. pc[u] \in Walking /\ Field(u) = f =>
            /\ Pending(u, f)' => Limit' <= Search(u) \/ Search(u) = First(haz[u][f])
            /\ ~Unsure(u, f)' => Limit' <= Search(u)
  BY <1>1
<1> QED BY <1>2, <1>3 DEF Visited

\* What a step has to see to.
LEMMA VisitStep ==
  ASSUME Running, NEW t \in Tokens, pc[t] \in Visiting, NEW p \in Visiting,
         pc' = [pc EXCEPT ![t] = p], UNCHANGED <<queue, counters, heads, lock, haz, op, clients>>,
         rec' \in RecType, rec'.old = rec.old, rec'.new = rec.new, rec'.count = rec.count,
         rec'.unlinked = rec.unlinked, Near(rec.protect)', Limit' <= Limit,
         p \in {"visit_read", "swap", "revalidate"} => rec'.at \in Tokens /\ rec'.at \notin rec'.todo,
         p = "swap" => rec'.expected \in blocks /\ First(rec'.expected) < First(rec.new),
         p \in {"swap", "revalidate"} => Near(haz[rec'.at].active_offset),
         \A u \in Tokens : Member(u) /\ NobodyCame => \A f \in Fields :
             /\ Pending(u, f)' => Pending(u, f)
             /\ ~Pending(u, f)' => ~Pending(u, f) \/ Limit' <= First(haz[u][f])
             /\ pc[u] \in Walking /\ Field(u) = f /\ ~Unsure(u, f)' =>
                   ~Unsure(u, f) \/ Limit' <= Search(u) \/ (Pending(u, f) /\ Limit' <= First(haz[u][f]))
  PROVE  Running'
<1> HIDE DEF Running
<1>1. lock = t /\ pc[t] \in Early \ {"unlock"} /\ p \in Early /\ p \in Reclaiming
  <2>1. pc[t] \in Reclaiming BY DEF Visiting, Reclaiming
  <2> QED BY <2>1, Parts DEF Control, Early, Visiting, Reclaiming
<1>2. /\ rec.old = head_block /\ rec.old \in blocks /\ rec.new \in OnList /\ rec.new \in blocks
      /\ First(rec.old) < First(rec.new) /\ First(rec.new) <= Base(Sold)
      /\ {First(rec.old), First(rec.new), Limit, Base(Sold), Sold, Turn} \subseteq Nat
      /\ Limit <= First(rec.new)
      /\ \A u \in Tokens : Drawn(u) => First(rec.new) <= Base(Begin(u))
      /\ \A u \in Tokens : Member(u) /\ NobodyCame => \A f \in Fields : Visited(u, f)
      /\ rec.unlinked = <<>> /\ Reclaimer(t) /\ ListHead = head_block
  BY <1>1, VisitingIs
<1>3. /\ lock' = t /\ op' = op /\ haz' = haz /\ UNCHANGED <<list, offsets>> /\ head_block' = head_block
      /\ haz_ptr_counter' = haz_ptr_counter
  BY <1>1 DEF queue, heads, counters
<1>4. /\ \A places : At(places)' <=> p \in places
      /\ \A u \in Tokens :
            /\ Begin(u)' = Begin(u) /\ Search(u)' = Search(u) /\ Field(u)' = Field(u)
            /\ (Drawn(u)' <=> Drawn(u)) /\ (Member(u)' <=> Member(u)) /\ (pc'[u] \in Walking <=> pc[u] \in Walking)
      /\ \A b : First(b)' = First(b)
      /\ blocks' = blocks /\ Sold' = Sold
  BY <1>1, <1>2, <1>3, RecFrame
<1>5. First(rec.new)' = First(rec.new) /\ First(rec.old)' = First(rec.old) /\ First(rec.expected)' = First(rec'.expected)
      /\ Limit' \in Nat
  <2>1. rec'.protect \in Word BY DEF RecType
  <2>2. Limit' \in Nat BY <2>1, PosIs DEF Limit
  <2> QED BY <1>4, <2>2 DEF First
<1>6. OnList' = OnList
  <2>1. ~At({"announce", "validate", "rollback"})' BY <1>4 DEF Visiting
  <2>2. ListHead' = head_block' BY <2>1 DEF ListHead, At
  <2>3. ListHead' = ListHead BY <1>2, <1>3, <2>2
  <2>4. First(ListHead)' = First(ListHead) BY <1>4, <2>3 DEF First
  <2> QED BY <1>4, <2>4 DEF OnList
<1>7. Reclaim'
  <2>1. /\ rec'.new \in OnList' /\ First(rec.old)' < First(rec.new)' /\ First(rec.new)' <= Base(Sold)'
        /\ Limit' <= First(rec.new)' /\ rec'.old = head_block' /\ rec'.unlinked = <<>>
    BY <1>2, <1>3, <1>4, <1>5, <1>6
  <2>2. At({"swap"})' => rec'.expected \in blocks' /\ First(rec.expected)' < First(rec.new)'
    BY <1>4, <1>5
  <2>3. At({"visit_read", "swap", "revalidate"})' => rec'.at \in Tokens \ rec'.todo BY <1>4
  <2>4. ~At({"load_count"})' /\ ~At({"scan"})' /\ ~At(Announcing \cup {"rollback", "commit"} \cup Moves)'
        /\ ~At(Announcing \cup {"rollback"})' /\ ~At({"commit"})' /\ ~At(Moves)' /\ ~At({"relink"})'
    BY <1>4 DEF Visiting, Announcing, Moves
  <2> QED BY <2>1, <2>2, <2>3, <2>4 DEF Reclaim
<1>8. ASSUME NEW u \in Tokens
      PROVE  Met(u)'
  <2>1. ASSUME Member(u), NobodyCame, NEW f \in Fields
        PROVE  Visited(u, f)'
    <3>1. Visited(u, f) BY <1>2, <2>1
    <3>2. First(haz[u][f])' = First(haz[u][f]) /\ First(haz[u][f]) \in Nat /\ Search(u) \in Nat
      <4>1. haz[u][f] \in blocks BY <2>1, Members
      <4>2. First(haz[u][f]) \in Nat BY <4>1, Bounds DEF Starts
      <4> QED BY <1>3, <1>4, <4>2, Parts DEF First
    <3>3. haz'[u][f] = haz[u][f] /\ {Limit, Limit', Search(u), First(haz[u][f])} \subseteq Nat
      BY <1>2, <1>3, <1>5, <3>2
    <3>4. /\ Pending(u, f)' => Pending(u, f)
          /\ ~Pending(u, f)' => ~Pending(u, f) \/ Limit' <= First(haz[u][f])
          /\ pc[u] \in Walking /\ Field(u) = f /\ ~Unsure(u, f)' =>
                ~Unsure(u, f) \/ Limit' <= Search(u) \/ (Pending(u, f) /\ Limit' <= First(haz[u][f]))
      BY <2>1
    <3> QED BY <1>4, <3>1, <3>2, <3>3, <3>4, VisitedStays
  <2>2. NobodyCame' => NobodyCame BY <1>3 DEF NobodyCame
  <2>3. NobodyCame' /\ Member(u)' => \A f \in Fields : Visited(u, f)' BY <1>4, <2>1, <2>2
  <2>4. Drawn(u)' => First(rec.new)' <= Base(Begin(u)') BY <1>2, <1>4, <1>5
  <2>5. At({"swap", "revalidate"})' /\ u = rec'.at => Near(haz'[u].active_offset) BY <1>3, <1>4
  <2>6. At({"swap", "revalidate"})' /\ u = rec'.at => Near(haz[u].active_offset)'
    BY <2>5 DEF Near
  <2>7. ~At({"scan"})' /\ ~At(Announcing)' BY <1>4 DEF Visiting, Announcing
  <2> QED BY <2>3, <2>4, <2>6, <2>7 DEF Met
<1>9. rec'.count <= haz_ptr_counter BY <1>1, Holding
<1> QED BY <1>1, <1>7, <1>8, <1>9, EarlyStep

\* What it has still to look at, once it looked at a field of u.
LEMMA PendingNext ==
  ASSUME NEW t, lock = t, lock' = t, NEW u, NEW g \in Fields, NEW p,
         pc'[t] = p, rec'.at = u, rec'.todo = rec.todo \ {u}, u = rec.at => u \notin rec.todo,
         \/ pc[t] = "advance" /\ u \in rec.todo /\ g = "write_block"
         \/ pc[t] = "visit_read" /\ u = rec.at /\ g = "read_block",
         \/ p = "swap" /\ rec'.field = g
         \/ p = "visit_read" /\ g = "write_block"
         \/ p = "advance" /\ g = "read_block"
  PROVE  \A w : \A f \in Fields :
             /\ Pending(w, f)' <=> Pending(w, f) /\ (p = "swap" \/ w # u \/ f # g)
             /\ Unsure(w, f)' <=> Pending(w, f)'
             /\ Unsure(w, f) <=> Pending(w, f)
<1>1. "swap" # "revalidate" /\ "swap" # "visit_read" /\ "advance" # "swap" /\ "advance" # "visit_read"
      /\ "write_block" # "read_block" /\ \A f \in Fields : f = "write_block" \/ f = "read_block"
  BY DEF Fields
<1>2. ASSUME NEW w, NEW f \in Fields
      PROVE  /\ Pending(w, f)' <=> Pending(w, f) /\ (p = "swap" \/ w # u \/ f # g)
             /\ Unsure(w, f)' <=> Pending(w, f)'
             /\ Unsure(w, f) <=> Pending(w, f)
  <2>1. Pending(w, f)' <=> \/ w \in rec.todo \ {u}
                           \/ w = u /\ \/ p = "visit_read" /\ f = "read_block"
                                       \/ p \in {"swap", "revalidate"} /\ rec'.field = "write_block" /\ f = "read_block"
                                       \/ p = "swap" /\ rec'.field = f
    BY DEF Pending
  <2>2. Pending(w, f) <=> \/ w \in rec.todo
                          \/ w = rec.at /\ pc[t] = "visit_read" /\ f = "read_block"
    BY DEF Pending
  <2>3. Pending(w, f)' <=> Pending(w, f) /\ (p = "swap" \/ w # u \/ f # g) BY <1>1, <2>1, <2>2
  <2>4. (Unsure(w, f)' <=> Pending(w, f)') /\ (Unsure(w, f) <=> Pending(w, f)) BY DEF Unsure
  <2> QED BY <2>3, <2>4
<1> QED BY <1>2

\* A field is at or after the new head, or it is to be moved there.
LEMMA VisitKeeps ==
  ASSUME Running, NEW t \in Tokens, NEW u \in Tokens, NEW g \in Fields, Visit(t, u, g),
         UNCHANGED <<queue, counters, heads, lock, haz, op, clients>>,
         \/ pc[t] = "advance" /\ u \in rec.todo /\ g = "write_block"
         \/ pc[t] = "visit_read" /\ u = rec.at /\ g = "read_block"
  PROVE  Running'
<1> HIDE DEF Running
<1>1. lock = t /\ lock' = t /\ haz' = haz /\ pc[t] \in Visiting /\ pc \in [Tokens -> Places] /\ offset' = offset
  <2>1. pc[t] \in Reclaiming /\ pc[t] \in Visiting BY DEF Visiting, Reclaiming
  <2> QED BY <2>1, Parts DEF Control, Running, queue, list
<1>2. rec \in RecType /\ rec.count <= haz_ptr_counter /\ rec.protect \in Word /\ rec.todo \subseteq Tokens
  BY <1>1, Holding DEF RecType
<1>3. /\ rec.new \in blocks /\ rec.new \in Block /\ First(rec.new) \in Nat /\ Limit \in Nat
      /\ Near(rec.protect) /\ Limit <= First(rec.new)
      /\ pc[t] \in {"visit_read", "swap", "revalidate"} => rec.at \in Tokens /\ rec.at \notin rec.todo
  BY <1>1, VisitingIs
<1>4. \A w \in Tokens : Member(w) => \A f \in Fields : haz[w][f] \in blocks BY Members
<1>5. \A b \in blocks : First(b) \in Nat /\ 2 * First(b) < WordMod /\ offset[b] \in Word
                        /\ (CircularLess(offset[b], offset[rec.new]) <=> First(b) < First(rec.new))
  <2> SUFFICES ASSUME NEW b \in blocks
               PROVE  First(b) \in Nat /\ 2 * First(b) < WordMod /\ offset[b] \in Word
                      /\ (CircularLess(offset[b], offset[rec.new]) <=> First(b) < First(rec.new))
    OBVIOUS
  <2>1. First(b) \in Starts /\ 2 * First(b) < WordMod /\ 2 * First(rec.new) < WordMod
    BY <1>3, Bounds
  <2>2. offset[b] \in Word /\ offset[rec.new] \in Word BY <1>3, Types, Fixed DEF Running
  <2> QED BY <2>1, <2>2, PosLess DEF First, Starts
<1>6. haz[u][g] # Null => haz[u][g] \in blocks /\ Near(haz[u].active_offset) BY Parts DEF Has
<1>7. \A b \in Block : b # Null BY DEF Block, Null
<1>8. CASE haz[u][g] # Null /\ CircularLess(offset[haz[u][g]], offset[rec.new])
  <2>1. /\ rec' = [rec EXCEPT !.at = u, !.field = g, !.expected = haz[u][g], !.todo = rec.todo \ {u}]
        /\ pc' = [pc EXCEPT ![t] = "swap"]
    BY <1>8 DEF Visit, GoTo
  <2>2. PICK b \in blocks : b = haz[u][g] /\ First(b) < First(rec.new) BY <1>5, <1>6, <1>8
  <2>3. b \in Block /\ "swap" \in Visiting BY Fixed DEF Visiting
  <2>4. rec' = [rec EXCEPT !.at = u, !.field = g, !.expected = b, !.todo = rec.todo \ {u}] /\ pc'[t] = "swap"
    BY <1>1, <2>1, <2>2
  <2>5. /\ rec' \in RecType /\ rec'.at = u /\ rec'.field = g /\ rec'.expected = b /\ rec'.todo = rec.todo \ {u}
        /\ rec'.old = rec.old /\ rec'.new = rec.new /\ rec'.count = rec.count /\ rec'.unlinked = rec.unlinked
        /\ rec'.protect = rec.protect
    BY <1>2, <2>3, <2>4 DEF RecType, Fields
  <2>6. Near(rec.protect)' /\ Limit' = Limit /\ u \notin rec'.todo /\ Near(haz[rec'.at].active_offset)
        /\ First(rec'.expected) < First(rec.new) /\ rec'.expected \in blocks /\ rec'.at \in Tokens
    BY <1>3, <1>6, <1>8, <2>2, <2>5 DEF Near, Limit
  <2>7. \A w : \A f \in Fields : (Pending(w, f)' <=> Pending(w, f)) /\ (Unsure(w, f)' <=> Unsure(w, f))
    <3>1. u = rec.at => u \notin rec.todo \/ pc[t] = "advance" BY <1>3
    <3>2. CASE u = rec.at /\ u \in rec.todo
      <4>1. pc[t] = "advance" /\ g = "write_block" BY <3>1, <3>2
      <4> QED BY <1>1, <2>4, <2>5, <4>1 DEF Pending, Unsure, Fields
    <3>3. CASE ~(u = rec.at /\ u \in rec.todo)
      <4>1. \A w : \A f \in Fields :
             /\ Pending(w, f)' <=> Pending(w, f)
             /\ Unsure(w, f)' <=> Pending(w, f)'
             /\ Unsure(w, f) <=> Pending(w, f)
        BY <1>1, <2>4, <2>5, <3>3, PendingNext
      <4> QED BY <4>1
    <3> QED BY <3>2, <3>3
  <2>8. ASSUME NEW w \in Tokens, Member(w), NEW f \in Fields
        PROVE  /\ Pending(w, f)' => Pending(w, f)
               /\ ~Pending(w, f)' => ~Pending(w, f) \/ Limit' <= First(haz[w][f])
               /\ pc[w] \in Walking /\ Field(w) = f /\ ~Unsure(w, f)' =>
                     ~Unsure(w, f) \/ Limit' <= Search(w) \/ (Pending(w, f) /\ Limit' <= First(haz[w][f]))
    BY <2>7
  <2>9. pc[t] \in Visiting /\ Limit' <= Limit BY <1>1, <1>3, <2>6
  <2> QED BY <2>1, <2>3, <2>5, <2>6, <2>8, <2>9, VisitStep
<1>9. CASE ~(haz[u][g] # Null /\ CircularLess(offset[haz[u][g]], offset[rec.new]))
  <2>1. PICK p \in {"visit_read", "advance"} : p = IF g = "write_block" THEN "visit_read" ELSE "advance"
    OBVIOUS
  <2>2. /\ rec' = [rec EXCEPT !.at = u, !.todo = rec.todo \ {u}, !.expected = Null]
        /\ pc' = [pc EXCEPT ![t] = p] /\ pc'[t] = p
    BY <1>1, <1>9, <2>1 DEF Visit, GoTo
  <2>3. /\ rec' \in RecType /\ rec'.at = u /\ rec'.todo = rec.todo \ {u}
        /\ rec'.old = rec.old /\ rec'.new = rec.new /\ rec'.count = rec.count /\ rec'.unlinked = rec.unlinked
        /\ rec'.protect = rec.protect
    BY <1>2, <2>2 DEF RecType
  <2>4. Near(rec.protect)' /\ Limit' = Limit /\ u \notin rec'.todo /\ rec'.at \in Tokens /\ p \in Visiting
        /\ p # "swap" /\ p # "revalidate"
    BY <1>3, <2>1, <2>3 DEF Near, Limit, Visiting
  <2>5. Member(u) => Limit <= First(haz[u][g])
    <3>1. Member(u) => haz[u][g] \in blocks BY <1>4
    <3>2. haz[u][g] \in blocks => haz[u][g] # Null /\ First(haz[u][g]) \in Nat
      BY <1>5, <1>7, Fixed
    <3>3. haz[u][g] \in blocks => ~(First(haz[u][g]) < First(rec.new)) BY <1>5, <1>9, <3>2
    <3> QED BY <1>3, <3>1, <3>2, <3>3
  <2>6. (p = "visit_read" /\ g = "write_block") \/ (p = "advance" /\ g = "read_block")
    BY <2>1 DEF Fields
  <2>7. \A w : \A f \in Fields :
                             /\ Pending(w, f)' => Pending(w, f)
                             /\ ~Pending(w, f)' => ~Pending(w, f) \/ (w = u /\ f = g)
                             /\ ~Unsure(w, f)' => ~Unsure(w, f) \/ (Pending(w, f) /\ w = u /\ f = g)
    <3>1. u = rec.at => u \notin rec.todo \/ pc[t] = "advance" BY <1>3
    <3>2. CASE u = rec.at /\ u \in rec.todo
      <4>1. pc[t] = "advance" /\ g = "write_block" /\ p = "visit_read" BY <2>6, <3>1, <3>2
      <4> QED BY <1>1, <2>2, <2>3, <4>1 DEF Pending, Unsure, Fields
    <3>3. CASE ~(u = rec.at /\ u \in rec.todo)
      <4>1. \A w : \A f \in Fields :
             /\ Pending(w, f)' <=> Pending(w, f) /\ (p = "swap" \/ w # u \/ f # g)
             /\ Unsure(w, f)' <=> Pending(w, f)'
             /\ Unsure(w, f) <=> Pending(w, f)
        BY <1>1, <2>2, <2>3, <2>6, <3>3, PendingNext
      <4> QED BY <2>4, <4>1
    <3> QED BY <3>2, <3>3
  <2>8. ASSUME NEW w \in Tokens, Member(w), NEW f \in Fields
        PROVE  /\ Pending(w, f)' => Pending(w, f)
               /\ ~Pending(w, f)' => ~Pending(w, f) \/ Limit' <= First(haz[w][f])
               /\ pc[w] \in Walking /\ Field(w) = f /\ ~Unsure(w, f)' =>
                     ~Unsure(w, f) \/ Limit' <= Search(w) \/ (Pending(w, f) /\ Limit' <= First(haz[w][f]))
    <3>1. w = u /\ f = g => Limit' <= First(haz[w][f]) BY <2>4, <2>5, <2>8
    <3> QED BY <2>7, <3>1
  <2>9. pc[t] \in Visiting /\ Limit' <= Limit BY <1>1, <1>3, <2>4
  <2> QED BY <2>2, <2>3, <2>4, <2>8, <2>9, VisitStep
<1> QED BY <1>8, <1>9

\* try_advance_hazptr_block(): the write block of a hazard pointer.
LEMMA VisitWriteKeeps ==
  ASSUME Running, NEW t \in Tokens, VisitWrite(t)
  PROVE  Running'
<1> HIDE DEF Running
<1>1. pc[t] = "advance" /\ UNCHANGED <<queue, counters, heads, lock, haz, op, clients>>
  BY DEF VisitWrite
<1>2. lock = t /\ lock' = t /\ haz' = haz /\ pc[t] \in Visiting /\ pc \in [Tokens -> Places]
  <2>1. pc[t] \in Reclaiming /\ pc[t] \in Visiting BY <1>1 DEF Visiting, Reclaiming
  <2> QED BY <1>1, <2>1, Parts DEF Control, Running
<1>3. rec \in RecType /\ rec.todo \subseteq Tokens BY <1>2, Holding DEF RecType
<1>4. PICK u \in rec.todo :
          \/ haz[u].owned /\ Visit(t, u, "write_block")
          \/ ~haz[u].owned /\ rec' = [rec EXCEPT !.todo = @ \ {u}] /\ UNCHANGED pc
  BY DEF VisitWrite
<1>5. CASE haz[u].owned /\ Visit(t, u, "write_block")
  <2>1. u \in Tokens /\ "write_block" \in Fields BY <1>3 DEF Fields
  <2> QED BY <1>1, <1>5, <2>1, VisitKeeps
<1>6. CASE ~haz[u].owned /\ rec' = [rec EXCEPT !.todo = @ \ {u}] /\ UNCHANGED pc
  <2>1. pc' = [pc EXCEPT ![t] = "advance"] /\ "advance" \in Visiting
    BY <1>1, <1>2, <1>6, Unmoved DEF Visiting
  <2>2. /\ rec' \in RecType /\ rec'.at = rec.at /\ rec'.field = rec.field /\ rec'.todo = rec.todo \ {u}
        /\ rec'.old = rec.old /\ rec'.new = rec.new /\ rec'.count = rec.count /\ rec'.unlinked = rec.unlinked
        /\ rec'.protect = rec.protect
    BY <1>3, <1>6 DEF RecType
  <2>3. Near(rec.protect)' /\ Limit' = Limit /\ Limit \in Nat
    BY <1>2, <2>2, VisitingIs DEF Near, Limit
  <2>4. ASSUME NEW w \in Tokens, Member(w), NEW f \in Fields
        PROVE  (Pending(w, f)' <=> Pending(w, f)) /\ (Unsure(w, f)' <=> Unsure(w, f))
    <3>1. w # u BY <1>6, <2>4 DEF Member
    <3>2. Pending(w, f)' <=> Pending(w, f) BY <1>1, <1>2, <1>6, <2>2, <3>1 DEF Pending
    <3> QED BY <1>1, <1>2, <1>6, <2>2, <3>2 DEF Unsure
  <2>5. ASSUME NEW w \in Tokens, Member(w), NEW f \in Fields
        PROVE  /\ Pending(w, f)' => Pending(w, f)
               /\ ~Pending(w, f)' => ~Pending(w, f) \/ Limit' <= First(haz[w][f])
               /\ pc[w] \in Walking /\ Field(w) = f /\ ~Unsure(w, f)' =>
                     ~Unsure(w, f) \/ Limit' <= Search(w) \/ (Pending(w, f) /\ Limit' <= First(haz[w][f]))
    BY <2>4, <2>5
  <2>6. Limit' <= Limit /\ "advance" \notin {"visit_read", "swap", "revalidate"} BY <2>3
  <2> QED BY <1>1, <1>2, <2>1, <2>2, <2>3, <2>5, <2>6, VisitStep
<1> QED BY <1>4, <1>5, <1>6

\* try_advance_hazptr_block(): the read block of a hazard pointer.
LEMMA VisitReadKeeps ==
  ASSUME Running, NEW t \in Tokens, VisitRead(t)
  PROVE  Running'
<1> HIDE DEF Running
<1>1. pc[t] = "visit_read" /\ UNCHANGED <<queue, counters, heads, lock, haz, op, clients>>
      /\ Visit(t, rec.at, "read_block")
  BY DEF VisitRead
<1>2. lock = t /\ pc[t] \in Visiting
  <2>1. pc[t] \in Reclaiming /\ pc[t] \in Visiting BY <1>1 DEF Visiting, Reclaiming
  <2> QED BY <2>1, Parts DEF Control
<1>3. PICK u \in Tokens : u = rec.at BY <1>1, <1>2, VisitingIs
<1>4. Visit(t, u, "read_block") /\ "read_block" \in Fields BY <1>1, <1>3 DEF Fields
<1> QED BY <1>1, <1>3, <1>4, VisitKeeps

\* The lesser of what is protected and another offset.
LEMMA LeastIs ==
  ASSUME NEW x \in Word, NEW y \in Word, Near(x), Near(y)
  PROVE  /\ KeepMin(x, y) \in Word /\ Near(KeepMin(x, y)) /\ Pos(KeepMin(x, y)) \in Nat
         /\ Pos(KeepMin(x, y)) <= Pos(x) /\ Pos(KeepMin(x, y)) <= Pos(y)
<1>1. CircularLess(y, x) <=> Pos(y) < Pos(x) BY PosLess DEF Near
<1>2. Pos(x) \in Nat /\ Pos(y) \in Nat BY PosIs
<1>3. CASE CircularLess(y, x) BY <1>1, <1>2, <1>3 DEF KeepMin
<1>4. CASE ~CircularLess(y, x) BY <1>1, <1>2, <1>4 DEF KeepMin
<1> QED BY <1>3, <1>4

\* try_advance_hazptr_block(): active_offset again, after the block was moved ahead.
LEMMA RevalidateHazardKeeps ==
  ASSUME Running, NEW t \in Tokens, RevalidateHazard(t)
  PROVE  Running'
<1> HIDE DEF Running
<1>1. /\ pc[t] = "revalidate" /\ UNCHANGED <<queue, counters, heads, lock, haz, op, clients>>
      /\ rec' = [rec EXCEPT !.protect = KeepMin(rec.protect, haz[rec.at].active_offset)]
  BY DEF RevalidateHazard, Revalidated
<1>2. PICK p \in {"visit_read", "advance"} : /\ p = IF rec.field = "write_block" THEN "visit_read" ELSE "advance"
                                            /\ pc' = [pc EXCEPT ![t] = p]
  BY DEF RevalidateHazard, GoTo
<1>3. lock = t /\ lock' = t /\ haz' = haz /\ pc[t] \in Visiting /\ pc \in [Tokens -> Places]
  <2>1. pc[t] \in Reclaiming /\ pc[t] \in Visiting BY <1>1 DEF Visiting, Reclaiming
  <2> QED BY <1>1, <2>1, Parts DEF Control, Running
<1>4. rec \in RecType /\ rec.protect \in Word /\ rec.field \in Fields
  BY <1>3, Holding DEF RecType, Fields
<1>5. Near(rec.protect) /\ Limit \in Nat /\ rec.at \in Tokens /\ rec.at \notin rec.todo
      /\ Near(haz[rec.at].active_offset)
  BY <1>1, <1>3, VisitingIs
<1>6. PICK a \in Word : a = haz[rec.at].active_offset /\ Near(a) BY <1>5, Types DEF Running
<1>7. PICK x \in Word : x = KeepMin(rec.protect, a) /\ Near(x) /\ Pos(x) <= Pos(rec.protect) /\ Pos(x) <= Pos(a)
                        /\ Pos(x) \in Nat
  BY <1>4, <1>5, <1>6, LeastIs
<1>8. rec' = [rec EXCEPT !.protect = x] BY <1>1, <1>6, <1>7
<1>9. /\ rec' \in RecType /\ rec'.at = rec.at /\ rec'.field = rec.field /\ rec'.todo = rec.todo
      /\ rec'.old = rec.old /\ rec'.new = rec.new /\ rec'.count = rec.count /\ rec'.unlinked = rec.unlinked
      /\ rec'.protect = x
  BY <1>4, <1>8 DEF RecType
<1>10. Near(rec.protect)' /\ Limit' <= Limit /\ Limit' <= Active(rec.at) /\ Limit' \in Nat
  BY <1>6, <1>7, <1>9 DEF Near, Limit, Active
<1>11. pc'[t] = p /\ p \in Visiting /\ p # "swap" /\ p # "revalidate"
       /\ rec'.at \in Tokens /\ rec'.at \notin rec'.todo
  BY <1>2, <1>3, <1>5, <1>9 DEF Visiting
<1>12. \A w : \A f \in Fields : /\ Pending(w, f)' <=> Pending(w, f)
                                /\ Unsure(w, f)' <=> Pending(w, f)
                                /\ Unsure(w, f) => Pending(w, f) \/ w = rec.at
  <2> SUFFICES ASSUME NEW w, NEW f \in Fields
               PROVE  /\ Pending(w, f)' <=> Pending(w, f)
                      /\ Unsure(w, f)' <=> Pending(w, f)
                      /\ Unsure(w, f) => Pending(w, f) \/ w = rec.at
    OBVIOUS
  <2>1. Pending(w, f)' <=> Pending(w, f)
    BY <1>1, <1>2, <1>3, <1>4, <1>9, <1>11 DEF Pending, Fields
  <2> QED BY <1>3, <1>11, <2>1 DEF Unsure
<1>13. ASSUME NEW w \in Tokens, Member(w), NEW f \in Fields
       PROVE  /\ Pending(w, f)' => Pending(w, f)
              /\ ~Pending(w, f)' => ~Pending(w, f) \/ Limit' <= First(haz[w][f])
              /\ pc[w] \in Walking /\ Field(w) = f /\ ~Unsure(w, f)' =>
                    ~Unsure(w, f) \/ Limit' <= Search(w) \/ (Pending(w, f) /\ Limit' <= First(haz[w][f]))
  <2>1. w = rec.at /\ pc[w] \in Walking => Limit' <= Search(w)
    <3>1. pc[w] \in Walking => Active(w) <= Search(w) /\ Active(w) \in Nat /\ Search(w) \in Nat
      BY Parts DEF Uses
    <3> QED BY <1>10, <3>1
  <2>2. /\ Pending(w, f)' <=> Pending(w, f)
        /\ Unsure(w, f)' <=> Pending(w, f)
        /\ Unsure(w, f) => Pending(w, f) \/ w = rec.at
    BY <1>12
  <2> QED BY <2>1, <2>2
<1> QED BY <1>1, <1>2, <1>3, <1>9, <1>10, <1>11, <1>13, VisitStep

\* The exchange fails: the owner freed the hazard pointer, or moved it.
LEMMA SwapFailsKeeps ==
  ASSUME Running, NEW t \in Tokens, SwapHazPtr(t), haz[rec.at][rec.field] # rec.expected
  PROVE  Running'
<1> HIDE DEF Running
<1>1. /\ pc[t] = "swap" /\ UNCHANGED <<queue, counters, heads, lock, haz, op, clients>>
  BY DEF SwapHazPtr
<1>2. lock = t /\ lock' = t /\ haz' = haz /\ pc[t] \in Visiting /\ pc \in [Tokens -> Places]
  <2>1. pc[t] \in Reclaiming /\ pc[t] \in Visiting BY <1>1 DEF Visiting, Reclaiming
  <2> QED BY <1>1, <2>1, Parts DEF Control, Running
<1>3. rec \in RecType /\ rec.protect \in Word /\ rec.field \in Fields
  BY <1>2, Holding DEF RecType, Fields
<1>4. Near(rec.protect) /\ Limit \in Nat /\ rec.at \in Tokens /\ rec.at \notin rec.todo
      /\ Near(haz[rec.at].active_offset)
  BY <1>1, <1>2, VisitingIs
<1>5. PICK b : b = haz[rec.at][rec.field] OBVIOUS
<1>6. CASE b = Null
  <2>1. PICK p \in {"visit_read", "advance"} : /\ p = IF rec.field = "write_block" THEN "visit_read" ELSE "advance"
                                               /\ pc' = [pc EXCEPT ![t] = p] /\ rec' = rec
    BY <1>5, <1>6 DEF SwapHazPtr, GoTo
  <2>2. pc'[t] = p /\ p \in Visiting /\ p # "swap" /\ p # "revalidate"
    BY <1>2, <2>1 DEF Visiting
  <2>3. Near(rec.protect)' /\ Limit' = Limit BY <1>4, <2>1 DEF Near, Limit
  <2>4. ~Member(rec.at)
    <3>1. Null \notin blocks BY Fixed DEF Block, Null
    <3> QED BY <1>3, <1>4, <1>5, <1>6, <3>1, Members
  <2>5. \A w : \A f \in Fields : w # rec.at =>
              (Pending(w, f)' <=> Pending(w, f)) /\ (Unsure(w, f)' <=> Unsure(w, f))
    BY <2>1 DEF Pending, Unsure
  <2>6. ASSUME NEW w \in Tokens, Member(w), NEW f \in Fields
        PROVE  /\ Pending(w, f)' => Pending(w, f)
               /\ ~Pending(w, f)' => ~Pending(w, f) \/ Limit' <= First(haz[w][f])
               /\ pc[w] \in Walking /\ Field(w) = f /\ ~Unsure(w, f)' =>
                     ~Unsure(w, f) \/ Limit' <= Search(w) \/ (Pending(w, f) /\ Limit' <= First(haz[w][f]))
    <3>1. w # rec.at BY <2>4, <2>6
    <3> QED BY <2>5, <3>1
  <2>7. Limit' <= Limit /\ rec' \in RecType /\ rec'.at \in Tokens /\ rec'.at \notin rec'.todo
        /\ rec'.old = rec.old /\ rec'.new = rec.new /\ rec'.count = rec.count /\ rec'.unlinked = rec.unlinked
    BY <1>3, <1>4, <2>1, <2>3
  <2> QED BY <1>1, <1>2, <2>1, <2>2, <2>3, <2>6, <2>7, VisitStep
<1>7. CASE b # Null
  <2>1. b \in blocks /\ 2 * First(b) < WordMod
    <3>1. b \in blocks BY <1>3, <1>4, <1>5, <1>7, Parts DEF Has
    <3> QED BY <3>1, Bounds
  <2>2. PICK y \in Word : y = offset[b] /\ Pos(y) = First(b) /\ Near(y)
    <3>1. offset[b] \in Word BY <2>1, Types, Fixed DEF Running
    <3> QED BY <2>1, <3>1 DEF First, Near
  <2>3. PICK x \in Word : x = KeepMin(rec.protect, y) /\ Near(x) /\ Pos(x) <= Pos(rec.protect) /\ Pos(x) <= Pos(y)
                          /\ Pos(x) \in Nat
    BY <1>3, <1>4, <2>2, LeastIs
  <2>4. rec' = [rec EXCEPT !.protect = x] /\ pc' = [pc EXCEPT ![t] = "revalidate"]
    BY <1>5, <1>7, <2>2, <2>3 DEF SwapHazPtr, GoTo
  <2>5. /\ rec' \in RecType /\ rec'.at = rec.at /\ rec'.field = rec.field /\ rec'.todo = rec.todo
        /\ rec'.old = rec.old /\ rec'.new = rec.new /\ rec'.count = rec.count /\ rec'.unlinked = rec.unlinked
        /\ rec'.protect = x
    BY <1>3, <2>4 DEF RecType
  <2>6. Near(rec.protect)' /\ Limit' <= Limit /\ Limit' <= First(b) /\ Limit' \in Nat
    BY <2>2, <2>3, <2>5 DEF Near, Limit
  <2>7. pc'[t] = "revalidate" /\ "revalidate" \in Visiting
        /\ rec'.at \in Tokens /\ rec'.at \notin rec'.todo /\ Near(haz[rec'.at].active_offset)
    BY <1>2, <1>4, <2>4, <2>5 DEF Visiting
  <2>8. \A w : \A f \in Fields : /\ Unsure(w, f)' <=> Pending(w, f)
                                 /\ Unsure(w, f) <=> Pending(w, f)
                                 /\ Pending(w, f)' => Pending(w, f)
                                 /\ ~Pending(w, f)' => ~Pending(w, f) \/ (w = rec.at /\ f = rec.field)
    <3> SUFFICES ASSUME NEW w, NEW f \in Fields
                 PROVE  /\ Unsure(w, f)' <=> Pending(w, f)
                        /\ Unsure(w, f) <=> Pending(w, f)
                        /\ Pending(w, f)' => Pending(w, f)
                        /\ ~Pending(w, f)' => ~Pending(w, f) \/ (w = rec.at /\ f = rec.field)
      OBVIOUS
    <3>1. Pending(w, f)' <=> \/ w \in rec.todo
                             \/ w = rec.at /\ rec.field = "write_block" /\ f = "read_block"
      BY <1>2, <2>5, <2>7 DEF Pending
    <3>2. Pending(w, f) <=> \/ w \in rec.todo
                            \/ w = rec.at /\ rec.field = "write_block" /\ f = "read_block"
                            \/ w = rec.at /\ rec.field = f
      BY <1>1, <1>2 DEF Pending
    <3>3. Unsure(w, f)' <=> Pending(w, f)' \/ (w = rec.at /\ rec.field = f)
      BY <1>2, <2>5, <2>7 DEF Unsure
    <3>4. Unsure(w, f) <=> Pending(w, f) BY <1>1, <1>2 DEF Unsure
    <3> QED BY <3>1, <3>2, <3>3, <3>4
  <2>9. ASSUME NEW w \in Tokens, Member(w), NEW f \in Fields
        PROVE  /\ Pending(w, f)' => Pending(w, f)
               /\ ~Pending(w, f)' => ~Pending(w, f) \/ Limit' <= First(haz[w][f])
               /\ pc[w] \in Walking /\ Field(w) = f /\ ~Unsure(w, f)' =>
                     ~Unsure(w, f) \/ Limit' <= Search(w) \/ (Pending(w, f) /\ Limit' <= First(haz[w][f]))
    <3>1. w = rec.at /\ f = rec.field => Limit' <= First(haz[w][f]) BY <1>5, <2>6
    <3>2. /\ Unsure(w, f)' <=> Pending(w, f)
          /\ Unsure(w, f) <=> Pending(w, f)
          /\ Pending(w, f)' => Pending(w, f)
          /\ ~Pending(w, f)' => ~Pending(w, f) \/ (w = rec.at /\ f = rec.field)
      BY <2>8
    <3> QED BY <3>1, <3>2
  <2> QED BY <1>1, <1>2, <2>4, <2>5, <2>6, <2>7, <2>9, VisitStep
<1> QED BY <1>6, <1>7

\* What a token is to others while the reclaimer moves its blocks.
LEMMA Alike ==
  ASSUME NEW u, op'[u] = op[u], pc'[u] = pc[u] \/ (pc[u] \in Visiting /\ pc'[u] \in Visiting),
         haz'[u].owned = haz[u].owned, haz'[u].active_offset = haz[u].active_offset
  PROVE  /\ Begin(u)' = Begin(u) /\ Finish(u)' = Finish(u) /\ Ahead(u)' = Ahead(u)
         /\ Search(u)' = Search(u) /\ Active(u)' = Active(u) /\ LastPos(u)' = LastPos(u)
         /\ Field(u)' = Field(u) /\ Posting(u)' = Posting(u)
         /\ Sender(u)' = Sender(u) /\ Drawn(u)' = Drawn(u) /\ Reclaimer(u)' = Reclaimer(u)
         /\ Reader(u)' = Reader(u) /\ Unaware(u)' = Unaware(u) /\ Member(u)' = Member(u)
         /\ Named(u)' = Named(u)
         /\ \A m : /\ Owns(u, m)' = Owns(u, m) /\ Takes(u, m)' = Takes(u, m)
                   /\ Suspended(u, m)' = Suspended(u, m) /\ Swept(u, m)' = Swept(u, m)
                   /\ Wakes(u, m)' = Wakes(u, m)
<1>1. CASE pc'[u] = pc[u]
  <2>1. /\ Begin(u)' = Begin(u) /\ Search(u)' = Search(u) /\ Active(u)' = Active(u)
        /\ Posting(u)' = Posting(u) /\ Reclaimer(u)' = Reclaimer(u)
    BY <1>1 DEF Begin, Search, Active, Posting, Reclaimer
  <2>2. /\ Finish(u)' = Finish(u) /\ Ahead(u)' = Ahead(u) /\ Field(u)' = Field(u)
    BY <1>1, <2>1 DEF Finish, Ahead, Field
  <2>3. LastPos(u)' = LastPos(u) BY <1>1, <2>1, <2>2 DEF LastPos
  <2>4. Drawn(u)' = Drawn(u) /\ Sender(u)' = Sender(u) /\ Member(u)' = Member(u)
    BY <1>1, <2>1 DEF Drawn, Sender, Member
  <2>5. Reader(u)' = Reader(u) /\ Unaware(u)' = Unaware(u) /\ Named(u)' = Named(u)
    BY <1>1, <2>1, <2>4 DEF Reader, Unaware, Named
  <2>6. ASSUME NEW m
        PROVE  /\ Owns(u, m)' = Owns(u, m) /\ Takes(u, m)' = Takes(u, m)
               /\ Suspended(u, m)' = Suspended(u, m) /\ Swept(u, m)' = Swept(u, m)
               /\ Wakes(u, m)' = Wakes(u, m)
    BY <1>1, <2>1, <2>2, <2>4, <2>5 DEF Owns, Takes, Suspended, Swept, Wakes
  <2> QED BY <2>1, <2>2, <2>3, <2>4, <2>5, <2>6
<1>2. CASE pc[u] \in Visiting /\ pc'[u] \in Visiting
  <2>1. /\ Begin(u)' = Begin(u) /\ Search(u)' = Search(u) /\ Active(u)' = Active(u)
        /\ Posting(u)' = Posting(u) /\ Reclaimer(u)' = Reclaimer(u)
    BY <1>2 DEF Begin, Search, Active, Posting, Reclaimer, Reclaiming
  <2>2. /\ Finish(u)' = Finish(u) /\ Ahead(u)' = Ahead(u) /\ Field(u)' = Field(u)
    BY <1>2, <2>1 DEF Finish, Ahead, Field, Visiting
  <2>3. LastPos(u)' = LastPos(u) BY <2>1, <2>2 DEF LastPos
  <2>4. Drawn(u)' = Drawn(u)
    BY <1>2, <2>1 DEF Drawn, Visiting, Walking, Writing, Polling, Reading
  <2>5. Sender(u)' = Sender(u) /\ Member(u)' = Member(u)
    BY <1>2, <2>1 DEF Sender, Member, Visiting, Walking, Writing, Uncounted
  <2>6. Reader(u)' = Reader(u) /\ Unaware(u)' = Unaware(u)
    BY <1>2, <2>1, <2>4 DEF Reader, Unaware, Visiting
  <2>7. Named(u)' = Named(u)
    BY <1>2 DEF Named, Visiting, Acquiring, Polling, Closing, Sweeping, Reclaiming
  <2>8. ASSUME NEW m
        PROVE  /\ Owns(u, m)' = Owns(u, m) /\ Takes(u, m)' = Takes(u, m)
               /\ Suspended(u, m)' = Suspended(u, m) /\ Swept(u, m)' = Swept(u, m)
               /\ Wakes(u, m)' = Wakes(u, m)
    <3>1. Owns(u, m)' = Owns(u, m) /\ Takes(u, m)' = Takes(u, m)
      BY <2>1, <2>2, <2>5, <2>6 DEF Owns, Takes
    <3>2. ~Suspended(u, m)' /\ ~Suspended(u, m) /\ ~Swept(u, m)' /\ ~Swept(u, m)
          /\ ~Wakes(u, m)' /\ ~Wakes(u, m)
      BY <1>2 DEF Suspended, Swept, Wakes, Visiting, Sweeping
    <3> QED BY <3>1, <3>2, <1>2 DEF Suspended, Swept, Wakes, Visiting, Sweeping
  <2> QED BY <2>1, <2>2, <2>3, <2>4, <2>5, <2>6, <2>7, <2>8
<1> QED BY <1>1, <1>2

\* The exchange succeeds: what it changes.
LEMMA SwapIs ==
  ASSUME Running, NEW t \in Tokens, SwapHazPtr(t), haz[rec.at][rec.field] = rec.expected
  PROVE  /\ pc[t] = "swap" /\ lock = t /\ UNCHANGED <<queue, counters, heads, lock, rec, op, clients>>
         /\ pc' \in [Tokens -> Places] /\ haz' \in [Tokens -> HazType] /\ pc'[t] = "revalidate"
         /\ \A w \in Tokens \ {t} : pc'[w] = pc[w]
         /\ \A w \in Tokens : /\ haz'[w].owned = haz[w].owned /\ haz'[w].active_offset = haz[w].active_offset
                              /\ haz'[w].next_protect_write = haz[w].next_protect_write
                              /\ haz'[w].next_protect_read = haz[w].next_protect_read
         /\ \A w \in Tokens : \A f \in Fields :
               \/ haz'[w][f] = haz[w][f] /\ (w # rec.at \/ f # rec.field)
               \/ /\ w = rec.at /\ f = rec.field /\ haz'[w][f] = rec.new
                  /\ haz[w][f] \in blocks /\ First(haz[w][f]) < First(rec.new)
<1> HIDE DEF Running
<1>1. /\ pc[t] = "swap" /\ UNCHANGED <<queue, counters, heads, lock, rec, op, clients>>
      /\ haz' = [haz EXCEPT ![rec.at][rec.field] = rec.new] /\ pc' = [pc EXCEPT ![t] = "revalidate"]
  BY DEF SwapHazPtr, GoTo
<1>2. lock = t /\ pc[t] \in Visiting /\ pc \in [Tokens -> Places]
  <2>1. pc[t] \in Reclaiming /\ pc[t] \in Visiting BY <1>1 DEF Visiting, Reclaiming
  <2> QED BY <2>1, Parts DEF Control, Running
<1>3. rec.new \in Block /\ rec.expected \in blocks /\ First(rec.expected) < First(rec.new) /\ rec.at \in Tokens
  BY <1>1, <1>2, VisitingIs
<1>4. rec.field \in Fields /\ "revalidate" \in Places /\ haz \in [Tokens -> HazType]
  BY <1>2, Holding DEF RecType, Fields, Places, Reclaiming, Visiting, Running, TypeOK
<1>5. PICK u \in Tokens, g \in Fields, n \in Block : u = rec.at /\ g = rec.field /\ n = rec.new
  BY <1>3, <1>4
<1>6. haz' = [haz EXCEPT ![u][g] = n] BY <1>1, <1>5
<1>7. PICK h \in HazType : h = haz[u] /\ [h EXCEPT ![g] = n] \in HazType /\ haz' = [haz EXCEPT ![u] = [h EXCEPT ![g] = n]]
  <2>1. haz[u] \in HazType BY <1>4
  <2>2. [haz[u] EXCEPT ![g] = n] \in HazType
    <3>1. CASE g = "write_block" BY <2>1, <3>1 DEF HazType
    <3>2. CASE g = "read_block" BY <2>1, <3>2 DEF HazType
    <3> QED BY <3>1, <3>2 DEF Fields
  <2> QED BY <1>6, <2>1, <2>2
<1>8. haz' \in [Tokens -> HazType] /\ haz'[u] = [h EXCEPT ![g] = n] /\ \A w \in Tokens \ {u} : haz'[w] = haz[w]
  BY <1>4, <1>7
<1>9. /\ haz'[u].owned = h.owned /\ haz'[u].active_offset = h.active_offset
      /\ haz'[u].next_protect_write = h.next_protect_write /\ haz'[u].next_protect_read = h.next_protect_read
      /\ haz'[u][g] = n /\ \A f \in Fields : f # g => haz'[u][f] = h[f]
  <2>1. CASE g = "write_block" BY <1>7, <1>8, <2>1 DEF HazType, Fields
  <2>2. CASE g = "read_block" BY <1>7, <1>8, <2>2 DEF HazType, Fields
  <2> QED BY <2>1, <2>2 DEF Fields
<1>10. \A w \in Tokens : /\ haz'[w].owned = haz[w].owned /\ haz'[w].active_offset = haz[w].active_offset
                         /\ haz'[w].next_protect_write = haz[w].next_protect_write
                         /\ haz'[w].next_protect_read = haz[w].next_protect_read
  BY <1>7, <1>8, <1>9
<1>11. ASSUME NEW w \in Tokens, NEW f \in Fields
       PROVE  \/ haz'[w][f] = haz[w][f] /\ (w # rec.at \/ f # rec.field)
              \/ /\ w = rec.at /\ f = rec.field /\ haz'[w][f] = rec.new
                 /\ haz[w][f] \in blocks /\ First(haz[w][f]) < First(rec.new)
  <2>1. CASE w = u /\ f = g
    <3>1. haz[w][f] = rec.expected BY <1>5, <2>1
    <3> QED BY <1>3, <1>5, <1>9, <2>1, <3>1
  <2>2. CASE ~(w = u /\ f = g) BY <1>5, <1>7, <1>8, <1>9, <2>2
  <2> QED BY <2>1, <2>2
<1>12. pc' \in [Tokens -> Places] /\ pc'[t] = "revalidate" /\ \A w \in Tokens \ {t} : pc'[w] = pc[w]
  BY <1>1, <1>2, <1>4
<1> QED BY <1>1, <1>2, <1>8, <1>10, <1>11, <1>12

\* What an exchange of a block of a hazard pointer leaves alone.
LEMMA SwapFrame ==
  ASSUME Running, NEW t \in Tokens, SwapHazPtr(t), haz[rec.at][rec.field] = rec.expected
  PROVE  /\ \A places : (At(places)' <=> "revalidate" \in places) /\ (At(places) <=> "swap" \in places)
         /\ \A b : First(b)' = First(b)
         /\ \A m : Reaches(m)' = Reaches(m)
         /\ blocks' = blocks /\ OnList' = OnList /\ ListHead' = ListHead /\ Lowest' = Lowest
         /\ lock' = t /\ rec' = rec /\ op' = op /\ head_block' = head_block /\ closed' = closed /\ flags' = flags
         /\ reclaim_counter' = reclaim_counter /\ haz_ptr_counter' = haz_ptr_counter
         /\ Sold' = Sold /\ Turn' = Turn /\ Cut' = Cut /\ CutDrawn' = CutDrawn
         /\ \A m \in Nat : Done(m)' = Done(m)
         /\ Only(Tokens) /\ Seen(Tokens) /\ SendersApart' /\ ReadersApart'
         /\ \A w \in Tokens : op'[w] = op[w] /\ (pc'[w] = pc[w] \/ (pc[w] \in Visiting /\ pc'[w] \in Visiting))
<1> HIDE DEF Running
<1>1. /\ pc[t] = "swap" /\ lock = t /\ UNCHANGED <<queue, counters, heads, lock, rec, op, clients>>
      /\ pc'[t] = "revalidate" /\ (\A w \in Tokens \ {t} : pc'[w] = pc[w])
      /\ \A w \in Tokens : haz'[w].owned = haz[w].owned /\ haz'[w].active_offset = haz[w].active_offset
  BY SwapIs
<1>2. /\ blocks' = blocks /\ offset' = offset /\ flags' = flags /\ closed' = closed /\ write_closed_at' = write_closed_at
      /\ write_offset' = write_offset /\ read_offset' = read_offset /\ head_block' = head_block /\ lock' = t
      /\ reclaim_counter' = reclaim_counter /\ haz_ptr_counter' = haz_ptr_counter /\ rec' = rec /\ op' = op
  BY <1>1 DEF queue, list, elements, offsets, cutoff, counters, heads
<1>3. \A places : (At(places)' <=> "revalidate" \in places) /\ (At(places) <=> "swap" \in places)
  BY <1>1, <1>2, TokenAssumption DEF At
<1>4. \A b : First(b)' = First(b) BY <1>2 DEF First
<1>5. \A m : Reaches(m)' = Reaches(m) BY <1>2, <1>4 DEF Reaches
<1>6. ListHead' = ListHead /\ Lowest' = Lowest
  <2>1. ListHead = head_block /\ ListHead' = head_block
    <3>1. ~At({"announce", "validate", "rollback"}) /\ ~At({"announce", "validate", "rollback"})'
      BY <1>3
    <3> QED BY <1>2, <3>1 DEF ListHead, At
  <2> QED BY <1>3, <2>1 DEF Lowest, Moves
<1>7. OnList' = OnList
  <2>1. First(ListHead)' = First(ListHead) BY <1>2, <1>6 DEF First
  <2> QED BY <1>2, <1>4, <2>1 DEF OnList
<1>8. Sold' = Sold /\ Turn' = Turn /\ CutDrawn' = CutDrawn /\ Cut' = Cut
  <2>1. ~At({"publish"}) /\ ~At({"publish"})' BY <1>3
  <2> QED BY <1>2, <2>1 DEF Sold, Turn, CutDrawn, Cut
<1>9. \A w \in Tokens : op'[w] = op[w] /\ (pc'[w] = pc[w] \/ (pc[w] \in Visiting /\ pc'[w] \in Visiting))
  BY <1>1, <1>2 DEF Visiting
<1>10. Seen(Tokens)
  <2>1. \A w \in Tokens :
           /\ Begin(w)' = Begin(w) /\ Sender(w)' = Sender(w) /\ Reader(w)' = Reader(w)
           /\ \A m : /\ Owns(w, m)' = Owns(w, m) /\ Takes(w, m)' = Takes(w, m)
                     /\ Suspended(w, m)' = Suspended(w, m) /\ Swept(w, m)' = Swept(w, m)
                     /\ Wakes(w, m)' = Wakes(w, m)
    BY <1>1, <1>9, Alike
  <2> QED BY <1>9, <2>1 DEF Seen
<1>11. Only(Tokens) /\ Tokens \in SUBSET Tokens BY DEF Only
<1>12. SendersApart /\ ReadersApart BY DEF Running
<1> QED BY <1>1, <1>2, <1>3, <1>4, <1>5, <1>6, <1>7, <1>8, <1>9, <1>10, <1>11, <1>12, ViewsKeep

\* After the exchange, everybody is met as before.
LEMMA SwapMet ==
  ASSUME Running, NEW t \in Tokens, SwapHazPtr(t), haz[rec.at][rec.field] = rec.expected, NEW w \in Tokens
  PROVE  Met(w)'
<1> HIDE DEF Running
<1>1. /\ pc[t] = "swap" /\ lock = t /\ pc[t] \in Visiting /\ pc'[t] = "revalidate"
      /\ haz'[w].owned = haz[w].owned /\ haz'[w].active_offset = haz[w].active_offset
  BY SwapIs DEF Visiting
<1>2. /\ \A places : (At(places)' <=> "revalidate" \in places) /\ (At(places) <=> "swap" \in places)
      /\ \A b : First(b)' = First(b)
      /\ lock' = t /\ rec' = rec /\ haz_ptr_counter' = haz_ptr_counter
      /\ op'[w] = op[w] /\ (pc'[w] = pc[w] \/ (pc[w] \in Visiting /\ pc'[w] \in Visiting))
  BY SwapFrame
<1>3. /\ Begin(w)' = Begin(w) /\ Search(w)' = Search(w) /\ Active(w)' = Active(w) /\ Field(w)' = Field(w)
      /\ Drawn(w)' = Drawn(w) /\ Member(w)' = Member(w)
  BY <1>1, <1>2, Alike
<1>4. /\ First(rec.new) \in Nat /\ Limit \in Nat /\ Limit <= First(rec.new)
      /\ Drawn(w) => First(rec.new) <= Base(Begin(w))
      /\ Member(w) /\ NobodyCame => \A f \in Fields : Visited(w, f)
      /\ Near(haz[rec.at].active_offset)
  BY <1>1, VisitingIs
<1>5. PICK n : n = rec.new OBVIOUS
<1>6. First(rec.new)' = First(n) /\ Limit' = Limit /\ (NobodyCame' <=> NobodyCame) /\ First(n) = First(rec.new)
  BY <1>2, <1>5 DEF Limit, NobodyCame, First
<1>7. ASSUME NEW f \in Fields, Visited(w, f)
      PROVE  Visited(w, f)'
  <2>1. /\ Pending(w, f)' <=> \/ w \in rec.todo
                              \/ w = rec.at /\ rec.field = "write_block" /\ f = "read_block"
        /\ Pending(w, f) <=> \/ w \in rec.todo
                             \/ w = rec.at /\ rec.field = "write_block" /\ f = "read_block"
                             \/ w = rec.at /\ rec.field = f
        /\ Unsure(w, f)' <=> Pending(w, f)' \/ (w = rec.at /\ rec.field = f)
        /\ Unsure(w, f) <=> Pending(w, f)
    BY <1>1, <1>2 DEF Pending, Unsure
  <2>2. pc'[w] \in Walking <=> pc[w] \in Walking BY <1>2 DEF Visiting, Walking
  <2>3. CASE haz'[w][f] = haz[w][f] /\ (w # rec.at \/ f # rec.field)
    <3>1. First(haz[w][f])' = First(haz[w][f]) BY <1>2, <2>3 DEF First
    <3>2. (Pending(w, f)' <=> Pending(w, f)) /\ (Unsure(w, f)' <=> Unsure(w, f)) BY <2>1, <2>3
    <3>3. /\ ~Pending(w, f) => Limit <= First(haz[w][f])
          /\ pc[w] \in Walking /\ Field(w) = f =>
                /\ Pending(w, f) => Limit <= Search(w) \/ Search(w) = First(haz[w][f])
                /\ ~Unsure(w, f) => Limit <= Search(w)
      BY <1>7 DEF Visited
    <3>4. /\ ~Pending(w, f)' => Limit' <= First(haz[w][f])'
          /\ pc'[w] \in Walking /\ Field(w)' = f =>
                /\ Pending(w, f)' => Limit' <= Search(w)' \/ Search(w)' = First(haz[w][f])'
                /\ ~Unsure(w, f)' => Limit' <= Search(w)'
      BY <1>3, <1>6, <2>2, <3>1, <3>2, <3>3
    <3> QED BY <3>4 DEF Visited
  <2>4. CASE w = rec.at /\ f = rec.field /\ haz'[w][f] = rec.new
    <3>1. First(haz[w][f])' = First(n) BY <1>2, <1>5, <2>4 DEF First
    <3>2. Unsure(w, f)' /\ (Pending(w, f)' => w \in rec.todo)
      <4>1. ~(rec.field = "write_block" /\ f = "read_block") BY <2>4
      <4> QED BY <2>1, <2>4, <4>1
    <3>3. rec.at \notin rec.todo BY <1>1, VisitingIs
    <3>4. Limit' <= First(haz[w][f])' /\ ~Pending(w, f)' /\ Unsure(w, f)'
      BY <1>4, <1>6, <2>4, <3>1, <3>2, <3>3
    <3> QED BY <3>4 DEF Visited
  <2> QED BY <2>3, <2>4, SwapIs
<1>8. At({"swap", "revalidate"})' /\ w = rec'.at => Near(haz[w].active_offset)'
  BY <1>1, <1>2, <1>4 DEF Near
<1>9. Drawn(w)' => First(rec.new)' <= Base(Begin(w)') BY <1>3, <1>4, <1>5, <1>6
<1>10. NobodyCame' /\ Member(w)' => \A f \in Fields : Visited(w, f)' BY <1>3, <1>4, <1>6, <1>7
<1> QED BY <1>2, <1>8, <1>9, <1>10 DEF Met, Announcing

\* After the exchange, every token is as it should be.
LEMMA SwapToken ==
  ASSUME Running, NEW t \in Tokens, SwapHazPtr(t), haz[rec.at][rec.field] = rec.expected, NEW w \in Tokens
  PROVE  Token(w)'
<1> HIDE DEF Running
<1>1. /\ pc[t] = "swap" /\ lock = t /\ pc[t] \in Visiting /\ pc'[t] = "revalidate"
      /\ haz'[w].owned = haz[w].owned /\ haz'[w].active_offset = haz[w].active_offset
      /\ haz'[w].next_protect_write = haz[w].next_protect_write
      /\ haz'[w].next_protect_read = haz[w].next_protect_read
      /\ \A f \in Fields :
               \/ haz'[w][f] = haz[w][f]
               \/ haz'[w][f] = rec.new /\ haz[w][f] \in blocks /\ First(haz[w][f]) < First(rec.new)
  BY SwapIs DEF Visiting
<1>2. /\ \A places : (At(places)' <=> "revalidate" \in places) /\ (At(places) <=> "swap" \in places)
      /\ \A b : First(b)' = First(b)
      /\ \A m : Reaches(m)' = Reaches(m)
      /\ blocks' = blocks /\ OnList' = OnList /\ ListHead' = ListHead
      /\ lock' = t /\ rec' = rec /\ op' = op /\ head_block' = head_block /\ closed' = closed /\ flags' = flags
      /\ reclaim_counter' = reclaim_counter
      /\ Sold' = Sold /\ Turn' = Turn /\ Cut' = Cut
      /\ \A m \in Nat : Done(m)' = Done(m)
      /\ \A v \in Tokens : op'[v] = op[v] /\ (pc'[v] = pc[v] \/ (pc[v] \in Visiting /\ pc'[v] \in Visiting))
      /\ SendersApart' /\ ReadersApart'
  BY SwapFrame
<1>3. /\ Begin(w)' = Begin(w) /\ Finish(w)' = Finish(w) /\ Search(w)' = Search(w) /\ Active(w)' = Active(w)
      /\ LastPos(w)' = LastPos(w) /\ Field(w)' = Field(w) /\ Posting(w)' = Posting(w)
      /\ Sender(w)' = Sender(w) /\ Drawn(w)' = Drawn(w) /\ Reclaimer(w)' = Reclaimer(w)
      /\ Reader(w)' = Reader(w) /\ Unaware(w)' = Unaware(w) /\ Named(w)' = Named(w)
  BY <1>1, <1>2, Alike
<1>4. \A v \in Tokens : \A m : Suspended(v, m)' = Suspended(v, m) /\ Swept(v, m)' = Swept(v, m)
  BY <1>2, SwapIs, Alike
<1>5. /\ rec.new \in OnList /\ rec.new \in blocks /\ First(rec.new) \in Nat /\ First(rec.new) <= Base(Sold)
      /\ First(rec.new) <= Turn /\ Sold \in Nat /\ Turn \in Nat
      /\ Drawn(w) => First(rec.new) <= Base(Begin(w))
  BY <1>1, VisitingIs
<1>6. /\ Control(w) /\ Post(w) /\ Pull(w) /\ Sought(w) /\ Parks(w) /\ Acquires(w) /\ Has(w) /\ Uses(w)
      /\ Begin(w) \in Nat
  BY Parts, Fixed
<1>7. PICK n : n = rec.new /\ n \in OnList /\ n \in blocks /\ First(n) = First(rec.new) /\ First(n) \in Nat
               /\ First(n) <= Sold /\ First(n) <= Turn
  <2>1. First(rec.new) <= Sold BY <1>5, BaseOf
  <2> QED BY <1>5, <2>1
<1>8. /\ op'[w] = op[w]
      /\ \A P : (pc[w] \in P /\ Visiting \cap P = {} => pc'[w] = pc[w])
                /\ (pc'[w] \in P /\ Visiting \cap P = {} => pc'[w] = pc[w])
  BY <1>2
<1>9. Control(w)'
  <2>1. lock' = w <=> lock = w BY <1>1, <1>2
  <2> QED BY <1>1, <1>2, <1>3, <1>6, <2>1 DEF Control, Visiting, Writing, Reclaiming, Closing, Sweeping
<1>10. Closer(w)'
  <2>1. pc'[w] \in Closing => pc'[w] = pc[w] /\ op'[w] = op[w]
    BY <1>2 DEF Visiting, Closing, Sweeping
  <2>2. {"load_readers", "publish"} \cup Sweeping \subseteq Closing BY DEF Closing
  <2>3. Closer(w) BY DEF Running, Token
  <2>4. First(op[w].walk)' = First(op[w].walk) /\ First(head_block)' = First(head_block)
    <3>1. PICK x, y : x = op[w].walk /\ y = head_block OBVIOUS
    <3> QED BY <1>2, <3>1 DEF First
  <2> QED BY <1>2, <1>3, <2>1, <2>2, <2>3, <2>4 DEF Closer, Sweeping
<1>11. Post(w)' /\ Pull(w)'
  <2>1. Post(w)' BY <1>2, <1>3, <1>6 DEF Post, Visiting, Writing
  <2>2. Done(Begin(w))' <=> Done(Begin(w))
    <3>1. PICK m : m = Begin(w) OBVIOUS
    <3>2. (Done(Begin(w))' <=> Done(m)') /\ (Done(Begin(w)) <=> Done(m)) BY <1>3, <3>1 DEF Done
    <3> QED BY <1>2, <1>6, <3>1, <3>2
  <2>3. Pull(w)' BY <1>2, <1>3, <1>6, <1>8, <2>2 DEF Pull, Visiting
  <2> QED BY <2>1, <2>3
<1>12. Sought(w)' /\ Parks(w)'
  <2>1. PICK m : m = Begin(w) OBVIOUS
  <2>2. \A v \in Tokens : Swept(v, Begin(w))' <=> Swept(v, Begin(w))
    <3>1. \A v \in Tokens : (Swept(v, Begin(w))' <=> Swept(v, m)') /\ (Swept(v, Begin(w)) <=> Swept(v, m))
      BY <1>3, <2>1 DEF Swept
    <3> QED BY <1>4, <3>1
  <2>3. Sought(w)' BY <1>2, <1>3, <1>6, <2>2 DEF Sought
  <2>4. Done(Begin(w))' <=> Done(Begin(w))
    <3>1. (Done(Begin(w))' <=> Done(m)') /\ (Done(Begin(w)) <=> Done(m)) BY <1>3, <2>1 DEF Done
    <3> QED BY <1>2, <1>6, <2>1, <3>1
  <2>5. \A v \in Tokens : (pc'[v] = "wake" <=> pc[v] = "wake") /\ Begin(v)' = Begin(v)
    BY <1>2 DEF Visiting, Begin
  <2>6. pc'[w] = "parked" => pc[w] = "parked" BY <1>2 DEF Visiting
  <2>7. pc'[w] = "parked" =>
          /\ flags'[op'[w].block][IndexOf(op'[w].idx)] = w
          /\ Done(Begin(w))' => \E u \in Tokens : pc'[u] = "wake" /\ Begin(u)' + op'[u].written = Begin(w)'
    BY <1>2, <1>3, <1>6, <2>4, <2>5, <2>6 DEF Parks
  <2>8. pc'[w] = "wake" => \E u \in Tokens : Suspended(u, Begin(w) + op[w].written)'
    <3>1. PICK k : k = Begin(w) + op[w].written OBVIOUS
    <3>2. \A u \in Tokens : (Suspended(u, Begin(w) + op[w].written)' <=> Suspended(u, k)')
                            /\ (Suspended(u, Begin(w) + op[w].written) <=> Suspended(u, k))
      BY <1>2, <1>3, <3>1 DEF Suspended
    <3> QED BY <1>4, <1>6, <2>5, <3>2 DEF Parks
  <2> QED BY <2>3, <2>7, <2>8 DEF Parks
<1>13. Acquires(w)'
  <2>1. Settled(w)' <=> Settled(w) BY <1>2 DEF Settled
  <2>2. \A b : Good(b)' <=> Good(b) BY <1>2 DEF Good
  <2>3. First(ListHead)' = First(ListHead) BY <1>2 DEF First
  <2>4. ASSUME pc'[w] \in {"load_head", "init"}
        PROVE  /\ Pos(op[w].boff)' <= First(ListHead)'
               /\ pc'[w] = "init" => op'[w].block \in blocks' /\ (Settled(w)' => Good(op[w].block)')
    <3>1. pc[w] = pc'[w] BY <1>2, <2>4 DEF Visiting
    <3>2. PICK b : b = op[w].block OBVIOUS
    <3>3. Good(op[w].block)' <=> Good(b)' BY <1>2, <3>2
    <3> QED BY <1>2, <1>6, <2>1, <2>2, <2>3, <2>4, <3>1, <3>2, <3>3 DEF Acquires
  <2>5. ASSUME pc'[w] \in {"count", "recheck"}
        PROVE  /\ {haz'[w].write_block, haz'[w].read_block} \subseteq blocks'
               /\ Settled(w)' =>
                   /\ Good(haz[w].write_block)' /\ Good(haz[w].read_block)'
                   /\ Pos(haz[w].next_protect_write)' <= First(haz[w].write_block)'
                   /\ Pos(haz[w].next_protect_read)' <= First(haz[w].read_block)'
    <3>1. pc[w] \in {"count", "recheck"} BY <1>2, <2>5 DEF Visiting
    <3>2. Good(n)
      <4>1. ~At({"validate"}) BY <1>2
      <4> QED BY <1>7, <4>1 DEF Good
    <3>3. /\ {haz[w].write_block, haz[w].read_block} \subseteq blocks
          /\ Settled(w) => /\ Good(haz[w].write_block) /\ Good(haz[w].read_block)
                           /\ Pos(haz[w].next_protect_write) <= First(haz[w].write_block)
                           /\ Pos(haz[w].next_protect_read) <= First(haz[w].read_block)
      BY <1>6, <3>1 DEF Acquires
    <3>4. /\ haz[w].next_protect_write \in Word /\ haz[w].next_protect_read \in Word
          /\ \A b \in blocks : First(b) \in Nat
      BY Types, Bounds DEF Running, Starts
    <3>5. Pos(haz[w].next_protect_write) \in Nat /\ Pos(haz[w].next_protect_read) \in Nat
      BY <3>4, PosIs
    <3>6. PICK x, y : x = haz'[w].write_block /\ y = haz'[w].read_block OBVIOUS
    <3>7. /\ x \in blocks /\ y \in blocks
          /\ Settled(w) => /\ Good(x) /\ Good(y)
                           /\ Pos(haz[w].next_protect_write) <= First(x)
                           /\ Pos(haz[w].next_protect_read) <= First(y)
      <4>1. x = haz[w].write_block \/ (x = n /\ haz[w].write_block \in blocks /\ First(haz[w].write_block) < First(n))
        BY <1>1, <1>7, <3>6 DEF Fields
      <4>2. y = haz[w].read_block \/ (y = n /\ haz[w].read_block \in blocks /\ First(haz[w].read_block) < First(n))
        BY <1>1, <1>7, <3>6 DEF Fields
      <4>3. x \in blocks /\ (Settled(w) => Good(x) /\ Pos(haz[w].next_protect_write) <= First(x))
        BY <1>7, <3>2, <3>3, <3>4, <3>5, <4>1
      <4>4. y \in blocks /\ (Settled(w) => Good(y) /\ Pos(haz[w].next_protect_read) <= First(y))
        BY <1>7, <3>2, <3>3, <3>4, <3>5, <4>2
      <4> QED BY <4>3, <4>4
    <3>8. /\ (Good(haz[w].write_block)' <=> Good(x)') /\ (Good(haz[w].read_block)' <=> Good(y)')
          /\ First(haz[w].write_block)' = First(x)' /\ First(haz[w].read_block)' = First(y)'
      BY <3>6
    <3>9. /\ Pos(haz[w].next_protect_write)' = Pos(haz[w].next_protect_write)
          /\ Pos(haz[w].next_protect_read)' = Pos(haz[w].next_protect_read)
      BY <1>1
    <3> QED BY <1>2, <2>1, <2>2, <3>6, <3>7, <3>8, <3>9
  <2> QED BY <2>4, <2>5 DEF Acquires
<1>14. Has(w)'
  <2>1. \A f \in Fields : haz'[w][f] # Null => haz'[w][f] \in blocks' /\ Near(haz[w].active_offset)'
    <3> SUFFICES ASSUME NEW f \in Fields, haz'[w][f] # Null
                 PROVE  haz'[w][f] \in blocks' /\ Near(haz[w].active_offset)'
      OBVIOUS
    <3>1. haz[w][f] # Null
      <4>1. Null \notin blocks BY Fixed DEF Block, Null
      <4> QED BY <1>1, <4>1
    <3>2. haz[w][f] \in blocks /\ Near(haz[w].active_offset) BY <1>6, <3>1 DEF Has
    <3> QED BY <1>1, <1>2, <1>5, <3>2 DEF Near
  <2>2. ASSUME Acquired(w)'
        PROVE  /\ {haz'[w].write_block, haz'[w].read_block} \subseteq OnList'
               /\ First(haz[w].write_block)' <= Sold' /\ First(haz[w].read_block)' <= Turn'
               /\ Pos(haz[w].next_protect_write)' <= First(haz[w].write_block)'
               /\ Pos(haz[w].next_protect_read)' <= First(haz[w].read_block)'
    <3>1. Acquired(w)
      <4>1. Settled(w)' <=> Settled(w) BY <1>2 DEF Settled
      <4> QED BY <1>1, <1>2, <2>2, <4>1 DEF Acquired, Visiting
    <3>2. /\ {haz[w].write_block, haz[w].read_block} \subseteq OnList
          /\ First(haz[w].write_block) <= Sold /\ First(haz[w].read_block) <= Turn
          /\ Pos(haz[w].next_protect_write) <= First(haz[w].write_block)
          /\ Pos(haz[w].next_protect_read) <= First(haz[w].read_block)
      BY <1>6, <3>1 DEF Has
    <3>3. /\ haz[w].next_protect_write \in Word /\ haz[w].next_protect_read \in Word
          /\ \A b \in blocks : First(b) \in Nat
      BY Types, Bounds DEF Running, Starts
    <3>4. Pos(haz[w].next_protect_write) \in Nat /\ Pos(haz[w].next_protect_read) \in Nat
      BY <3>3, PosIs
    <3>5. PICK x, y : x = haz'[w].write_block /\ y = haz'[w].read_block OBVIOUS
    <3>6. /\ x \in OnList /\ First(x) <= Sold /\ Pos(haz[w].next_protect_write) <= First(x)
      <4>1. x = haz[w].write_block \/ (x = n /\ haz[w].write_block \in blocks /\ First(haz[w].write_block) < First(n))
        BY <1>1, <1>7, <3>5 DEF Fields
      <4> QED BY <1>7, <3>2, <3>3, <3>4, <4>1
    <3>7. /\ y \in OnList /\ First(y) <= Turn /\ Pos(haz[w].next_protect_read) <= First(y)
      <4>1. y = haz[w].read_block \/ (y = n /\ haz[w].read_block \in blocks /\ First(haz[w].read_block) < First(n))
        BY <1>1, <1>7, <3>5 DEF Fields
      <4> QED BY <1>7, <3>2, <3>3, <3>4, <4>1
    <3>8. First(haz[w].write_block)' = First(x) /\ First(haz[w].read_block)' = First(y)
      BY <1>2, <3>5 DEF First
    <3>9. /\ Pos(haz[w].next_protect_write)' = Pos(haz[w].next_protect_write)
          /\ Pos(haz[w].next_protect_read)' = Pos(haz[w].next_protect_read)
      BY <1>1
    <3> QED BY <1>2, <3>5, <3>6, <3>7, <3>8, <3>9
  <2> QED BY <2>1, <2>2 DEF Has
<1>15. Uses(w)'
  <2>1. /\ First(ListHead)' = First(ListHead)
        /\ First(op[w].walk)' = First(op[w].walk) /\ First(op[w].block)' = First(op[w].block)
        /\ (Reaches(Finish(w) - 1)' <=> Reaches(Finish(w) - 1))
    <3>1. PICK x, y, m : x = op[w].walk /\ y = op[w].block /\ m = Finish(w) - 1 OBVIOUS
    <3>2. Reaches(Finish(w) - 1)' <=> Reaches(m)' BY <1>3, <3>1 DEF Reaches
    <3> QED BY <1>2, <3>1, <3>2 DEF First
  <2>2. PICK f \in Fields : f = Field(w) BY DEF Fields, Field
  <2>3. From(w) = First(haz[w][f]) BY <2>2 DEF From
  <2>4. From(w)' = From(w) \/ (From(w)' = First(n) /\ haz[w][f] \in blocks /\ From(w) < First(n))
    <3>1. PICK x : x = haz'[w][f] OBVIOUS
    <3>2. From(w)' = First(x) BY <1>2, <1>3, <2>2, <3>1 DEF From, First
    <3> QED BY <1>1, <1>7, <2>3, <3>1, <3>2
  <2>5. \A b \in blocks : First(b) \in Nat BY Bounds DEF Starts
  <2>6. /\ pc[w] = "draw" \/ Drawn(w) => Active(w) <= From(w)
        /\ pc[w] \in Seeking => From(w) <= Base(Begin(w)) /\ Drawn(w)
    BY <1>6 DEF Uses, Seeking, Drawn
  <2>7. /\ pc[w] = "draw" \/ Drawn(w) => Active(w) <= From(w)'
        /\ pc[w] \in Seeking => From(w)' <= Base(Begin(w))
    <3>1. Active(w) \in Nat BY Parts
    <3> QED BY <1>5, <1>7, <2>3, <2>4, <2>5, <2>6, <3>1
  <2>8. /\ (pc'[w] = "draw" => pc[w] = "draw") /\ (pc'[w] \in Seeking => pc[w] \in Seeking)
        /\ (pc'[w] \in Walking => pc[w] \in Walking) /\ (pc'[w] \in {"check_closed", "seek"} => pc'[w] = pc[w])
        /\ (pc'[w] \in {"reserve", "claim", "cross"} => pc'[w] = pc[w])
        /\ (pc'[w] \in Writing => pc'[w] = pc[w])
        /\ (pc'[w] \in {"write", "wake", "claim"} \cup Reading => pc'[w] = pc[w])
    BY <1>2 DEF Visiting, Seeking, Walking, Polling, Writing, Reading
  <2>9. /\ pc'[w] = "draw" \/ Drawn(w)' => Active(w)' <= From(w)'
        /\ Drawn(w)' => First(ListHead)' <= Base(Begin(w)') /\ Active(w)' <= Base(Begin(w)')
        /\ pc'[w] \in Seeking => From(w)' <= Base(Begin(w)')
    BY <1>3, <1>6, <2>1, <2>7, <2>8 DEF Uses
  <2>10. /\ pc'[w] \in Walking =>
            /\ op'[w].walk \in OnList' /\ First(ListHead)' <= Search(w)'
            /\ Search(w)' \in Starts /\ Active(w)' <= Search(w)' /\ Search(w)' <= First(op[w].walk)'
         /\ pc'[w] \in {"check_closed", "seek"} => First(op[w].walk)' <= Base(Begin(w)')
         /\ pc'[w] = "reserve" =>
            /\ op'[w].block \in OnList' /\ First(op[w].block)' = Base(Begin(w)')
            /\ First(op[w].block)' <= First(op[w].walk)' /\ First(op[w].walk)' <= Base(LastPos(w)')
    BY <1>2, <1>3, <1>6, <2>1, <2>8 DEF Uses, Starts
  <2>11. /\ pc'[w] \in {"write", "wake", "claim"} \cup Reading \/ Reclaimer(w)' =>
            op'[w].block \in OnList' /\ First(op[w].block)' = Base(Begin(w)' + op'[w].written)
         /\ pc'[w] = "claim" => Search(w)' <= First(op[w].block)'
         /\ pc'[w] = "cross" => op'[w].block \in OnList'
                                /\ First(op[w].block)' + BlockSize = Begin(w)' + op'[w].written
         /\ pc'[w] \in Writing => Reaches(Finish(w) - 1)'
    BY <1>2, <1>3, <1>6, <2>1, <2>8 DEF Uses
  <2> QED BY <2>9, <2>10, <2>11 DEF Uses
<1> QED BY <1>9, <1>13, <1>14, <1>15, <1>10, <1>11, <1>12, SwapMet DEF Token

\* try_advance_hazptr_block(): the exchange succeeds.
LEMMA SwapTakesKeeps ==
  ASSUME Running, NEW t \in Tokens, SwapHazPtr(t), haz[rec.at][rec.field] = rec.expected
  PROVE  Running'
<1> HIDE DEF Running
<1>1. /\ pc[t] = "swap" /\ lock = t /\ pc[t] \in Visiting
      /\ UNCHANGED <<queue, counters, heads, lock, rec, op, clients>>
      /\ pc' \in [Tokens -> Places] /\ haz' \in [Tokens -> HazType]
  BY SwapIs DEF Visiting
<1>2. /\ \A places : (At(places)' <=> "revalidate" \in places) /\ (At(places) <=> "swap" \in places)
      /\ \A b : First(b)' = First(b)
      /\ blocks' = blocks /\ OnList' = OnList /\ ListHead' = ListHead /\ Lowest' = Lowest
      /\ lock' = t /\ rec' = rec /\ op' = op /\ head_block' = head_block /\ closed' = closed
      /\ reclaim_counter' = reclaim_counter
      /\ Sold' = Sold /\ Turn' = Turn /\ Cut' = Cut /\ CutDrawn' = CutDrawn
      /\ Only(Tokens) /\ Seen(Tokens)
      /\ \A w \in Tokens : op'[w] = op[w] /\ (pc'[w] = pc[w] \/ (pc[w] \in Visiting /\ pc'[w] \in Visiting))
  BY SwapFrame
<1>3. /\ UNCHANGED <<list, elements, offsets, tail_block>> /\ offset' = offset /\ setup' = setup /\ told' = told
      /\ UNCHANGED <<list, offsets, head_block, head_offset>>
      /\ UNCHANGED <<setup, blocks, next, offset, flags, stored, write_offset, read_offset, write_closed_at,
                     head_offset, closed, haz_ptr_counter, reclaim_counter, head_block, tail_block, lock, rec,
                     op, told, under>>
  BY <1>1 DEF queue, list, elements, offsets, cutoff, counters, heads, clients
<1>4. TypeOK /\ Numbers /\ Asking BY DEF Running
<1>5. {Sold, Turn, Cut} \subseteq Nat BY Parts
<1>6. Calm(Tokens)
  <2>1. Cut' = Cut /\ Cut' \in Nat /\ Sold' \in Nat /\ Turn' \in Nat /\ Sold <= Sold' /\ Turn <= Turn'
    BY <1>2, <1>5
  <2>2. ~At({"validate"})' BY <1>2
  <2>3. Tokens \subseteq Tokens /\ (\A u \in Tokens \ Tokens : lock' = u <=> lock = u) OBVIOUS
  <2>4. /\ UNCHANGED <<setup, reclaim_counter>> /\ ListHead' = ListHead /\ head_block' = head_block
        /\ blocks \subseteq blocks' /\ (\A b \in OnList : offset'[b] = offset[b])
        /\ (closed = "closed" => closed' = "closed")
    BY <1>2, <1>3
  <2> QED BY <1>2, <2>1, <2>2, <2>3, <2>4 DEF Calm
<1>7. TypeOK' BY <1>1, <1>3, <1>4 DEF TypeOK
<1>8. Heads' BY <1>2, <1>3, HeadsStay
<1>9. Reclaim'
  <2>1. /\ rec.old = head_block /\ rec.new \in OnList /\ First(rec.old) < First(rec.new)
        /\ First(rec.new) <= Base(Sold) /\ Near(rec.protect) /\ Limit <= First(rec.new)
        /\ rec.at \in Tokens /\ rec.at \notin rec.todo /\ rec.unlinked = <<>>
    BY <1>1, VisitingIs
  <2>2. PICK x, y : x = rec.old /\ y = rec.new OBVIOUS
  <2>3. First(rec.old)' = First(rec.old) /\ First(rec.new)' = First(rec.new) /\ Limit' = Limit
        /\ (Near(rec.protect)' <=> Near(rec.protect)) /\ Base(Sold)' = Base(Sold)
    BY <1>2, <2>2 DEF First, Limit, Near
  <2>4. /\ ~At({"load_count"})' /\ ~At({"scan"})' /\ ~At({"swap"})'
        /\ ~At(Announcing \cup {"rollback", "commit"} \cup Moves)'
        /\ ~At(Announcing \cup {"rollback"})' /\ ~At({"commit"})' /\ ~At(Moves)' /\ ~At({"relink"})'
    BY <1>2 DEF Announcing, Moves
  <2> QED BY <1>2, <2>1, <2>3, <2>4 DEF Reclaim
<1>10. Numbers'
  <2>1. ~At({"cutoff", "publish"}) /\ ~At({"cutoff", "publish"})' BY <1>2
  <2> QED BY <1>2, <1>3, <1>4, <2>1 DEF Numbers
<1>11. Asking'
  <2>1. \A u \in Tokens : pc'[u] \in BeforeDraw =>
             pc[u] \in BeforeDraw /\ op'[u].name = op[u].name /\ op'[u].count = op[u].count
    BY <1>2 DEF Visiting, BeforeDraw
  <2> QED BY <1>2, <1>4, <2>1, AskingKeeps
<1>12. \A w \in Tokens : Token(w)' BY SwapToken
<1>13. At({"relink"})' = At({"relink"}) BY <1>2 DEF At
<1>14. closed' = "closed" <=> closed = "closed" BY <1>2
<1>15. rec'.unlinked = rec.unlinked /\ \A u \in Tokens \ Tokens : Met(u)' BY <1>2
<1> QED BY <1>1, <1>2, <1>3, <1>6, <1>7, <1>8, <1>9, <1>10, <1>11, <1>12, <1>13, <1>14, <1>15, CalmStep

\* try_advance_hazptr_block(): the exchange, either way.
LEMMA SwapHazPtrKeeps ==
  ASSUME Running, NEW t \in Tokens, SwapHazPtr(t)
  PROVE  Running'
<1> HIDE DEF Running
<1>1. CASE haz[rec.at][rec.field] = rec.expected BY <1>1, SwapTakesKeeps
<1>2. CASE haz[rec.at][rec.field] # rec.expected BY <1>2, SwapFailsKeeps
<1> QED BY <1>1, <1>2

\* The new head falls back to the first block that is not before what is protected.
LEMMA ReducedIs ==
  ASSUME Running, NEW t \in Tokens, lock = t, pc[t] = "advance", rec.todo = {} \/ ~Going, Reduced # rec.old
  PROVE  /\ Reduced \in OnList /\ Reduced \in blocks /\ Reduced \in Block /\ First(Reduced) \in Nat
         /\ First(rec.old) < First(Reduced) /\ First(Reduced) <= First(rec.new)
         /\ rec.todo = {}
         /\ \A s \in Starts : Limit <= s => First(Reduced) <= s
<1> HIDE DEF Running
<1>1. /\ rec.old = head_block /\ rec.old \in blocks /\ rec.new \in OnList /\ rec.new \in blocks /\ rec.new \in Block
      /\ First(rec.old) < First(rec.new) /\ {First(rec.old), First(rec.new), Limit} \subseteq Nat
      /\ First(rec.new) \in Starts
      /\ Near(rec.protect) /\ Limit <= First(rec.new) /\ rec.protect \in Word /\ ListHead = head_block
  BY VisitingIs DEF Visiting
<1>2. PICK x \in Word, y \in Word : /\ x = offset[rec.old] /\ y = offset[rec.new]
                                    /\ Pos(x) = First(rec.old) /\ Pos(y) = First(rec.new)
                                    /\ 2 * Pos(x) < WordMod /\ 2 * Pos(y) < WordMod
  <2>1. offset[rec.old] \in Word /\ offset[rec.new] \in Word BY <1>1, Types, Fixed DEF Running
  <2>2. 2 * First(rec.old) < WordMod /\ 2 * First(rec.new) < WordMod BY <1>1, Bounds
  <2> QED BY <2>1, <2>2 DEF First
<1>3. (CircularLess(rec.protect, offset[rec.new]) <=> Limit < First(rec.new)) /\ (Going <=> First(rec.old) < Limit)
  <2>1. 2 * Pos(rec.protect) < WordMod /\ Pos(rec.protect) = Limit BY <1>1 DEF Near, Limit
  <2> QED BY <1>1, <1>2, <2>1, PosLess DEF Going
<1>4. PICK r \in blocks : /\ r = Reduced /\ First(rec.old) <= First(r) /\ Limit <= First(r)
                          /\ First(r) <= First(rec.new)
                          /\ First(rec.old) < First(r) => First(r) < Limit + BlockSize
  <2>1. CASE Limit < First(rec.new)
    <3>1. Reduced = FirstFrom(rec.old, rec.protect) BY <1>3, <2>1 DEF Reduced
    <3>2. /\ FirstFrom(rec.old, rec.protect) \in blocks
          /\ First(rec.old) <= First(FirstFrom(rec.old, rec.protect))
          /\ Pos(rec.protect) <= First(FirstFrom(rec.old, rec.protect))
          /\ First(FirstFrom(rec.old, rec.protect)) <= First(rec.new)
          /\ First(rec.old) < First(FirstFrom(rec.old, rec.protect)) =>
                First(FirstFrom(rec.old, rec.protect)) < Pos(rec.protect) + BlockSize
      <4>1. First(rec.old) <= First(rec.new) /\ Pos(rec.protect) <= First(rec.new)
        BY <1>1 DEF Limit
      <4> QED BY <1>1, <4>1, FirstFromIs
    <3> QED BY <3>1, <3>2 DEF Limit
  <2>2. CASE ~(Limit < First(rec.new))
    <3>1. Reduced = rec.new BY <1>3, <2>2 DEF Reduced
    <3>2. First(rec.new) < Limit + BlockSize /\ First(rec.old) <= First(rec.new)
      BY <1>1, <2>2, Sizes
    <3> QED BY <1>1, <3>1, <3>2
  <2> QED BY <2>1, <2>2
<1>5. First(r) \in Starts /\ First(rec.old) \in Starts /\ First(r) \in Nat /\ r \in Block
  BY <1>1, <1>4, Bounds, Fixed DEF Starts
<1>6. First(rec.old) < First(r)
  <2>1. First(rec.old) # First(r) BY <1>1, <1>4 DEF Running, Linked
  <2> QED BY <1>1, <1>4, <1>5, <2>1
<1>7. ASSUME NEW s \in Starts, Limit <= s
      PROVE  First(r) <= s
  <2>1. s \in Nat /\ (s < First(r) => s + BlockSize <= First(r)) BY <1>5, StartsApart
  <2>2. First(r) < Limit + BlockSize BY <1>4, <1>6
  <2>3. Limit \in Nat /\ First(r) \in Nat /\ BlockSize \in Nat BY <1>1, <1>5, Sizes
  <2> QED BY <1>7, <2>1, <2>2, <2>3
<1>8. rec.todo = {}
  <2>1. ~Going => Limit <= First(rec.old) BY <1>1, <1>3
  <2>2. Limit <= First(rec.old) => First(r) <= First(rec.old) BY <1>5, <1>7
  <2> QED BY <1>1, <1>5, <1>6, <2>1, <2>2
<1>9. r \in OnList
  <2>1. First(ListHead) <= First(r) BY <1>1, <1>4
  <2> QED BY <2>1 DEF OnList
<1> QED BY <1>4, <1>5, <1>6, <1>7, <1>8, <1>9

\* try_reclaim_blocks(): the new head of the list.
LEMMA StoreHeadKeeps ==
  ASSUME Running, NEW t \in Tokens, StoreHead(t)
  PROVE  Running'
<1> HIDE DEF Running
<1>1. /\ pc[t] = "advance" /\ (rec.todo = {} \/ ~Going)
      /\ rec' = [rec EXCEPT !.new = Reduced, !.at = Nobody, !.field = "write_block", !.expected = Null, !.todo = {}]
      /\ UNCHANGED <<queue, counters, head_offset, tail_block, lock, haz, op, clients>>
  BY DEF StoreHead
<1>2. lock = t /\ Reclaimer(t) /\ lock' = t /\ pc[t] \in Visiting /\ haz' = haz /\ op' = op
      /\ UNCHANGED <<list, offsets>> /\ haz_ptr_counter' = haz_ptr_counter /\ head_offset' = head_offset
  <2>1. lock = t /\ pc[t] \in Visiting /\ pc[t] \in Reclaiming \ {"unlock"}
    BY <1>1, Parts DEF Control, Reclaiming, Visiting
  <2> QED BY <1>1, <2>1, Holding DEF queue, counters
<1>3. rec \in RecType /\ rec.count <= haz_ptr_counter /\ Reclaim BY <1>2, Holding
<1>4. /\ rec.old = head_block /\ rec.old \in blocks /\ rec.new \in OnList /\ rec.new \in blocks
      /\ First(rec.new) <= Base(Sold) /\ First(rec.new) <= Turn /\ {First(rec.new), Limit, Base(Sold), Sold, Turn} \subseteq Nat
      /\ \A u \in Tokens : Drawn(u) => First(rec.new) <= Base(Begin(u))
      /\ \A u \in Tokens : Member(u) /\ NobodyCame => \A f \in Fields : Visited(u, f)
      /\ rec.unlinked = <<>> /\ ListHead = head_block
  BY <1>2, VisitingIs
<1>6. CASE Reduced = rec.old
  <2>1. pc' = [pc EXCEPT ![t] = "unlock"] /\ head_block' = head_block
    BY <1>6 DEF StoreHead, GoTo
  <2>2. UNCHANGED heads BY <1>1, <2>1 DEF heads
  <2>3. rec' \in RecType /\ rec'.count = rec.count /\ rec'.unlinked = rec.unlinked
    <3>1. rec.old \in Block BY <1>4, Fixed
    <3> QED BY <1>1, <1>3, <1>6, <3>1 DEF RecType
  <2> QED BY <1>1, <2>1, <2>2, <2>3, GiveUpKeeps
<1>7. CASE Reduced # rec.old
  <2>1. PICK r : /\ r = Reduced /\ r \in OnList /\ r \in blocks /\ r \in Block /\ First(r) \in Nat
                 /\ First(rec.old) < First(r) /\ First(r) <= First(rec.new)
                 /\ rec.todo = {}
                 /\ \A s \in Starts : Limit <= s => First(r) <= s
    BY <1>1, <1>2, <1>7, ReducedIs
  <2>2. pc' = [pc EXCEPT ![t] = "announce"] /\ head_block' = r BY <1>7, <2>1 DEF StoreHead, GoTo
  <2>3. /\ rec' \in RecType /\ rec'.count = rec.count /\ rec'.unlinked = rec.unlinked /\ rec'.new = r /\ rec'.old = rec.old
    BY <1>1, <1>3, <2>1 DEF RecType
  <2>4. "announce" \in Reclaiming BY DEF Reclaiming, Announcing
  <2>5. /\ \A places : At(places)' <=> "announce" \in places
        /\ \A u \in Tokens :
               /\ Begin(u)' = Begin(u) /\ Search(u)' = Search(u)
               /\ (Drawn(u)' <=> Drawn(u)) /\ (Member(u)' <=> Member(u))
               /\ (pc'[u] \in Walking <=> pc[u] \in Walking)
        /\ \A b : First(b)' = First(b)
        /\ blocks' = blocks /\ Sold' = Sold /\ Turn' = Turn
    BY <1>2, <2>2, <2>4, RecFrame
  <2>6. ListHead' = ListHead /\ Lowest' = Lowest
    <3>1. \A places : At(places) <=> "advance" \in places BY <1>1, <1>2, Holding
    <3>2. ListHead' = rec'.old
      <4>1. At({"announce", "validate", "rollback"})' BY <2>5
      <4> QED BY <4>1 DEF ListHead, At
    <3>3. ListHead' = ListHead BY <1>4, <2>3, <3>2
    <3> QED BY <2>5, <3>1, <3>3 DEF Lowest, Moves
  <2>7. OnList' = OnList /\ First(ListHead)' = First(ListHead)
    <3>1. PICK h : h = ListHead OBVIOUS
    <3>2. First(ListHead)' = First(ListHead) BY <2>5, <2>6, <3>1 DEF First
    <3> QED BY <2>5, <3>2 DEF OnList
  <2>8. First(r) <= Base(Sold) /\ First(r) <= Sold /\ First(r) <= Turn
    <3>1. Base(Sold) <= Sold BY <1>4, BaseOf
    <3> QED BY <1>4, <2>1, <3>1
  <2>9. First(rec.new)' = First(r) /\ First(rec.old)' = First(rec.old) /\ First(head_block)' = First(r)
    BY <2>2, <2>3, <2>5 DEF First
  <2>10. Heads'
    <3>1. Pos(head_offset) <= First(ListHead) BY DEF Running, Heads
    <3> QED BY <1>2, <2>1, <2>2, <2>5, <2>7, <2>8, <2>9, <3>1 DEF Heads
  <2>11. Reclaim'
    <3>1. /\ rec'.new \in OnList' /\ First(rec.old)' < First(rec.new)' /\ First(rec.new)' <= Base(Sold)'
          /\ rec'.new = head_block' /\ rec'.old \in blocks' /\ rec'.unlinked = <<>>
      BY <1>4, <2>1, <2>2, <2>3, <2>5, <2>7, <2>8, <2>9
    <3>2. /\ ~At({"load_count"})' /\ ~At({"scan"})' /\ ~At(Visiting)' /\ ~At({"visit_read", "swap", "revalidate"})'
          /\ ~At({"swap"})' /\ ~At({"commit"})' /\ ~At(Moves)' /\ ~At({"relink"})'
      BY <2>5 DEF Visiting, Moves
    <3> QED BY <3>1, <3>2 DEF Reclaim
  <2>12. ASSUME NEW u \in Tokens
         PROVE  Met(u)'
    <3>1. ASSUME Member(u), NobodyCame
          PROVE  Clear(u)'
      <4>1. \A f \in Fields : Visited(u, f) /\ ~Pending(u, f) /\ ~Unsure(u, f)
        BY <1>1, <1>2, <1>4, <2>1, <3>1 DEF Pending, Unsure
      <4>2. \A f \in Fields : /\ Limit <= First(haz[u][f])
                              /\ pc[u] \in Walking /\ Field(u) = f => Limit <= Search(u)
        BY <4>1 DEF Visited
      <4>3. \A f \in Fields : First(haz[u][f]) \in Starts BY <3>1, Members, Bounds
      <4>4. \A f \in Fields : First(r) <= First(haz[u][f]) BY <2>1, <4>2, <4>3
      <4>5. pc[u] \in Walking => First(r) <= Search(u)
        <5>1. Field(u) \in Fields BY DEF Field, Fields
        <5>2. pc[u] \in Walking => Limit <= Search(u) /\ Search(u) \in Starts
          BY <4>2, <5>1, Parts DEF Uses
        <5> QED BY <2>1, <5>2
      <4>6. \A f \in Fields : First(haz[u][f])' = First(haz[u][f]) BY <1>2, <2>5 DEF First
      <4> QED BY <2>5, <2>9, <4>4, <4>5, <4>6 DEF Clear
    <3>2. NobodyCame' => NobodyCame BY <1>2, <2>3 DEF NobodyCame
    <3>3. Drawn(u)' => First(rec.new)' <= Base(Begin(u)')
      <4>1. Drawn(u) => First(r) <= Base(Begin(u))
        <5>1. Base(Begin(u)) \in Nat BY Parts, BaseOf
        <5> QED BY <1>4, <2>1, <5>1
      <4> QED BY <2>5, <2>9, <4>1
    <3>4. ~At({"scan"})' /\ ~At(Visiting)' /\ ~At({"swap", "revalidate"})' BY <2>5 DEF Visiting
    <3>5. NobodyCame' /\ Member(u)' => Clear(u)' BY <2>5, <3>1, <3>2
    <3>6. Drawn(u)' => (First(rec.new) <= Base(Begin(u)))' BY <3>3
    <3> QED BY <3>4, <3>5, <3>6 DEF Met
  <2>13. /\ "announce" \in Reclaiming \cup {"wait", "holding"} /\ ~At({"validate"})' /\ (At({"relink"})' = At({"relink"}))
    <3>1. ~At({"relink"}) /\ ~At({"relink"})' BY <1>1, <1>2, <2>5, Holding
    <3>2. At({"relink"})' = At({"relink"}) BY <3>1 DEF At
    <3>3. ~At({"validate"})' BY <2>5
    <3> QED BY <2>4, <3>2, <3>3
  <2>14. head_block' \in Block /\ rec'.count <= haz_ptr_counter BY <1>3, <2>1, <2>2, <2>3
  <2> QED BY <1>1, <1>2, <2>2, <2>3, <2>4, <2>6, <2>10, <2>11, <2>12, <2>13, <2>14, LockStep
<1> QED BY <1>6, <1>7

\* The head is announced, then no token has come: the steps at which counters, or
\* the head of the list, change for all tokens.
Passes(t, p) ==
    /\ lock = t /\ pc[t] \in Announcing /\ pc' = [pc EXCEPT ![t] = p]
    /\ \/ pc[t] = "announce" /\ p = "validate" /\ reclaim_counter' = reclaim_counter + 1
       \/ pc[t] = "validate" /\ p = "commit" /\ NobodyCame /\ reclaim_counter' = reclaim_counter
    /\ UNCHANGED <<queue, haz_ptr_counter, reclaim, haz, op, clients>>
Passed == Announcing \cup {"commit"}

\* What such a step leaves of a token.
LEMMA PassLeaves ==
  ASSUME Running, NEW t \in Tokens, NEW p, Passes(t, p), NEW u \in Tokens
  PROVE  /\ op'[u] = op[u] /\ haz'[u] = haz[u] /\ (pc'[u] = pc[u] \/ (pc[u] \in Passed /\ pc'[u] \in Passed /\ u = t))
         /\ Begin(u)' = Begin(u) /\ Finish(u)' = Finish(u) /\ Ahead(u)' = Ahead(u)
         /\ Search(u)' = Search(u) /\ Active(u)' = Active(u) /\ LastPos(u)' = LastPos(u)
         /\ Field(u)' = Field(u) /\ Posting(u)' = Posting(u)
         /\ Sender(u)' = Sender(u) /\ Drawn(u)' = Drawn(u) /\ Reclaimer(u)' = Reclaimer(u)
         /\ Reader(u)' = Reader(u) /\ Unaware(u)' = Unaware(u) /\ Member(u)' = Member(u)
         /\ Named(u)' = Named(u)
         /\ \A m : /\ Owns(u, m)' = Owns(u, m) /\ Takes(u, m)' = Takes(u, m)
                   /\ Suspended(u, m)' = Suspended(u, m) /\ Swept(u, m)' = Swept(u, m)
                   /\ Wakes(u, m)' = Wakes(u, m)
<1>1. op'[u] = op[u] /\ haz'[u] = haz[u] BY DEF Passes
<1>2. p \in Passed /\ pc[t] \in Passed BY DEF Passes, Passed, Announcing
<1>3. pc'[t] = p /\ \A v \in Tokens \ {t} : pc'[v] = pc[v] BY DEF Running, Passes
<1>4. pc'[u] = pc[u] \/ (pc[u] \in Passed /\ pc'[u] \in Passed /\ u = t) BY <1>2, <1>3
<1>5. CASE pc'[u] = pc[u] BY <1>1, <1>4, <1>5, Same
<1>6. CASE pc[u] \in Passed /\ pc'[u] \in Passed
  <2>1. /\ Begin(u)' = Begin(u) /\ Search(u)' = Search(u) /\ Active(u)' = Active(u)
        /\ Posting(u)' = Posting(u) /\ Reclaimer(u)' = Reclaimer(u)
    BY <1>1, <1>6 DEF Begin, Search, Active, Posting, Reclaimer, Reclaiming, Passed
  <2>2. /\ Finish(u)' = Finish(u) /\ Ahead(u)' = Ahead(u) /\ Field(u)' = Field(u)
    BY <1>1, <1>6, <2>1 DEF Finish, Ahead, Field, Passed, Announcing
  <2>3. LastPos(u)' = LastPos(u) BY <1>1, <2>1, <2>2 DEF LastPos
  <2>4. Drawn(u)' = Drawn(u)
    BY <1>6, <2>1 DEF Drawn, Passed, Announcing, Walking, Writing, Polling, Reading
  <2>5. Sender(u)' = Sender(u) /\ Member(u)' = Member(u)
    BY <1>1, <1>6, <2>1 DEF Sender, Member, Passed, Announcing, Walking, Writing, Uncounted
  <2>6. Reader(u)' = Reader(u) /\ Unaware(u)' = Unaware(u)
    BY <1>1, <1>6, <2>1, <2>4 DEF Reader, Unaware, Passed, Announcing
  <2>7. Named(u)' = Named(u)
    BY <1>1, <1>6 DEF Named, Passed, Announcing, Acquiring, Polling, Closing, Sweeping, Reclaiming
  <2>8. ASSUME NEW m
        PROVE  /\ Owns(u, m)' = Owns(u, m) /\ Takes(u, m)' = Takes(u, m)
               /\ Suspended(u, m)' = Suspended(u, m) /\ Swept(u, m)' = Swept(u, m)
               /\ Wakes(u, m)' = Wakes(u, m)
    <3>1. Owns(u, m)' = Owns(u, m) /\ Takes(u, m)' = Takes(u, m)
      BY <2>1, <2>2, <2>5, <2>6 DEF Owns, Takes
    <3> QED BY <3>1, <1>6 DEF Suspended, Swept, Wakes, Passed, Announcing, Sweeping
  <2> QED BY <1>1, <1>4, <2>1, <2>2, <2>3, <2>4, <2>5, <2>6, <2>7, <2>8
<1> QED BY <1>4, <1>5, <1>6

\* What a step between the new head and the decision leaves alone.
LEMMA PassFrame ==
  ASSUME Running, NEW t \in Tokens, NEW p, Passes(t, p)
  PROVE  /\ \A places : At(places)' <=> p \in places
         /\ \A places : At(places) <=> pc[t] \in places
         /\ \A b : First(b)' = First(b)
         /\ \A m : Reaches(m)' = Reaches(m)
         /\ blocks' = blocks /\ lock' = t /\ rec' = rec /\ op' = op /\ haz' = haz /\ closed' = closed
         /\ flags' = flags /\ haz_ptr_counter' = haz_ptr_counter /\ head_block' = head_block
         /\ UNCHANGED <<list, elements, offsets, cutoff, tail_block>> /\ head_offset' = head_offset
         /\ Sold' = Sold /\ Turn' = Turn /\ Cut' = Cut /\ CutDrawn' = CutDrawn
         /\ \A m \in Nat : Done(m)' = Done(m)
         /\ Seen(Tokens) /\ SendersApart' /\ ReadersApart'
         /\ reclaim_counter' \in Nat /\ reclaim_counter <= reclaim_counter'
         /\ p \in {"validate", "commit"} /\ pc' \in [Tokens -> Places] /\ pc'[t] = p
<1> HIDE DEF Running
<1>1. /\ blocks' = blocks /\ offset' = offset /\ flags' = flags /\ closed' = closed /\ write_closed_at' = write_closed_at
      /\ write_offset' = write_offset /\ read_offset' = read_offset /\ head_block' = head_block /\ lock' = t
      /\ haz_ptr_counter' = haz_ptr_counter /\ rec' = rec /\ op' = op /\ haz' = haz /\ head_offset' = head_offset
      /\ UNCHANGED <<list, elements, offsets, cutoff, tail_block>> /\ lock = t
  BY DEF Passes, queue, list, elements, offsets, cutoff, reclaim, heads
<1>2. p \in {"validate", "commit"} /\ p \in Places /\ p \in Passed
  BY DEF Passes, Places, Reclaiming, Announcing, Passed
<1>3. pc'[t] = p /\ pc' \in [Tokens -> Places] BY <1>2 DEF Passes, Running
<1>4. (\A places : At(places)' <=> p \in places) /\ (\A places : At(places) <=> pc[t] \in places)
  BY <1>1, <1>3, TokenAssumption DEF At
<1>5. \A b : First(b)' = First(b) BY <1>1 DEF First
<1>6. \A m : Reaches(m)' = Reaches(m) BY <1>1, <1>5 DEF Reaches
<1>7. Sold' = Sold /\ Turn' = Turn /\ CutDrawn' = CutDrawn /\ Cut' = Cut
  <2>1. ~At({"publish"}) /\ ~At({"publish"})' BY <1>2, <1>4 DEF Passes, Announcing
  <2> QED BY <1>1, <2>1 DEF Sold, Turn, CutDrawn, Cut
<1>8. Seen(Tokens)
  <2>1. \A w \in Tokens :
           /\ op'[w] = op[w] /\ Begin(w)' = Begin(w) /\ Sender(w)' = Sender(w) /\ Reader(w)' = Reader(w)
           /\ \A m : /\ Owns(w, m)' = Owns(w, m) /\ Takes(w, m)' = Takes(w, m)
                     /\ Suspended(w, m)' = Suspended(w, m) /\ Swept(w, m)' = Swept(w, m)
                     /\ Wakes(w, m)' = Wakes(w, m)
    BY PassLeaves
  <2> QED BY <2>1 DEF Seen
<1>9. Only(Tokens) /\ Tokens \in SUBSET Tokens BY DEF Only
<1>10. SendersApart /\ ReadersApart /\ reclaim_counter \in Nat BY DEF Running, TypeOK
<1>11. reclaim_counter' \in Nat /\ reclaim_counter <= reclaim_counter' BY <1>10 DEF Passes
<1>12. (\A m \in Nat : Done(m)' = Done(m)) /\ SendersApart' /\ ReadersApart'
  BY <1>7, <1>8, <1>9, <1>10, ViewsKeep
<1> QED BY <1>1, <1>2, <1>3, <1>4, <1>5, <1>6, <1>7, <1>8, <1>11, <1>12

\* What the reclaimer knows then.
LEMMA PassKnows ==
  ASSUME Running, NEW t \in Tokens, NEW p, Passes(t, p)
  PROVE  /\ rec.new = head_block /\ rec.new \in OnList /\ rec.new \in blocks /\ rec.old \in blocks
         /\ {First(rec.new), First(rec.old), Sold, Turn} \subseteq Nat
         /\ First(rec.old) < First(rec.new) /\ First(rec.new) <= Base(Sold)
         /\ First(rec.new) <= Sold /\ First(rec.new) <= Turn
         /\ ListHead = rec.old /\ Lowest = rec.old /\ rec.unlinked = <<>>
         /\ p = "validate" => ListHead' = rec.old
         /\ p = "commit" => ListHead' = rec.new
         /\ Lowest' = Lowest /\ First(ListHead)' \in Nat /\ First(ListHead) <= First(ListHead)'
         /\ OnList' \subseteq OnList /\ rec.new \in OnList'
         /\ \A u \in Tokens : Drawn(u) => First(ListHead)' <= Base(Begin(u))
         /\ p = "commit" => \A u \in Tokens : Member(u) => Clear(u)
<1> HIDE DEF Running
<1>1. /\ \A places : At(places)' <=> p \in places
      /\ \A places : At(places) <=> pc[t] \in places
      /\ \A b : First(b)' = First(b)
      /\ blocks' = blocks /\ rec' = rec /\ head_block' = head_block
      /\ p \in {"validate", "commit"}
  BY PassFrame
<1>2. pc[t] \in Announcing /\ (p = "commit" => NobodyCame) /\ lock = t BY DEF Passes
<1>3. Reclaim /\ Heads BY DEF Running
<1>4. At(Announcing) /\ At(Aiming) /\ At(Announcing \cup {"rollback"}) /\ ~At(Moves)
      /\ At(Announcing \cup {"rollback", "commit"} \cup Moves) /\ At({"announce", "validate", "rollback"}) /\ ~At({"commit"})
  BY <1>1, <1>2 DEF Announcing, Aiming, Moves
<1>5. /\ rec.new = head_block /\ rec.new \in OnList /\ rec.old \in blocks /\ First(rec.old) < First(rec.new)
      /\ First(rec.new) <= Base(Sold) /\ rec.unlinked = <<>>
  BY <1>3, <1>4 DEF Reclaim
<1>6. First(rec.new) <= Sold /\ First(rec.new) <= Turn BY <1>3, <1>5 DEF Heads
<1>7. ListHead = rec.old /\ Lowest = rec.old
  <2>1. ListHead = rec.old BY <1>4 DEF ListHead, At
  <2> QED BY <1>4, <2>1 DEF Lowest
<1>8. (p = "validate" => ListHead' = rec.old) /\ (p = "commit" => ListHead' = rec.new) /\ Lowest' = rec.old
  <2>1. CASE p = "validate"
    <3>1. At({"announce", "validate", "rollback"})' /\ ~At({"commit"})' /\ ~At(Moves)'
      BY <1>1, <2>1 DEF Moves
    <3>2. ListHead' = rec.old BY <1>1, <3>1 DEF ListHead, At
    <3> QED BY <2>1, <3>1, <3>2 DEF Lowest
  <2>2. CASE p = "commit"
    <3>1. ~At({"announce", "validate", "rollback"})' /\ At({"commit"})' BY <1>1, <2>2
    <3>2. ListHead' = head_block BY <1>1, <3>1 DEF ListHead, At
    <3>3. Lowest' = rec'.old BY <3>1 DEF Lowest
    <3> QED BY <1>1, <1>5, <2>2, <3>2, <3>3
  <2> QED BY <1>1, <2>1, <2>2
<1>9. {First(rec.new), First(rec.old), Sold, Turn} \subseteq Nat /\ rec.new \in blocks
  BY <1>5, Bounds, Types, Parts DEF Running, Starts
<1>10. /\ First(ListHead)' = (IF p = "commit" THEN First(rec.new) ELSE First(rec.old)) /\ First(ListHead) = First(rec.old)
  <2>1. PICK h : h = ListHead' OBVIOUS
  <2>2. First(ListHead)' = First(h) BY <1>1, <2>1 DEF First
  <2> QED BY <1>1, <1>7, <1>8, <2>1, <2>2
<1>11. OnList' \subseteq OnList /\ rec.new \in OnList'
  <2>1. \A b \in blocks : First(b) \in Nat BY Bounds DEF Starts
  <2> QED BY <1>1, <1>5, <1>9, <1>10, <2>1 DEF OnList
<1>12. ASSUME NEW u \in Tokens
       PROVE  /\ Drawn(u) => First(ListHead)' <= Base(Begin(u))
              /\ p = "commit" /\ Member(u) => Clear(u)
  <2>1. Met(u) /\ Base(Begin(u)) \in Nat BY Parts, BaseOf
  <2>2. (Drawn(u) => First(rec.new) <= Base(Begin(u))) /\ (NobodyCame /\ Member(u) => Clear(u))
    BY <1>4, <2>1 DEF Met
  <2> QED BY <1>2, <1>5, <1>9, <1>10, <2>1, <2>2
<1> QED BY <1>1, <1>5, <1>6, <1>7, <1>8, <1>9, <1>10, <1>11, <1>12

\* Such a step and who is taking a hazard pointer.
LEMMA PassAcquires ==
  ASSUME Running, NEW t \in Tokens, NEW p, Passes(t, p), NEW w \in Tokens
  PROVE  /\ Settled(w)' => Settled(w) /\ p = "commit"
         /\ \A b \in blocks : b \in OnList' <=> First(ListHead)' <= First(b)
         /\ \A b : p = "commit" /\ Good(b) => Good(b)'
         /\ Acquires(w)'
<1> HIDE DEF Running
<1>1. /\ \A places : At(places)' <=> p \in places
      /\ \A places : At(places) <=> pc[t] \in places
      /\ \A b : First(b)' = First(b)
      /\ blocks' = blocks /\ rec' = rec /\ op' = op /\ haz' = haz /\ head_block' = head_block
      /\ Sold' = Sold /\ Turn' = Turn /\ p \in {"validate", "commit"}
  BY PassFrame
<1>2. pc[t] \in Announcing /\ (p = "commit" => pc[t] = "validate" /\ reclaim_counter' = reclaim_counter)
      /\ (p = "validate" => reclaim_counter' = reclaim_counter + 1)
  BY DEF Passes
<1>3. /\ {First(rec.new), First(rec.old)} \subseteq Nat
      /\ p = "commit" => ListHead' = rec.new
      /\ First(ListHead)' \in Nat /\ First(ListHead) <= First(ListHead)' /\ First(ListHead) \in Nat
      /\ OnList' \subseteq OnList
  BY PassKnows
<1>4. Acquires(w) /\ op[w].seen \in Nat /\ op[w].seen <= reclaim_counter /\ reclaim_counter \in Nat
      /\ op[w].boff \in Word /\ Pos(op[w].boff) \in Nat
  BY Fixed, PosIs
<1>5. Settled(w)' => Settled(w) /\ p = "commit" BY <1>1, <1>2, <1>4 DEF Settled
<1>6. \A b \in blocks : b \in OnList' <=> First(ListHead)' <= First(b) BY <1>1 DEF OnList
<1>7. ASSUME NEW b, p = "commit", Good(b)
      PROVE  Good(b)'
  <2>1. At({"validate"}) /\ ~At({"validate"})' BY <1>1, <1>2, <1>7
  <2>2. b \in OnList /\ First(b) <= Sold /\ First(b) <= Turn /\ First(rec.new) <= First(b) /\ b \in blocks
    BY <1>7, <2>1 DEF Good, OnList
  <2>3. First(ListHead)' = First(rec.new)
    <3>1. PICK h : h = ListHead' OBVIOUS
    <3> QED BY <1>1, <1>3, <1>7, <3>1
  <2> QED BY <1>1, <1>6, <2>1, <2>2, <2>3 DEF Good
<1>8. pc'[w] \in {"load_head", "init", "count", "recheck"} => pc'[w] = pc[w]
  <2>1. pc'[w] = pc[w] \/ pc'[w] \in Passed BY PassLeaves
  <2> QED BY <2>1 DEF Passed, Announcing
<1>9. PICK a, c, d : a = op[w].block /\ c = haz[w].write_block /\ d = haz[w].read_block OBVIOUS
<1>10. Acquires(w)'
  <2>1. pc'[w] \in {"load_head", "init"} => Pos(op[w].boff)' <= First(ListHead)'
    <3>1. Pos(op[w].boff)' = Pos(op[w].boff) BY <1>1
    <3> QED BY <1>3, <1>4, <1>8, <3>1 DEF Acquires
  <2>2. pc'[w] = "init" => op'[w].block \in blocks' /\ (Settled(w)' => Good(op[w].block)')
    <3>1. pc'[w] = "init" => a \in blocks /\ (Settled(w)' => Good(a)')
      BY <1>4, <1>5, <1>7, <1>8, <1>9 DEF Acquires
    <3>2. Good(op[w].block)' <=> Good(a)' BY <1>1, <1>9
    <3> QED BY <1>1, <1>9, <3>1, <3>2
  <2>3. pc'[w] \in {"count", "recheck"} =>
          /\ {haz'[w].write_block, haz'[w].read_block} \subseteq blocks'
          /\ Settled(w)' =>
                /\ Good(haz[w].write_block)' /\ Good(haz[w].read_block)'
                /\ Pos(haz[w].next_protect_write)' <= First(haz[w].write_block)'
                /\ Pos(haz[w].next_protect_read)' <= First(haz[w].read_block)'
    <3>1. pc'[w] \in {"count", "recheck"} =>
            /\ {c, d} \subseteq blocks
            /\ Settled(w)' => /\ Good(c)' /\ Good(d)'
                              /\ Pos(haz[w].next_protect_write) <= First(c)
                              /\ Pos(haz[w].next_protect_read) <= First(d)
      BY <1>4, <1>5, <1>7, <1>8, <1>9 DEF Acquires
    <3>2. (Good(haz[w].write_block)' <=> Good(c)') /\ (Good(haz[w].read_block)' <=> Good(d)')
          /\ First(haz[w].write_block)' = First(c) /\ First(haz[w].read_block)' = First(d)
          /\ Pos(haz[w].next_protect_write)' = Pos(haz[w].next_protect_write)
          /\ Pos(haz[w].next_protect_read)' = Pos(haz[w].next_protect_read)
      BY <1>1, <1>9
    <3> QED BY <1>1, <1>9, <3>1, <3>2
  <2> QED BY <2>1, <2>2, <2>3 DEF Acquires
<1> QED BY <1>5, <1>6, <1>7, <1>10

\* Such a step and the blocks a token has.
LEMMA PassHas ==
  ASSUME Running, NEW t \in Tokens, NEW p, Passes(t, p), NEW w \in Tokens
  PROVE  Has(w)' /\ (Member(w) => \A f \in Fields : First(ListHead)' <= First(haz[w][f]) \/ p = "validate")
<1> HIDE DEF Running
<1>1. /\ \A b : First(b)' = First(b)
      /\ blocks' = blocks /\ rec' = rec /\ op' = op /\ haz' = haz
      /\ Sold' = Sold /\ Turn' = Turn /\ p \in {"validate", "commit"}
  BY PassFrame
<1>2. /\ p = "commit" => ListHead' = rec.new
      /\ p = "validate" => ListHead' = ListHead
      /\ First(ListHead)' \in Nat
      /\ p = "commit" /\ Member(w) => Clear(w)
  BY PassKnows
<1>3. Has(w) BY Fixed
<1>4. \A b \in blocks : b \in OnList' <=> First(ListHead)' <= First(b) BY PassAcquires
<1>5. Acquired(w)' => Acquired(w)
  <2>1. pc'[w] = pc[w] \/ (pc[w] \in Passed /\ pc'[w] \in Passed) BY PassLeaves
  <2>2. Settled(w)' => Settled(w) BY PassAcquires
  <2> QED BY <1>1, <2>1, <2>2 DEF Acquired, Passed, Announcing
<1>6. PICK c, d : c = haz[w].write_block /\ d = haz[w].read_block OBVIOUS
<1>7. ASSUME Member(w), p = "commit"
      PROVE  \A f \in Fields : First(ListHead)' <= First(haz[w][f])
  <2>1. \A f \in Fields : First(rec.new) <= First(haz[w][f]) BY <1>2, <1>7 DEF Clear
  <2>2. First(ListHead)' = First(rec.new)
    <3>1. PICK h : h = ListHead' OBVIOUS
    <3> QED BY <1>1, <1>2, <1>7, <3>1
  <2> QED BY <2>1, <2>2
<1>8. Acquired(w)' => c \in OnList' /\ d \in OnList'
  <2>1. Acquired(w) => Member(w) /\ c \in OnList /\ d \in OnList /\ c \in blocks /\ d \in blocks
    BY <1>3, <1>6, Members DEF Has, OnList
  <2>2. CASE p = "commit" BY <1>4, <1>5, <1>6, <1>7, <2>1, <2>2 DEF Fields
  <2>3. CASE p = "validate"
    <3>1. First(ListHead)' = First(ListHead)
      <4>1. PICK h : h = ListHead OBVIOUS
      <4> QED BY <1>1, <1>2, <2>3, <4>1
    <3> QED BY <1>4, <1>5, <2>1, <3>1 DEF OnList
  <2> QED BY <1>1, <2>2, <2>3
<1>9. Has(w)'
  <2>1. \A f \in Fields : haz'[w][f] # Null => haz'[w][f] \in blocks' /\ Near(haz[w].active_offset)'
    BY <1>1, <1>3 DEF Has, Near
  <2>2. Acquired(w)' =>
          /\ {haz'[w].write_block, haz'[w].read_block} \subseteq OnList'
          /\ First(haz[w].write_block)' <= Sold' /\ First(haz[w].read_block)' <= Turn'
          /\ Pos(haz[w].next_protect_write)' <= First(haz[w].write_block)'
          /\ Pos(haz[w].next_protect_read)' <= First(haz[w].read_block)'
    <3>1. Acquired(w) =>
          /\ First(c) <= Sold /\ First(d) <= Turn
          /\ Pos(haz[w].next_protect_write) <= First(c)
          /\ Pos(haz[w].next_protect_read) <= First(d)
      BY <1>3, <1>6 DEF Has
    <3>2. First(haz[w].write_block)' = First(c) /\ First(haz[w].read_block)' = First(d)
          /\ Pos(haz[w].next_protect_write)' = Pos(haz[w].next_protect_write)
          /\ Pos(haz[w].next_protect_read)' = Pos(haz[w].next_protect_read)
      BY <1>1, <1>6
    <3> QED BY <1>1, <1>5, <1>6, <1>8, <3>1, <3>2
  <2> QED BY <2>1, <2>2 DEF Has
<1> QED BY <1>1, <1>7, <1>9

\* Such a step and the blocks a token uses.
LEMMA PassUses ==
  ASSUME Running, NEW t \in Tokens, NEW p, Passes(t, p), NEW w \in Tokens
  PROVE  Uses(w)'
<1> HIDE DEF Running
<1>1. /\ \A b : First(b)' = First(b)
      /\ \A m : Reaches(m)' = Reaches(m)
      /\ blocks' = blocks /\ rec' = rec /\ op' = op /\ haz' = haz
      /\ p \in {"validate", "commit"}
  BY PassFrame
<1>2. /\ p = "commit" => ListHead' = rec.new
      /\ p = "validate" => ListHead' = ListHead
      /\ First(ListHead)' \in Nat
      /\ p = "commit" /\ Member(w) => Clear(w)
      /\ Drawn(w) => First(ListHead)' <= Base(Begin(w))
  BY PassKnows
<1>3. Uses(w) BY Fixed
<1>4. \A b \in blocks : b \in OnList' <=> First(ListHead)' <= First(b) BY PassAcquires
<1>5. /\ Begin(w)' = Begin(w) /\ Finish(w)' = Finish(w) /\ Search(w)' = Search(w) /\ Active(w)' = Active(w)
      /\ LastPos(w)' = LastPos(w) /\ Field(w)' = Field(w)
      /\ Drawn(w)' = Drawn(w) /\ Reclaimer(w)' = Reclaimer(w)
      /\ pc'[w] = pc[w] \/ (pc[w] \in Passed /\ pc'[w] \in Passed)
  BY PassLeaves
<1>6. /\ (pc'[w] = "draw" => pc[w] = "draw") /\ (pc'[w] \in Seeking => pc[w] \in Seeking)
      /\ (pc'[w] \in Walking => pc[w] = pc'[w])
      /\ (pc'[w] \in {"reserve", "claim", "cross", "check_closed", "seek"} => pc'[w] = pc[w])
      /\ (pc'[w] \in {"write", "wake", "claim"} \cup Reading \cup Writing => pc'[w] = pc[w])
  BY <1>5 DEF Passed, Announcing, Seeking, Walking, Polling, Writing, Reading
<1>7. /\ {Begin(w), op[w].written} \subseteq Nat /\ Base(Begin(w)) \in Nat /\ Base(Begin(w)) \in Starts
      /\ Search(w) \in Nat /\ \A b \in blocks : First(b) \in Nat /\ First(b) \in Starts
  BY Parts, Bounds, BaseOf DEF Starts
<1>8. PICK x, y, m : x = op[w].walk /\ y = op[w].block /\ m = Finish(w) - 1 OBVIOUS
<1>9. /\ First(op[w].walk)' = First(x) /\ First(op[w].block)' = First(y) /\ From(w)' = From(w)
      /\ (Reaches(Finish(w) - 1)' <=> Reaches(m))
  <2>1. First(op[w].walk)' = First(x) /\ First(op[w].block)' = First(y) BY <1>1, <1>8
  <2>2. Reaches(Finish(w) - 1)' <=> Reaches(m)' BY <1>5, <1>8 DEF Reaches
  <2>3. From(w)' = From(w) BY <1>1, <1>5 DEF From, First
  <2> QED BY <1>1, <2>1, <2>2, <2>3
<1>10. \A b : b \in OnList => b \in blocks BY DEF OnList
<1>11. /\ pc[w] \in Walking => First(ListHead)' <= Search(w) /\ x \in OnList'
  <2>1. pc[w] \in Walking => Drawn(w) /\ Member(w) /\ First(ListHead) <= Search(w) /\ x \in blocks
                             /\ Search(w) <= First(x)
    BY <1>3, <1>8, <1>10, Members DEF Uses
  <2>2. pc[w] \in Walking => First(ListHead)' <= Search(w)
    <3>1. CASE p = "commit"
      <4>1. First(ListHead)' = First(rec.new)
        <5>1. PICK h : h = ListHead' OBVIOUS
        <5> QED BY <1>1, <1>2, <3>1, <5>1
      <4> QED BY <1>2, <2>1, <3>1, <4>1 DEF Clear
    <3>2. CASE p = "validate"
      <4>1. First(ListHead)' = First(ListHead)
        <5>1. PICK h : h = ListHead OBVIOUS
        <5> QED BY <1>1, <1>2, <3>2, <5>1
      <4> QED BY <2>1, <4>1
    <3> QED BY <1>1, <3>1, <3>2
  <2>3. First(x) \in Nat \/ x \notin blocks BY <1>7
  <2> QED BY <1>2, <1>4, <1>7, <2>1, <2>2, <2>3
<1>12. \A b \in blocks : Drawn(w) /\ Base(Begin(w)) <= First(b) => b \in OnList'
  BY <1>2, <1>4, <1>7
<1>13. /\ pc[w] = "reserve" => y \in OnList' /\ First(y) = Base(Begin(w))
       /\ pc[w] \in {"write", "wake", "claim"} \cup Reading \/ Reclaimer(w) =>
             y \in OnList' /\ First(y) = Base(Begin(w) + op[w].written)
  <2>1. pc[w] \in {"reserve", "write", "wake", "claim"} \cup Reading \/ Reclaimer(w) => Drawn(w)
    BY DEF Drawn, Walking, Writing, Polling
  <2>2. Base(Begin(w)) <= Base(Begin(w) + op[w].written) BY <1>7, BaseGrows
  <2>3. pc[w] = "reserve" => y \in blocks /\ First(y) = Base(Begin(w))
    BY <1>3, <1>8, <1>10 DEF Uses
  <2>4. pc[w] \in {"write", "wake", "claim"} \cup Reading \/ Reclaimer(w) =>
             y \in blocks /\ First(y) = Base(Begin(w) + op[w].written)
    BY <1>3, <1>8, <1>10 DEF Uses
  <2> QED BY <1>7, <1>12, <2>1, <2>2, <2>3, <2>4
<1>14. pc[w] = "cross" => y \in OnList' /\ First(y) + BlockSize = Begin(w) + op[w].written
  <2> SUFFICES ASSUME pc[w] = "cross"
               PROVE  y \in OnList' /\ First(y) + BlockSize = Begin(w) + op[w].written
    OBVIOUS
  <2>1. Drawn(w) /\ op[w].written > 0 BY Fixed DEF Drawn, Writing, Control
  <2>2. y \in blocks /\ First(y) + BlockSize = Begin(w) + op[w].written
    BY <1>3, <1>8, <1>10 DEF Uses
  <2>3. First(y) \in Starts /\ First(y) \in Nat /\ First(y) + BlockSize > Begin(w)
    BY <1>7, <2>1, <2>2
  <2>4. Base(Begin(w)) <= First(y)
    <3>1. Base(Begin(w)) <= Begin(w) BY <1>7, BaseOf
    <3>2. First(y) < Base(Begin(w)) => First(y) + BlockSize <= Base(Begin(w))
      BY <1>7, <2>3, StartsApart
    <3> QED BY <1>7, <2>3, <3>1, <3>2, Sizes
  <2> QED BY <1>12, <2>1, <2>2, <2>4
<1>15. /\ pc'[w] = "draw" \/ Drawn(w)' => Active(w)' <= From(w)'
       /\ Drawn(w)' => First(ListHead)' <= Base(Begin(w)') /\ Active(w)' <= Base(Begin(w)')
       /\ pc'[w] \in Seeking => From(w)' <= Base(Begin(w)')
  BY <1>2, <1>3, <1>5, <1>6, <1>9 DEF Uses
<1>16. /\ pc'[w] \in Walking =>
            /\ op'[w].walk \in OnList' /\ First(ListHead)' <= Search(w)'
            /\ Search(w)' \in Starts /\ Active(w)' <= Search(w)' /\ Search(w)' <= First(op[w].walk)'
       /\ pc'[w] \in {"check_closed", "seek"} => First(op[w].walk)' <= Base(Begin(w)')
       /\ pc'[w] = "reserve" =>
            /\ op'[w].block \in OnList' /\ First(op[w].block)' = Base(Begin(w)')
            /\ First(op[w].block)' <= First(op[w].walk)' /\ First(op[w].walk)' <= Base(LastPos(w)')
  BY <1>1, <1>3, <1>5, <1>6, <1>8, <1>9, <1>11, <1>13 DEF Uses, Starts
<1>17. /\ pc'[w] \in {"write", "wake", "claim"} \cup Reading \/ Reclaimer(w)' =>
            op'[w].block \in OnList' /\ First(op[w].block)' = Base(Begin(w)' + op'[w].written)
       /\ pc'[w] = "claim" => Search(w)' <= First(op[w].block)'
       /\ pc'[w] = "cross" => op'[w].block \in OnList'
                                /\ First(op[w].block)' + BlockSize = Begin(w)' + op'[w].written
       /\ pc'[w] \in Writing => Reaches(Finish(w) - 1)'
  BY <1>1, <1>3, <1>5, <1>6, <1>8, <1>9, <1>13, <1>14 DEF Uses
<1> QED BY <1>15, <1>16, <1>17 DEF Uses

\* Such a step and a token.
LEMMA PassToken ==
  ASSUME Running, NEW t \in Tokens, NEW p, Passes(t, p), NEW w \in Tokens, Met(w)'
  PROVE  Token(w)'
<1> HIDE DEF Running
<1>1. /\ lock = t /\ lock' = t /\ op' = op /\ closed' = closed /\ flags' = flags
      /\ Sold' = Sold /\ Turn' = Turn /\ Cut' = Cut
      /\ \A m \in Nat : Done(m)' = Done(m)
  BY PassFrame DEF Passes
<1>2. \A v \in Tokens :
         /\ op'[v] = op[v] /\ haz'[v] = haz[v] /\ (pc'[v] = pc[v] \/ (pc[v] \in Passed /\ pc'[v] \in Passed /\ v = t))
         /\ Begin(v)' = Begin(v)
         /\ \A m : Suspended(v, m)' = Suspended(v, m) /\ Swept(v, m)' = Swept(v, m)
  BY PassLeaves
<1>3. /\ Finish(w)' = Finish(w) /\ Posting(w)' = Posting(w)
      /\ Sender(w)' = Sender(w) /\ Drawn(w)' = Drawn(w) /\ Reclaimer(w)' = Reclaimer(w)
      /\ Reader(w)' = Reader(w) /\ Unaware(w)' = Unaware(w) /\ Named(w)' = Named(w) /\ Begin(w)' = Begin(w)
  BY PassLeaves
<1>4. /\ Control(w) /\ Post(w) /\ Pull(w) /\ Sought(w) /\ Parks(w) /\ Begin(w) \in Nat BY Parts
<1>6. Control(w)'
  <2>1. (lock' = w) <=> (lock = w) BY <1>1
  <2> QED BY <1>2, <1>3, <1>4, <2>1 DEF Control, Passed, Announcing, Writing, Reclaiming, Closing, Sweeping
<1>7. Closer(w)'
  <2>1. pc[t] \in Announcing BY DEF Passes
  <2>2. pc'[w] \notin Closing
    BY <1>1, <1>2, <1>4, <2>1 DEF Control, Passed, Announcing, Closing, Sweeping
  <2> QED BY <2>2 DEF Closer, Closing, Sweeping
<1>8. Done(Begin(w))' <=> Done(Begin(w))
  <2>1. PICK m : m = Begin(w) OBVIOUS
  <2>2. (Done(Begin(w))' <=> Done(m)') /\ (Done(Begin(w)) <=> Done(m)) BY <1>3, <2>1 DEF Done
  <2> QED BY <1>1, <1>4, <2>1, <2>2
<1>9. Post(w)' BY <1>1, <1>2, <1>3, <1>4 DEF Post, Passed, Announcing, Writing
<1>10. Pull(w)' BY <1>1, <1>2, <1>3, <1>4, <1>8 DEF Pull, Passed, Announcing
<1>11. PICK m : m = Begin(w) OBVIOUS
<1>12. Sought(w)'
  <2>1. \A v \in Tokens : Swept(v, Begin(w))' <=> Swept(v, Begin(w))
    <3>1. \A v \in Tokens : (Swept(v, Begin(w))' <=> Swept(v, m)') /\ (Swept(v, Begin(w)) <=> Swept(v, m))
      BY <1>3, <1>11 DEF Swept
    <3> QED BY <1>2, <3>1
  <2> QED BY <1>1, <1>3, <1>4, <2>1 DEF Sought
<1>13. Parks(w)'
  <2>1. \A v \in Tokens : (pc'[v] = "wake" <=> pc[v] = "wake") /\ Begin(v)' = Begin(v)
    BY <1>2 DEF Passed, Announcing
  <2>2. pc'[w] = "parked" => pc[w] = "parked" BY <1>2 DEF Passed, Announcing
  <2>3. pc'[w] = "parked" =>
          /\ flags'[op'[w].block][IndexOf(op'[w].idx)] = w
          /\ Done(Begin(w))' => \E u \in Tokens : pc'[u] = "wake" /\ Begin(u)' + op'[u].written = Begin(w)'
    BY <1>1, <1>3, <1>4, <1>8, <2>1, <2>2 DEF Parks
  <2>4. pc'[w] = "wake" => \E u \in Tokens : Suspended(u, Begin(w) + op[w].written)'
    <3>1. PICK k : k = Begin(w) + op[w].written OBVIOUS
    <3>2. \A u \in Tokens : (Suspended(u, Begin(w) + op[w].written)' <=> Suspended(u, k)')
                            /\ (Suspended(u, Begin(w) + op[w].written) <=> Suspended(u, k))
      BY <1>1, <1>3, <3>1 DEF Suspended
    <3> QED BY <1>2, <1>4, <2>1, <3>2 DEF Parks
  <2> QED BY <2>3, <2>4 DEF Parks
<1> QED BY <1>6, <1>7, <1>9, <1>10, <1>12, <1>13, PassAcquires, PassHas, PassUses DEF Token

\* Such a step and who has been met.
LEMMA PassMet ==
  ASSUME Running, NEW t \in Tokens, NEW p, Passes(t, p), NEW w \in Tokens
  PROVE  Met(w)'
<1> HIDE DEF Running
<1>1. /\ \A places : At(places)' <=> p \in places
      /\ \A places : At(places) <=> pc[t] \in places
      /\ \A b : First(b)' = First(b)
      /\ rec' = rec /\ haz' = haz /\ haz_ptr_counter' = haz_ptr_counter
      /\ p \in {"validate", "commit"}
  BY PassFrame
<1>2. pc[t] \in Announcing BY DEF Passes
<1>3. CASE p = "commit"
  <2>1. ~At({"scan"} \cup Aiming)' BY <1>1, <1>3 DEF Aiming, Visiting, Announcing
  <2> QED BY <2>1, NothingMet
<1>4. CASE p = "validate"
  <2>1. /\ ~At({"scan"})' /\ ~At(Visiting)' /\ ~At({"swap", "revalidate"})' /\ At(Announcing) /\ At(Aiming)
    BY <1>1, <1>2, <1>4 DEF Visiting, Announcing, Aiming
  <2>2. /\ Begin(w)' = Begin(w) /\ Search(w)' = Search(w) /\ Drawn(w)' = Drawn(w) /\ Member(w)' = Member(w)
        /\ pc'[w] = pc[w] \/ (pc[w] \in Passed /\ pc'[w] \in Passed)
    BY PassLeaves
  <2>3. (NobodyCame /\ Member(w) => Clear(w)) /\ (Drawn(w) => First(rec.new) <= Base(Begin(w)))
    BY <2>1, Parts DEF Met
  <2>4. NobodyCame' = NobodyCame BY <1>1 DEF NobodyCame
  <2>5. First(rec.new)' = First(rec.new) BY <1>1 DEF First
  <2>6. Clear(w) => Clear(w)'
    <3>1. pc'[w] \in Walking => pc[w] \in Walking BY <2>2 DEF Passed, Announcing, Walking
    <3>2. \A f \in Fields : First(haz[w][f])' = First(haz[w][f]) BY <1>1 DEF First
    <3> QED BY <2>2, <2>5, <3>1, <3>2 DEF Clear
  <2>7. NobodyCame' /\ Member(w)' => Clear(w)' BY <2>2, <2>3, <2>4, <2>6
  <2>8. Drawn(w)' => (First(rec.new) <= Base(Begin(w)))' BY <2>2, <2>3, <2>5
  <2> QED BY <2>1, <2>7, <2>8 DEF Met
<1> QED BY <1>1, <1>3, <1>4

\* A step between the new head and the decision keeps everything.
LEMMA PassKeeps ==
  ASSUME Running, NEW t \in Tokens, NEW p, Passes(t, p)
  PROVE  Running'
<1> HIDE DEF Running
<1>1. /\ \A places : At(places)' <=> p \in places
      /\ \A places : At(places) <=> pc[t] \in places
      /\ \A b : First(b)' = First(b)
      /\ \A m : Reaches(m)' = Reaches(m)
      /\ blocks' = blocks /\ lock' = t /\ rec' = rec /\ op' = op /\ haz' = haz /\ closed' = closed
      /\ flags' = flags /\ haz_ptr_counter' = haz_ptr_counter /\ head_block' = head_block
      /\ UNCHANGED <<list, elements, offsets, cutoff, tail_block>> /\ head_offset' = head_offset
      /\ Sold' = Sold /\ Turn' = Turn /\ Cut' = Cut /\ CutDrawn' = CutDrawn
      /\ Seen(Tokens) /\ SendersApart' /\ ReadersApart'
      /\ reclaim_counter' \in Nat /\ reclaim_counter <= reclaim_counter'
      /\ p \in {"validate", "commit"} /\ pc' \in [Tokens -> Places]
  BY PassFrame
<1>2. /\ rec.new = head_block /\ rec.new \in OnList /\ rec.new \in blocks /\ rec.old \in blocks
      /\ {First(rec.new), First(rec.old), Sold, Turn} \subseteq Nat
      /\ First(rec.old) < First(rec.new) /\ First(rec.new) <= Base(Sold)
      /\ First(rec.new) <= Sold /\ First(rec.new) <= Turn
      /\ ListHead = rec.old /\ Lowest = rec.old /\ rec.unlinked = <<>>
      /\ p = "validate" => ListHead' = rec.old
      /\ p = "commit" => ListHead' = rec.new
      /\ Lowest' = Lowest /\ First(ListHead)' \in Nat /\ First(ListHead) <= First(ListHead)'
      /\ rec.new \in OnList'
  BY PassKnows
<1>3. /\ lock = t /\ pc[t] \in Announcing /\ setup' = setup /\ told' = told /\ under' = under
      /\ UNCHANGED <<setup, blocks, next, offset, flags, stored, write_offset, read_offset, write_closed_at,
                     head_offset, closed, haz_ptr_counter, head_block, tail_block, lock, rec, haz, op, told, under>>
  BY DEF Passes, queue, list, elements, offsets, cutoff, reclaim, heads, clients
<1>4. TypeOK /\ Linked /\ Heads /\ Numbers /\ Asking /\ Served /\ Cells /\ Clean BY DEF Running
<1>5. TypeOK'
  <2>1. \A u \in Tokens : op[u].seen <= reclaim_counter'
    <3>1. \A u \in Tokens : op[u].seen \in Nat /\ op[u].seen <= reclaim_counter /\ reclaim_counter \in Nat
      BY Fixed
    <3> QED BY <1>1, <3>1
  <2> QED BY <1>1, <1>3, <1>4, <2>1 DEF TypeOK
<1>6. Linked'
  <2>1. ListHead' \in blocks /\ Lowest' \in blocks /\ tail_block' \in blocks
    BY <1>1, <1>2, <1>3, <1>4 DEF Linked
  <2>2. PICK l : l = Lowest OBVIOUS
  <2>3. First(Lowest)' = First(l) BY <1>1, <1>2, <2>2
  <2> QED BY <1>1, <1>3, <1>4, <2>1, <2>2, <2>3 DEF Linked
<1>7. Heads'
  <2>1. Pos(head_offset) <= First(ListHead) /\ Pos(head_offset) \in Nat /\ First(ListHead) \in Nat
    BY <1>2, <1>4, Types DEF Heads
  <2>2. Pos(head_offset)' <= First(ListHead)' BY <1>1, <1>2, <2>1
  <2>3. First(head_block)' = First(rec.new) BY <1>1, <1>2
  <2> QED BY <1>1, <1>2, <2>2, <2>3 DEF Heads
<1>8. Numbers'
  <2>1. ~At({"cutoff", "publish"}) /\ ~At({"cutoff", "publish"})' BY <1>1, <1>3 DEF Announcing
  <2> QED BY <1>1, <1>3, <1>4, <2>1 DEF Numbers
<1>9. Asking'
  <2>1. \A u \in Tokens : pc'[u] = pc[u] \/ (pc[u] \in Passed /\ pc'[u] \in Passed)
    BY PassLeaves
  <2>2. \A u \in Tokens : pc'[u] \in BeforeDraw =>
             pc[u] \in BeforeDraw /\ op'[u].name = op[u].name /\ op'[u].count = op[u].count
    BY <1>1, <2>1 DEF Passed, Announcing, BeforeDraw
  <2> QED BY <1>1, <1>4, <2>2, AskingKeeps
<1>10. Served' /\ Cells' /\ Clean'
  <2>1. At({"relink"})' = At({"relink"})
    <3>1. ~At({"relink"})' /\ ~At({"relink"}) BY <1>1, <1>3 DEF Announcing
    <3> QED BY <3>1 DEF At
  <2>2. UNCHANGED <<list, elements, read_offset>> BY <1>1, <1>3
  <2>3. rec'.unlinked = rec.unlinked /\ (closed' = "closed" <=> closed = "closed") BY <1>1
  <2> QED BY <1>1, <1>4, <2>1, <2>2, <2>3, CellsKeep
<1>11. Reclaim'
  <2>1. /\ ~At({"load_count"})' /\ ~At({"scan"})' /\ ~At(Visiting)' /\ ~At({"visit_read", "swap", "revalidate"})'
        /\ ~At({"swap"})' /\ ~At(Moves)' /\ ~At({"relink"})'
    BY <1>1 DEF Visiting, Moves
  <2>2. First(rec.new)' = First(rec.new) /\ First(rec.old)' = First(rec.old) BY <1>1 DEF First
  <2>3. rec'.new \in OnList' /\ (First(rec.old) < First(rec.new))' /\ (First(rec.new) <= Base(Sold))'
        /\ rec'.new = head_block' /\ rec'.old \in blocks' /\ rec'.unlinked = <<>>
    BY <1>1, <1>2, <2>2
  <2> QED BY <2>1, <2>3 DEF Reclaim
<1>12. \A u \in Tokens : Token(u)' BY PassMet, PassToken
<1> QED BY <1>1, <1>5, <1>6, <1>7, <1>8, <1>9, <1>10, <1>11, <1>12 DEF Running

\* try_reclaim_blocks(): reclaim_counter, before haz_ptr_counter is read again.
LEMMA AnnounceKeeps ==
  ASSUME Running, NEW t \in Tokens, Announce(t)
  PROVE  Running'
<1>1. lock = t BY Parts DEF Announce, Control, Reclaiming, Announcing
<1>2. Passes(t, "validate") BY <1>1 DEF Passes, Announce, GoTo, Announcing
<1> QED BY <1>2, PassKeeps

\* try_reclaim_blocks(): has anybody taken a hazard pointer since the scan?
LEMMA CheckHazPtrCounterKeeps ==
  ASSUME Running, NEW t \in Tokens, CheckHazPtrCounter(t)
  PROVE  Running'
<1> HIDE DEF Running
<1>1. pc[t] = "validate" /\ UNCHANGED <<queue, counters, reclaim, haz, op, clients>>
  BY DEF CheckHazPtrCounter
<1>2. lock = t /\ Reclaimer(t)
  <2>1. lock = t BY <1>1, Parts DEF Control, Reclaiming, Announcing
  <2> QED BY <1>1, <2>1, Holding DEF Reclaiming, Announcing
<1>3. CASE NobodyCame
  <2>1. Passes(t, "commit")
    BY <1>1, <1>2, <1>3 DEF Passes, CheckHazPtrCounter, GoTo, Announcing, counters
  <2> QED BY <2>1, PassKeeps
<1>4. CASE ~NobodyCame
  <2>1. pc' = [pc EXCEPT ![t] = "rollback"] BY <1>4 DEF CheckHazPtrCounter, GoTo
  <2>2. /\ UNCHANGED <<queue, counters, head_offset, tail_block, clients>> /\ lock' = t /\ haz' = haz /\ op' = op
        /\ rec' = rec /\ head_block' = head_block /\ UNCHANGED <<list, offsets, head_block, head_offset>>
        /\ head_offset' = head_offset
    BY <1>1, <1>2 DEF reclaim, heads, queue
  <2>3. "rollback" \in Reclaiming BY DEF Reclaiming
  <2>4. /\ \A places : At(places)' <=> "rollback" \in places
        /\ \A u \in Tokens : Begin(u)' = Begin(u) /\ (Drawn(u)' <=> Drawn(u))
        /\ \A b : First(b)' = First(b)
        /\ blocks' = blocks /\ Sold' = Sold /\ Turn' = Turn
    BY <1>2, <2>1, <2>2, <2>3, RecFrame
  <2>5. \A places : At(places) <=> "validate" \in places BY <1>1, <1>2, Holding
  <2>6. ListHead' = ListHead /\ Lowest' = Lowest
    <3>1. At({"announce", "validate", "rollback"})' /\ At({"announce", "validate", "rollback"})
      BY <2>4, <2>5
    <3>2. ListHead' = ListHead BY <2>2, <3>1 DEF ListHead, At
    <3> QED BY <2>4, <2>5, <3>2 DEF Lowest, Moves
  <2>7. Heads' /\ OnList' = OnList BY <2>2, <2>6, HeadsStay
  <2>8. Reclaim'
    <3>1. At(Aiming) /\ At(Announcing \cup {"rollback", "commit"} \cup Moves) /\ At(Announcing \cup {"rollback"})
          /\ ~At(Moves)
      BY <2>5 DEF Announcing, Aiming, Moves
    <3>2. Reclaim BY DEF Running
    <3>3. /\ rec.new \in OnList /\ First(rec.old) < First(rec.new) /\ First(rec.new) <= Base(Sold)
          /\ rec.new = head_block /\ rec.old \in blocks /\ rec.unlinked = <<>>
      BY <3>1, <3>2 DEF Reclaim
    <3>4. First(rec.new)' = First(rec.new) /\ First(rec.old)' = First(rec.old)
      BY <2>2, <2>4 DEF First
    <3>5. /\ rec'.new \in OnList' /\ (First(rec.old) < First(rec.new))' /\ (First(rec.new) <= Base(Sold))'
          /\ rec'.new = head_block' /\ rec'.old \in blocks' /\ rec'.unlinked = <<>>
      BY <2>2, <2>4, <2>7, <3>3, <3>4
    <3>6. /\ ~At({"load_count"})' /\ ~At({"scan"})' /\ ~At(Visiting)' /\ ~At({"visit_read", "swap", "revalidate"})'
          /\ ~At({"swap"})' /\ ~At({"commit"})' /\ ~At(Moves)' /\ ~At({"relink"})'
      BY <2>4 DEF Visiting, Moves
    <3> QED BY <3>5, <3>6 DEF Reclaim
  <2>9. ASSUME NEW u \in Tokens
        PROVE  Met(u)'
    <3>1. At(Aiming) /\ Met(u) BY <2>5, Parts DEF Aiming, Announcing
    <3>2. Drawn(u) => First(rec.new) <= Base(Begin(u)) BY <3>1 DEF Met
    <3>3. First(rec.new)' = First(rec.new) BY <2>2, <2>4 DEF First
    <3>4. Drawn(u)' => (First(rec.new) <= Base(Begin(u)))' BY <2>4, <3>2, <3>3
    <3>5. ~At({"scan"})' /\ ~At(Visiting)' /\ ~At(Announcing)' /\ ~At({"swap", "revalidate"})'
      BY <2>4 DEF Visiting, Announcing
    <3> QED BY <3>4, <3>5 DEF Met
  <2>10. At({"relink"})' = At({"relink"}) /\ ~At({"validate"})'
    <3>1. ~At({"relink"}) /\ ~At({"relink"})' /\ ~At({"validate"})' BY <2>4, <2>5
    <3>2. At({"relink"})' = At({"relink"}) BY <3>1 DEF At
    <3> QED BY <3>1, <3>2
  <2>11. head_block' \in Block /\ rec' \in RecType /\ rec'.count <= haz_ptr_counter /\ rec'.unlinked = rec.unlinked
    BY <1>2, <2>2, Holding
  <2>12. "rollback" \in Reclaiming \cup {"wait", "holding"} BY <2>3
  <2> QED BY <1>2, <2>1, <2>2, <2>3, <2>6, <2>7, <2>8, <2>9, <2>10, <2>11, <2>12, LockStep
<1> QED BY <1>3, <1>4

\* try_reclaim_blocks(): the old head again.
LEMMA RollbackKeeps ==
  ASSUME Running, NEW t \in Tokens, Rollback(t)
  PROVE  Running'
<1> HIDE DEF Running
<1>1. /\ pc[t] = "rollback" /\ pc' = [pc EXCEPT ![t] = "unlock"] /\ head_block' = rec.old
      /\ UNCHANGED <<queue, counters, head_offset, tail_block, lock, rec, haz, op, clients>>
  BY DEF Rollback, GoTo
<1>2. lock = t /\ Reclaimer(t)
  <2>1. lock = t BY <1>1, Parts DEF Control, Reclaiming
  <2> QED BY <1>1, <2>1, Holding DEF Reclaiming
<1>3. /\ lock' = t /\ haz' = haz /\ op' = op /\ rec' = rec /\ UNCHANGED <<list, offsets>> /\ head_offset' = head_offset
  BY <1>1, <1>2 DEF queue
<1>4. "unlock" \in Reclaiming BY DEF Reclaiming
<1>5. /\ \A places : At(places)' <=> "unlock" \in places
      /\ \A b : First(b)' = First(b)
      /\ blocks' = blocks /\ Sold' = Sold /\ Turn' = Turn
  BY <1>1, <1>2, <1>3, <1>4, RecFrame
<1>6. \A places : At(places) <=> "rollback" \in places BY <1>1, <1>2, Holding
<1>7. ListHead = rec.old /\ ListHead' = ListHead /\ Lowest' = Lowest
  <2>1. At({"announce", "validate", "rollback"}) /\ ~At({"announce", "validate", "rollback"})'
    BY <1>5, <1>6
  <2>2. ListHead = rec.old /\ ListHead' = head_block' BY <2>1 DEF ListHead, At
  <2>3. ~At({"commit"}) /\ ~At(Moves) /\ ~At({"commit"})' /\ ~At(Moves)' BY <1>5, <1>6 DEF Moves
  <2> QED BY <1>1, <2>2, <2>3 DEF Lowest
<1>8. OnList' = OnList
  <2>1. PICK h : h = ListHead OBVIOUS
  <2>2. First(ListHead)' = First(ListHead) BY <1>5, <1>7, <2>1
  <2> QED BY <1>5, <2>2 DEF OnList
<1>9. /\ rec.new = head_block /\ rec.old \in blocks /\ First(rec.old) < First(rec.new) /\ rec.unlinked = <<>>
  <2>1. At(Aiming) /\ At(Announcing \cup {"rollback", "commit"} \cup Moves) /\ At(Announcing \cup {"rollback"})
        /\ ~At(Moves)
    BY <1>6 DEF Announcing, Aiming, Moves
  <2>2. Reclaim BY DEF Running
  <2> QED BY <2>1, <2>2 DEF Reclaim
<1>10. Heads'
  <2>1. Heads /\ ListHead \in OnList
    <3>1. Heads BY DEF Running
    <3>2. ListHead \in blocks /\ First(ListHead) \in Nat BY Bounds DEF Starts
    <3> QED BY <3>1, <3>2 DEF OnList
  <2>2. /\ First(head_block) <= Sold /\ First(head_block) <= Turn /\ {Sold, Turn} \subseteq Nat
        /\ First(rec.old) \in Nat /\ First(head_block) \in Nat
    BY <1>9, <2>1, Parts, Bounds DEF Heads, Starts
  <2>3. First(head_block)' = First(rec.old) BY <1>1, <1>5
  <2>4. First(rec.old) <= Sold' /\ First(rec.old) <= Turn' BY <1>5, <1>9, <2>2
  <2>5. rec.old \in OnList BY <1>7, <2>1
  <2>6. First(ListHead)' = First(ListHead)
    <3>1. PICK h : h = ListHead OBVIOUS
    <3> QED BY <1>5, <1>7, <3>1
  <2> QED BY <1>1, <1>3, <1>8, <2>1, <2>3, <2>4, <2>5, <2>6 DEF Heads
<1>11. Reclaim'
  <2>1. ~At({"load_count", "scan", "commit"} \cup Aiming \cup Moves)'
    BY <1>5 DEF Aiming, Visiting, Announcing, Moves
  <2> QED BY <1>3, <1>9, <2>1, NothingReclaimed
<1>12. \A u \in Tokens : Met(u)'
  <2>1. ~At({"scan"} \cup Aiming)' BY <1>5 DEF Aiming, Visiting, Announcing
  <2> QED BY <2>1, NothingMet
<1>13. At({"relink"})' = At({"relink"}) /\ ~At({"validate"})'
  <2>1. ~At({"relink"}) /\ ~At({"relink"})' /\ ~At({"validate"})' BY <1>5, <1>6
  <2>2. At({"relink"})' = At({"relink"}) BY <2>1 DEF At
  <2> QED BY <2>1, <2>2
<1>14. head_block' \in Block /\ rec' \in RecType /\ rec'.count <= haz_ptr_counter /\ rec'.unlinked = rec.unlinked
  BY <1>1, <1>2, <1>3, <1>9, Holding, Fixed
<1>15. "unlock" \in Reclaiming \cup {"wait", "holding"} BY <1>4
<1> QED BY <1>1, <1>2, <1>3, <1>4, <1>7, <1>10, <1>11, <1>12, <1>13, <1>14, <1>15, LockStep

\* The reclaimer moves blocks that are not on the list.
LEMMA MoveStep ==
  ASSUME Running, NEW t \in Tokens, NEW p \in {"reset", "relink", "unlock"}, Reclaimer(t), lock = t,
         pc' = [pc EXCEPT ![t] = p], op' = op, haz' = haz, lock' = t,
         UNCHANGED <<offsets, cutoff, counters, clients>>,
         ListHead' = ListHead, head_block' = head_block, blocks' = blocks,
         \A b \in OnList : offset'[b] = offset[b] /\ flags'[b] = flags[b],
         TypeOK', Linked', Heads', Reclaim', Cells', Clean'
  PROVE  Running'
<1> HIDE DEF Running
<1>1. p \in Reclaiming /\ p \notin {"scan"} \cup Aiming /\ p # "validate" /\ p \in Reclaiming \cup {"wait", "holding"}
      /\ p \notin {"wait", "holding"}
  BY DEF Reclaiming, Moves, Aiming, Visiting, Announcing
<1>2. pc'[t] = p BY DEF Running
<1>3. \A u \in Tokens : Met(u)'
  <2>1. ~At({"scan"} \cup Aiming)' BY <1>1, <1>2 DEF At
  <2> QED BY <2>1, NothingMet
<1>4. ~At({"validate"})' BY <1>1, <1>2 DEF At
<1>5. /\ Calm({t}) /\ Only({t}) /\ Seen({t})
      /\ pc' \in [Tokens -> Places] /\ Cut' = Cut /\ closed' = closed
      /\ \A m \in Nat : Done(m)' = Done(m) /\ Taken(m)' = Taken(m)
      /\ Token(t)' /\ Numbers' /\ Asking' /\ SendersApart' /\ ReadersApart' /\ Served'
  BY <1>1, <1>3, <1>4, LockFrame
<1>6. ASSUME NEW u \in Tokens \ {t}
      PROVE  Met(u)' /\ Parks(u)'
  <2>1. pc[u] = "parked" => flags'[op[u].block][IndexOf(op[u].idx)] = u
    <3>1. pc[u] = "parked" => op[u].block \in OnList /\ flags[op[u].block][IndexOf(op[u].idx)] = u
      BY Parts DEF Uses, Parks, Reading
    <3> QED BY <3>1
  <2> QED BY <1>3, <1>5, <2>1, ParksKeep
<1>7. \A u \in Tokens \ {t}, w \in {t} : Unaware(u) /\ Swept(w, Begin(u)) => Swept(w, Begin(u))'
  <2>1. op[t].name # "close" BY DEF Reclaimer
  <2> QED BY <2>1 DEF Swept
<1>8. (\A m \in Nat : Done(m) => Done(m)') /\ (closed' = "closed" => closed = "closed") /\ \A u \in {t} : Token(u)'
  BY <1>5
<1>9. \A u \in Tokens \ {t} : Met(u)' /\ Parks(u)' BY <1>6
<1> QED BY <1>5, <1>7, <1>8, <1>9, OpenStep

\* Cells of blocks that are moved, or are as they were.
LEMMA CellsMove ==
  ASSUME Running, NEW t \in Tokens, NEW p \in Places, pc' = [pc EXCEPT ![t] = p], op' = op, haz' = haz,
         Seen({t}), read_offset' = read_offset, Cut' = Cut, closed' = closed, blocks' = blocks,
         \A m \in Nat : Reaches(m) => Reaches(m)',
         \A b \in blocks :
             \/ At({"relink"})' /\ b \in Unlinked'
             \/ /\ ~(At({"relink"}) /\ b \in Unlinked)
                /\ First(b)' = First(b) /\ flags'[b] = flags[b] /\ stored'[b] = stored[b]
             \/ \A i \in Index : CellOK(First(b) + i, flags[b][i], stored[b][i])'
  PROVE  Cells'
<1> HIDE DEF Running
<1>1. Cells /\ TypeOK BY DEF Running
<1>2. Only({t}) /\ {t} \in SUBSET Tokens BY DEF Only, Running
<1>3. /\ Seen(Tokens)
      /\ \A m \in Nat : Done(m)' = Done(m)
  BY <1>2, ViewsKeep
<1>4. Turn' = Turn BY DEF Turn
<1>5. \A m \in Nat : \A flag, value : CellOK(m, flag, value) => CellOK(m, flag, value)'
  <2>1. \A u \in Tokens, m \in Nat : /\ Takes(u, m)' = Takes(u, m) /\ Suspended(u, m)' = Suspended(u, m)
                                     /\ Swept(u, m)' = Swept(u, m)
    BY <1>3 DEF Seen
  <2> QED BY <1>3, <1>4, <2>1, CellsSee
<1>6. ASSUME NEW b \in blocks, NEW i \in Index, ~(At({"relink"})' /\ b \in Unlinked')
      PROVE  CellOK(First(b) + i, flags[b][i], stored[b][i])'
  <2>1. CASE \A j \in Index : CellOK(First(b) + j, flags[b][j], stored[b][j])' BY <2>1
  <2>2. CASE /\ ~(At({"relink"}) /\ b \in Unlinked)
             /\ First(b)' = First(b) /\ flags'[b] = flags[b] /\ stored'[b] = stored[b]
    <3>1. PICK m, flag, value : m = First(b) + i /\ flag = flags[b][i] /\ value = stored[b][i]
      OBVIOUS
    <3>2. m \in Nat BY <1>1, <3>1, Types, Sizes DEF Index
    <3>3. CellOK(m, flag, value) BY <1>1, <2>2, <3>1 DEF Cells
    <3>4. CellOK(m, flag, value)' BY <1>5, <3>2, <3>3
    <3>5. First(b)' + i = m /\ flags'[b][i] = flag /\ stored'[b][i] = value BY <2>2, <3>1
    <3> QED BY <3>4, <3>5
  <2> QED BY <1>6, <2>1, <2>2
<1>7. \A m \in Nat : Done(m)' => Reaches(m)' BY <1>1, <1>3 DEF Cells
<1> QED BY <1>6, <1>7 DEF Cells

\* What the reclaimer knows while it moves blocks.
LEMMA MovesIs ==
  ASSUME Running, NEW t \in Tokens, pc[t] \in {"commit"} \cup Moves
  PROVE  /\ lock = t /\ Reclaimer(t) /\ \A places : At(places) <=> pc[t] \in places
         /\ rec.new = head_block /\ ListHead = head_block /\ rec.new \in OnList /\ rec.new \in blocks /\ rec.new \in Block
         /\ First(rec.new) \in Nat /\ First(rec.new) <= Turn /\ First(rec.new) <= Sold /\ Pos(head_offset) <= First(rec.new)
         /\ rec \in RecType /\ rec.count <= haz_ptr_counter /\ Len(rec.unlinked) <= GroupSize
         /\ \A b \in blocks : First(b) \in Nat /\ First(b) \in Starts /\ b \in Block
         /\ pc[t] = "commit" => Lowest = rec.old /\ rec.old \in blocks /\ First(rec.old) < First(rec.new)
         /\ pc[t] # "commit" =>
               /\ Lowest = rec.unlinked[1] /\ rec.unlinked # <<>> /\ Unlinked \subseteq blocks
               /\ \A k \in 1 .. Len(rec.unlinked) :
                    /\ First(rec.unlinked[k]) = First(rec.unlinked[1]) + (k - 1) * BlockSize
                    /\ First(rec.unlinked[k]) < First(rec.new)
<1> HIDE DEF Running
<1>1. lock = t BY Parts DEF Control, Reclaiming
<1>2. Reclaimer(t) BY <1>1, Holding DEF Reclaiming, Moves
<1>3. /\ \A places : At(places) <=> pc[t] \in places
      /\ rec \in RecType /\ rec.count <= haz_ptr_counter /\ Len(rec.unlinked) <= GroupSize
  BY <1>1, Holding
<1>4. Reclaim /\ Heads BY DEF Running
<1>5. /\ At(Announcing \cup {"rollback", "commit"} \cup Moves) /\ ~At({"announce", "validate", "rollback"})
      /\ (pc[t] = "commit" => At({"commit"})) /\ (pc[t] # "commit" => At(Moves) /\ ~At({"commit"}))
  BY <1>3 DEF Moves
<1>6. rec.new = head_block /\ ListHead = head_block BY <1>4, <1>5 DEF Reclaim, ListHead, At
<1>7. /\ rec.new \in OnList /\ First(rec.new) <= Turn /\ First(rec.new) <= Sold /\ Pos(head_offset) <= First(rec.new)
  BY <1>4, <1>6 DEF Heads
<1>8. \A b \in blocks : First(b) \in Nat /\ First(b) \in Starts /\ b \in Block
  BY Bounds, Fixed DEF Starts
<1>9. rec.new \in blocks BY <1>7 DEF OnList
<1>10. pc[t] = "commit" => Lowest = rec.old /\ rec.old \in blocks /\ First(rec.old) < First(rec.new)
  BY <1>4, <1>5 DEF Reclaim, Lowest
<1>11. pc[t] # "commit" =>
               /\ Lowest = rec.unlinked[1] /\ rec.unlinked # <<>> /\ Unlinked \subseteq blocks
               /\ \A k \in 1 .. Len(rec.unlinked) :
                    /\ First(rec.unlinked[k]) = First(rec.unlinked[1]) + (k - 1) * BlockSize
                    /\ First(rec.unlinked[k]) < First(rec.new)
  BY <1>4, <1>5 DEF Reclaim, Lowest
<1> QED BY <1>1, <1>2, <1>3, <1>6, <1>7, <1>8, <1>9, <1>10, <1>11

\* A step of it leaves tickets and calls alone.
LEMMA MoveSees ==
  ASSUME Running, NEW t \in Tokens, pc[t] \in {"commit"} \cup Moves, NEW p \in {"reset", "relink", "unlock"},
         pc' = [pc EXCEPT ![t] = p], op' = op, haz' = haz, lock' = lock,
         UNCHANGED <<offsets, cutoff>>, head_block' = head_block
  PROVE  /\ Seen({t}) /\ Cut' = Cut /\ Sold' = Sold /\ Turn' = Turn /\ closed' = closed /\ read_offset' = read_offset
         /\ \A places : At(places)' <=> p \in places
         /\ ListHead' = ListHead /\ p \in Places /\ pc' \in [Tokens -> Places]
         /\ p = "unlock" => Lowest' = ListHead'
         /\ p # "unlock" => Lowest' = rec'.unlinked[1]
<1> HIDE DEF Running
<1>1. lock = t /\ Reclaimer(t) /\ ListHead = head_block /\ \A places : At(places) <=> pc[t] \in places
  BY MovesIs
<1>2. pc'[t] = p /\ p \in Places /\ pc' \in [Tokens -> Places]
  BY DEF Running, Places, Reclaiming, Moves
<1>3. \A places : At(places)' <=> p \in places BY <1>1, <1>2, TokenAssumption DEF At
<1>4. Sold' = Sold /\ Turn' = Turn /\ closed' = closed /\ write_closed_at' = write_closed_at /\ read_offset' = read_offset
  BY DEF offsets, cutoff, Sold, Turn
<1>5. Cut' = Cut
  <2>1. ~At({"publish"}) /\ ~At({"publish"})' BY <1>1, <1>3 DEF Moves
  <2> QED BY <1>4, <2>1 DEF Cut
<1>6. ListHead' = head_block'
  <2>1. ~At({"announce", "validate", "rollback"})' BY <1>3
  <2> QED BY <2>1 DEF ListHead, At
<1>7. /\ p = "unlock" => Lowest' = ListHead'
      /\ p # "unlock" => Lowest' = rec'.unlinked[1]
  <2>1. ~At({"commit"})' /\ (p = "unlock" => ~At(Moves)') /\ (p # "unlock" => At(Moves)')
    BY <1>3 DEF Moves
  <2> QED BY <2>1 DEF Lowest
<1>8. Seen({t})
  <2>1. op'[t] = op[t] /\ op[t].name # "close" /\ Posting(t)' = Posting(t) /\ Begin(t)' = Begin(t)
        /\ pc[t] \in Reclaiming /\ p \in Reclaiming
    BY <1>1, <1>2 DEF Reclaimer, Posting, Begin, Reclaiming, Moves
  <2>2. Reclaimer(t)' BY <1>2, <2>1 DEF Reclaimer
  <2>3. ~Sender(t)' /\ ~Sender(t) BY <1>1, <1>2, <2>1 DEF Sender, Moves, Walking, Writing
  <2>4. (Reader(t)' <=> Reader(t)) BY <1>1, <1>2, <2>1, <2>2 DEF Reader, Drawn
  <2>5. pc[t] \notin {"parked", "wake"} /\ pc'[t] \notin {"parked", "wake"} /\ op'[t].count = op[t].count /\ op'[t].name # "close"
    BY <1>2, <2>1 DEF Moves
  <2> QED BY <2>1, <2>3, <2>4, <2>5, SeenSame
<1> QED BY <1>1, <1>2, <1>3, <1>4, <1>5, <1>6, <1>7, <1>8

\* try_reclaim_blocks(): the new head stays, and the blocks before it are unlinked.
LEMMA CommitKeeps ==
  ASSUME Running, NEW t \in Tokens, Commit(t)
  PROVE  Running'
<1> HIDE DEF Running
<1>1. /\ pc[t] = "commit" /\ pc' = [pc EXCEPT ![t] = "reset"] /\ head_offset' = offset[rec.new]
      /\ rec' = [rec EXCEPT !.unlinked = Group(rec.old)] /\ op' = op /\ haz' = haz /\ lock' = lock
      /\ UNCHANGED <<queue, counters, head_block, tail_block, clients>>
  BY DEF Commit, GoTo
<1>2. /\ UNCHANGED <<list, elements, offsets, cutoff>> /\ blocks' = blocks /\ offset' = offset /\ next' = next
      /\ flags' = flags /\ stored' = stored /\ head_block' = head_block /\ tail_block' = tail_block
  BY <1>1 DEF queue, list, elements
<1>3. /\ lock = t /\ Reclaimer(t) /\ \A places : At(places) <=> pc[t] \in places
      /\ rec.new = head_block /\ ListHead = head_block /\ rec.new \in OnList /\ rec.new \in blocks /\ rec.new \in Block
      /\ First(rec.new) \in Nat /\ First(rec.new) <= Turn /\ First(rec.new) <= Sold
      /\ rec \in RecType /\ rec.count <= haz_ptr_counter
      /\ Lowest = rec.old /\ rec.old \in blocks /\ First(rec.old) < First(rec.new)
  BY <1>1, MovesIs
<1>4. PICK g : /\ g = Group(rec.old) /\ g \in Seq(Block) /\ Len(g) \in 1 .. GroupSize /\ g[1] = rec.old
               /\ \A k \in 1 .. Len(g) : /\ g[k] \in blocks /\ First(g[k]) = First(rec.old) + (k - 1) * BlockSize
                                         /\ First(g[k]) < First(rec.new)
  BY <1>3, GroupIs
<1>5. rec'.unlinked = g /\ rec'.new = rec.new /\ rec'.count = rec.count /\ rec' \in RecType
  BY <1>1, <1>3, <1>4 DEF RecType
<1>6. /\ Seen({t}) /\ Cut' = Cut /\ Sold' = Sold /\ Turn' = Turn /\ closed' = closed /\ read_offset' = read_offset
      /\ \A places : At(places)' <=> "reset" \in places
      /\ ListHead' = ListHead /\ "reset" \in Places /\ pc' \in [Tokens -> Places]
      /\ Lowest' = rec'.unlinked[1]
  <2>1. "reset" \in {"reset", "relink", "unlock"} /\ pc[t] \in {"commit"} \cup Moves BY <1>1
  <2> QED BY <1>1, <1>2, <2>1, MoveSees
<1>7. \A b : First(b)' = First(b) BY <1>2 DEF First
<1>8. /\ Linked' /\ OnList' = OnList /\ (\A m : Reaches(m)' = Reaches(m))
  <2>1. Lowest' = Lowest /\ UNCHANGED <<list, tail_block>> BY <1>2, <1>3, <1>4, <1>5, <1>6
  <2> QED BY <1>6, <2>1, ListKeeps
<1>9. TypeOK'
  <2>1. TypeOK /\ offset[rec.new] \in Word /\ GroupSize \in Nat
    BY <1>3, Types DEF Running, GroupSize
  <2>2. rec' \in RecType /\ rec'.count <= haz_ptr_counter' /\ Len(rec'.unlinked) <= GroupSize
    BY <1>1, <1>3, <1>4, <1>5, <2>1 DEF counters
  <2>3. UNCHANGED <<setup, blocks, next, offset, flags, stored, write_offset, read_offset, write_closed_at,
                     closed, haz_ptr_counter, reclaim_counter, head_block, tail_block, lock, haz, op, told, under>>
    BY <1>1, <1>2 DEF offsets, cutoff, counters, clients
  <2> QED BY <1>1, <2>1, <2>2, <2>3 DEF TypeOK
<1>10. Heads'
  <2>1. First(head_block)' = First(rec.new) /\ First(ListHead)' = First(rec.new)
    BY <1>2, <1>3, <1>6, <1>7
  <2>2. Pos(head_offset)' = First(rec.new) BY <1>1 DEF First
  <2> QED BY <1>2, <1>3, <1>6, <1>8, <2>1, <2>2 DEF Heads
<1>11. Reclaim'
  <2>1. /\ ~At({"load_count"})' /\ ~At({"scan"})' /\ ~At(Aiming)' /\ ~At(Visiting)' /\ ~At({"visit_read", "swap", "revalidate"})'
        /\ ~At({"swap"})' /\ ~At({"commit"})' /\ ~At({"relink"})' /\ ~At(Announcing \cup {"rollback"})' /\ At(Moves)'
    BY <1>6 DEF Visiting, Moves, Aiming, Announcing
  <2>2. rec'.new = head_block' BY <1>2, <1>3, <1>5
  <2>3. rec'.unlinked # <<>> BY <1>4, <1>5
  <2>4. Unlinked' = { g[k] : k \in 1 .. Len(g) } BY <1>5 DEF Unlinked
  <2>5. Unlinked' \subseteq blocks' BY <1>2, <1>4, <2>4
  <2>6. \A k \in 1 .. Len(g) : /\ First(g[k])' = First(g[1])' + (k - 1) * BlockSize
                               /\ First(g[k])' < First(rec.new)
    BY <1>4, <1>7
  <2>7. \A k \in 1 .. Len(rec'.unlinked) :
                /\ First(rec.unlinked[k])' = First(rec.unlinked[1])' + (k - 1) * BlockSize
                /\ First(rec.unlinked[k])' < First(rec.new)'
    <3>1. \A k : First(rec.unlinked[k])' = First(g[k])' BY <1>5
    <3>2. First(rec.new)' = First(rec.new) BY <1>5, <1>7
    <3> QED BY <1>5, <2>6, <3>1, <3>2
  <2> QED BY <2>1, <2>2, <2>3, <2>5, <2>7 DEF Reclaim
<1>12. Cells'
  <2>1. ~At({"relink"}) BY <1>1, <1>3
  <2>2. \A b \in blocks : /\ ~(At({"relink"}) /\ b \in Unlinked)
                          /\ First(b)' = First(b) /\ flags'[b] = flags[b] /\ stored'[b] = stored[b]
    BY <1>2, <1>7, <2>1
  <2> QED BY <1>1, <1>2, <1>6, <1>8, <2>2, CellsMove
<1>13. Clean'
  <2>1. ~At({"relink"})' /\ Clean BY <1>6 DEF Running
  <2> QED BY <1>2, <2>1 DEF Clean
<1>14. \A b \in OnList : offset'[b] = offset[b] /\ flags'[b] = flags[b] BY <1>2
<1> QED BY <1>1, <1>2, <1>3, <1>6, <1>8, <1>9, <1>10, <1>11, <1>12, <1>13, <1>14, MoveStep

\* No value is before the list.
LEMMA NothingBefore ==
  ASSUME Running, NEW m \in Nat, m < First(ListHead), First(ListHead) \in Nat, First(ListHead) <= Turn,
         NEW flag, NEW value, CellOK(m, flag, value)
  PROVE  value = NoValue
<1> HIDE DEF Running
<1>1. ~Taken(m)
  <2> SUFFICES ASSUME NEW u \in Tokens, Takes(u, m)
               PROVE  FALSE
    BY DEF Taken
  <2>1. Drawn(u) /\ Begin(u) = m BY DEF Takes, Reader, Drawn, Reading
  <2>2. First(ListHead) <= Base(m) /\ Base(m) \in Nat /\ Base(m) <= m
    BY <2>1, InUse, Fixed DEF Uses
  <2> QED BY <2>2
<1>2. Turn \in Nat /\ ~(Turn <= m)
  <2>1. Turn \in Nat BY Types DEF Running
  <2> QED BY <2>1
<1> QED BY <1>1, <1>2 DEF CellOK

\* The reclaimer comes to the end of the list.
LEMMA TailIs ==
  ASSUME Running, NEW b \in blocks
  PROVE  LastBlock(b) \in OnList /\ LastBlock(b) \in Block /\ next[LastBlock(b)] = Null
<1> HIDE DEF Running
<1>1. LastBlock(b) \in blocks /\ next[LastBlock(b)] = Null BY LastBlockIs
<1>2. ListHead \in blocks /\ Linked BY Bounds DEF Running
<1>3. First(ListHead) <= First(LastBlock(b)) BY <1>1, <1>2 DEF Linked
<1> QED BY <1>1, <1>3, Fixed, TokenAssumption DEF OnList

\* The reclaimer looks for the end of the list, before or after it resets blocks.
LEMMA TailKeeps ==
  ASSUME Running, NEW t \in Tokens, pc[t] \in Moves, pc' = [pc EXCEPT ![t] = "relink"],
         NEW b \in blocks, rec' = [rec EXCEPT !.tail = LastBlock(b)],
         UNCHANGED <<list, stored, offsets, cutoff, counters, heads, lock, haz, op, clients>>,
         \/ pc[t] = "relink" /\ flags' = flags
         \/ pc[t] = "reset" /\ flags' = [c \in Block |-> AfterReset(c)]
  PROVE  Running'
<1> HIDE DEF Running
<1>1. /\ UNCHANGED <<list, offsets, cutoff>> /\ blocks' = blocks /\ offset' = offset /\ next' = next
      /\ stored' = stored /\ head_block' = head_block /\ tail_block' = tail_block /\ head_offset' = head_offset
      /\ lock' = lock /\ haz' = haz /\ op' = op
  BY DEF list, heads
<1>2. /\ lock = t /\ Reclaimer(t) /\ \A places : At(places) <=> pc[t] \in places
      /\ rec.new = head_block /\ ListHead = head_block /\ rec.new \in OnList /\ rec.new \in blocks /\ rec.new \in Block
      /\ First(rec.new) \in Nat /\ First(rec.new) <= Turn /\ First(rec.new) <= Sold /\ Pos(head_offset) <= First(rec.new)
      /\ rec \in RecType /\ rec.count <= haz_ptr_counter /\ Len(rec.unlinked) <= GroupSize
      /\ \A c \in blocks : First(c) \in Nat /\ First(c) \in Starts /\ c \in Block
      /\ Lowest = rec.unlinked[1] /\ rec.unlinked # <<>> /\ Unlinked \subseteq blocks
      /\ \A k \in 1 .. Len(rec.unlinked) :
                    /\ First(rec.unlinked[k]) = First(rec.unlinked[1]) + (k - 1) * BlockSize
                    /\ First(rec.unlinked[k]) < First(rec.new)
  <2>1. pc[t] \in {"commit"} \cup Moves /\ pc[t] # "commit" BY DEF Moves
  <2> QED BY <2>1, MovesIs
<1>3. LastBlock(b) \in OnList /\ LastBlock(b) \in Block BY TailIs
<1>4. rec'.unlinked = rec.unlinked /\ rec'.new = rec.new /\ rec'.count = rec.count /\ rec' \in RecType
      /\ rec'.tail = LastBlock(b) /\ Unlinked' = Unlinked
  <2>1. rec'.unlinked = rec.unlinked /\ rec'.new = rec.new /\ rec'.count = rec.count /\ rec' \in RecType
        /\ rec'.tail = LastBlock(b)
    BY <1>2, <1>3 DEF RecType
  <2> QED BY <2>1 DEF Unlinked
<1>5. /\ Seen({t}) /\ Cut' = Cut /\ Sold' = Sold /\ Turn' = Turn /\ closed' = closed /\ read_offset' = read_offset
      /\ \A places : At(places)' <=> "relink" \in places
      /\ ListHead' = ListHead /\ "relink" \in Places /\ pc' \in [Tokens -> Places]
      /\ Lowest' = rec'.unlinked[1]
  <2>1. "relink" \in {"reset", "relink", "unlock"} /\ pc[t] \in {"commit"} \cup Moves
    BY DEF Moves
  <2> QED BY <1>1, <2>1, MoveSees
<1>6. \A c : First(c)' = First(c) BY <1>1 DEF First
<1>7. /\ Linked' /\ OnList' = OnList /\ (\A m : Reaches(m)' = Reaches(m))
  <2>1. Lowest' = Lowest /\ UNCHANGED <<list, tail_block>> BY <1>1, <1>2, <1>4, <1>5
  <2> QED BY <1>5, <2>1, ListKeeps
<1>8. /\ flags' \in [Block -> [Index -> Flag]]
      /\ \A c \in Block : c \notin Unlinked => flags'[c] = flags[c]
      /\ \A c \in Block : flags'[c] = flags[c] \/ flags'[c] = Fresh
      /\ pc[t] = "reset" => \A c \in Unlinked : flags'[c] = Fresh
  <2>1. flags \in [Block -> [Index -> Flag]] /\ Unlinked \subseteq Block
    BY <1>2 DEF Running, TypeOK
  <2>2. Fresh \in [Index -> Flag] BY DEF Fresh, Flag
  <2> QED BY <2>1, <2>2 DEF AfterReset
<1>9. \A c \in OnList : c \notin Unlinked /\ c \in Block
  <2>1. At(Moves) BY <1>2
  <2> QED BY <1>2, <2>1, ListApart DEF OnList
<1>10. TypeOK'
  <2>1. TypeOK BY DEF Running
  <2>2. rec' \in RecType /\ rec'.count <= haz_ptr_counter' /\ Len(rec'.unlinked) <= GroupSize
    BY <1>2, <1>4 DEF counters
  <2>3. UNCHANGED <<setup, blocks, next, offset, stored, write_offset, read_offset, write_closed_at, head_offset,
                     closed, haz_ptr_counter, reclaim_counter, head_block, tail_block, lock, haz, op, told, under>>
    BY <1>1 DEF offsets, cutoff, counters, clients
  <2> QED BY <1>8, <2>1, <2>2, <2>3 DEF TypeOK
<1>11. Heads'
  <2>1. UNCHANGED <<list, offsets, head_block, head_offset>> BY <1>1
  <2> QED BY <1>5, <2>1, HeadsStay
<1>12. Reclaim'
  <2>1. /\ ~At({"load_count"})' /\ ~At({"scan"})' /\ ~At(Aiming)' /\ ~At(Visiting)' /\ ~At({"visit_read", "swap", "revalidate"})'
        /\ ~At({"swap"})' /\ ~At({"commit"})' /\ ~At(Announcing \cup {"rollback"})' /\ At(Moves)'
    BY <1>5 DEF Visiting, Moves, Aiming, Announcing
  <2>2. rec'.new = head_block' /\ rec'.unlinked # <<>> /\ Unlinked' \subseteq blocks' /\ rec'.tail \in OnList'
    BY <1>1, <1>2, <1>3, <1>4, <1>7
  <2>3. \A k \in 1 .. Len(rec'.unlinked) :
                /\ First(rec.unlinked[k])' = First(rec.unlinked[1])' + (k - 1) * BlockSize
                /\ First(rec.unlinked[k])' < First(rec.new)'
    <3>1. \A k : First(rec.unlinked[k])' = First(rec.unlinked[k]) BY <1>1, <1>4 DEF First
    <3>2. First(rec.new)' = First(rec.new) BY <1>4, <1>6
    <3> QED BY <1>2, <1>4, <3>1, <3>2
  <2> QED BY <2>1, <2>2, <2>3 DEF Reclaim
<1>13. Cells'
  <2>1. At({"relink"})' BY <1>5
  <2>2. \A c \in blocks : \/ At({"relink"})' /\ c \in Unlinked'
                          \/ /\ ~(At({"relink"}) /\ c \in Unlinked)
                             /\ First(c)' = First(c) /\ flags'[c] = flags[c] /\ stored'[c] = stored[c]
    BY <1>1, <1>2, <1>4, <1>6, <1>8, <2>1
  <2>3. (\A m \in Nat : Reaches(m) => Reaches(m)') /\ "relink" \in Places BY <1>5, <1>7
  <2> QED BY <1>1, <1>5, <2>2, <2>3, CellsMove
<1>14. \A c \in Unlinked : \A i \in Index : stored[c][i] = NoValue
  <2>1. CASE pc[t] = "relink"
    <3>1. At({"relink"}) /\ Clean BY <1>2, <2>1 DEF Running
    <3> QED BY <3>1 DEF Clean
  <2>2. CASE pc[t] = "reset"
    <3> SUFFICES ASSUME NEW c \in Unlinked, NEW i \in Index
                 PROVE  stored[c][i] = NoValue
      OBVIOUS
    <3>1. Cells /\ ~At({"relink"}) BY <1>2, <2>2 DEF Running
    <3>2. CellOK(First(c) + i, flags[c][i], stored[c][i]) /\ c \in blocks
      BY <1>2, <3>1 DEF Cells
    <3>3. First(c) < First(rec.new) BY <1>2 DEF Unlinked
    <3>4. First(c) + BlockSize <= First(rec.new) /\ First(c) \in Nat /\ i \in Nat /\ i < BlockSize
      <4>1. First(c) \in Starts /\ First(rec.new) \in Starts /\ First(c) \in Nat BY <1>2, <3>2
      <4>2. First(c) + BlockSize <= First(rec.new) BY <3>3, <4>1, StartsApart
      <4>3. i \in Nat /\ i < BlockSize BY Sizes DEF Index
      <4> QED BY <4>1, <4>2, <4>3
    <3>5. First(c) + i \in Nat /\ First(c) + i < First(rec.new)
      <4>1. PICK n \in Nat : n = First(c) BY <3>4
      <4>2. First(rec.new) \in Nat /\ BlockSize \in Nat BY <1>2, Sizes
      <4> QED BY <3>4, <4>1, <4>2
    <3>6. ListHead = rec.new BY <1>2
    <3> QED BY <1>2, <3>2, <3>5, <3>6, NothingBefore
  <2> QED BY <2>1, <2>2 DEF Moves
<1>15. Clean'
  <2>1. Clean /\ (pc[t] = "relink" => At({"relink"})) BY <1>2 DEF Running
  <2>2. \A c \in Unlinked : flags'[c] = Fresh
    <3>1. pc[t] = "relink" => \A c \in Unlinked : flags[c] = Fresh BY <2>1 DEF Clean
    <3> QED BY <1>8, <3>1 DEF Moves
  <2> QED BY <1>1, <1>4, <1>14, <2>1, <2>2 DEF Clean, Fresh
<1>16. \A c \in OnList : offset'[c] = offset[c] /\ flags'[c] = flags[c] BY <1>1, <1>8, <1>9
<1> QED BY <1>1, <1>2, <1>5, <1>7, <1>10, <1>11, <1>12, <1>13, <1>15, <1>16, MoveStep

\* try_reclaim_blocks(): the unlinked blocks are made empty.
LEMMA ResetValuesKeeps ==
  ASSUME Running, NEW t \in Tokens, ResetValues(t)
  PROVE  Running'
<1>1. tail_block \in blocks BY Bounds
<1>2. /\ pc[t] \in Moves /\ pc[t] = "reset" /\ pc' = [pc EXCEPT ![t] = "relink"]
      /\ rec' = [rec EXCEPT !.tail = LastBlock(tail_block)] /\ flags' = [c \in Block |-> AfterReset(c)]
      /\ UNCHANGED <<list, stored, offsets, cutoff, counters, heads, lock, haz, op, clients>>
  BY DEF ResetValues, GoTo, Moves
<1> QED BY <1>1, <1>2, TailKeeps

\* try_reclaim_blocks(): one step of the way to the end of the list.
LEMMA RelinkWalkKeeps ==
  ASSUME Running, NEW t \in Tokens, pc[t] = "relink", rec' = [rec EXCEPT !.tail = LastBlock(rec.tail)],
         UNCHANGED <<queue, counters, heads, lock, haz, pc, op, clients>>
  PROVE  Running'
<1>1. rec.tail \in blocks
  <2>1. At({"relink"}) /\ Reclaim BY MovesIs DEF Moves, Running
  <2> QED BY <2>1 DEF Reclaim, OnList
<1>2. /\ pc[t] \in Moves /\ pc' = [pc EXCEPT ![t] = "relink"] /\ flags' = flags
      /\ UNCHANGED <<list, stored, offsets, cutoff, counters, heads, lock, haz, op, clients>>
  BY DEF Running, queue, elements, Moves
<1> QED BY <1>1, <1>2, TailKeeps

\* The starts of up to four blocks.
LEMMA InGroup ==
  ASSUME NEW f \in Starts, NEW n \in 1 .. GroupSize
  PROVE  /\ \A k \in 1 .. n : k * BlockSize \in Nat /\ f + (k - 1) * BlockSize \in Starts
                              /\ f + k * BlockSize = f + (k - 1) * BlockSize + BlockSize /\ f + k * BlockSize \in Starts
                              /\ k * BlockSize <= n * BlockSize /\ BlockSize <= k * BlockSize
                              /\ f + (k - 1) * BlockSize < f + n * BlockSize
         /\ \A j, k \in 1 .. n : j * BlockSize = k * BlockSize => j = k
         /\ \A s \in Starts : f <= s /\ s < f + n * BlockSize => \E k \in 1 .. n : s = f + (k - 1) * BlockSize
<1>1. PICK w \in Nat : w = BlockSize /\ w > 0 BY Sizes
<1>2. n \in {1, 2, 3, 4} BY DEF GroupSize
<1>3. f \in Nat /\ f + w \in Starts /\ f + 2 * w \in Starts /\ f + 3 * w \in Starts /\ f + 4 * w \in Starts
  <2>1. f \in Nat /\ f + w \in Starts BY <1>1, StartsApart
  <2>2. (f + w) + w \in Starts BY <1>1, <2>1, StartsApart
  <2>3. ((f + w) + w) + w \in Starts BY <1>1, <2>2, StartsApart
  <2>4. (((f + w) + w) + w) + w \in Starts BY <1>1, <2>3, StartsApart
  <2>5. (f + w) + w = f + 2 * w /\ ((f + w) + w) + w = f + 3 * w /\ (((f + w) + w) + w) + w = f + 4 * w
    BY <1>1, <2>1
  <2> QED BY <2>1, <2>2, <2>3, <2>4, <2>5
<1>4. \A k \in 1 .. n : k * w \in Nat /\ f + (k - 1) * w \in Starts
                              /\ f + k * w = f + (k - 1) * w + w /\ f + k * w \in Starts
                              /\ k * w <= n * w /\ w <= k * w /\ f + (k - 1) * w < f + n * w
  <2> SUFFICES ASSUME NEW k \in 1 .. n
               PROVE  k * w \in Nat /\ f + (k - 1) * w \in Starts
                              /\ f + k * w = f + (k - 1) * w + w /\ f + k * w \in Starts
                              /\ k * w <= n * w /\ w <= k * w /\ f + (k - 1) * w < f + n * w
    OBVIOUS
  <2>1. k \in {1, 2, 3, 4} BY <1>2
  <2>2. 0 * w = 0 /\ 1 * w = w /\ 2 * w = w + w /\ 3 * w = w + w + w /\ 4 * w = w + w + w + w
    BY <1>1
  <2>3. CASE k = 1 BY <1>1, <1>2, <1>3, <2>2, <2>3
  <2>4. CASE k = 2 BY <1>1, <1>2, <1>3, <2>2, <2>4
  <2>5. CASE k = 3 BY <1>1, <1>2, <1>3, <2>2, <2>5
  <2>6. CASE k = 4 BY <1>1, <1>2, <1>3, <2>2, <2>6
  <2> QED BY <2>1, <2>3, <2>4, <2>5, <2>6
<1>5. \A j, k \in 1 .. n : j * w = k * w => j = k
  <2> SUFFICES ASSUME NEW j \in 1 .. n, NEW k \in 1 .. n, j * w = k * w
               PROVE  j = k
    OBVIOUS
  <2>1. k \in {1, 2, 3, 4} /\ j \in {1, 2, 3, 4} BY <1>2
  <2>2. 1 * w = w /\ 2 * w = w + w /\ 3 * w = w + w + w /\ 4 * w = w + w + w + w BY <1>1
  <2> QED BY <1>1, <2>1, <2>2
<1>6. ASSUME NEW s \in Starts, f <= s, s < f + n * w
      PROVE  \E k \in 1 .. n : s = f + (k - 1) * w
  <2>1. /\ s \in Nat
        /\ s = f \/ s >= f + w
        /\ s = f + w \/ s < f + w \/ s >= f + 2 * w
        /\ s = f + 2 * w \/ s < f + 2 * w \/ s >= f + 3 * w
        /\ s = f + 3 * w \/ s < f + 3 * w \/ s >= f + 4 * w
    <3>1. s \in Nat /\ f \in Nat /\ (f < s => f + w <= s) BY <1>1, <1>3, StartsApart
    <3>2. f + w < s => (f + w) + w <= s BY <1>1, <1>3, StartsApart
    <3>3. f + 2 * w < s => (f + 2 * w) + w <= s BY <1>1, <1>3, StartsApart
    <3>4. f + 3 * w < s => (f + 3 * w) + w <= s BY <1>1, <1>3, StartsApart
    <3> QED BY <1>1, <1>6, <3>1, <3>2, <3>3, <3>4
  <2>2. CASE n = 1
    <3>1. s = f + (1 - 1) * w /\ 1 \in 1 .. n BY <1>1, <1>3, <1>6, <2>1, <2>2
    <3> QED BY <3>1
  <2>3. CASE n = 2
    <3>1. s = f + (1 - 1) * w \/ s = f + (2 - 1) * w BY <1>1, <1>3, <1>6, <2>1, <2>3
    <3> QED BY <2>3, <3>1
  <2>4. CASE n = 3
    <3>1. s = f + (1 - 1) * w \/ s = f + (2 - 1) * w \/ s = f + (3 - 1) * w
      BY <1>1, <1>3, <1>6, <2>1, <2>4
    <3> QED BY <2>4, <3>1
  <2>5. CASE n = 4
    <3>1. s = f + (1 - 1) * w \/ s = f + (2 - 1) * w \/ s = f + (3 - 1) * w \/ s = f + (4 - 1) * w
      BY <1>1, <1>3, <1>6, <2>1, <2>5
    <3> QED BY <2>5, <3>1
  <2> QED BY <1>2, <2>2, <2>3, <2>4, <2>5
<1> QED BY <1>1, <1>4, <1>5, <1>6

\* Where the group is that is relinked: it is the start of the list.
LEMMA GroupLeads ==
  ASSUME Running, NEW t \in Tokens, pc[t] = "relink", next[rec.tail] = Null
  PROVE  /\ rec.unlinked \in Seq(Block) /\ Len(rec.unlinked) \in 1 .. GroupSize
         /\ First(Lowest) \in Starts /\ Lowest = rec.unlinked[1] /\ First(rec.tail) \in Starts
         /\ rec.tail \in OnList /\ rec.tail \notin Unlinked /\ rec.tail \in blocks
         /\ First(rec.new) \in Starts /\ First(rec.new) <= Top
         /\ \A k \in 1 .. Len(rec.unlinked) :
               /\ rec.unlinked[k] \in blocks /\ rec.unlinked[k] \in Unlinked
               /\ First(rec.unlinked[k]) = First(Lowest) + (k - 1) * BlockSize
         /\ \A j, k \in 1 .. Len(rec.unlinked) : rec.unlinked[j] = rec.unlinked[k] => j = k
         /\ \A b \in blocks : /\ First(Lowest) <= First(b) /\ First(b) <= First(rec.tail)
                              /\ First(b) <= Top + First(Lowest)
                              /\ b \in Unlinked <=> First(b) < First(Lowest) + Len(rec.unlinked) * BlockSize
         /\ First(Lowest) + Len(rec.unlinked) * BlockSize <= First(rec.new)
<1> HIDE DEF Running
<1>1. /\ rec.new = head_block /\ rec.new \in OnList /\ rec.new \in blocks
      /\ First(rec.new) \in Nat /\ First(rec.new) <= Sold
      /\ rec \in RecType /\ Len(rec.unlinked) <= GroupSize
      /\ \A b \in blocks : First(b) \in Nat /\ First(b) \in Starts /\ b \in Block
      /\ Lowest = rec.unlinked[1] /\ rec.unlinked # <<>> /\ Unlinked \subseteq blocks
      /\ \A k \in 1 .. Len(rec.unlinked) :
            /\ First(rec.unlinked[k]) = First(rec.unlinked[1]) + (k - 1) * BlockSize
            /\ First(rec.unlinked[k]) < First(rec.new)
      /\ At(Moves) /\ At({"relink"})
  BY MovesIs DEF Moves
<1>2. /\ Linked /\ Reclaim /\ Lowest \in blocks /\ Sold <= Top /\ Top \in Nat /\ Sold \in Nat
  BY Bounds, Types DEF Running, Linked
<1>3. rec.tail \in OnList /\ rec.tail \in blocks /\ rec.tail \notin Unlinked
  BY <1>1, <1>2, ListApart DEF Reclaim, OnList
<1>4. PICK n : n = Len(rec.unlinked) /\ n \in 1 .. GroupSize /\ rec.unlinked \in Seq(Block)
  BY <1>1 DEF RecType, GroupSize
<1>5. PICK f : f = First(Lowest) /\ f \in Starts /\ f \in Nat BY <1>1, <1>2
<1>6. /\ \A k \in 1 .. n : k * BlockSize \in Nat /\ f + (k - 1) * BlockSize \in Starts
                              /\ f + k * BlockSize = f + (k - 1) * BlockSize + BlockSize /\ f + k * BlockSize \in Starts
                              /\ k * BlockSize <= n * BlockSize /\ BlockSize <= k * BlockSize
                              /\ f + (k - 1) * BlockSize < f + n * BlockSize
      /\ \A j, k \in 1 .. n : j * BlockSize = k * BlockSize => j = k
      /\ \A s \in Starts : f <= s /\ s < f + n * BlockSize => \E k \in 1 .. n : s = f + (k - 1) * BlockSize
  BY <1>4, <1>5, InGroup
<1>7. \A k \in 1 .. n : rec.unlinked[k] \in blocks /\ rec.unlinked[k] \in Unlinked
                        /\ First(rec.unlinked[k]) = f + (k - 1) * BlockSize
  BY <1>1, <1>4, <1>5 DEF Unlinked
<1>8. \A j, k \in 1 .. n : rec.unlinked[j] = rec.unlinked[k] => j = k
  <2> SUFFICES ASSUME NEW j \in 1 .. n, NEW k \in 1 .. n, rec.unlinked[j] = rec.unlinked[k]
               PROVE  j = k
    OBVIOUS
  <2>1. f + (j - 1) * BlockSize = f + (k - 1) * BlockSize BY <1>7
  <2>2. PICK w \in Nat : w = BlockSize BY Sizes
  <2>3. f + j * w = f + (j - 1) * w + w /\ f + k * w = f + (k - 1) * w + w /\ j * w \in Nat /\ k * w \in Nat
    BY <1>6, <2>2
  <2>4. f + j * w = f + k * w BY <2>1, <2>2, <2>3
  <2>5. j * w = k * w BY <1>5, <2>3, <2>4
  <2> QED BY <1>6, <2>2, <2>5
<1>9. \A b \in blocks : First(Lowest) <= First(b) /\ First(b) <= First(rec.tail) /\ First(b) <= Top + First(Lowest)
  BY <1>2, <1>3 DEF Linked
<1>10. \A b \in blocks : b \in Unlinked <=> First(b) < f + n * BlockSize
  <2> SUFFICES ASSUME NEW b \in blocks
               PROVE  b \in Unlinked <=> First(b) < f + n * BlockSize
    OBVIOUS
  <2>1. ASSUME b \in Unlinked PROVE First(b) < f + n * BlockSize
    <3>1. PICK k \in 1 .. n : b = rec.unlinked[k] BY <1>4, <2>1 DEF Unlinked
    <3> QED BY <1>6, <1>7, <3>1
  <2>2. ASSUME First(b) < f + n * BlockSize PROVE b \in Unlinked
    <3>1. PICK k \in 1 .. n : First(b) = f + (k - 1) * BlockSize BY <1>1, <1>5, <1>6, <1>9, <2>2
    <3>2. First(b) = First(rec.unlinked[k]) /\ rec.unlinked[k] \in blocks BY <1>7, <3>1
    <3>3. b = rec.unlinked[k] BY <1>2, <3>2 DEF Linked
    <3> QED BY <1>7, <3>3
  <2> QED BY <2>1, <2>2
<1>11. f + n * BlockSize <= First(rec.new)
  <2>1. n \in 1 .. n
    <3>1. \A m \in 1 .. GroupSize : m \in 1 .. m BY DEF GroupSize
    <3> QED BY <1>4, <3>1
  <2>2. f + (n - 1) * BlockSize < First(rec.new) /\ f + (n - 1) * BlockSize \in Starts
        /\ f + n * BlockSize = f + (n - 1) * BlockSize + BlockSize
    BY <1>1, <1>4, <1>6, <1>7, <2>1
  <2>3. First(rec.new) \in Starts BY <1>1
  <2> QED BY <2>2, <2>3, StartsApart
<1>12. First(rec.new) <= Top BY <1>1, <1>2
<1> QED BY <1>1, <1>3, <1>4, <1>5, <1>7, <1>8, <1>9, <1>10, <1>11, <1>12

\* What comes after the group.
LEMMA GroupEnds ==
  ASSUME Running, NEW t \in Tokens, pc[t] = "relink", next[rec.tail] = Null,
         NEW u, u = rec.unlinked, NEW n, n = Len(rec.unlinked)
  PROVE  /\ \A k \in 1 .. n : k # n => next[u[k]] = u[k + 1]
         /\ next[u[n]] \in blocks /\ First(next[u[n]]) = First(Lowest) + n * BlockSize
         /\ next[u[n]] # rec.new => First(next[u[n]]) < First(rec.new)
         /\ \A b \in blocks : next[b] = Null => b = rec.tail
<1> HIDE DEF Running
<1>1. /\ u \in Seq(Block) /\ n \in 1 .. GroupSize
      /\ First(Lowest) \in Starts /\ rec.tail \in OnList /\ rec.tail \notin Unlinked /\ rec.tail \in blocks
      /\ First(rec.new) \in Starts
      /\ \A k \in 1 .. n : /\ u[k] \in blocks /\ u[k] \in Unlinked
                           /\ First(u[k]) = First(Lowest) + (k - 1) * BlockSize
      /\ \A b \in blocks : /\ First(b) <= First(rec.tail)
                           /\ b \in Unlinked <=> First(b) < First(Lowest) + n * BlockSize
      /\ First(Lowest) + n * BlockSize <= First(rec.new)
  BY GroupLeads
<1>2. Linked /\ TypeOK /\ rec.new \in blocks /\ \A b \in blocks : First(b) \in Nat /\ First(b) \in Starts
  BY MovesIs DEF Running, Moves
<1>3. PICK f : f = First(Lowest) /\ f \in Starts /\ f \in Nat BY <1>1, StartsApart
<1>4. \A k \in 1 .. n : k * BlockSize \in Nat /\ f + (k - 1) * BlockSize \in Starts
                              /\ f + k * BlockSize = f + (k - 1) * BlockSize + BlockSize /\ f + k * BlockSize \in Starts
                              /\ k * BlockSize <= n * BlockSize /\ BlockSize <= k * BlockSize
                              /\ f + (k - 1) * BlockSize < f + n * BlockSize
  BY <1>1, <1>3, InGroup
<1>5. n \in 1 .. n /\ n \in Nat
  <2>1. \A m \in 1 .. GroupSize : m \in 1 .. m /\ m \in Nat BY DEF GroupSize
  <2> QED BY <1>1, <2>1
<1>6. \A k \in 1 .. n : next[u[k]] \in blocks /\ First(next[u[k]]) = f + k * BlockSize
  <2> SUFFICES ASSUME NEW k \in 1 .. n
               PROVE  next[u[k]] \in blocks /\ First(next[u[k]]) = f + k * BlockSize
    OBVIOUS
  <2>1. u[k] \in blocks /\ First(u[k]) = f + (k - 1) * BlockSize /\ First(u[k]) < f + n * BlockSize
    BY <1>1, <1>3, <1>4
  <2>2. First(u[k]) < First(rec.new)
    <3>1. PICK x \in Nat : x = First(u[k]) BY <1>2, <2>1
    <3>2. PICK y \in Nat : y = f + n * BlockSize BY <1>4, <1>5, StartsApart
    <3>3. First(rec.new) \in Nat BY <1>2
    <3> QED BY <1>1, <1>3, <2>1, <3>1, <3>2, <3>3
  <2>3. next[u[k]] \in blocks /\ First(next[u[k]]) = First(u[k]) + BlockSize
    BY <1>2, <2>1, <2>2, NextOf
  <2> QED BY <1>4, <2>1, <2>3
<1>7. \A k \in 1 .. n : k # n => next[u[k]] = u[k + 1]
  <2> SUFFICES ASSUME NEW k \in 1 .. n, k # n
               PROVE  next[u[k]] = u[k + 1]
    OBVIOUS
  <2>1. k + 1 \in 1 .. n /\ (k + 1) - 1 = k BY <1>5
  <2>2. u[k + 1] \in blocks /\ First(u[k + 1]) = f + k * BlockSize BY <1>1, <1>3, <2>1
  <2>3. next[u[k]] \in blocks /\ First(next[u[k]]) = f + k * BlockSize BY <1>6
  <2> QED BY <1>2, <2>2, <2>3 DEF Linked
<1>8. next[u[n]] \in blocks /\ First(next[u[n]]) = f + n * BlockSize BY <1>5, <1>6
<1>9. ASSUME next[u[n]] # rec.new PROVE First(next[u[n]]) < First(rec.new)
  <2>1. First(next[u[n]]) <= First(rec.new) BY <1>1, <1>3, <1>8
  <2>2. First(next[u[n]]) # First(rec.new) BY <1>2, <1>8, <1>9 DEF Linked
  <2>3. First(next[u[n]]) \in Nat /\ First(rec.new) \in Nat BY <1>2, <1>8
  <2> QED BY <2>1, <2>2, <2>3
<1>10. ASSUME NEW b \in blocks, next[b] = Null PROVE b = rec.tail
  <2>1. First(rec.tail) <= First(b) /\ First(b) <= First(rec.tail)
    BY <1>1, <1>2, <1>10 DEF Linked
  <2>2. First(rec.tail) \in Nat /\ First(b) \in Nat BY <1>1, <1>2
  <2>3. First(rec.tail) = First(b) BY <2>1, <2>2
  <2> QED BY <1>1, <1>2, <2>3 DEF Linked
<1> QED BY <1>3, <1>7, <1>8, <1>9, <1>10

\* What a relinking does to the words.
LEMMA LinkWrites ==
  ASSUME Running, NEW t \in Tokens, pc[t] = "relink", next[rec.tail] = Null, LinkGroup(t),
         NEW u, u = rec.unlinked, NEW n, n = Len(rec.unlinked)
  PROVE  /\ UNCHANGED <<blocks, elements, offsets, cutoff, counters, head_block, head_offset, lock, haz, op, clients>>
         /\ tail_block' = u[n]
         /\ next'[rec.tail] = u[1] /\ next'[u[n]] = Null
         /\ \A b \in Block : b # rec.tail /\ b # u[n] => next'[b] = next[b]
         /\ next' \in [Block -> Block \cup {Null}] /\ offset' \in [Block -> Word]
         /\ \A k \in 1 .. n : First(u[k])' = First(rec.tail) + k * BlockSize
         /\ \A b \in Block : b \notin Unlinked => offset'[b] = offset[b] /\ First(b)' = First(b)
<1> HIDE DEF Running
<1>1. /\ next' = [next EXCEPT ![rec.tail] = rec.unlinked[1], ![rec.unlinked[Len(rec.unlinked)]] = Null]
      /\ offset' = [b \in Block |->
          IF b \in Unlinked
             THEN Stamped(rec.tail, CHOOSE k \in 1 .. Len(rec.unlinked) : rec.unlinked[k] = b)
             ELSE offset[b]]
      /\ tail_block' = rec.unlinked[Len(rec.unlinked)]
      /\ UNCHANGED <<blocks, elements, offsets, cutoff, counters, head_block, head_offset, lock, haz, op, clients>>
  BY DEF LinkGroup
<1>2. /\ u \in Seq(Block) /\ n \in 1 .. GroupSize /\ First(Lowest) \in Starts /\ First(rec.tail) \in Starts
      /\ rec.tail \in OnList /\ rec.tail \notin Unlinked /\ rec.tail \in blocks
      /\ First(rec.new) <= Top
      /\ \A k \in 1 .. n : u[k] \in blocks /\ u[k] \in Unlinked
      /\ \A j, k \in 1 .. n : u[j] = u[k] => j = k
      /\ First(rec.tail) <= Top + First(Lowest)
      /\ First(Lowest) + n * BlockSize <= First(rec.new)
  BY GroupLeads
<1>3. TypeOK /\ blocks \subseteq Block /\ First(rec.new) \in Nat /\ Top \in Nat /\ 4 * Top < WordMod /\ WordMod \in Nat
  BY MovesIs, Bounds, Types, TopIs DEF Moves, Running
<1>4. n \in 1 .. n /\ 1 \in 1 .. n /\ n \in Nat
  <2>1. \A m \in 1 .. GroupSize : m \in 1 .. m /\ 1 \in 1 .. m /\ m \in Nat BY DEF GroupSize
  <2> QED BY <1>2, <2>1
<1>5. /\ next'[rec.tail] = u[1] /\ next'[u[n]] = Null
      /\ \A b \in Block : b # rec.tail /\ b # u[n] => next'[b] = next[b]
      /\ next' \in [Block -> Block \cup {Null}]
  <2>1. next \in [Block -> Block \cup {Null}] /\ u[n] \in Block /\ u[n] # rec.tail /\ rec.tail \in Block /\ u[1] \in Block
    BY <1>2, <1>3, <1>4 DEF TypeOK
  <2>2. next' = [next EXCEPT ![rec.tail] = u[1], ![u[n]] = Null] BY <1>1
  <2> QED BY <2>1, <2>2
<1>6. \A k \in 1 .. n : k * BlockSize \in Nat /\ First(rec.tail) + k * BlockSize \in Nat
                        /\ First(rec.tail) + k * BlockSize < WordMod
  <2> SUFFICES ASSUME NEW k \in 1 .. n
               PROVE  k * BlockSize \in Nat /\ First(rec.tail) + k * BlockSize \in Nat
                        /\ First(rec.tail) + k * BlockSize < WordMod
    OBVIOUS
  <2>1. PICK f \in Nat : f = First(Lowest) BY <1>2, StartsApart
  <2>2. PICK e \in Nat : e = First(rec.tail) BY <1>2, StartsApart
  <2>3. k * BlockSize \in Nat /\ n * BlockSize \in Nat /\ k * BlockSize <= n * BlockSize
    BY <1>2, <1>4, InGroup
  <2>4. PICK x \in Nat, y \in Nat : x = k * BlockSize /\ y = n * BlockSize BY <2>3
  <2>5. e <= Top + f /\ f + y <= Top /\ x <= y BY <1>2, <1>3, <2>1, <2>2, <2>3, <2>4
  <2>6. e + x \in Nat /\ e + x < WordMod BY <1>3, <2>1, <2>2, <2>4, <2>5
  <2> QED BY <2>2, <2>4, <2>6
<1>7. \A k \in 1 .. n : Stamped(rec.tail, k) \in Word /\ Pos(Stamped(rec.tail, k)) = First(rec.tail) + k * BlockSize
  <2> SUFFICES ASSUME NEW k \in 1 .. n
               PROVE  Stamped(rec.tail, k) \in Word /\ Pos(Stamped(rec.tail, k)) = First(rec.tail) + k * BlockSize
    OBVIOUS
  <2>1. offset[rec.tail] \in Word BY <1>2, <1>3 DEF TypeOK
  <2>2. Pos(offset[rec.tail]) + k * BlockSize < WordMod /\ k * BlockSize \in Nat
    BY <1>6 DEF First
  <2> QED BY <2>1, <2>2, PosPlus DEF Stamped, First
<1>8. \A b \in Unlinked : \E k \in 1 .. n : b = u[k] BY DEF Unlinked
<1>9. \A k \in 1 .. n : (CHOOSE j \in 1 .. n : u[j] = u[k]) = k BY <1>2
<1>10. \A k \in 1 .. n : offset'[u[k]] = Stamped(rec.tail, k) BY <1>1, <1>2, <1>3, <1>9
<1>11. \A b \in Block : b \notin Unlinked => offset'[b] = offset[b] BY <1>1
<1>12. offset' \in [Block -> Word]
  <2>1. \A b \in Block : offset'[b] \in Word
    <3> SUFFICES ASSUME NEW b \in Block
                 PROVE  offset'[b] \in Word
      OBVIOUS
    <3>1. CASE b \in Unlinked BY <1>7, <1>8, <1>10, <3>1
    <3>2. CASE b \notin Unlinked BY <1>3, <1>11, <3>2 DEF TypeOK
    <3> QED BY <3>1, <3>2
  <2> QED BY <1>1, <2>1
<1>13. \A k \in 1 .. n : First(u[k])' = First(rec.tail) + k * BlockSize BY <1>7, <1>10 DEF First
<1>14. \A b \in Block : b \notin Unlinked => First(b)' = First(b) BY <1>11 DEF First
<1> QED BY <1>1, <1>5, <1>11, <1>12, <1>13, <1>14

\* ... and where the reclaimer goes.
LEMMA LinkGoes ==
  ASSUME Running, NEW t \in Tokens, pc[t] = "relink", next[rec.tail] = Null, LinkGroup(t),
         NEW u, u = rec.unlinked, NEW n, n = Len(rec.unlinked)
  PROVE  \E p \in {"reset", "unlock"} :
            /\ pc' = [pc EXCEPT ![t] = p] /\ rec' \in RecType /\ rec'.new = rec.new /\ rec'.count = rec.count
            /\ Len(rec'.unlinked) <= GroupSize
            /\ p = "unlock" => next[u[n]] = rec.new /\ rec'.unlinked = <<>>
            /\ p = "reset" =>
                  /\ rec'.unlinked \in Seq(Block) /\ rec'.unlinked # <<>> /\ rec'.unlinked[1] = next[u[n]]
                  /\ \A k \in 1 .. Len(rec'.unlinked) :
                        /\ rec'.unlinked[k] \in blocks
                        /\ First(rec'.unlinked[k]) = First(next[u[n]]) + (k - 1) * BlockSize
                        /\ First(rec'.unlinked[k]) < First(rec.new)
<1> HIDE DEF Running
<1>1. PICK rest : /\ rest = IF next[u[n]] = rec.new THEN <<>> ELSE Group(next[u[n]])
                  /\ rec' = [rec EXCEPT !.unlinked = rest, !.tail = Null]
                  /\ pc' = [pc EXCEPT ![t] = IF rest = <<>> THEN "unlock" ELSE "reset"]
  BY DEF LinkGroup, GoTo
<1>2. rec \in RecType /\ rec.new \in blocks BY MovesIs DEF Moves
<1>3. next[u[n]] \in blocks /\ (next[u[n]] # rec.new => First(next[u[n]]) < First(rec.new))
  BY GroupEnds
<1>4. CASE next[u[n]] = rec.new
  <2>1. rest = <<>> /\ pc' = [pc EXCEPT ![t] = "unlock"] BY <1>1, <1>4
  <2>2. rec' \in RecType /\ rec'.new = rec.new /\ rec'.count = rec.count /\ rec'.unlinked = <<>>
    <3>1. rest \in Seq(Block) BY <2>1
    <3>2. rec' = [rec EXCEPT !.unlinked = rest, !.tail = Null] BY <1>1
    <3>3. rec' \in RecType /\ rec'.new = rec.new /\ rec'.count = rec.count /\ rec'.unlinked = rest
      BY <1>2, <3>1, <3>2 DEF RecType
    <3> QED BY <2>1, <3>3
  <2>3. Len(rec'.unlinked) <= GroupSize BY <2>2 DEF GroupSize
  <2> QED BY <1>4, <2>1, <2>2, <2>3
<1>5. CASE next[u[n]] # rec.new
  <2>1. rest = Group(next[u[n]]) BY <1>1, <1>5
  <2>2. PICK c : c = next[u[n]] /\ c \in blocks /\ First(c) < First(rec.new) BY <1>3, <1>5
  <2>3. /\ rest \in Seq(Block) /\ Len(rest) \in 1 .. GroupSize /\ rest[1] = c
        /\ \A k \in 1 .. Len(rest) : /\ rest[k] \in blocks
                                     /\ First(rest[k]) = First(c) + (k - 1) * BlockSize
                                     /\ First(rest[k]) < First(rec.new)
    BY <1>2, <2>1, <2>2, GroupIs
  <2>4. rest # <<>> /\ Len(rest) <= GroupSize
    <3>1. \A m \in 1 .. GroupSize : m # 0 /\ m <= GroupSize BY DEF GroupSize
    <3> QED BY <2>3, <3>1
  <2>5. pc' = [pc EXCEPT ![t] = "reset"] BY <1>1, <2>4
  <2>6. rec' \in RecType /\ rec'.new = rec.new /\ rec'.count = rec.count /\ rec'.unlinked = rest
    BY <1>1, <1>2, <2>3 DEF RecType
  <2> QED BY <2>2, <2>3, <2>4, <2>5, <2>6
<1> QED BY <1>4, <1>5

\* Where the starts of a relinked group come to be, as numbers.
LEMMA GroupSteps ==
  ASSUME NEW e \in Starts, NEW n \in 1 .. GroupSize
  PROVE  /\ \A k \in 1 .. n : /\ e + k * BlockSize \in Starts /\ e + k * BlockSize \in Nat
                              /\ e + BlockSize <= e + k * BlockSize /\ e + k * BlockSize <= e + n * BlockSize
                              /\ k # n => k + 1 \in 1 .. n /\ e + (k + 1) * BlockSize = e + k * BlockSize + BlockSize
         /\ e + 1 * BlockSize = e + BlockSize /\ e \in Nat /\ n * BlockSize \in Nat
         /\ \A j, k \in 1 .. n : e + j * BlockSize = e + k * BlockSize => j = k
         /\ n \in 1 .. n /\ 1 \in 1 .. n
<1>1. /\ \A k \in 1 .. n : k * BlockSize \in Nat /\ e + k * BlockSize \in Starts
                           /\ e + k * BlockSize = e + (k - 1) * BlockSize + BlockSize
                           /\ k * BlockSize <= n * BlockSize /\ BlockSize <= k * BlockSize
      /\ \A j, k \in 1 .. n : j * BlockSize = k * BlockSize => j = k
  BY InGroup
<1>2. PICK w \in Nat : w = BlockSize BY Sizes
<1>3. e \in Nat /\ \A s \in Starts : s \in Nat BY StartsApart
<1>4. n \in 1 .. n /\ 1 \in 1 .. n /\ n \in Nat
  <2>1. \A m \in 1 .. GroupSize : m \in 1 .. m /\ 1 \in 1 .. m /\ m \in Nat BY DEF GroupSize
  <2> QED BY <2>1
<1>5. ASSUME NEW k \in 1 .. n
      PROVE  /\ e + k * BlockSize \in Starts /\ e + k * BlockSize \in Nat
             /\ e + BlockSize <= e + k * BlockSize /\ e + k * BlockSize <= e + n * BlockSize
  <2>1. PICK x \in Nat : x = k * BlockSize BY <1>1
  <2>2. PICK y \in Nat : y = n * BlockSize BY <1>1, <1>4
  <2>3. w <= x /\ x <= y BY <1>1, <1>2, <2>1, <2>2
  <2>4. e + x \in Starts /\ e + w <= e + x /\ e + x <= e + y BY <1>1, <1>3, <2>1, <2>3
  <2> QED BY <1>2, <1>3, <2>1, <2>2, <2>4
<1>6. ASSUME NEW k \in 1 .. n, k # n
      PROVE  k + 1 \in 1 .. n /\ e + (k + 1) * BlockSize = e + k * BlockSize + BlockSize
  <2>1. k + 1 \in 1 .. n /\ (k + 1) - 1 = k BY <1>4, <1>6
  <2>2. e + (k + 1) * BlockSize = e + ((k + 1) - 1) * BlockSize + BlockSize BY <1>1, <2>1
  <2> QED BY <2>1, <2>2
<1>7. ASSUME NEW j \in 1 .. n, NEW k \in 1 .. n, e + j * BlockSize = e + k * BlockSize
      PROVE  j = k
  <2>1. PICK x \in Nat : x = j * BlockSize BY <1>1
  <2>2. PICK y \in Nat : y = k * BlockSize BY <1>1
  <2>3. x = y BY <1>3, <1>7, <2>1, <2>2
  <2> QED BY <1>1, <2>1, <2>2, <2>3
<1>8. e + 1 * BlockSize = e + BlockSize BY <1>2
<1> QED BY <1>1, <1>3, <1>4, <1>5, <1>6, <1>7, <1>8

\* The list after a relinking.
LEMMA LinkLinks ==
  ASSUME Running, NEW t \in Tokens, pc[t] = "relink", next[rec.tail] = Null, LinkGroup(t),
         NEW u, u = rec.unlinked, NEW n, n = Len(rec.unlinked),
         ListHead' = ListHead, Lowest' = next[u[n]]
  PROVE  /\ Linked'
         /\ \A b \in Unlinked : First(rec.tail) + BlockSize <= First(b)'
         /\ \A b \in blocks : First(b) <= First(rec.tail)
         /\ \A b \in blocks : First(b)' \in Nat
<1> HIDE DEF Running
<1>1. /\ u \in Seq(Block) /\ n \in 1 .. GroupSize /\ First(Lowest) \in Starts /\ First(rec.tail) \in Starts
      /\ rec.tail \in OnList /\ rec.tail \notin Unlinked /\ rec.tail \in blocks
      /\ First(rec.new) <= Top
      /\ \A k \in 1 .. n : u[k] \in blocks /\ u[k] \in Unlinked
      /\ \A j, k \in 1 .. n : u[j] = u[k] => j = k
      /\ \A b \in blocks : /\ First(Lowest) <= First(b) /\ First(b) <= First(rec.tail)
                           /\ First(b) <= Top + First(Lowest)
                           /\ b \in Unlinked <=> First(b) < First(Lowest) + n * BlockSize
  BY GroupLeads
<1>2. /\ \A k \in 1 .. n : k # n => next[u[k]] = u[k + 1]
      /\ next[u[n]] \in blocks /\ First(next[u[n]]) = First(Lowest) + n * BlockSize
      /\ \A b \in blocks : next[b] = Null => b = rec.tail
  BY GroupEnds
<1>3. /\ blocks' = blocks /\ tail_block' = u[n]
      /\ next'[rec.tail] = u[1] /\ next'[u[n]] = Null
      /\ \A b \in Block : b # rec.tail /\ b # u[n] => next'[b] = next[b]
      /\ \A k \in 1 .. n : First(u[k])' = First(rec.tail) + k * BlockSize
      /\ \A b \in Block : b \notin Unlinked => First(b)' = First(b)
  BY LinkWrites
<1>4. /\ TypeOK /\ Linked /\ blocks \subseteq Block /\ Null \notin Block
      /\ \A b \in blocks : First(b) \in Nat /\ First(b) \in Starts /\ b \in Block
  BY MovesIs, Types DEF Running, Moves
<1>5. PICK e : e = First(rec.tail) /\ e \in Starts BY <1>1
<1>6. PICK f \in Nat : f = First(Lowest) BY <1>1, StartsApart
<1>70. e \in Starts /\ n \in 1 .. GroupSize BY <1>1, <1>5
<1>71. \A k \in 1 .. n : /\ e + k * BlockSize \in Starts /\ e + k * BlockSize \in Nat
                         /\ e + BlockSize <= e + k * BlockSize /\ e + k * BlockSize <= e + n * BlockSize
                         /\ k # n => k + 1 \in 1 .. n /\ e + (k + 1) * BlockSize = e + k * BlockSize + BlockSize
  BY <1>70, GroupSteps
<1>72. e + 1 * BlockSize = e + BlockSize /\ e \in Nat /\ n * BlockSize \in Nat
  BY <1>70, GroupSteps
<1>73. \A j, k \in 1 .. n : e + j * BlockSize = e + k * BlockSize => j = k BY <1>70, GroupSteps
<1>74. n \in 1 .. n /\ 1 \in 1 .. n BY <1>70, GroupSteps
<1>8. PICK y \in Nat : y = n * BlockSize BY <1>71, <1>72, <1>74
<1>9. PICK w \in Nat : w = BlockSize /\ w > 0 BY Sizes
<1>10. \A b \in Unlinked : b \in blocks /\ \E k \in 1 .. n : b = u[k] BY <1>1 DEF Unlinked
<1>11. \A b \in blocks : \/ b \notin Unlinked /\ First(b)' = First(b) /\ f + y <= First(b) /\ First(b) <= e
                         \/ b \in Unlinked /\ e + w <= First(b)' /\ First(b)' <= e + y /\ First(b) < f + y
  <2> SUFFICES ASSUME NEW b \in blocks
               PROVE  \/ b \notin Unlinked /\ First(b)' = First(b) /\ f + y <= First(b) /\ First(b) <= e
                      \/ b \in Unlinked /\ e + w <= First(b)' /\ First(b)' <= e + y /\ First(b) < f + y
    OBVIOUS
  <2>1. CASE b \notin Unlinked
    <3>1. ~(First(b) < f + y) /\ First(b)' = First(b) /\ First(b) <= e
      BY <1>1, <1>3, <1>4, <1>5, <1>6, <1>8, <2>1
    <3>2. First(b) \in Nat BY <1>4
    <3>3. f + y <= First(b) BY <3>1, <3>2
    <3> QED BY <2>1, <3>1, <3>3
  <2>2. CASE b \in Unlinked
    <3>1. PICK k \in 1 .. n : b = u[k] BY <1>10, <2>2
    <3>2. First(b)' = e + k * BlockSize BY <1>3, <1>5, <3>1
    <3>3. e + w <= First(b)' /\ First(b)' <= e + y
      <4>1. e + BlockSize <= e + k * BlockSize /\ e + k * BlockSize <= e + n * BlockSize
        BY <1>71, Zenon
      <4> QED BY <1>8, <1>9, <3>2, <4>1
    <3> QED BY <1>1, <1>6, <1>8, <2>2, <3>3
  <2> QED BY <2>1, <2>2
<1>12. \A b \in blocks : First(b)' \in Starts /\ First(b)' \in Nat
  <2> SUFFICES ASSUME NEW b \in blocks
               PROVE  First(b)' \in Starts /\ First(b)' \in Nat
    OBVIOUS
  <2>1. CASE b \notin Unlinked BY <1>4, <1>11, <2>1
  <2>2. CASE b \in Unlinked
    <3>1. PICK k \in 1 .. n : b = u[k] BY <1>10, <2>2
    <3>2. First(b)' = e + k * BlockSize BY <1>3, <1>5, <3>1
    <3>3. e + k * BlockSize \in Starts /\ e + k * BlockSize \in Nat BY <1>71, Zenon
    <3> QED BY <3>2, <3>3
  <2> QED BY <2>1, <2>2
<1>13. PICK z : z = next[u[n]] /\ z \in blocks /\ First(z) = f + y BY <1>2, <1>6, <1>8
<1>14. First(z)' = f + y /\ f + y <= e
  <2>1. f + y \in Nat /\ ~(First(z) < f + y) BY <1>13
  <2> QED BY <1>11, <1>13, <2>1
<1>15. First(Lowest)' = f + y /\ Lowest' \in blocks
  <2>1. Lowest' = z BY <1>13
  <2>2. First(Lowest)' = First(z)' BY <2>1
  <2> QED BY <1>13, <1>14, <2>1, <2>2
<1>16. {Lowest, ListHead, tail_block}' \subseteq blocks'
  <2>1. ListHead \in blocks BY <1>4 DEF Linked
  <2> QED BY <1>1, <1>3, <1>71, <1>72, <1>74, <1>15, <2>1
<1>17. \A b \in blocks : First(b)' \in Starts /\ First(Lowest)' <= First(b)' /\ First(b)' <= Top + First(Lowest)'
  <2> SUFFICES ASSUME NEW b \in blocks
               PROVE  First(Lowest)' <= First(b)' /\ First(b)' <= Top + First(Lowest)'
    BY <1>12
  <2>1. PICK d \in Nat : d = First(b)' BY <1>12
  <2>2. f + y <= d
    <3>1. f + y <= d \/ e + w <= d BY <1>11, <2>1
    <3> QED BY <1>9, <1>14, <1>72, <2>1, <3>1
  <2>3. e <= Top + f /\ d <= e + y /\ Top \in Nat
    <3>1. e <= Top + f /\ Top \in Nat BY <1>1, <1>5, <1>6, TopIs
    <3>2. d <= e \/ d <= e + y BY <1>11, <2>1
    <3> QED BY <1>71, <1>72, <1>74, <2>1, <3>1, <3>2
  <2>4. d <= Top + (f + y) BY <1>71, <1>72, <1>74, <2>1, <2>3
  <2> QED BY <1>15, <2>1, <2>2, <2>4
<1>18. ASSUME NEW b \in blocks, NEW c \in blocks, First(b)' = First(c)'
       PROVE  b = c
  <2>1. CASE b \notin Unlinked /\ c \notin Unlinked
    <3>1. First(b) = First(c) BY <1>11, <1>18, <2>1
    <3> QED BY <1>4, <3>1 DEF Linked
  <2>2. CASE b \in Unlinked /\ c \in Unlinked
    <3>1. PICK j \in 1 .. n, k \in 1 .. n : b = u[j] /\ c = u[k] BY <1>10, <2>2
    <3>2. e + j * BlockSize = e + k * BlockSize BY <1>3, <1>5, <1>18, <3>1
    <3> QED BY <1>73, <3>1, <3>2
  <2>3. (b \in Unlinked) = (c \in Unlinked)
    <3>1. PICK d \in Nat : d = First(b)' /\ d = First(c)' BY <1>12, <1>18
    <3>2. b \in Unlinked => e + w <= d BY <1>11, <3>1
    <3>3. c \in Unlinked => e + w <= d BY <1>11, <3>1
    <3>4. (b \notin Unlinked => d <= e) /\ (c \notin Unlinked => d <= e) BY <1>11, <3>1
    <3>5. ~(e + w <= d /\ d <= e) BY <1>71, <1>72, <1>74, <1>9
    <3> QED BY <3>2, <3>3, <3>4, <3>5
  <2> QED BY <2>1, <2>2, <2>3
<1>19. ASSUME NEW b \in blocks, next'[b] # Null
       PROVE  next'[b] \in blocks /\ First(next[b])' = First(b)' + BlockSize
  <2>1. CASE b = rec.tail
    <3>1. next'[b] = u[1] /\ First(b)' = e /\ First(u[1])' = e + 1 * BlockSize
      BY <1>1, <1>3, <1>4, <1>5, <1>71, <1>72, <1>74, <2>1
    <3>2. First(next[b])' = First(u[1])' BY <3>1 DEF First
    <3> QED BY <1>1, <1>71, <1>72, <1>74, <3>1, <3>2
  <2>2. b # u[n] BY <1>3, <1>19
  <2>3. CASE b # rec.tail /\ b \in Unlinked
    <3>1. PICK k \in 1 .. n : b = u[k] /\ k # n BY <1>10, <2>2, <2>3
    <3>2. next'[b] = u[k + 1] /\ k + 1 \in 1 .. n
      BY <1>2, <1>3, <1>4, <1>71, <1>72, <1>74, <2>2, <2>3, <3>1
    <3>3. First(next[b])' = First(u[k + 1])' BY <3>2 DEF First
    <3>4. First(u[k + 1])' = e + (k + 1) * BlockSize /\ First(b)' = e + k * BlockSize
      BY <1>3, <1>5, <3>1, <3>2
    <3>5. e + (k + 1) * BlockSize = e + k * BlockSize + BlockSize BY <1>71, <3>1, Zenon
    <3>6. u[k + 1] \in blocks BY <1>1, <3>2
    <3>7. First(next[b])' = First(b)' + BlockSize BY <3>3, <3>4, <3>5
    <3> QED BY <3>2, <3>6, <3>7
  <2>4. CASE b # rec.tail /\ b \notin Unlinked
    <3>1. next'[b] = next[b] BY <1>3, <1>4, <2>2, <2>4
    <3>2. PICK c : c = next[b] /\ c \in blocks /\ First(c) = First(b) + BlockSize
      BY <1>4, <1>19, <3>1 DEF Linked
    <3>3. First(b) \in Nat /\ f + y <= First(b) /\ First(b)' = First(b) BY <1>4, <1>11, <2>4
    <3>4. ~(First(c) < f + y) BY <1>9, <3>2, <3>3
    <3>5. First(c)' = First(c) BY <1>11, <3>2, <3>4
    <3>6. First(next[b])' = First(c)' BY <3>1, <3>2 DEF First
    <3> QED BY <3>1, <3>2, <3>3, <3>5, <3>6
  <2> QED BY <2>1, <2>3, <2>4
<1>20. ASSUME NEW b \in blocks, NEW c \in blocks, next'[b] = Null
       PROVE  First(c)' <= First(b)'
  <2>1. b = u[n]
    <3>1. b # rec.tail BY <1>1, <1>3, <1>4, <1>71, <1>72, <1>74, <1>20
    <3>2. b # u[n] => next[b] = Null BY <1>3, <1>4, <1>20, <3>1
    <3> QED BY <1>2, <3>1, <3>2
  <2>2. First(b)' = e + n * BlockSize BY <1>3, <1>5, <1>71, <1>72, <1>74, <2>1
  <2>3. PICK d \in Nat : d = First(c)' BY <1>12
  <2>4. d <= e \/ d <= e + y BY <1>11, <2>3
  <2> QED BY <1>71, <1>72, <1>74, <1>8, <2>2, <2>3, <2>4
<1>21. Linked' BY <1>3, <1>16, <1>17, <1>18, <1>19, <1>20 DEF Linked
<1>22. \A b \in Unlinked : First(rec.tail) + BlockSize <= First(b)' BY <1>5, <1>9, <1>10, <1>11
<1> QED BY <1>1, <1>12, <1>21, <1>22

\* A group that comes after another one is where it was.
LEMMA NextGroup ==
  ASSUME Running, NEW t \in Tokens, pc[t] = "relink", next[rec.tail] = Null, LinkGroup(t),
         NEW u, u = rec.unlinked, NEW n, n = Len(rec.unlinked),
         rec'.unlinked \in Seq(Block), Len(rec'.unlinked) <= GroupSize, rec'.unlinked # <<>>,
         rec'.unlinked[1] = next[u[n]],
         \A k \in 1 .. Len(rec'.unlinked) :
            /\ rec'.unlinked[k] \in blocks
            /\ First(rec'.unlinked[k]) = First(next[u[n]]) + (k - 1) * BlockSize
            /\ First(rec'.unlinked[k]) < First(rec.new)
  PROVE  /\ \A k \in 1 .. Len(rec'.unlinked) :
              /\ First(rec.unlinked[k])' = First(rec.unlinked[1])' + (k - 1) * BlockSize
              /\ First(rec.unlinked[k])' < First(rec.new)
         /\ Unlinked' \subseteq blocks
<1> HIDE DEF Running
<1>1. PICK r : r = rec'.unlinked OBVIOUS
<1>2. PICK m : m = Len(r) /\ m \in 1 .. GroupSize /\ 1 \in 1 .. m
  <2>1. r \in Seq(Block) /\ r # <<>> /\ Len(r) <= GroupSize BY <1>1
  <2>2. Len(r) \in Nat /\ Len(r) # 0 BY <2>1
  <2>3. PICK x \in Nat : x = Len(r) BY <2>2
  <2>4. x \in 1 .. GroupSize /\ 1 \in 1 .. x BY <2>1, <2>2, <2>3 DEF GroupSize
  <2> QED BY <2>3, <2>4
<1>3. PICK c : c = next[u[n]] /\ c \in blocks /\ First(c) = First(Lowest) + n * BlockSize
  BY GroupEnds
<1>4. /\ \A b \in blocks : b \in Unlinked <=> First(b) < First(Lowest) + n * BlockSize
      /\ blocks \subseteq Block
  BY GroupLeads, MovesIs DEF Moves
<1>5. \A b \in Block : b \notin Unlinked => First(b)' = First(b) BY LinkWrites
<1>6. First(c) \in Starts /\ First(c) \in Nat BY <1>3, MovesIs DEF Moves
<1>7. \A k \in 1 .. m : r[k] \in blocks /\ First(r[k]) = First(c) + (k - 1) * BlockSize /\ First(r[k]) < First(rec.new)
  BY <1>1, <1>2, <1>3
<1>8. \A k \in 1 .. m : r[k] \notin Unlinked
  <2> SUFFICES ASSUME NEW k \in 1 .. m
               PROVE  r[k] \notin Unlinked
    OBVIOUS
  <2>1. /\ First(c) + (k - 1) * BlockSize \in Starts
        /\ First(c) + k * BlockSize = First(c) + (k - 1) * BlockSize + BlockSize
        /\ k * BlockSize \in Nat /\ BlockSize <= k * BlockSize
    BY <1>2, <1>6, InGroup
  <2>2. PICK x \in Nat : x = First(c) + (k - 1) * BlockSize BY <2>1, StartsApart
  <2>3. PICK y \in Nat : y = k * BlockSize BY <2>1
  <2>4. PICK w \in Nat : w = BlockSize BY Sizes
  <2>5. First(c) <= x BY <1>6, <2>1, <2>2, <2>3, <2>4
  <2>6. First(r[k]) = x BY <1>7, <2>2
  <2>7. ~(First(r[k]) < First(c)) BY <1>6, <2>2, <2>5, <2>6
  <2> QED BY <1>3, <1>4, <1>7, <2>7
<1>9. \A k \in 1 .. m : First(r[k])' = First(c) + (k - 1) * BlockSize /\ First(r[k])' < First(rec.new)
  BY <1>4, <1>5, <1>7, <1>8
<1>10. First(r[1])' = First(c)
  <2>1. r[1] = c /\ c \notin Unlinked BY <1>1, <1>2, <1>3, <1>8
  <2> QED BY <1>3, <1>4, <1>5, <2>1
<1>11. \A k : First(rec.unlinked[k])' = First(r[k])' BY <1>1
<1>12. Unlinked' \subseteq blocks
  <2>1. Unlinked' = { r[k] : k \in 1 .. Len(r) } BY <1>1 DEF Unlinked
  <2> QED BY <1>2, <1>7, <2>1
<1> QED BY <1>1, <1>2, <1>9, <1>10, <1>11, <1>12

\* The elements after a relinking: those of the group are clear and after all others.
LEMMA LinkCells ==
  ASSUME Running, NEW t \in Tokens, pc[t] = "relink", next[rec.tail] = Null, LinkGroup(t),
         NEW p \in {"reset", "unlock"}, pc' = [pc EXCEPT ![t] = p], Seen({t}), Cut' = Cut, closed' = closed,
         \A b \in Unlinked : First(rec.tail) + BlockSize <= First(b)',
         \A b \in blocks : First(b) <= First(rec.tail),
         \A b \in blocks : First(b)' \in Nat
  PROVE  Cells'
<1> HIDE DEF Running
<1>1. /\ blocks' = blocks /\ flags' = flags /\ stored' = stored /\ op' = op /\ haz' = haz /\ read_offset' = read_offset
      /\ \A b \in Block : b \notin Unlinked => First(b)' = First(b)
  BY LinkWrites DEF elements, offsets
<1>2. /\ rec.tail \in blocks /\ rec.tail \notin Unlinked
      /\ blocks \subseteq Block /\ (\A b \in blocks : First(b) \in Nat) /\ At({"relink"})
  BY GroupLeads, MovesIs DEF Moves
<1>3. PICK e \in Nat : e = First(rec.tail) BY <1>2
<1>4. PICK w \in Nat : w = BlockSize BY Sizes
<1>5. \A m \in Nat : Reaches(m) => m < e + w
  <2> SUFFICES ASSUME NEW m \in Nat, NEW b \in blocks, m < First(b) + BlockSize
               PROVE  m < e + w
    BY DEF Reaches
  <2> QED BY <1>2, <1>3, <1>4
<1>6. \A m \in Nat : Reaches(m) => Reaches(m)'
  <2> SUFFICES ASSUME NEW m \in Nat, Reaches(m)
               PROVE  Reaches(m)'
    OBVIOUS
  <2>1. PICK b : b = rec.tail /\ b \in blocks' BY <1>1, <1>2
  <2>2. First(b)' = e BY <1>1, <1>2, <1>3, <2>1
  <2>3. m < First(b)' + BlockSize BY <1>4, <1>5, <2>2
  <2> QED BY <2>1, <2>3 DEF Reaches
<1>7. \A m \in Nat : Done(m)' = Done(m)
  <2>1. Only({t}) BY <1>1 DEF Only, Running
  <2> QED BY <2>1, ViewsKeep
<1>8. \A b \in Unlinked : flags[b] = Fresh /\ \A i \in Index : stored[b][i] = NoValue
  BY <1>2 DEF Running, Clean
<1>9. \A m \in Nat : e + w <= m => CellOK(m, "empty", NoValue)'
  <2> SUFFICES ASSUME NEW m \in Nat, e + w <= m
               PROVE  CellOK(m, "empty", NoValue)'
    OBVIOUS
  <2>1. ~Reaches(m) BY <1>5
  <2>2. ~Done(m) BY <2>1 DEF Running, Cells
  <2>3. ~Done(m)' BY <1>7, <2>2
  <2> QED BY <2>3 DEF CellOK
<1>10. \A b \in blocks :
             \/ At({"relink"})' /\ b \in Unlinked'
             \/ /\ ~(At({"relink"}) /\ b \in Unlinked)
                /\ First(b)' = First(b) /\ flags'[b] = flags[b] /\ stored'[b] = stored[b]
             \/ \A i \in Index : CellOK(First(b) + i, flags[b][i], stored[b][i])'
  <2> SUFFICES ASSUME NEW b \in blocks, b \in Unlinked, NEW i \in Index
               PROVE  CellOK(First(b) + i, flags[b][i], stored[b][i])'
    BY <1>1, <1>2
  <2>1. PICK m \in Nat : m = First(b)' + i /\ e + w <= m
    <3>1. i \in Nat BY DEF Index
    <3>2. First(b)' \in Nat /\ e + w <= First(b)' BY <1>3, <1>4
    <3> QED BY <3>1, <3>2
  <2>2. flags'[b][i] = "empty" /\ stored'[b][i] = NoValue BY <1>1, <1>8 DEF Fresh
  <2>3. CellOK(m, "empty", NoValue)' BY <1>9, <2>1
  <2>4. CellOK(First(b) + i, flags[b][i], stored[b][i])' = CellOK(m, "empty", NoValue)'
    BY <2>1, <2>2
  <2> QED BY <2>3, <2>4
<1>11. p \in Places BY DEF Places, Reclaiming, Moves
<1> QED BY <1>1, <1>6, <1>10, <1>11, CellsMove

\* Relink() appends the group.
LEMMA LinkKeeps ==
  ASSUME Running, NEW t \in Tokens, pc[t] = "relink", next[rec.tail] = Null, LinkGroup(t)
  PROVE  Running'
<1> HIDE DEF Running
<1>1. PICK u, n : u = rec.unlinked /\ n = Len(rec.unlinked) OBVIOUS
<1>2. PICK p \in {"reset", "unlock"} :
            /\ pc' = [pc EXCEPT ![t] = p] /\ rec' \in RecType /\ rec'.new = rec.new /\ rec'.count = rec.count
            /\ Len(rec'.unlinked) <= GroupSize
            /\ p = "unlock" => next[u[n]] = rec.new /\ rec'.unlinked = <<>>
            /\ p = "reset" =>
                  /\ rec'.unlinked \in Seq(Block) /\ rec'.unlinked # <<>> /\ rec'.unlinked[1] = next[u[n]]
                  /\ \A k \in 1 .. Len(rec'.unlinked) :
                        /\ rec'.unlinked[k] \in blocks
                        /\ First(rec'.unlinked[k]) = First(next[u[n]]) + (k - 1) * BlockSize
                        /\ First(rec'.unlinked[k]) < First(rec.new)
  BY <1>1, LinkGoes
<1>3. /\ blocks' = blocks /\ flags' = flags /\ stored' = stored /\ op' = op /\ haz' = haz /\ lock' = lock
      /\ head_block' = head_block /\ head_offset' = head_offset
      /\ UNCHANGED <<elements, offsets, cutoff, counters, clients>>
      /\ next' \in [Block -> Block \cup {Null}] /\ offset' \in [Block -> Word]
      /\ \A b \in Block : b \notin Unlinked => offset'[b] = offset[b] /\ First(b)' = First(b)
      /\ tail_block' = u[n]
  BY <1>1, LinkWrites DEF elements
<1>4. /\ lock = t /\ Reclaimer(t)
      /\ rec.new = head_block /\ ListHead = head_block /\ rec.new \in OnList /\ rec.new \in blocks
      /\ First(rec.new) \in Nat /\ First(rec.new) <= Turn /\ First(rec.new) <= Sold /\ Pos(head_offset) <= First(rec.new)
      /\ rec.count <= haz_ptr_counter /\ At(Moves) /\ blocks \subseteq Block /\ At({"relink"})
  BY MovesIs DEF Moves
<1>5. /\ Seen({t}) /\ Cut' = Cut /\ Sold' = Sold /\ Turn' = Turn /\ closed' = closed /\ read_offset' = read_offset
      /\ \A places : At(places)' <=> p \in places
      /\ ListHead' = ListHead /\ p \in Places /\ pc' \in [Tokens -> Places]
      /\ p = "unlock" => Lowest' = ListHead'
      /\ p # "unlock" => Lowest' = rec'.unlinked[1]
  <2>1. p \in {"reset", "relink", "unlock"} /\ pc[t] \in {"commit"} \cup Moves BY DEF Moves
  <2> QED BY <1>2, <1>3, <2>1, MoveSees
<1>6. Lowest' = next[u[n]] BY <1>2, <1>4, <1>5
<1>7. /\ Linked'
      /\ \A b \in Unlinked : First(rec.tail) + BlockSize <= First(b)'
      /\ \A b \in blocks : First(b) <= First(rec.tail)
      /\ \A b \in blocks : First(b)' \in Nat
  BY <1>1, <1>5, <1>6, LinkLinks
<1>8. \A b \in OnList : b \notin Unlinked /\ b \in blocks /\ b \in Block
  BY <1>4, ListApart DEF OnList
<1>9. \A b \in OnList : offset'[b] = offset[b] /\ flags'[b] = flags[b] /\ First(b)' = First(b)
  BY <1>3, <1>8
<1>10. First(ListHead)' = First(rec.new) /\ First(head_block)' = First(rec.new) /\ First(rec.new)' = First(rec.new)
  <2>1. PICK h : h = rec.new OBVIOUS
  <2>2. h \in OnList /\ ListHead' = h /\ head_block' = h /\ rec'.new = h
    BY <1>2, <1>3, <1>4, <1>5, <2>1
  <2>3. First(h)' = First(h) BY <1>9, <2>2
  <2>4. First(ListHead)' = First(h)' /\ First(head_block)' = First(h)' /\ First(rec.new)' = First(h)'
    BY <2>2 DEF First
  <2> QED BY <2>1, <2>3, <2>4
<1>11. TypeOK'
  <2>1. TypeOK BY DEF Running
  <2>2. tail_block' \in Block
    <3>1. tail_block' \in blocks' BY <1>7 DEF Linked
    <3> QED BY <1>3, <1>4, <3>1
  <2>3. rec'.count <= haz_ptr_counter' BY <1>2, <1>3, <1>4 DEF counters
  <2>4. UNCHANGED <<setup, blocks, flags, stored, write_offset, read_offset, write_closed_at, head_offset,
                     closed, haz_ptr_counter, reclaim_counter, head_block, lock, haz, op, told, under>>
    BY <1>3 DEF offsets, cutoff, counters, clients
  <2> QED BY <1>2, <1>3, <2>1, <2>2, <2>3, <2>4 DEF TypeOK
<1>12. Heads'
  <2>1. head_block' \in OnList'
    <3>1. head_block' \in blocks' BY <1>3, <1>4
    <3> QED BY <1>4, <1>10, <3>1 DEF OnList
  <2>2. Pos(head_offset)' = Pos(head_offset) BY <1>3
  <2> QED BY <1>4, <1>5, <1>10, <2>1, <2>2 DEF Heads
<1>13. Reclaim'
  <2>1. CASE p = "unlock"
    <3>1. ~At({"load_count", "scan", "commit"} \cup Aiming \cup Moves)'
      BY <1>5, <2>1 DEF Aiming, Visiting, Announcing, Moves
    <3> QED BY <1>2, <2>1, <3>1, NothingReclaimed
  <2>2. CASE p = "reset"
    <3>1. /\ ~At({"load_count"})' /\ ~At({"scan"})' /\ ~At(Aiming)' /\ ~At(Visiting)' /\ ~At({"visit_read", "swap", "revalidate"})'
          /\ ~At({"swap"})' /\ ~At({"commit"})' /\ ~At(Announcing \cup {"rollback"})' /\ At(Moves)' /\ ~At({"relink"})'
      BY <1>5, <2>2 DEF Visiting, Moves, Aiming, Announcing
    <3>2. rec'.new = head_block' /\ rec'.unlinked # <<>> BY <1>2, <1>3, <1>4, <2>2
    <3>3. /\ \A k \in 1 .. Len(rec'.unlinked) :
              /\ First(rec.unlinked[k])' = First(rec.unlinked[1])' + (k - 1) * BlockSize
              /\ First(rec.unlinked[k])' < First(rec.new)
          /\ Unlinked' \subseteq blocks
      BY <1>1, <1>2, <2>2, NextGroup
    <3> QED BY <1>3, <1>10, <3>1, <3>2, <3>3 DEF Reclaim
  <2> QED BY <2>1, <2>2
<1>14. Cells' BY <1>2, <1>5, <1>7, LinkCells
<1>15. Clean'
  <2>1. ~At({"relink"})' /\ Clean BY <1>5 DEF Running
  <2> QED BY <1>3, <2>1 DEF Clean
<1>16. p \in {"reset", "relink", "unlock"} /\ lock' = t BY <1>3, <1>4
<1> QED BY <1>2, <1>3, <1>4, <1>5, <1>7, <1>9, <1>11, <1>12, <1>13, <1>14, <1>15, <1>16, MoveStep

\* try_reclaim_blocks(): the unlinked blocks are linked to the end of the list.
LEMMA RelinkKeeps ==
  ASSUME Running, NEW t \in Tokens, Relink(t)
  PROVE  Running'
<1>1. \/ pc[t] = "relink" /\ next[rec.tail] = Null /\ LinkGroup(t)
      \/ /\ pc[t] = "relink" /\ rec' = [rec EXCEPT !.tail = LastBlock(rec.tail)]
         /\ UNCHANGED <<queue, counters, heads, lock, haz, pc, op, clients>>
  BY DEF Relink
<1> QED BY <1>1, LinkKeeps, RelinkWalkKeeps
================================================================================
