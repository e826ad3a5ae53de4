--------------------------- MODULE SpscBoundedProofs ---------------------------
(***************************************************************************)
(* Safety of the bounded SPSC ring, for every capacity, word size and push *)
(* pattern.  The argument counts positions (how many values came before),  *)
(* which never wrap, and says what each slot holds in terms of them.       *)
(***************************************************************************)
EXTENDS SpscBounded, WordArithmetic, FiniteSetTheorems

\* The slot of the value at position p, counted from 0.
At(p) == SlotOf(p % WordMod)

Occupied(f) == f \in {"data", "prod", "data|closed"}
Pushing     == ppc \in {"suspend", "parked", "emplace", "fill"}
Filled      == IF ppc = "fill" THEN filled ELSE 0
Live        == taken .. sent - 1

\* The two private offsets are positions modulo 2^w.
Offsets ==
    /\ write_offset = sent % WordMod /\ read_offset = taken % WordMod
    /\ taken <= sent
    /\ Pushing => count >= 1 /\ sent + count <= MaxPush /\ ~closed
    /\ ppc = "fill" => filled \in 1 .. count
    /\ cpc \in {"holding", "free"} => taken < sent

\* A published value that was not freed is in its slot, under a flag that says
\* so (the one the consumer is freeing is destroyed already); the values of an
\* unfinished bulk are in theirs, and all but the first are flagged.
Contents ==
    /\ \A p \in Live : /\ Occupied(flags[At(p)])
                       /\ IF p = taken /\ cpc = "free" THEN stored[At(p)] = NoValue
                          ELSE stored[At(p)] = p + 1
    /\ \A k \in 0 .. Filled - 1 : /\ stored[At(sent + k)] = sent + k + 1
                                  /\ k > 0 => flags[At(sent + k)] = "data"

\* There are no other values, and no other such flags.
NothingElse ==
    /\ \A s \in Slot : stored[s] # NoValue =>
          stored[s] - 1 \in taken .. sent + Filled - 1 /\ At(stored[s] - 1) = s
    /\ \A s \in Slot : Occupied(flags[s]) =>
          stored[s] # NoValue \/ (cpc = "free" /\ s = At(taken))

\* A producer that goes on to write has room for all that it will write.
RoomAhead ==
    ppc \in {"emplace", "fill"} =>
        /\ flags[At(sent)] \in {"empty", "cons"}
        /\ \A k \in Filled .. count - 1 : /\ stored[At(sent + k)] = NoValue
                                          /\ flags[At(sent + k)] \in {"empty", "cons"}

\* Where a suspended coroutine's pointer is, and who is about to resume it.
ConsumerWaits ==
    /\ \A s \in Slot : flags[s] = "cons" =>
          cpc = "parked" /\ ppc # "wake" /\ s = At(taken) /\ taken = sent /\ ~closed
    /\ cpc = "parked" /\ ppc # "wake" => elem /\ flags[At(taken)] = "cons"
    /\ ppc = "wake" => cpc = "parked"
    /\ cpc \in {"suspend", "parked"} => ConsumerCanSuspend
    /\ cpc = "resume" \/ ppc = "wake" => IF elem THEN taken < sent ELSE closed /\ taken = sent

ProducerWaits ==
    /\ \A s \in Slot : flags[s] = "prod" =>
          ppc = "parked" /\ cpc # "wake" /\ s = At(sent + count - 1)
    /\ ppc = "parked" /\ cpc # "wake" => flags[At(sent + count - 1)] = "prod"
    /\ cpc = "wake" => ppc = "parked" /\ flags[At(sent + count - 1)] = "empty"

\* Where the close sentinel is.
Sentinel ==
    /\ \A s \in Slot : flags[s] \in {"closed", "data|closed"} => closed /\ s = At(sent)
    /\ closed => ppc \in {"idle", "wake"} /\ write_closed_at = write_offset
    /\ closed /\ cpc # "republish" => flags[At(sent)] \in {"closed", "data|closed"}
    /\ cpc = "republish" =>
          closed /\ taken > 0 /\ At(taken - 1) = At(sent) /\ flags[At(sent)] = "empty"

\* A consumer that was told CLOSED has had everything.
ToldClosed == outcome = "CLOSED" => closed /\ taken = sent

Running ==
    /\ Offsets /\ Contents /\ NothingElse /\ RoomAhead
    /\ ConsumerWaits /\ ProducerWaits /\ Sentinel /\ ToldClosed
    /\ ppc # "gone" /\ cpc # "gone"

Destroyed ==
    /\ ppc = "gone" /\ cpc = "gone"
    /\ \A s \in Slot : stored[s] = NoValue /\ flags[s] \notin {"cons", "prod"}

IInv == TypeOK /\ (Running \/ Destroyed)

\* Positions and slots
\* The code computes the slot of a position from a wrapped offset.
LEMMA Positions ==
  /\ \A p \in Nat : At(p) \in Slot /\ p % WordMod \in Word
  /\ \A p, k \in Nat : Plus(p % WordMod, k) = (p + k) % WordMod
  /\ \A p \in Nat : p > 0 => Plus(p % WordMod, WordMod - 1) = (p - 1) % WordMod
<1>1. WordMod \in Nat /\ WordMod > 0 /\ Capacity \in Nat /\ Capacity > 0
  BY WordAssumption, CapacityAssumption
<1>2. ASSUME NEW p \in Nat PROVE At(p) \in Slot /\ p % WordMod \in Word
  <2>1. p % WordMod \in 0 .. WordMod - 1 BY <1>1, DivMod
  <2>2. (p % WordMod) % Capacity \in 0 .. Capacity - 1 BY <1>1, <2>1, DivMod
  <2> QED BY <2>1, <2>2 DEF At, SlotOf, Slot, Word
<1>3. ASSUME NEW p \in Nat, NEW k \in Nat
      PROVE  Plus(p % WordMod, k) = (p + k) % WordMod
  BY <1>1, ModPlus DEF Plus
<1>4. ASSUME NEW p \in Nat, p > 0
      PROVE  Plus(p % WordMod, WordMod - 1) = (p - 1) % WordMod
  <2> DEFINE m == p - 1
  <2>1. m \in Nat /\ WordMod - 1 \in Nat BY <1>1, <1>4
  <2>2. Plus(p % WordMod, WordMod - 1) = (p + (WordMod - 1)) % WordMod BY <2>1, <1>3
  <2>3. p + (WordMod - 1) = m + WordMod BY <1>1
  <2>4. ((m % WordMod) + WordMod) % WordMod = (m + WordMod) % WordMod BY <1>1, <2>1, ModPlus
  <2>5. m % WordMod \in 0 .. WordMod - 1 BY <1>1, <2>1, DivMod
  <2>6. ((m % WordMod) + WordMod) % WordMod = m % WordMod
    <3>1. (WordMod * 1 + (m % WordMod)) % WordMod = m % WordMod BY <1>1, <2>5, ModUnique
    <3> QED BY <3>1, <1>1, <2>5
  <2> QED BY <2>2, <2>3, <2>4, <2>6
<1> QED BY <1>2, <1>3, <1>4

\* The slots of one bulk are different slots.
LEMMA BulkSlotsDiffer ==
  ASSUME WrapIsSeamless, NEW p \in Nat,
         NEW j \in 0 .. MaxBulk - 1, NEW k \in 0 .. MaxBulk - 1, j < k
  PROVE  At(p + j) # At(p + k)
<1>1. WordMod \in Nat /\ WordMod > 0 /\ Capacity \in Nat /\ Capacity > 0 /\ MaxBulk \in 1 .. Capacity
  BY WordAssumption, CapacityAssumption, BulkAssumption
<1>2. WordMod % Capacity = 0 BY <1>1 DEF WrapIsSeamless
<1> DEFINE a == p + j
           b == p + k
<1>3. a \in Nat /\ b \in Nat /\ a < b BY <1>1
<1>4. \A x \in Nat : At(x) = x % Capacity BY <1>1, <1>2, ModMod DEF At, SlotOf
<1> HIDE DEF a, b
<1> SUFFICES ASSUME At(a) = At(b) PROVE FALSE BY DEF a, b
<1>5. a % Capacity = b % Capacity BY <1>3, <1>4
<1>6. a + Capacity <= b BY <1>1, <1>3, <1>5, ModApart
<1> QED BY <1>1, <1>6 DEF a, b

\* When position p shares its slot with the k-th value of a bulk of n that
\* starts at q, a position that is no older, and older than q, shares its slot
\* with the last one.
LEMMA LastSlotTells ==
  ASSUME WrapIsSeamless, NEW p \in Nat, NEW q \in Nat, p < q,
         NEW n \in 1 .. MaxBulk, NEW k \in 0 .. n - 1, At(p) = At(q + k)
  PROVE  p + (n - 1 - k) < q /\ At(p + (n - 1 - k)) = At(q + n - 1)
<1>1. WordMod \in Nat /\ WordMod > 0 /\ Capacity \in Nat /\ Capacity > 0 /\ MaxBulk \in 1 .. Capacity
  BY WordAssumption, CapacityAssumption, BulkAssumption
<1>2. CASE MaxBulk = 1 BY <1>2
<1>3. CASE WordMod % Capacity = 0
  <2> DEFINE j == n - 1 - k
             r == p + j
  <2>1. j \in Nat /\ q + k \in Nat /\ r \in Nat /\ q + n - 1 = (q + k) + j BY <1>1
  <2>2. \A x \in Nat : At(x) = x % Capacity BY <1>1, <1>3, ModMod DEF At, SlotOf
  <2>3. p % Capacity = (q + k) % Capacity BY <2>1, <2>2
  <2>4. p + Capacity <= q + k
    <3> DEFINE b == q + k
    <3>1. b \in Nat /\ p < b /\ p % Capacity = b % Capacity BY <2>1, <2>3
    <3> HIDE DEF b
    <3>2. p + Capacity <= b BY <3>1, <1>1, ModApart
    <3> QED BY <3>2 DEF b
  <2>5. r < q BY <2>1, <2>4, <1>1
  <2>6. r % Capacity = ((q + k) + j) % Capacity
    <3>1. ((p % Capacity) + j) % Capacity = (p + j) % Capacity BY <2>1, <1>1, ModPlus
    <3>2. (((q + k) % Capacity) + j) % Capacity = ((q + k) + j) % Capacity
      BY <2>1, <1>1, ModPlus
    <3> QED BY <2>3, <3>1, <3>2
  <2>7. At(r) = At(q + n - 1) BY <2>1, <2>2, <2>6
  <2> QED BY <2>5, <2>7
<1> QED BY <1>2, <1>3 DEF WrapIsSeamless

\* What the invariant says of a single state
\* The slots the code computes, by position.
LEMMA SlotsRead ==
  ASSUME TypeOK, Offsets
  PROVE  /\ sent \in Nat /\ taken \in Nat /\ count \in Nat /\ filled \in Nat
         /\ WriteSlot = At(sent) /\ ReadSlot = At(taken)
         /\ \A k \in Nat : SlotOf(Plus(write_offset, k)) = At(sent + k)
         /\ \A n \in 1 .. MaxBulk : LastSlot(n) = At(sent + n - 1)
<1>1. sent \in Nat /\ taken \in Nat /\ count \in Nat /\ filled \in Nat /\ MaxBulk \in Nat
  BY BoundAssumption, BulkAssumption, CapacityAssumption DEF TypeOK
<1>2. WriteSlot = At(sent) /\ ReadSlot = At(taken) BY DEF Offsets, WriteSlot, ReadSlot, At
<1>3. \A k \in Nat : SlotOf(Plus(write_offset, k)) = At(sent + k)
  BY <1>1, Positions DEF Offsets, At
<1>4. ASSUME NEW n \in 1 .. MaxBulk PROVE LastSlot(n) = At(sent + n - 1)
  <2>1. n - 1 \in Nat /\ sent + (n - 1) = sent + n - 1 BY <1>1
  <2> QED BY <2>1, <1>3 DEF LastSlot
<1> QED BY <1>1, <1>2, <1>3, <1>4

\* A slot that holds a value or a flag for one is the slot of a position.
LEMMA OccupiedIsLive ==
  ASSUME TypeOK, Offsets, NothingElse, ppc # "fill",
         NEW s \in Slot, stored[s] # NoValue \/ Occupied(flags[s])
  PROVE  \E p \in Live : At(p) = s
<1>1. CASE stored[s] # NoValue
  <2>1. stored[s] - 1 \in taken .. sent - 1 /\ At(stored[s] - 1) = s
    BY <1>1, SlotsRead DEF NothingElse, Filled
  <2> QED BY <2>1 DEF Live
<1>2. CASE stored[s] = NoValue
  <2>1. cpc = "free" /\ s = At(taken) BY <1>2 DEF NothingElse
  <2>2. taken \in taken .. sent - 1 BY <2>1, SlotsRead DEF Offsets
  <2> QED BY <2>1, <2>2 DEF Live
<1> QED BY <1>1, <1>2

\* Once the last slot a push needs holds no data, none of its slots does.
LEMMA RoomFor ==
  ASSUME WrapIsSeamless, TypeOK, Running, ppc # "fill", ~closed,
         NEW n \in 1 .. MaxBulk, flags[At(sent + n - 1)] \notin {"data", "prod"}
  PROVE  \A k \in 0 .. n - 1 : /\ stored[At(sent + k)] = NoValue
                               /\ flags[At(sent + k)] \in {"empty", "cons"}
<1> USE DEF Running
<1>1. sent \in Nat /\ taken \in Nat /\ MaxBulk \in Nat
  BY SlotsRead, BulkAssumption, CapacityAssumption
<1>2. \A s \in Slot : flags[s] \in Flag /\ flags[s] \notin {"closed", "data|closed"}
  BY DEF TypeOK, Sentinel
<1>3. SUFFICES ASSUME NEW k \in 0 .. n - 1,
                      stored[At(sent + k)] # NoValue \/ Occupied(flags[At(sent + k)])
               PROVE  FALSE
  <2>1. \A k \in 0 .. n - 1 : At(sent + k) \in Slot BY <1>1, Positions
  <2> QED BY <2>1, <1>2, <1>3 DEF Occupied, Flag
<1>4. At(sent + k) \in Slot BY <1>1, Positions
<1>5. PICK p \in Live : At(p) = At(sent + k) BY <1>3, <1>4, OccupiedIsLive
<1>6. p \in Nat /\ p < sent /\ taken <= p BY <1>1 DEF Live
<1>7. p + (n - 1 - k) < sent /\ At(p + (n - 1 - k)) = At(sent + n - 1)
  BY <1>1, <1>3, <1>5, <1>6, LastSlotTells
<1> DEFINE r == p + (n - 1 - k)
<1>8. r \in Live /\ At(r) \in Slot BY <1>1, <1>6, <1>7, Positions DEF Live
<1>9. Occupied(flags[At(r)]) BY <1>8 DEF Contents
<1> QED BY <1>2, <1>7, <1>8, <1>9 DEF Occupied

\* A consumer that finds its slot occupied has something to take: the next
\* value in order.
LEMMA NextInOrder ==
  ASSUME WrapIsSeamless, TypeOK, Running, cpc # "free",
         Occupied(flags[At(taken)])
  PROVE  taken < sent /\ stored[At(taken)] = taken + 1
<1> USE DEF Running
<1>1. sent \in Nat /\ taken \in Nat /\ count \in 0 .. MaxBulk /\ filled \in Nat /\ MaxBulk \in Nat
  BY SlotsRead, BulkAssumption, CapacityAssumption DEF TypeOK
<1>2. At(taken) \in Slot BY <1>1, Positions
<1>3. stored[At(taken)] # NoValue BY <1>2 DEF NothingElse
<1>4. taken < sent
  <2> SUFFICES ASSUME taken = sent PROVE FALSE BY <1>1 DEF Offsets
  <2> DEFINE p == stored[At(taken)] - 1
  <2>1. p \in taken .. sent + Filled - 1 /\ At(p) = At(taken) BY <1>2, <1>3 DEF NothingElse
  <2>2. ppc = "fill" /\ filled \in 1 .. count BY <2>1, <1>1 DEF Filled, Offsets
  <2> QED BY <2>2 DEF RoomAhead, Occupied
<1> QED BY <1>1, <1>4 DEF Contents, Live

\* A consumer that finds the bare sentinel in its slot has had everything.
LEMMA SentinelMeansDrained ==
  ASSUME TypeOK, Running, flags[At(taken)] = "closed"
  PROVE  closed /\ taken = sent
<1>1. sent \in Nat /\ taken \in Nat /\ taken <= sent /\ At(taken) \in Slot
  BY SlotsRead, Positions DEF Running, Offsets
<1>2. taken < sent => taken \in Live BY <1>1 DEF Live
<1> QED BY <1>1, <1>2 DEF Running, Sentinel, Contents, Occupied

\* The producer's steps preserve the invariant
\* Whatever push, try_push, push_bulk or close() does to the words it shares.
LEMMA ProducerKeeps ==
  ASSUME WrapIsSeamless, TypeOK, Running,
         \/ \E n \in 1 .. MaxBulk : PushReady(n)
         \/ TryPush \/ ProducerStep \/ Close
  PROVE  TypeOK' /\ Running'
<1> USE DEF Running
<1>1. /\ sent \in Nat /\ taken \in Nat /\ count \in 0 .. MaxBulk /\ filled \in Nat
      /\ MaxBulk \in Nat /\ MaxBulk >= 1 /\ MaxPush \in Nat
      /\ WriteSlot = At(sent) /\ ReadSlot = At(taken)
      /\ \A n \in 1 .. MaxBulk : LastSlot(n) = At(sent + n - 1)
      /\ \A p \in Nat : At(p) \in Slot
      /\ flags \in [Slot -> Flag] /\ stored \in [Slot -> Value \cup {NoValue}]
  <2>1. MaxBulk \in Nat /\ MaxBulk >= 1 /\ MaxPush \in Nat
    BY BulkAssumption, CapacityAssumption, BoundAssumption
  <2>2. flags \in [Slot -> Flag] /\ stored \in [Slot -> Value \cup {NoValue}] /\ count \in 0 .. MaxBulk
    BY DEF TypeOK
  <2>3. \A p \in Nat : At(p) \in Slot BY Positions
  <2> QED BY <2>1, <2>2, <2>3, SlotsRead
<1>2. ASSUME NEW n \in 1 .. MaxBulk, PushReady(n) PROVE TypeOK' /\ Running'
  <2>1. ppc = "idle" /\ ~closed /\ sent + n <= MaxPush /\ n >= 1 /\ LastSlot(n) = At(sent + n - 1)
    BY <1>2, <1>1 DEF PushReady, MayPush
  <2>11. TypeOK' BY <1>1, <1>2, <2>1 DEF PushReady, MayPush, shared, producer, consumer, TypeOK
  <2>12. Offsets'
    BY <1>1, <1>2, <2>1 DEF PushReady, MayPush, shared, producer, consumer, Offsets, Pushing
  <2>13. Contents'
    BY <1>1, <1>2, <2>1 DEF PushReady, MayPush, shared, producer, consumer, Contents, Live, Filled, Occupied
  <2>14. NothingElse'
    BY <1>1, <1>2, <2>1 DEF PushReady, MayPush, shared, producer, consumer, NothingElse, Filled, Occupied
  <2>15. RoomAhead'
    <3> SUFFICES ASSUME ppc' = "emplace" PROVE RoomAhead' BY <1>2 DEF PushReady, RoomAhead
    <3>1. flags[At(sent + n - 1)] # "data" BY <1>2, <2>1 DEF PushReady
    <3>2. flags[At(sent + n - 1)] # "prod"
      <4>1. sent + n - 1 \in Nat BY <1>1, <2>1
      <4> QED BY <1>1, <2>1, <4>1 DEF ProducerWaits
    <3>3. \A k \in 0 .. n - 1 : /\ stored[At(sent + k)] = NoValue
                               /\ flags[At(sent + k)] \in {"empty", "cons"}
      BY <2>1, <3>1, <3>2, RoomFor
    <3>4. 0 \in 0 .. n - 1 /\ sent + 0 = sent BY <1>1, <2>1
    <3>5. flags[At(sent)] \in {"empty", "cons"} BY <3>3, <3>4
    <3> QED BY <1>2, <3>3, <3>5 DEF PushReady, RoomAhead, Filled, shared, consumer
  <2>16. ConsumerWaits'
    BY <1>1, <1>2, <2>1 DEF PushReady, MayPush, shared, producer, consumer, ConsumerWaits
  <2>17. ProducerWaits'
    BY <1>1, <1>2, <2>1 DEF PushReady, MayPush, shared, producer, consumer, ProducerWaits
  <2>18. Sentinel'
    BY <1>1, <1>2, <2>1 DEF PushReady, MayPush, shared, producer, consumer, Sentinel
  <2>19. ToldClosed'
    BY <1>1, <1>2, <2>1 DEF PushReady, MayPush, shared, producer, consumer, ToldClosed
  <2>20. (ppc # "gone" /\ cpc # "gone")'
    BY <1>2 DEF PushReady, MayPush, shared, producer, consumer
  <2> QED BY <2>11, <2>12, <2>13, <2>14, <2>15, <2>16, <2>17, <2>18, <2>19, <2>20
<1>3. ASSUME TryPush PROVE TypeOK' /\ Running'
  <2>1. ppc = "idle" /\ ~closed /\ sent + 1 <= MaxPush /\ WriteSlot = At(sent)
    BY <1>3, <1>1 DEF TryPush, MayPush
  <2>11. TypeOK' BY <1>1, <1>3, <2>1 DEF TryPush, MayPush, shared, producer, consumer, TypeOK
  <2>12. Offsets'
    BY <1>1, <1>3, <2>1 DEF TryPush, MayPush, shared, producer, consumer, Offsets, Pushing
  <2>13. Contents'
    BY <1>1, <1>3, <2>1 DEF TryPush, MayPush, shared, producer, consumer, Contents, Live, Filled, Occupied
  <2>14. NothingElse'
    BY <1>1, <1>3, <2>1 DEF TryPush, MayPush, shared, producer, consumer, NothingElse, Filled, Occupied
  <2>15. RoomAhead'
    <3>1. sent + 1 - 1 = sent /\ sent + 0 = sent /\ 1 \in 1 .. MaxBulk BY <1>1
    <3>2. flags[At(sent + 1 - 1)] \notin {"data", "prod"}
      BY <1>1, <1>3, <2>1, <3>1 DEF TryPush, ProducerWaits
    <3>3. \A k \in 0 .. 1 - 1 : /\ stored[At(sent + k)] = NoValue
                               /\ flags[At(sent + k)] \in {"empty", "cons"}
      BY <2>1, <3>1, <3>2, RoomFor
    <3> QED BY <1>3, <3>1, <3>3 DEF TryPush, RoomAhead, Filled, shared, consumer
  <2>16. ConsumerWaits'
    BY <1>1, <1>3, <2>1 DEF TryPush, MayPush, shared, producer, consumer, ConsumerWaits
  <2>17. ProducerWaits'
    BY <1>1, <1>3, <2>1 DEF TryPush, MayPush, shared, producer, consumer, ProducerWaits
  <2>18. Sentinel'
    BY <1>1, <1>3, <2>1 DEF TryPush, MayPush, shared, producer, consumer, Sentinel
  <2>19. ToldClosed'
    BY <1>1, <1>3, <2>1 DEF TryPush, MayPush, shared, producer, consumer, ToldClosed
  <2>20. (ppc # "gone" /\ cpc # "gone")'
    BY <1>3 DEF TryPush, MayPush, shared, producer, consumer
  <2> QED BY <2>11, <2>12, <2>13, <2>14, <2>15, <2>16, <2>17, <2>18, <2>19, <2>20
<1>4. ASSUME PushSuspend PROVE TypeOK' /\ Running'
  <2>1. /\ ppc = "suspend" /\ ~closed /\ count \in 1 .. MaxBulk /\ LastSlot(count) = At(sent + count - 1)
        /\ sent + count - 1 \in Nat /\ At(sent + count - 1) \in Slot
    <3>1. ppc = "suspend" /\ ~closed /\ count \in 1 .. MaxBulk
      BY <1>1, <1>4 DEF PushSuspend, Offsets, Pushing
    <3> QED BY <1>1, <3>1
  <2>2. \/ /\ ppc' = "emplace" /\ flags' = flags
           /\ flags[At(sent + count - 1)] # "data"
        \/ /\ ppc' = "parked"
           /\ flags[At(sent + count - 1)] = "data"
           /\ flags' \in [Slot -> Flag]
           /\ flags'[At(sent + count - 1)] = "prod"
           /\ \A s \in Slot : s # At(sent + count - 1) => flags'[s] = flags[s]
    BY <1>1, <1>4, <2>1 DEF PushSuspend, Flag
  <2>11. TypeOK' BY <1>1, <1>4, <2>1, <2>2 DEF PushSuspend, shared, producer, consumer, TypeOK
  <2>12. Offsets'
    BY <1>1, <1>4, <2>1, <2>2 DEF PushSuspend, shared, producer, consumer, Offsets, Pushing
  <2>13. Contents'
    BY <1>1, <1>4, <2>1, <2>2 DEF PushSuspend, shared, producer, consumer, Contents, Live, Filled, Occupied
  <2>14. NothingElse'
    BY <1>1, <1>4, <2>1, <2>2 DEF PushSuspend, shared, producer, consumer, NothingElse, Filled, Occupied
  <2>15. RoomAhead'
    <3> SUFFICES ASSUME ppc' = "emplace" PROVE RoomAhead' BY <1>4, <2>2 DEF RoomAhead
    <3>1. flags[At(sent + count - 1)] \notin {"data", "prod"} BY <2>1, <2>2 DEF ProducerWaits
    <3>2. \A k \in 0 .. count - 1 : /\ stored[At(sent + k)] = NoValue
                                   /\ flags[At(sent + k)] \in {"empty", "cons"}
      BY <2>1, <3>1, RoomFor
    <3>3. 0 \in 0 .. count - 1 /\ sent + 0 = sent BY <1>1, <2>1
    <3>4. flags[At(sent)] \in {"empty", "cons"} BY <3>2, <3>3
    <3> QED BY <1>4, <2>2, <3>2, <3>4 DEF PushSuspend, RoomAhead, Filled, shared, consumer
  <2>16. ConsumerWaits'
    BY <1>1, <1>4, <2>1, <2>2 DEF PushSuspend, shared, producer, consumer, ConsumerWaits
  <2>17. ProducerWaits'
    BY <1>1, <1>4, <2>1, <2>2 DEF PushSuspend, shared, producer, consumer, ProducerWaits
  <2>18. Sentinel'
    BY <1>1, <1>4, <2>1, <2>2 DEF PushSuspend, shared, producer, consumer, Sentinel
  <2>19. ToldClosed'
    BY <1>1, <1>4, <2>1, <2>2 DEF PushSuspend, shared, producer, consumer, ToldClosed
  <2>20. (ppc # "gone" /\ cpc # "gone")' BY <1>4 DEF PushSuspend, shared, producer, consumer
  <2> QED BY <2>11, <2>12, <2>13, <2>14, <2>15, <2>16, <2>17, <2>18, <2>19, <2>20
<1>5. ASSUME EmplaceFirst PROVE TypeOK' /\ Running'
  <2>1. /\ ppc = "emplace" /\ count \in 1 .. MaxBulk /\ sent + count <= MaxPush /\ ~closed
        /\ sent + 0 = sent /\ At(sent) \in Slot
        /\ stored[At(sent)] = NoValue /\ flags[At(sent)] \in {"empty", "cons"}
    <3>1. ppc = "emplace" /\ count \in 1 .. MaxBulk /\ sent + count <= MaxPush /\ ~closed
      BY <1>1, <1>5 DEF EmplaceFirst, Offsets, Pushing
    <3>2. 0 \in 0 .. count - 1 /\ sent + 0 = sent BY <1>1, <3>1
    <3> QED BY <1>1, <3>1, <3>2 DEF RoomAhead, Filled
  <2>2. /\ ppc' = "fill" /\ filled' = 1 /\ flags' = flags
        /\ stored' \in [Slot -> Value \cup {NoValue}]
        /\ stored'[At(sent)] = sent + 1
        /\ \A s \in Slot : s # At(sent) => stored'[s] = stored[s]
    BY <1>1, <1>5, <2>1 DEF EmplaceFirst, Value
  <2>11. TypeOK' BY <1>1, <1>5, <2>1, <2>2 DEF EmplaceFirst, producer, consumer, TypeOK
  <2>12. Offsets'
    BY <1>1, <1>5, <2>1, <2>2 DEF EmplaceFirst, producer, consumer, Offsets, Pushing
  <2>13. Contents'
    BY <1>1, <1>5, <2>1, <2>2 DEF EmplaceFirst, producer, consumer, Contents, Live, Filled, Occupied
  <2>14. NothingElse'
    <3>1. \A s \in Slot : stored[s] # NoValue => stored[s] - 1 \in taken .. sent - 1 /\ At(stored[s] - 1) = s
      BY <1>1, <2>1 DEF NothingElse, Filled
    <3>2. sent + Filled - 1 = sent - 1 /\ (sent + Filled - 1)' = sent /\ sent' = sent /\ taken' = taken
      BY <1>1, <1>5, <2>1, <2>2 DEF EmplaceFirst, Filled, consumer
    <3>3. ASSUME NEW s \in Slot, stored'[s] # NoValue
          PROVE  stored'[s] - 1 \in taken .. sent /\ At(stored'[s] - 1) = s
      <4>1. CASE s = At(sent)
        <5>1. stored'[s] - 1 = sent /\ sent \in taken .. sent BY <4>1, <2>2, <1>1 DEF Offsets
        <5> QED BY <5>1, <4>1
      <4>2. CASE s # At(sent) BY <4>2, <3>1, <3>3, <2>2, <1>1
      <4> QED BY <4>1, <4>2
    <3>4. \A s \in Slot : Occupied(flags[s]) => stored'[s] # NoValue \/ (cpc = "free" /\ s = At(taken))
      BY <2>1, <2>2, <1>1 DEF NothingElse, Occupied
    <3> QED BY <1>5, <2>2, <3>2, <3>3, <3>4 DEF EmplaceFirst, NothingElse, consumer
  <2>15. RoomAhead'
    <3>1. ASSUME NEW k \in 1 .. count - 1 PROVE At(sent + k) \in Slot /\ At(sent + k) # At(sent)
      <4>1. 0 \in 0 .. MaxBulk - 1 /\ k \in 0 .. MaxBulk - 1 /\ 0 < k BY <1>1, <2>1
      <4>2. At(sent + 0) # At(sent + k) BY <1>1, <4>1, BulkSlotsDiffer
      <4> QED BY <4>2, <2>1, <1>1
    <3> QED BY <1>1, <1>5, <2>1, <2>2, <3>1 DEF EmplaceFirst, RoomAhead, Filled, consumer
  <2>16. ConsumerWaits'
    BY <1>1, <1>5, <2>1, <2>2 DEF EmplaceFirst, producer, consumer, ConsumerWaits
  <2>17. ProducerWaits'
    BY <1>1, <1>5, <2>1, <2>2 DEF EmplaceFirst, producer, consumer, ProducerWaits
  <2>18. Sentinel' BY <1>1, <1>5, <2>1, <2>2 DEF EmplaceFirst, producer, consumer, Sentinel
  <2>19. ToldClosed' BY <1>1, <1>5, <2>1, <2>2 DEF EmplaceFirst, producer, consumer, ToldClosed
  <2>20. (ppc # "gone" /\ cpc # "gone")' BY <1>5 DEF EmplaceFirst, producer, consumer
  <2> QED BY <2>11, <2>12, <2>13, <2>14, <2>15, <2>16, <2>17, <2>18, <2>19, <2>20
<1>6. ASSUME EmplaceNext PROVE TypeOK' /\ Running'
  <2> DEFINE d == At(sent + filled)
  <2>1. /\ ppc = "fill" /\ filled \in 1 .. count - 1 /\ count \in 1 .. MaxBulk
        /\ sent + count <= MaxPush /\ ~closed /\ d \in Slot /\ d # At(sent)
        /\ stored[d] = NoValue /\ flags[d] = "empty"
    <3>1. ppc = "fill" /\ filled \in 1 .. count - 1 /\ sent + count <= MaxPush /\ ~closed
      BY <1>1, <1>6 DEF EmplaceNext, Offsets, Pushing
    <3>2. d \in Slot /\ stored[d] = NoValue /\ flags[d] \in {"empty", "cons"}
      BY <1>1, <3>1 DEF RoomAhead, Filled
    <3>3. 0 \in 0 .. MaxBulk - 1 /\ filled \in 0 .. MaxBulk - 1 /\ 0 < filled /\ sent + 0 = sent
      BY <1>1, <3>1
    <3>4. d # At(sent)
      <4>1. At(sent + 0) # At(sent + filled) BY <1>1, <3>3, BulkSlotsDiffer
      <4> QED BY <4>1, <3>3
    <3>5. flags[d] # "cons" BY <3>2, <3>4 DEF ConsumerWaits
    <3> QED BY <1>1, <3>1, <3>2, <3>4, <3>5
  <2>2. /\ ppc' = "fill" /\ filled' = filled + 1
        /\ stored' \in [Slot -> Value \cup {NoValue}] /\ stored'[d] = sent + filled + 1
        /\ flags' \in [Slot -> Flag] /\ flags'[d] = "data"
        /\ \A s \in Slot : s # d => stored'[s] = stored[s] /\ flags'[s] = flags[s]
    <3>1. SlotOf(Plus(write_offset, filled)) = d BY <1>1, SlotsRead
    <3>2. sent + filled + 1 \in Value BY <1>1, <2>1 DEF Value
    <3> QED BY <1>1, <1>6, <2>1, <3>1, <3>2 DEF EmplaceNext, Flag
  <2>3. \A k \in 0 .. count - 1 : k # filled => At(sent + k) # d
    <3> SUFFICES ASSUME NEW k \in 0 .. count - 1, k # filled PROVE At(sent + k) # d OBVIOUS
    <3>1. k \in 0 .. MaxBulk - 1 /\ filled \in 0 .. MaxBulk - 1 /\ (k < filled \/ filled < k)
      BY <1>1, <2>1
    <3> QED BY <1>1, <3>1, BulkSlotsDiffer
  <2>4. \A k \in 0 .. count - 1 : At(sent + k) \in Slot BY <1>1, <2>1
  <2> HIDE DEF d
  <2>11. TypeOK' BY <1>1, <1>6, <2>1, <2>2, <2>3 DEF EmplaceNext, producer, consumer, TypeOK
  <2>12. Offsets'
    BY <1>1, <1>6, <2>1, <2>2, <2>3 DEF EmplaceNext, producer, consumer, Offsets, Pushing
  <2>13. Contents'
    <3>1. ASSUME NEW p \in Live PROVE At(p) \in Slot /\ At(p) # d
      <4>1. p \in Nat /\ Occupied(flags[At(p)]) BY <1>1 DEF Contents, Live
      <4> QED BY <1>1, <4>1, <2>1 DEF Occupied
    <3>2. ASSUME NEW k \in 0 .. filled
          PROVE  stored'[At(sent + k)] = sent + k + 1 /\ (k > 0 => flags'[At(sent + k)] = "data")
      <4>1. CASE k = filled BY <4>1, <2>2 DEF d
      <4>2. CASE k # filled
        <5>1. k \in 0 .. filled - 1 /\ k \in 0 .. count - 1 BY <4>2, <2>1, <1>1
        <5> QED BY <5>1, <4>2, <2>1, <2>2, <2>3, <2>4 DEF Contents, Filled
      <4> QED BY <4>1, <4>2
    <3>3. Live' = Live /\ (Filled - 1)' = filled /\ sent' = sent /\ taken' = taken /\ cpc' = cpc
      BY <1>1, <1>6, <2>1, <2>2 DEF EmplaceNext, Live, Filled, consumer
    <3>4. \A p \in Live : /\ Occupied(flags'[At(p)])
                          /\ IF p = taken /\ cpc = "free" THEN stored'[At(p)] = NoValue
                             ELSE stored'[At(p)] = p + 1
      BY <3>1, <2>2 DEF Contents
    <3> QED BY <3>2, <3>3, <3>4 DEF Contents, Occupied
  <2>14. NothingElse'
    <3>1. \A s \in Slot : stored[s] # NoValue =>
             stored[s] - 1 \in taken .. sent + filled - 1 /\ At(stored[s] - 1) = s
      BY <1>1, <2>1 DEF NothingElse, Filled
    <3>2. (sent + Filled - 1)' = sent + filled /\ sent' = sent /\ taken' = taken /\ cpc' = cpc
      BY <1>1, <1>6, <2>1, <2>2 DEF EmplaceNext, Filled, consumer
    <3>3. ASSUME NEW s \in Slot, stored'[s] # NoValue
          PROVE  stored'[s] - 1 \in taken .. sent + filled /\ At(stored'[s] - 1) = s
      <4>1. CASE s = d
        <5>1. stored'[s] - 1 = sent + filled /\ sent + filled \in taken .. sent + filled
          BY <4>1, <2>1, <2>2, <1>1 DEF Offsets
        <5> QED BY <5>1, <4>1 DEF d
      <4>2. CASE s # d BY <4>2, <3>1, <3>3, <2>2, <1>1
      <4> QED BY <4>1, <4>2
    <3>4. \A s \in Slot : Occupied(flags'[s]) => stored'[s] # NoValue \/ (cpc = "free" /\ s = At(taken))
      <4> SUFFICES ASSUME NEW s \in Slot, Occupied(flags'[s])
                   PROVE  stored'[s] # NoValue \/ (cpc = "free" /\ s = At(taken))
        OBVIOUS
      <4>1. CASE s = d
        <5>1. sent + filled + 1 # NoValue BY <1>1 DEF NoValue
        <5> QED BY <4>1, <5>1, <2>2
      <4>2. CASE s # d BY <4>2, <2>2 DEF NothingElse, Occupied
      <4> QED BY <4>1, <4>2
    <3> QED BY <3>2, <3>3, <3>4 DEF NothingElse, Occupied
  <2>15. RoomAhead'
    BY <1>1, <1>6, <2>1, <2>2, <2>3 DEF EmplaceNext, producer, consumer, RoomAhead, Filled
  <2>16. ConsumerWaits'
    BY <1>1, <1>6, <2>1, <2>2, <2>3 DEF EmplaceNext, producer, consumer, ConsumerWaits
  <2>17. ProducerWaits'
    BY <1>1, <1>6, <2>1, <2>2, <2>3 DEF EmplaceNext, producer, consumer, ProducerWaits
  <2>18. Sentinel' BY <1>1, <1>6, <2>1, <2>2, <2>3 DEF EmplaceNext, producer, consumer, Sentinel
  <2>19. ToldClosed'
    BY <1>1, <1>6, <2>1, <2>2, <2>3 DEF EmplaceNext, producer, consumer, ToldClosed
  <2>20. (ppc # "gone" /\ cpc # "gone")' BY <1>6 DEF EmplaceNext, producer, consumer
  <2> QED BY <2>11, <2>12, <2>13, <2>14, <2>15, <2>16, <2>17, <2>18, <2>19, <2>20
<1>7. ASSUME Publish PROVE TypeOK' /\ Running'
  <2>1. /\ ppc = "fill" /\ filled = count /\ count \in 1 .. MaxBulk
        /\ sent + count <= MaxPush /\ ~closed /\ At(sent) \in Slot
        /\ flags[At(sent)] \in {"empty", "cons"} /\ stored[At(sent)] = sent + 1
    <3>1. ppc = "fill" /\ filled = count /\ count \in 1 .. MaxBulk /\ sent + count <= MaxPush /\ ~closed
      BY <1>1, <1>7 DEF Publish, Offsets, Pushing
    <3>2. 0 \in 0 .. Filled - 1 /\ sent + 0 = sent BY <1>1, <3>1 DEF Filled
    <3>3. stored[At(sent)] = sent + 1 BY <3>2 DEF Contents
    <3> QED BY <1>1, <3>1, <3>3 DEF RoomAhead
  <2>2. /\ ppc' = (IF ConsumerCanSuspend /\ flags[At(sent)] # "empty" THEN "wake" ELSE "idle")
        /\ sent' = sent + count /\ stored' = stored
        /\ flags' \in [Slot -> Flag] /\ flags'[At(sent)] = "data"
        /\ \A s \in Slot : s # At(sent) => flags'[s] = flags[s]
    BY <1>1, <1>7, <2>1 DEF Publish, Flag
  <2>3. write_offset' = (sent + count) % WordMod /\ write_offset' \in Word
    BY <1>1, <1>7, <2>1, Positions DEF Publish, Offsets
  <2>11. TypeOK' BY <1>1, <1>7, <2>1, <2>2, <2>3 DEF Publish, producer, consumer, TypeOK
  <2>12. Offsets'
    BY <1>1, <1>7, <2>1, <2>2, <2>3 DEF Publish, producer, consumer, Offsets, Pushing
  <2>13. Contents'
    <3>1. /\ Live' = taken .. sent + count - 1 /\ taken' = taken /\ cpc' = cpc
          /\ 0 .. Filled' - 1 = {} /\ Filled = count
      BY <1>1, <1>7, <2>1, <2>2 DEF Publish, Live, Filled, consumer
    <3>2. ASSUME NEW p \in taken .. sent + count - 1
          PROVE  /\ Occupied(flags'[At(p)])
                 /\ IF p = taken /\ cpc = "free" THEN stored[At(p)] = NoValue
                    ELSE stored[At(p)] = p + 1
      <4>1. CASE p < sent
        <5>1. p \in Live /\ At(p) \in Slot BY <4>1, <1>1 DEF Live
        <5>2. At(p) # At(sent) /\ Occupied(flags[At(p)]) BY <5>1, <2>1 DEF Contents, Occupied
        <5> QED BY <5>1, <5>2, <2>2 DEF Contents
      <4>2. CASE p >= sent
        <5> DEFINE k == p - sent
        <5>1. k \in 0 .. count - 1 /\ p = sent + k /\ At(p) \in Slot BY <4>2, <1>1, <2>1
        <5>2. stored[At(p)] = p + 1 /\ (k > 0 => flags[At(p)] = "data")
          BY <5>1, <3>1 DEF Contents
        <5>3. flags'[At(p)] = "data"
          <6>1. CASE k = 0 BY <6>1, <5>1, <1>1, <2>2
          <6>2. CASE k > 0 BY <6>2, <5>1, <5>2, <2>2
          <6> QED BY <6>1, <6>2, <5>1
        <5>4. ~(p = taken /\ cpc = "free") BY <4>2, <1>1 DEF Offsets
        <5> QED BY <5>2, <5>3, <5>4 DEF Occupied
      <4> QED BY <4>1, <4>2, <1>1
    <3> QED BY <2>2, <3>1, <3>2 DEF Contents, Occupied
  <2>14. NothingElse'
    <3>1. /\ taken' = taken /\ cpc' = cpc /\ Filled = count /\ Filled' = 0
          /\ (sent + Filled - 1)' = sent + Filled - 1
      BY <1>1, <1>7, <2>1, <2>2 DEF Publish, Filled, consumer
    <3>2. \A s \in Slot : Occupied(flags'[s]) => stored[s] # NoValue \/ (cpc = "free" /\ s = At(taken))
      <4>1. stored[At(sent)] # NoValue BY <2>1, <1>1 DEF NoValue
      <4> QED BY <4>1, <2>2 DEF NothingElse, Occupied
    <3> QED BY <2>2, <3>1, <3>2 DEF NothingElse, Occupied
  <2>15. RoomAhead'
    BY <1>1, <1>7, <2>1, <2>2, <2>3 DEF Publish, producer, consumer, RoomAhead, Filled
  <2>16. ConsumerWaits'
    BY <1>1, <1>7, <2>1, <2>2, <2>3 DEF Publish, producer, consumer, ConsumerWaits
  <2>17. ProducerWaits'
    BY <1>1, <1>7, <2>1, <2>2, <2>3 DEF Publish, producer, consumer, ProducerWaits
  <2>18. Sentinel' BY <1>1, <1>7, <2>1, <2>2, <2>3 DEF Publish, producer, consumer, Sentinel
  <2>19. ToldClosed' BY <1>1, <1>7, <2>1, <2>2, <2>3 DEF Publish, producer, consumer, ToldClosed
  <2>20. (ppc # "gone" /\ cpc # "gone")' BY <1>7 DEF Publish, producer, consumer
  <2> QED BY <2>11, <2>12, <2>13, <2>14, <2>15, <2>16, <2>17, <2>18, <2>19, <2>20
<1>8. ASSUME ResumeConsumer PROVE TypeOK' /\ Running'
  <2>1. ppc = "wake" /\ cpc = "parked" /\ ppc' = "idle" /\ cpc' = "resume"
    BY <1>8 DEF ResumeConsumer, ConsumerWaits
  <2>2. UNCHANGED <<flags, stored, write_offset, closed, write_closed_at, count, filled, sent,
                    read_offset, taken, elem>>
    BY <1>8 DEF ResumeConsumer, shared
  <2>11. TypeOK'
    BY <1>1, <1>8, <2>1, <2>2 DEF ResumeConsumer, shared, producer, consumer, TypeOK
  <2>12. Offsets'
    BY <1>1, <1>8, <2>1, <2>2 DEF ResumeConsumer, shared, producer, consumer, Offsets, Pushing
  <2>13. Contents'
    BY <1>1, <1>8, <2>1, <2>2 DEF ResumeConsumer, shared, producer, consumer, Contents, Live, Filled, Occupied
  <2>14. NothingElse'
    BY <1>1, <1>8, <2>1, <2>2 DEF ResumeConsumer, shared, producer, consumer, NothingElse, Filled, Occupied
  <2>15. RoomAhead'
    BY <1>1, <1>8, <2>1, <2>2 DEF ResumeConsumer, shared, producer, consumer, RoomAhead, Filled
  <2>16. ConsumerWaits'
    BY <1>1, <1>8, <2>1, <2>2 DEF ResumeConsumer, shared, producer, consumer, ConsumerWaits
  <2>17. ProducerWaits'
    BY <1>1, <1>8, <2>1, <2>2 DEF ResumeConsumer, shared, producer, consumer, ProducerWaits
  <2>18. Sentinel'
    BY <1>1, <1>8, <2>1, <2>2 DEF ResumeConsumer, shared, producer, consumer, Sentinel
  <2>19. ToldClosed'
    BY <1>1, <1>8, <2>1, <2>2 DEF ResumeConsumer, shared, producer, consumer, ToldClosed
  <2>20. (ppc # "gone" /\ cpc # "gone")' BY <1>8 DEF ResumeConsumer, shared, producer, consumer
  <2> QED BY <2>11, <2>12, <2>13, <2>14, <2>15, <2>16, <2>17, <2>18, <2>19, <2>20
<1>9. ASSUME Close PROVE TypeOK' /\ Running'
  <2>1. /\ ppc = "idle" /\ ~closed /\ closed' /\ write_closed_at' = write_offset /\ At(sent) \in Slot
        /\ flags[At(sent)] \in {"empty", "data", "cons"}
    BY <1>1, <1>9 DEF Close, Flag, ProducerWaits, Sentinel
  <2>2. /\ flags' \in [Slot -> Flag]
        /\ flags'[At(sent)] = (IF flags[At(sent)] = "data" THEN "data|closed" ELSE "closed")
        /\ \A s \in Slot : s # At(sent) => flags'[s] = flags[s]
        /\ IF flags[At(sent)] = "cons" THEN ppc' = "wake" /\ elem' = FALSE
                                      ELSE UNCHANGED <<ppc, elem>>
    BY <1>1, <1>9, <2>1 DEF Close, WithSentinel, HasPointer, Flag
  <2>11. TypeOK' BY <1>1, <1>9, <2>1, <2>2 DEF Close, producer, consumer, TypeOK
  <2>12. Offsets' BY <1>1, <1>9, <2>1, <2>2 DEF Close, producer, consumer, Offsets, Pushing
  <2>13. Contents'
    BY <1>1, <1>9, <2>1, <2>2 DEF Close, producer, consumer, Contents, Live, Filled, Occupied
  <2>14. NothingElse'
    BY <1>1, <1>9, <2>1, <2>2 DEF Close, producer, consumer, NothingElse, Filled, Occupied
  <2>15. RoomAhead' BY <1>1, <1>9, <2>1, <2>2 DEF Close, producer, consumer, RoomAhead, Filled
  <2>16. ConsumerWaits' BY <1>1, <1>9, <2>1, <2>2 DEF Close, producer, consumer, ConsumerWaits
  <2>17. ProducerWaits' BY <1>1, <1>9, <2>1, <2>2 DEF Close, producer, consumer, ProducerWaits
  <2>18. Sentinel' BY <1>1, <1>9, <2>1, <2>2 DEF Close, producer, consumer, Sentinel
  <2>19. ToldClosed' BY <1>1, <1>9, <2>1, <2>2 DEF Close, producer, consumer, ToldClosed
  <2>20. (ppc # "gone" /\ cpc # "gone")' BY <1>9 DEF Close, producer, consumer
  <2> QED BY <2>11, <2>12, <2>13, <2>14, <2>15, <2>16, <2>17, <2>18, <2>19, <2>20
<1> QED BY <1>2, <1>3, <1>4, <1>5, <1>6, <1>7, <1>8, <1>9 DEF ProducerStep

\* The consumer's steps preserve the invariant
\* Whatever pull, try_pull and the end of a zero-copy scope do to them.
LEMMA ConsumerKeeps ==
  ASSUME WrapIsSeamless, TypeOK, Running, PullReady \/ TryPull \/ ConsumerStep
  PROVE  TypeOK' /\ Running'
<1> USE DEF Running
<1>1. /\ sent \in Nat /\ taken \in Nat /\ count \in 0 .. MaxBulk /\ filled \in Nat
      /\ MaxBulk \in Nat /\ MaxPush \in Nat /\ sent <= MaxPush /\ taken <= sent
      /\ WriteSlot = At(sent) /\ ReadSlot = At(taken)
      /\ \A p \in Nat : At(p) \in Slot
      /\ flags \in [Slot -> Flag] /\ stored \in [Slot -> Value \cup {NoValue}]
  <2>1. MaxBulk \in Nat /\ MaxPush \in Nat
    BY BulkAssumption, CapacityAssumption, BoundAssumption
  <2>2. /\ flags \in [Slot -> Flag] /\ stored \in [Slot -> Value \cup {NoValue}]
        /\ count \in 0 .. MaxBulk /\ sent <= MaxPush
    BY <2>1 DEF TypeOK
  <2>3. \A p \in Nat : At(p) \in Slot BY Positions
  <2> QED BY <2>1, <2>2, <2>3, SlotsRead DEF Offsets
<1>2. ASSUME PullReady PROVE TypeOK' /\ Running'
  <2>1. DataWaiting(flags[At(taken)]) => taken < sent
    <3>1. DataWaiting(flags[At(taken)]) => Occupied(flags[At(taken)])
      BY <1>1, <1>2 DEF PullReady, DataWaiting, HasPointer, Occupied, ConsumerWaits
    <3> QED BY <1>2, <3>1, NextInOrder DEF PullReady
  <2>11. TypeOK' BY <1>1, <1>2, <2>1 DEF PullReady, shared, producer, TypeOK
  <2>12. Offsets' BY <1>1, <1>2, <2>1 DEF PullReady, shared, producer, Offsets, Pushing
  <2>13. Contents'
    BY <1>1, <1>2, <2>1 DEF PullReady, shared, producer, Contents, Live, Filled, Occupied
  <2>14. NothingElse'
    BY <1>1, <1>2, <2>1 DEF PullReady, shared, producer, NothingElse, Filled, Occupied
  <2>15. RoomAhead' BY <1>1, <1>2, <2>1 DEF PullReady, shared, producer, RoomAhead, Filled
  <2>16. ConsumerWaits' BY <1>1, <1>2, <2>1 DEF PullReady, shared, producer, ConsumerWaits
  <2>17. ProducerWaits' BY <1>1, <1>2, <2>1 DEF PullReady, shared, producer, ProducerWaits
  <2>18. Sentinel' BY <1>1, <1>2, <2>1 DEF PullReady, shared, producer, Sentinel
  <2>19. ToldClosed' BY <1>1, <1>2, <2>1 DEF PullReady, shared, producer, ToldClosed
  <2>20. (ppc # "gone" /\ cpc # "gone")' BY <1>2 DEF PullReady, shared, producer
  <2> QED BY <2>11, <2>12, <2>13, <2>14, <2>15, <2>16, <2>17, <2>18, <2>19, <2>20
<1>3. ASSUME TryPull PROVE TypeOK' /\ Running'
  <2>1. DataWaiting(flags[At(taken)]) => taken < sent
    <3>1. DataWaiting(flags[At(taken)]) => Occupied(flags[At(taken)])
      BY <1>1, <1>3 DEF TryPull, DataWaiting, HasPointer, Occupied, ConsumerWaits
    <3> QED BY <1>3, <3>1, NextInOrder DEF TryPull
  <2>11. TypeOK' BY <1>1, <1>3, <2>1 DEF TryPull, shared, producer, TypeOK
  <2>12. Offsets' BY <1>1, <1>3, <2>1 DEF TryPull, shared, producer, Offsets, Pushing
  <2>13. Contents'
    BY <1>1, <1>3, <2>1 DEF TryPull, shared, producer, Contents, Live, Filled, Occupied
  <2>14. NothingElse'
    BY <1>1, <1>3, <2>1 DEF TryPull, shared, producer, NothingElse, Filled, Occupied
  <2>15. RoomAhead' BY <1>1, <1>3, <2>1 DEF TryPull, shared, producer, RoomAhead, Filled
  <2>16. ConsumerWaits' BY <1>1, <1>3, <2>1 DEF TryPull, shared, producer, ConsumerWaits
  <2>17. ProducerWaits' BY <1>1, <1>3, <2>1 DEF TryPull, shared, producer, ProducerWaits
  <2>18. Sentinel' BY <1>1, <1>3, <2>1 DEF TryPull, shared, producer, Sentinel
  <2>19. ToldClosed'
    BY <1>1, <1>3, SentinelMeansDrained DEF TryPull, shared, producer, ToldClosed
  <2>20. (ppc # "gone" /\ cpc # "gone")' BY <1>3 DEF TryPull, shared, producer
  <2> QED BY <2>11, <2>12, <2>13, <2>14, <2>15, <2>16, <2>17, <2>18, <2>19, <2>20
<1>4. ASSUME PullSuspend PROVE TypeOK' /\ Running'
  <2>1. cpc = "suspend" /\ ConsumerCanSuspend /\ At(taken) \in Slot
    BY <1>1, <1>4 DEF PullSuspend, ConsumerWaits
  <2>2. flags[At(taken)] \notin {"empty", "closed"} => taken < sent
    <3>1. flags[At(taken)] \notin {"empty", "closed"} => Occupied(flags[At(taken)])
      BY <1>1, <2>1 DEF Occupied, ConsumerWaits, Flag
    <3> QED BY <2>1, <3>1, NextInOrder
  <2>3. flags[At(taken)] = "empty" => taken = sent /\ ~closed
    <3>1. flags[At(taken)] = "empty" => taken = sent
      <4>1. taken < sent => taken \in Live BY <1>1 DEF Live
      <4> QED BY <1>1, <4>1 DEF Contents, Occupied
    <3> QED BY <2>1, <3>1 DEF Sentinel
  <2>4. \/ /\ flags[At(taken)] = "empty" /\ cpc' = "parked" /\ elem' = TRUE
           /\ flags' \in [Slot -> Flag] /\ flags'[At(taken)] = "cons"
           /\ \A s \in Slot : s # At(taken) => flags'[s] = flags[s]
        \/ /\ flags[At(taken)] # "empty" /\ cpc' \in {"idle", "holding"}
           /\ UNCHANGED <<flags, elem>>
           /\ cpc' = "holding" => taken < sent
    BY <1>1, <1>4, <2>1, <2>2 DEF PullSuspend, Flag
  <2>11. TypeOK' BY <1>1, <1>4, <2>1, <2>3, <2>4 DEF PullSuspend, producer, TypeOK
  <2>12. Offsets' BY <1>1, <1>4, <2>1, <2>3, <2>4 DEF PullSuspend, producer, Offsets, Pushing
  <2>13. Contents'
    <3>1. ASSUME NEW p \in Live PROVE At(p) \in Slot /\ flags'[At(p)] = flags[At(p)]
      <4>1. At(p) \in Slot /\ Occupied(flags[At(p)]) BY <1>1 DEF Live, Contents
      <4> QED BY <2>4, <4>1 DEF Occupied
    <3>2. ASSUME NEW k \in 0 .. Filled - 1, k > 0 PROVE flags'[At(sent + k)] = "data"
      <4>1. At(sent + k) \in Slot /\ flags[At(sent + k)] = "data"
        BY <1>1, <3>2 DEF Filled, Contents
      <4> QED BY <2>4, <4>1
    <3>3. UNCHANGED <<stored, Filled, Live, sent, taken>> /\ cpc # "free" /\ cpc' # "free"
      BY <1>4, <2>1, <2>4 DEF PullSuspend, producer, Filled, Live
    <3> QED BY <3>1, <3>2, <3>3 DEF Contents
  <2>14. NothingElse'
    BY <1>1, <1>4, <2>1, <2>3, <2>4 DEF PullSuspend, producer, NothingElse, Filled, Occupied
  <2>15. RoomAhead' BY <1>1, <1>4, <2>1, <2>3, <2>4 DEF PullSuspend, producer, RoomAhead, Filled
  <2>16. ConsumerWaits' BY <1>1, <1>4, <2>1, <2>3, <2>4 DEF PullSuspend, producer, ConsumerWaits
  <2>17. ProducerWaits'
    <3>1. ppc = "parked" => At(sent + count - 1) \in Slot BY <1>1 DEF Offsets, Pushing
    <3> QED BY <1>1, <1>4, <2>1, <2>4, <3>1 DEF PullSuspend, producer, ProducerWaits
  <2>18. Sentinel' BY <1>1, <1>4, <2>1, <2>3, <2>4 DEF PullSuspend, producer, Sentinel
  <2>19. ToldClosed'
    BY <1>1, <1>4, <2>1, SentinelMeansDrained DEF PullSuspend, producer, ToldClosed
  <2>20. (ppc # "gone" /\ cpc # "gone")' BY <1>4 DEF PullSuspend, producer
  <2> QED BY <2>11, <2>12, <2>13, <2>14, <2>15, <2>16, <2>17, <2>18, <2>19, <2>20
<1>5. ASSUME PullResume PROVE TypeOK' /\ Running'
  <2>1. /\ cpc = "resume" /\ (elem => taken < sent) /\ (~elem => closed /\ taken = sent)
        /\ cpc' = (IF elem THEN "holding" ELSE "idle")
    BY <1>5 DEF PullResume, ConsumerWaits
  <2>11. TypeOK' BY <1>1, <1>5, <2>1 DEF PullResume, shared, producer, TypeOK
  <2>12. Offsets' BY <1>1, <1>5, <2>1 DEF PullResume, shared, producer, Offsets, Pushing
  <2>13. Contents'
    BY <1>1, <1>5, <2>1 DEF PullResume, shared, producer, Contents, Live, Filled, Occupied
  <2>14. NothingElse'
    BY <1>1, <1>5, <2>1 DEF PullResume, shared, producer, NothingElse, Filled, Occupied
  <2>15. RoomAhead' BY <1>1, <1>5, <2>1 DEF PullResume, shared, producer, RoomAhead, Filled
  <2>16. ConsumerWaits' BY <1>1, <1>5, <2>1 DEF PullResume, shared, producer, ConsumerWaits
  <2>17. ProducerWaits' BY <1>1, <1>5, <2>1 DEF PullResume, shared, producer, ProducerWaits
  <2>18. Sentinel' BY <1>1, <1>5, <2>1 DEF PullResume, shared, producer, Sentinel
  <2>19. ToldClosed' BY <1>1, <1>5, <2>1 DEF PullResume, shared, producer, ToldClosed
  <2>20. (ppc # "gone" /\ cpc # "gone")' BY <1>5 DEF PullResume, shared, producer
  <2> QED BY <2>11, <2>12, <2>13, <2>14, <2>15, <2>16, <2>17, <2>18, <2>19, <2>20
<1>6. ASSUME DestroyValue PROVE TypeOK' /\ Running'
  <2>1. /\ cpc = "holding" /\ taken < sent /\ taken \in Live /\ At(taken) \in Slot
        /\ stored[At(taken)] = taken + 1 /\ Occupied(flags[At(taken)])
    <3>1. cpc = "holding" /\ taken < sent /\ taken \in Live /\ At(taken) \in Slot
      BY <1>1, <1>6 DEF DestroyValue, Offsets, Live
    <3> QED BY <3>1 DEF Contents
  <2>2. /\ stored' \in [Slot -> Value \cup {NoValue}] /\ stored'[At(taken)] = NoValue
        /\ \A s \in Slot : s # At(taken) => stored'[s] = stored[s]
        /\ cpc' = "free" /\ UNCHANGED <<flags, ppc, count, filled, sent, taken, closed, elem>>
    BY <1>1, <1>6, <2>1 DEF DestroyValue, producer
  <2>11. TypeOK' BY <1>1, <1>6, <2>1, <2>2 DEF DestroyValue, producer, TypeOK
  <2>12. Offsets' BY <1>1, <1>6, <2>1, <2>2 DEF DestroyValue, producer, Offsets, Pushing
  <2>13. Contents'
    BY <1>1, <1>6, <2>1, <2>2 DEF DestroyValue, producer, Contents, Live, Filled, Occupied
  <2>14. NothingElse'
    BY <1>1, <1>6, <2>1, <2>2 DEF DestroyValue, producer, NothingElse, Filled, Occupied
  <2>15. RoomAhead' BY <1>1, <1>6, <2>1, <2>2 DEF DestroyValue, producer, RoomAhead, Filled
  <2>16. ConsumerWaits' BY <1>1, <1>6, <2>1, <2>2 DEF DestroyValue, producer, ConsumerWaits
  <2>17. ProducerWaits' BY <1>1, <1>6, <2>1, <2>2 DEF DestroyValue, producer, ProducerWaits
  <2>18. Sentinel' BY <1>1, <1>6, <2>1, <2>2 DEF DestroyValue, producer, Sentinel
  <2>19. ToldClosed' BY <1>1, <1>6, <2>1, <2>2 DEF DestroyValue, producer, ToldClosed
  <2>20. (ppc # "gone" /\ cpc # "gone")' BY <1>6 DEF DestroyValue, producer
  <2> QED BY <2>11, <2>12, <2>13, <2>14, <2>15, <2>16, <2>17, <2>18, <2>19, <2>20
<1>7. ASSUME FreeSlot PROVE TypeOK' /\ Running'
  <2>1. /\ cpc = "free" /\ taken < sent /\ taken \in Live /\ At(taken) \in Slot
        /\ stored[At(taken)] = NoValue /\ Occupied(flags[At(taken)])
    <3>1. cpc = "free" /\ taken < sent /\ taken \in Live /\ At(taken) \in Slot
      BY <1>1, <1>7 DEF FreeSlot, Offsets, Live
    <3> QED BY <3>1 DEF Contents
  <2>2. /\ flags' \in [Slot -> Flag] /\ flags'[At(taken)] = "empty"
        /\ \A s \in Slot : s # At(taken) => flags'[s] = flags[s]
        /\ taken' = taken + 1
        /\ cpc' = CASE flags[At(taken)] = "prod"        -> "wake"
                    [] flags[At(taken)] = "data|closed" -> "republish"
                    [] OTHER                            -> "idle"
        /\ UNCHANGED <<stored, ppc, count, filled, sent, closed, write_offset, write_closed_at, elem>>
    BY <1>1, <1>7, <2>1 DEF FreeSlot, AfterFree, HasPointer, Occupied, Flag, producer
  <2>3. read_offset' = (taken + 1) % WordMod /\ read_offset' \in Word
    BY <1>1, <1>7, Positions DEF FreeSlot, Offsets
  <2>4. \A p \in taken + 1 .. sent - 1 : p \in Live /\ At(p) \in Slot /\ At(p) # At(taken)
    <3> SUFFICES ASSUME NEW p \in taken + 1 .. sent - 1
                 PROVE  p \in Live /\ At(p) \in Slot /\ At(p) # At(taken)
      OBVIOUS
    <3>1. p \in Live /\ At(p) \in Slot /\ p # taken BY <1>1 DEF Live
    <3>2. stored[At(p)] # NoValue BY <1>1, <3>1 DEF Contents, NoValue
    <3> QED BY <2>1, <3>1, <3>2
  <2>11. TypeOK' BY <1>1, <1>7, <2>1, <2>2, <2>3, <2>4 DEF FreeSlot, producer, TypeOK
  <2>12. Offsets' BY <1>1, <1>7, <2>1, <2>2, <2>3, <2>4 DEF FreeSlot, producer, Offsets, Pushing
  <2>13. Contents'
    <3>1. ASSUME NEW k \in 0 .. Filled - 1
          PROVE  /\ stored[At(sent + k)] = sent + k + 1
                 /\ k > 0 => flags'[At(sent + k)] = "data"
      <4>1. At(sent + k) \in Slot /\ stored[At(sent + k)] = sent + k + 1 /\ sent + k + 1 # NoValue
        BY <1>1, <3>1 DEF Contents, Filled, NoValue
      <4>2. At(sent + k) # At(taken) BY <2>1, <4>1
      <4> QED BY <2>2, <4>1, <4>2 DEF Contents
    <3>2. ASSUME NEW p \in taken + 1 .. sent - 1
          PROVE  Occupied(flags'[At(p)]) /\ stored[At(p)] = p + 1
      BY <1>1, <2>2, <2>4 DEF Contents
    <3>3. Filled' = Filled /\ Live' = taken + 1 .. sent - 1 /\ cpc' # "free"
      BY <2>2 DEF Filled, Live
    <3> QED BY <2>2, <3>1, <3>2, <3>3 DEF Contents, Occupied
  <2>14. NothingElse'
    BY <1>1, <1>7, <2>1, <2>2, <2>3, <2>4 DEF FreeSlot, producer, NothingElse, Filled, Occupied
  <2>15. RoomAhead'
    BY <1>1, <1>7, <2>1, <2>2, <2>3, <2>4 DEF FreeSlot, producer, RoomAhead, Filled
  <2>16. ConsumerWaits'
    BY <1>1, <1>7, <2>1, <2>2, <2>3, <2>4 DEF FreeSlot, producer, ConsumerWaits
  <2>17. ProducerWaits'
    BY <1>1, <1>7, <2>1, <2>2, <2>3, <2>4 DEF FreeSlot, producer, ProducerWaits
  <2>18. Sentinel'
    <3>1. cpc' = "republish" => closed /\ taken + 1 > 0 /\ At(taken + 1 - 1) = At(sent)
                                /\ flags'[At(sent)] = "empty"
      <4>1. taken + 1 - 1 = taken /\ taken + 1 > 0 BY <1>1
      <4>2. cpc' = "republish" => flags[At(taken)] = "data|closed" BY <2>1, <2>2 DEF Occupied
      <4> QED BY <2>1, <2>2, <4>1, <4>2 DEF Sentinel
    <3>2. closed /\ cpc' # "republish" => flags'[At(sent)] \in {"closed", "data|closed"}
      BY <1>1, <2>1, <2>2 DEF Sentinel, Occupied
    <3>3. \A s \in Slot : flags'[s] \in {"closed", "data|closed"} => closed /\ s = At(sent)
      BY <2>2 DEF Sentinel
    <3> QED
      <4>1. (closed => ppc \in {"idle", "wake"} /\ write_closed_at = write_offset)'
        BY <2>2 DEF Sentinel
      <4>2. taken' = taken + 1 /\ sent' = sent /\ closed' = closed BY <2>2
      <4> QED BY <1>1, <3>1, <3>2, <3>3, <4>1, <4>2 DEF Sentinel
  <2>19. ToldClosed' BY <1>1, <1>7, <2>1, <2>2, <2>3, <2>4 DEF FreeSlot, producer, ToldClosed
  <2>20. (ppc # "gone" /\ cpc # "gone")' BY <1>7, <2>2 DEF FreeSlot, producer
  <2> QED BY <2>11, <2>12, <2>13, <2>14, <2>15, <2>16, <2>17, <2>18, <2>19, <2>20
<1>8. ASSUME ResumeProducer PROVE TypeOK' /\ Running'
  <2>1. /\ cpc = "wake" /\ ppc = "parked" /\ count \in 1 .. MaxBulk /\ ~closed
        /\ sent + count <= MaxPush /\ flags[At(sent + count - 1)] = "empty"
    BY <1>1, <1>8 DEF ResumeProducer, ProducerWaits, Offsets, Pushing
  <2>2. \A k \in 0 .. count - 1 : /\ stored[At(sent + k)] = NoValue
                                 /\ flags[At(sent + k)] \in {"empty", "cons"}
    BY <2>1, RoomFor
  <2>3. 0 \in 0 .. count - 1 /\ sent + 0 = sent BY <1>1, <2>1
  <2>4. flags[At(sent)] \in {"empty", "cons"} BY <2>2, <2>3
  <2>11. TypeOK'
    BY <1>1, <1>8, <2>1, <2>2, <2>4 DEF ResumeProducer, shared, producer, consumer, TypeOK
  <2>12. Offsets'
    BY <1>1, <1>8, <2>1, <2>2, <2>4 DEF ResumeProducer, shared, producer, consumer, Offsets, Pushing
  <2>13. Contents'
    BY <1>1, <1>8, <2>1, <2>2, <2>4 DEF ResumeProducer, shared, producer, consumer, Contents, Live, Filled, Occupied
  <2>14. NothingElse'
    BY <1>1, <1>8, <2>1, <2>2, <2>4 DEF ResumeProducer, shared, producer, consumer, NothingElse, Filled, Occupied
  <2>15. RoomAhead'
    BY <1>1, <1>8, <2>1, <2>2, <2>4 DEF ResumeProducer, shared, producer, consumer, RoomAhead, Filled
  <2>16. ConsumerWaits'
    BY <1>1, <1>8, <2>1, <2>2, <2>4 DEF ResumeProducer, shared, producer, consumer, ConsumerWaits
  <2>17. ProducerWaits'
    BY <1>1, <1>8, <2>1, <2>2, <2>4 DEF ResumeProducer, shared, producer, consumer, ProducerWaits
  <2>18. Sentinel'
    BY <1>1, <1>8, <2>1, <2>2, <2>4 DEF ResumeProducer, shared, producer, consumer, Sentinel
  <2>19. ToldClosed'
    BY <1>1, <1>8, <2>1, <2>2, <2>4 DEF ResumeProducer, shared, producer, consumer, ToldClosed
  <2>20. (ppc # "gone" /\ cpc # "gone")' BY <1>8 DEF ResumeProducer, shared, producer, consumer
  <2> QED BY <2>11, <2>12, <2>13, <2>14, <2>15, <2>16, <2>17, <2>18, <2>19, <2>20
<1>9. ASSUME Republish PROVE TypeOK' /\ Running'
  <2>1. /\ cpc = "republish" /\ closed /\ taken > 0 /\ At(taken - 1) = At(sent) /\ At(sent) \in Slot
        /\ flags[At(sent)] = "empty" /\ cpc' = "idle"
    BY <1>1, <1>9 DEF Republish, Sentinel
  <2>2. SlotOf(Plus(read_offset, WordMod - 1)) = At(sent)
    BY <1>1, <2>1, Positions DEF Offsets, At
  <2>3. /\ flags' \in [Slot -> Flag] /\ flags'[At(sent)] = "closed"
        /\ \A s \in Slot : s # At(sent) => flags'[s] = flags[s]
    BY <1>1, <1>9, <2>1, <2>2 DEF Republish, Flag
  <2>4. ppc \in {"idle", "wake"} /\ Filled = 0 /\ Filled' = 0
    BY <1>9, <2>1 DEF Republish, producer, Sentinel, Filled
  <2>5. \A p \in Live : At(p) \in Slot /\ At(p) # At(sent)
    BY <1>1, <2>1 DEF Live, Contents, Occupied
  <2>11. TypeOK' BY <1>1, <1>9, <2>1, <2>3 DEF Republish, producer, TypeOK
  <2>12. Offsets' BY <1>1, <1>9, <2>1, <2>3 DEF Republish, producer, Offsets, Pushing
  <2>13. Contents'
    BY <1>1, <1>9, <2>1, <2>3, <2>4, <2>5 DEF Republish, producer, Contents, Live, Occupied
  <2>14. NothingElse'
    BY <1>1, <1>9, <2>1, <2>3 DEF Republish, producer, NothingElse, Filled, Occupied
  <2>15. RoomAhead' BY <1>9, <2>1 DEF Republish, producer, RoomAhead, Sentinel
  <2>16. ConsumerWaits' BY <1>1, <1>9, <2>1, <2>3 DEF Republish, producer, ConsumerWaits
  <2>17. ProducerWaits' BY <1>1, <1>9, <2>1, <2>3 DEF Republish, producer, ProducerWaits
  <2>18. Sentinel' BY <1>1, <1>9, <2>1, <2>3 DEF Republish, producer, Sentinel
  <2>19. ToldClosed' BY <1>1, <1>9, <2>1, <2>3 DEF Republish, producer, ToldClosed
  <2>20. (ppc # "gone" /\ cpc # "gone")' BY <1>9 DEF Republish, producer
  <2> QED BY <2>11, <2>12, <2>13, <2>14, <2>15, <2>16, <2>17, <2>18, <2>19, <2>20
<1> QED BY <1>2, <1>3, <1>4, <1>5, <1>6, <1>7, <1>8, <1>9 DEF ConsumerStep

\* The invariant
\* A queue just constructed is an empty window.
LEMMA InitHolds ==
  ASSUME Init
  PROVE  IInv
<1>1. /\ WordMod \in Nat /\ WordMod > 0 /\ MaxBulk \in Nat /\ MaxPush \in Nat
      /\ 0 % WordMod = 0 /\ 0 \in Word /\ At(0) \in Slot
  <2>1. WordMod \in Nat /\ WordMod > 0 /\ MaxBulk \in Nat /\ MaxPush \in Nat
    BY WordAssumption, CapacityAssumption, BulkAssumption, BoundAssumption
  <2> QED BY <2>1, Positions DEF Word
<1>2. TypeOK
  <2>1. flags \in [Slot -> Flag] /\ stored \in [Slot -> Value \cup {NoValue}] BY DEF Init, Flag
  <2>2. 0 \in 0 .. MaxBulk /\ 0 \in 0 .. MaxPush /\ 0 \in 0 .. 0 BY <1>1
  <2>3. sent \in 0 .. MaxPush /\ taken \in 0 .. sent BY <2>2 DEF Init
  <2> QED BY <1>1, <2>1, <2>2, <2>3 DEF Init, TypeOK
<1>3. Offsets /\ RoomAhead /\ Contents
  BY <1>1 DEF Init, Offsets, Pushing, RoomAhead, Contents, Live, Filled
<1>4. NothingElse /\ ConsumerWaits /\ ProducerWaits /\ Sentinel /\ ToldClosed
  BY <1>1 DEF Init, NothingElse, Occupied, ConsumerWaits, ProducerWaits, Sentinel, ToldClosed
<1> QED BY <1>2, <1>3, <1>4 DEF Init, IInv, Running

\* No two positions of the window share a slot, so it is no longer than the
\* ring: not even a bulk under way stretches it.
LEMMA WindowFits ==
  ASSUME TypeOK, Running
  PROVE  sent + Filled - taken <= Capacity
<1> USE DEF Running
<1>1. /\ sent \in Nat /\ taken \in Nat /\ taken <= sent /\ Filled \in Nat
      /\ Capacity \in Nat /\ Capacity > 0
  BY SlotsRead, CapacityAssumption DEF Filled, Offsets
<1> DEFINE W == taken .. sent + Filled - 1
           at == [p \in W |-> At(p)]
<1>2. ASSUME NEW p \in W, NEW q \in W, p < q PROVE At(p) # At(q)
  <2>1. ASSUME NEW r \in W, ~(r = taken /\ cpc = "free") PROVE stored[At(r)] = r + 1
    <3>1. CASE r < sent BY <1>1, <2>1, <3>1 DEF Contents, Live
    <3>2. CASE r >= sent
      <4> DEFINE k == r - sent
      <4>1. k \in 0 .. Filled - 1 /\ r = sent + k BY <1>1, <3>2
      <4>2. stored[At(sent + k)] = sent + k + 1 BY <4>1 DEF Contents
      <4> QED BY <4>1, <4>2
    <3> QED BY <1>1, <3>1, <3>2
  <2>2. stored[At(q)] = q + 1 /\ q + 1 # NoValue /\ q # taken BY <1>1, <1>2, <2>1 DEF NoValue
  <2>3. CASE p = taken /\ cpc = "free"
    <3>1. stored[At(p)] = NoValue
      <4>1. p \in Live BY <2>3, <1>1 DEF Offsets, Live
      <4> QED BY <2>3, <4>1 DEF Contents
    <3> QED BY <3>1, <2>2
  <2>4. CASE ~(p = taken /\ cpc = "free") BY <1>1, <1>2, <2>1, <2>2, <2>4
  <2> QED BY <2>3, <2>4
<1>3. at \in [W -> Slot] BY <1>1, Positions
<1>4. IsFiniteSet(Slot) /\ Cardinality(Slot) = Capacity
  <2>1. 0 \in Int /\ Capacity - 1 \in Int /\ ~(0 > Capacity - 1) /\ Capacity - 1 - 0 + 1 = Capacity
    BY <1>1
  <2> QED BY <2>1, FS_Interval DEF Slot
<1>5. IsFiniteSet(W) /\ (taken < sent + Filled => Cardinality(W) = sent + Filled - taken)
  <2> DEFINE b == sent + Filled - 1
  <2>1. taken \in Int /\ b \in Int /\ (taken < sent + Filled => ~(taken > b) /\ b - taken + 1 = sent + Filled - taken)
    BY <1>1
  <2> HIDE DEF b
  <2>2. IsFiniteSet(taken .. b) /\ Cardinality(taken .. b) = (IF taken > b THEN 0 ELSE b - taken + 1)
    BY <2>1, FS_Interval
  <2> QED BY <2>1, <2>2 DEF b
<1> SUFFICES ASSUME sent + Filled - taken > Capacity PROVE FALSE BY <1>1
<1>6. Cardinality(Slot) < Cardinality(W) BY <1>1, <1>4, <1>5
<1>7. PICK p, q \in W : p # q /\ at[p] = at[q]
  <2> HIDE DEF at, W
  <2> QED BY <1>3, <1>4, <1>5, <1>6, FS_PigeonHole
<1> QED BY <1>1, <1>2, <1>7

\* The destructor's loop visits the slot of every value that is left.
LEMMA DestructKeeps ==
  ASSUME TypeOK, Running, Destruct
  PROVE  TypeOK' /\ Destroyed'
<1> USE DEF Running
<1> DEFINE end   == IF closed THEN write_closed_at ELSE write_offset
           final == IF closed THEN flags
                    ELSE [flags EXCEPT ![WriteSlot] = WithSentinel(@)]
<1>1. /\ end \in Word /\ flags \in [Slot -> Flag] /\ stored \in [Slot -> Value \cup {NoValue}]
      /\ ppc = "idle" /\ cpc = "idle"
  BY DEF TypeOK, Destruct
<1>2. /\ sent \in Nat /\ taken \in Nat /\ taken <= sent /\ WriteSlot = At(sent)
      /\ \A p \in Nat : At(p) \in Slot
      /\ Capacity \in Nat /\ WordMod \in Nat /\ WordMod > 0 /\ 2 * Capacity < WordMod
  BY SlotsRead, Positions, CapacityAssumption, WordAssumption DEF Offsets
<1>3. end = sent % WordMod BY DEF Offsets, Sentinel
<1>4. final \in [Slot -> Flag] BY <1>1 DEF Flag, WithSentinel
<1>5. \A s \in Slot : final[s] \notin {"cons", "prod"}
  BY <1>1 DEF ConsumerWaits, ProducerWaits, WithSentinel
<1>6. \A s \in Slot : Occupied(flags[s]) => DataWaiting(final[s])
  BY <1>1, <1>2 DEF Occupied, DataWaiting, HasPointer, WithSentinel, Sentinel, ProducerWaits
<1> HIDE DEF end, final
<1>7. write_closed_at' \in Word /\ flags' = final BY <1>1 DEF Destruct, end, final
<1>8. stored' = [s \in Slot |-> IF s \in Leftover(end) /\ DataWaiting(final[s])
                                  THEN NoValue ELSE stored[s]]
  BY DEF Destruct, end, final
<1>9. ASSUME NEW s \in Slot, stored[s] # NoValue
      PROVE  s \in Leftover(end) /\ DataWaiting(final[s])
  <2>1. PICK p \in Live : At(p) = s BY <1>1, <1>9, OccupiedIsLive
  <2>2. Occupied(flags[s]) BY <2>1 DEF Contents
  <2> DEFINE k == p - taken
  <2>3. k \in Nat /\ k < sent - taken /\ p = taken + k /\ p \in Nat BY <2>1, <1>2 DEF Live
  <2>4. sent - taken <= Capacity BY <1>1, <1>2, WindowFits DEF Filled
  <2>5. k \in Word BY <2>3, <2>4, <1>2 DEF Word
  <2>6. \A j \in Nat : Plus(read_offset, j) = (taken + j) % WordMod
    BY <1>2, Positions DEF Offsets
  <2>7. ASSUME NEW j \in 0 .. k PROVE CircularLess(Plus(read_offset, j), end)
    <3> DEFINE a == taken + j
    <3>1. a \in Nat /\ a < sent /\ sent - a <= Capacity /\ sent - a < WordMod
      BY <2>3, <2>4, <1>2
    <3> HIDE DEF a
    <3>2. ((a % WordMod) - (sent % WordMod)) % WordMod = WordMod - (sent - a)
      BY <3>1, <1>2, ModBehind
    <3>3. 2 * (WordMod - (sent - a)) > WordMod BY <3>1, <1>2
    <3>4. Plus(read_offset, j) = a % WordMod BY <2>3, <2>6 DEF a
    <3> QED BY <3>2, <3>3, <3>4, <1>3 DEF CircularLess
  <2>8. SlotOf(Plus(read_offset, k)) = s BY <2>1, <2>3, <2>6 DEF At
  <2>9. s \in Leftover(end)
    <3> HIDE DEF k
    <3> QED BY <2>5, <2>7, <2>8 DEF Leftover
  <2> QED BY <2>2, <2>9, <1>6
<1>10. \A s \in Slot : stored'[s] = NoValue BY <1>8, <1>9
<1>11. stored' \in [Slot -> Value \cup {NoValue}] BY <1>1, <1>8
<1>12. TypeOK' BY <1>4, <1>7, <1>11 DEF Destruct, TypeOK
<1> QED BY <1>5, <1>7, <1>10, <1>12 DEF Destruct, Destroyed

\* Every step, the destructor's included.
LEMMA StepKeeps ==
  ASSUME WrapIsSeamless, IInv, [Next]_vars
  PROVE  IInv'
<1>1. CASE UNCHANGED vars
  <2>1. UNCHANGED <<flags, stored, write_offset, read_offset, closed, write_closed_at, ppc,
                    count, filled, cpc, elem, outcome, sent, taken>>
    BY <1>1 DEF vars, shared, producer, consumer
  <2>2. TypeOK' <=> TypeOK BY <2>1 DEF TypeOK
  <2>3. (Running' <=> Running) /\ (Destroyed' <=> Destroyed)
    BY <2>1 DEF Running, Offsets, Contents, NothingElse, RoomAhead, ConsumerWaits,
                ProducerWaits, Sentinel, ToldClosed, Destroyed, Pushing, Filled, Live
  <2> QED BY <2>1, <2>2, <2>3 DEF IInv
<1>2. CASE (\E n \in 1 .. MaxBulk : PushReady(n)) \/ TryPush \/ ProducerStep \/ Close
  <2>1. ppc # "gone"
    BY <1>2 DEF PushReady, TryPush, MayPush, ProducerStep, PushSuspend, EmplaceFirst,
                EmplaceNext, Publish, ResumeConsumer, Close
  <2>2. TypeOK /\ Running BY <2>1 DEF IInv, Destroyed
  <2>3. TypeOK' /\ Running' BY <1>2, <2>2, ProducerKeeps
  <2> QED BY <2>3 DEF IInv
<1>3. CASE PullReady \/ TryPull \/ ConsumerStep
  <2>1. cpc # "gone"
    BY <1>3 DEF PullReady, TryPull, ConsumerStep, PullSuspend, PullResume,
                DestroyValue, FreeSlot, ResumeProducer, Republish
  <2>2. TypeOK /\ Running BY <2>1 DEF IInv, Destroyed
  <2>3. TypeOK' /\ Running' BY <1>3, <2>2, ConsumerKeeps
  <2> QED BY <2>3 DEF IInv
<1>4. CASE Destruct
  <2>1. TypeOK /\ Running BY <1>4 DEF Destruct, IInv, Destroyed
  <2> QED BY <1>4, <2>1, DestructKeeps DEF IInv
<1> QED BY <1>1, <1>2, <1>3, <1>4 DEF Next, Gone

\* The inductive invariant holds of the ring, provided that a bulk that
\* crosses the wraparound of size_t still names consecutive slots.
THEOREM Invariance ==
  ASSUME WrapIsSeamless
  PROVE  Spec => []IInv
<1>1. Init => IInv BY InitHolds
<1>2. IInv /\ [Next]_vars => IInv' BY StepKeeps
<1> QED BY <1>1, <1>2, PTL DEF Spec

\* The type invariant of qu_spsc_bounded's state, for all parameters.
THEOREM TypeCorrect ==
  ASSUME WrapIsSeamless
  PROVE  Spec => []TypeOK
<1>1. IInv => TypeOK BY DEF IInv
<1> QED BY <1>1, Invariance, PTL

\* push(), try_push() and push_bulk() never construct a value over a live one
\* nor lose a flag: with capacity dividing 2^w for bulks, always for the rest.
THEOREM PushSafety ==
  ASSUME WrapIsSeamless
  PROVE  Spec => []PushOverwritesNothing
<1>1. IInv => PushOverwritesNothing
  <2> SUFFICES ASSUME IInv, ppc \in {"emplace", "fill"} PROVE PushOverwritesNothing
    BY DEF PushOverwritesNothing
  <2> USE DEF IInv, Running, Destroyed
  <2>1. /\ sent \in Nat /\ count \in 1 .. MaxBulk /\ MaxBulk \in Nat /\ Filled \in Nat
        /\ Filled = (IF ppc = "fill" THEN filled ELSE 0)
    BY SlotsRead, BulkAssumption, CapacityAssumption DEF Offsets, Pushing, TypeOK, Filled
  <2>2. WriteSlot = At(sent) /\ \A k \in Nat : SlotOf(Plus(write_offset, k)) = At(sent + k)
    BY SlotsRead
  <2>3. ASSUME NEW k \in Filled .. count - 1, k > 0
        PROVE  flags[At(sent + k)] # "cons"
    <3>1. 0 \in 0 .. MaxBulk - 1 /\ k \in 0 .. MaxBulk - 1 /\ 0 < k /\ sent + 0 = sent
      BY <2>1, <2>3
    <3>2. At(sent + 0) # At(sent + k) BY <2>1, <3>1, BulkSlotsDiffer
    <3>3. At(sent + k) \in Slot BY <2>1, <3>1, Positions
    <3> QED BY <3>1, <3>2, <3>3 DEF ConsumerWaits
  <2> QED BY <2>1, <2>2, <2>3 DEF RoomAhead, PushOverwritesNothing
<1> QED BY <1>1, Invariance, PTL

\* What a pull hands out is the next value in the order of pushing.
THEOREM Fifo ==
  ASSUME WrapIsSeamless
  PROVE  Spec => []FifoDelivery
<1>1. IInv => FifoDelivery
  <2> SUFFICES ASSUME IInv, cpc = "holding" PROVE FifoDelivery BY DEF FifoDelivery
  <2>1. Offsets /\ Contents /\ TypeOK BY DEF IInv, Running, Destroyed
  <2>2. taken < sent /\ taken \in Live /\ ReadSlot = At(taken)
    BY <2>1, SlotsRead DEF Offsets, Live
  <2> QED BY <2>1, <2>2 DEF FifoDelivery, Contents
<1> QED BY <1>1, Invariance, PTL

\* Nothing the destructor finds is left alive, so qu_storage's own destructor
\* has nothing to complain of.
THEOREM Destructor ==
  ASSUME WrapIsSeamless
  PROVE  Spec => []DestructorLeavesNothing
<1>1. IInv => DestructorLeavesNothing BY DEF IInv, Running, Destroyed, DestructorLeavesNothing
<1> QED BY <1>1, Invariance, PTL

\* The consumer's next slot alone tells whether there is a value, nothing yet,
\* or nothing any more.
THEOREM Status ==
  ASSUME WrapIsSeamless
  PROVE  Spec => []StatusIsRight
<1>1. IInv => StatusIsRight
  <2> SUFFICES ASSUME IInv, cpc \in {"idle", "suspend"} PROVE StatusIsRight BY DEF StatusIsRight
  <2>1. TypeOK /\ Running BY DEF IInv, Destroyed
  <2>2. /\ sent \in Nat /\ taken \in Nat /\ taken <= sent
        /\ ReadSlot = At(taken) /\ At(taken) \in Slot
    BY <2>1, SlotsRead, Positions DEF Running, Offsets
  <2>3. flags[At(taken)] \in Flag BY <2>1, <2>2 DEF TypeOK
  <2>4. Occupied(flags[At(taken)]) <=> taken < sent
    <3>1. taken < sent => taken \in Live BY <2>2 DEF Live
    <3> QED BY <2>1, <3>1, NextInOrder DEF Running, Contents
  <2>5. flags[At(taken)] \in {"closed", "data|closed"} => closed
    BY <2>1, <2>2 DEF Running, Sentinel
  <2>6. closed /\ taken = sent => flags[At(taken)] \in {"closed", "data|closed"}
    BY <2>1 DEF Running, Sentinel
  <2>7. flags[At(taken)] # "cons" BY <2>1, <2>2 DEF Running, ConsumerWaits
  <2> QED BY <2>2, <2>3, <2>4, <2>5, <2>6, <2>7 DEF StatusIsRight, Empty, Occupied, Flag
<1> QED BY <1>1, Invariance, PTL

\* Whoever is suspended is in the flag the other side reaches next, or is
\* being resumed at this moment.
THEOREM Wakeup ==
  ASSUME WrapIsSeamless
  PROVE  Spec => []NoLostWakeup
<1>1. IInv => NoLostWakeup
  <2>1. ASSUME Destroyed PROVE NoLostWakeup BY <2>1 DEF Destroyed, NoLostWakeup
  <2>2. ASSUME TypeOK, Running PROVE NoLostWakeup
    <3> USE <2>2 DEF Running
    <3>1. /\ sent \in Nat /\ taken \in Nat /\ taken <= sent /\ At(taken) \in Slot
          /\ count \in Nat
      BY SlotsRead, Positions DEF Offsets
    <3>2. ppc = "parked" => At(sent + count - 1) \in Slot
      <4>1. ASSUME ppc = "parked" PROVE sent + count - 1 \in Nat
        BY <3>1, <4>1 DEF Offsets, Pushing
      <4> QED BY <4>1, Positions
    <3>3. ppc = "parked" <=> (cpc = "wake") # (\E s \in Slot : flags[s] = "prod")
      BY <3>2 DEF ProducerWaits
    <3>4. cpc = "parked" <=> (ppc = "wake") # (\E s \in Slot : flags[s] = "cons")
      BY <3>1 DEF ConsumerWaits
    <3>5. ASSUME ppc = "parked", cpc # "wake" PROVE taken < sent
      <4>1. \E p \in Live : At(p) = At(sent + count - 1)
        BY <3>2, <3>5, OccupiedIsLive DEF ProducerWaits, Occupied
      <4> QED BY <4>1, <3>1 DEF Live
    <3>6. ASSUME cpc = "parked", ppc # "wake" PROVE taken = sent /\ ~closed
      BY <3>1, <3>6 DEF ConsumerWaits
    <3> QED BY <3>3, <3>4, <3>5, <3>6 DEF NoLostWakeup
  <2> QED BY <2>1, <2>2 DEF IInv
<1> QED BY <1>1, Invariance, PTL

-----------------------------------------------------------------------------
\* Refinement: the ring implements the abstract queue, for every capacity
\* and word size.  By the invariant, what is in the ring is a run of
\* consecutive values, so every step of the ring is a step on such runs.
\* The abstract state
\* How many values came before the first one of the queue.
Base == taken + InHand

\* What the invariant says of the abstract state, until the destructor ran.
Abstraction ==
    /\ sent \in Nat /\ taken \in Nat /\ Base \in Nat /\ InHand \in {0, 1}
    /\ Base <= sent /\ sent <= MaxPush /\ sent - taken <= Capacity
    /\ Queue = Run(Base, sent - Base)
    /\ Held = IF cpc = "holding" THEN <<taken + 1>> ELSE <<>>
    /\ Told => closed /\ taken = sent
    /\ ppc \in {"emplace", "fill"} => count \in 1 .. MaxPush /\ ~closed
    /\ ppc = "wake" => cpc = "parked"
    /\ cpc = "resume" => IF elem THEN taken < sent ELSE closed /\ taken = sent
    /\ cpc \in {"idle", "suspend"} =>
         /\ flags[ReadSlot] \in {"closed", "empty"} => taken = sent
         /\ flags[ReadSlot] = "closed" <=> closed /\ taken = sent

\* The values from the next one on are in the slots from read_offset on.
LEMMA StateAbstracts ==
  ASSUME WrapIsSeamless, IInv, ppc # "gone"
  PROVE  Abstraction
<1>1. TypeOK /\ Running BY DEF IInv, Destroyed
<1>2. /\ sent \in Nat /\ taken \in Nat /\ taken <= sent /\ InHand \in {0, 1}
      /\ Base \in Nat /\ Base <= sent /\ MaxPush \in Nat /\ sent <= MaxPush
      /\ MaxBulk \in Nat /\ ReadSlot = At(taken) /\ At(taken) \in Slot
  <2>1. sent \in Nat /\ taken \in Nat /\ taken <= sent /\ ReadSlot = At(taken) /\ At(taken) \in Slot
    BY <1>1, SlotsRead, Positions DEF Running, Offsets
  <2>2. MaxPush \in Nat /\ MaxBulk \in Nat
    BY BoundAssumption, BulkAssumption, CapacityAssumption
  <2>3. InHand \in {0, 1} /\ (InHand = 1 => taken < sent) BY <1>1 DEF InHand, Running, Offsets
  <2>4. sent <= MaxPush BY <1>1, <2>2 DEF TypeOK
  <2> QED BY <2>1, <2>2, <2>3, <2>4 DEF Base
<1>3. ASSUME NEW j \in Nat, InHand <= j, j < sent - taken
      PROVE  StoredAt(j) = taken + j + 1
  <2>1. StoredAt(j) = stored[At(taken + j)]
    <3>1. Plus(taken % WordMod, j) = (taken + j) % WordMod BY <1>2, Positions
    <3> QED BY <1>1, <3>1 DEF StoredAt, At, Running, Offsets
  <2>2. taken + j \in Live BY <1>2, <1>3 DEF Live
  <2>3. ~(taken + j = taken /\ cpc = "free") BY <1>2, <1>3 DEF InHand
  <2> QED BY <1>1, <2>1, <2>2, <2>3 DEF Running, Contents
<1>4. Queue = Run(Base, sent - Base)
  <2>1. sent - taken - InHand = sent - Base BY <1>2 DEF Base
  <2>2. ASSUME NEW k \in 1 .. sent - Base
        PROVE  StoredAt(k - 1 + InHand) = Base + k
    <3>1. k - 1 + InHand \in Nat /\ InHand <= k - 1 + InHand /\ k - 1 + InHand < sent - taken
      BY <1>2 DEF Base
    <3>2. StoredAt(k - 1 + InHand) = taken + (k - 1 + InHand) + 1 BY <1>3, <3>1
    <3> QED BY <1>2, <3>2 DEF Base
  <2>3. Queue = [k \in 1 .. sent - Base |-> StoredAt(k - 1 + InHand)] BY <2>1 DEF Queue
  <2> QED BY <2>2, <2>3 DEF Run
<1>5. Held = IF cpc = "holding" THEN <<taken + 1>> ELSE <<>>
  <2>1. ASSUME cpc = "holding" PROVE StoredAt(0) = taken + 1
    <3>1. taken < sent /\ taken \in Live /\ cpc # "free"
      BY <1>1, <1>2, <2>1 DEF Running, Offsets, Live
    <3>2. StoredAt(0) = stored[At(taken)]
      <4>1. 0 \in Nat /\ taken + 0 = taken BY <1>2
      <4>2. Plus(taken % WordMod, 0) = (taken + 0) % WordMod BY <1>2, <4>1, Positions
      <4> QED BY <1>1, <4>1, <4>2 DEF StoredAt, At, Running, Offsets
    <3> QED BY <1>1, <3>1, <3>2 DEF Running, Contents
  <2> QED BY <2>1 DEF Held
<1>6. sent - taken <= Capacity
  <2>1. sent + Filled - taken <= Capacity /\ Filled \in Nat
    BY <1>1, WindowFits, SlotsRead DEF Filled, Running
  <2> QED BY <1>2, <2>1, CapacityAssumption
<1>7. /\ Told => closed /\ taken = sent
      /\ ppc = "wake" => cpc = "parked"
      /\ cpc = "resume" => IF elem THEN taken < sent ELSE closed /\ taken = sent
  BY <1>1 DEF Running, ToldClosed, Told, ConsumerWaits
<1>8. ppc \in {"emplace", "fill"} => count \in 1 .. MaxPush /\ ~closed
  <2>1. count \in Nat BY <1>1, SlotsRead DEF Running
  <2> QED BY <1>1, <1>2, <2>1 DEF Running, Offsets, Pushing
<1>9. ASSUME cpc \in {"idle", "suspend"}
      PROVE  /\ flags[ReadSlot] \in {"closed", "empty"} => taken = sent
             /\ flags[ReadSlot] = "closed" <=> closed /\ taken = sent
  <2>1. taken < sent => Occupied(flags[At(taken)])
    <3>1. taken < sent => taken \in Live BY <1>2 DEF Live
    <3> QED BY <1>1, <3>1 DEF Running, Contents
  <2>2. Occupied(flags[At(taken)]) => taken < sent BY <1>1, <1>9, NextInOrder
  <2>3. flags[At(taken)] = "closed" => closed BY <1>1, <1>2 DEF Running, Sentinel
  <2>4. closed /\ taken = sent => flags[At(taken)] \in {"closed", "data|closed"}
    BY <1>1, <1>9 DEF Running, Sentinel
  <2> QED BY <1>2, <2>1, <2>2, <2>3, <2>4 DEF Occupied
<1> QED BY <1>2, <1>4, <1>5, <1>6, <1>7, <1>8, <1>9 DEF Abstraction

\* Steps
\* A step that publishes no value, takes none and ends no scope leaves the
\* abstract queue and the consumer's hand alone.
LEMMA KeepsValues ==
  ASSUME Abstraction, Abstraction', sent' = sent, Base' = Base,
         cpc' = cpc \/ {cpc, cpc'} \cap {"holding"} = {}
  PROVE  Queue' = Queue /\ Held' = Held
<1>1. Queue' = Queue BY DEF Abstraction
<1>2. CASE cpc # "holding" /\ cpc' # "holding" BY <1>1, <1>2 DEF Abstraction
<1>3. CASE cpc = "holding" /\ cpc' = "holding"
  <2>1. InHand = 1 /\ InHand' = 1 BY <1>3 DEF InHand
  <2>2. taken \in Nat /\ taken' \in Nat /\ taken + 1 = taken' + 1 BY <2>1 DEF Abstraction, Base
  <2>3. \A x, y \in Nat : x + 1 = y + 1 => x = y OBVIOUS
  <2>4. taken' = taken BY <2>2, <2>3, Zenon
  <2> QED BY <1>1, <1>3, <2>4 DEF Abstraction
<1> QED BY <1>2, <1>3

\* A pull that finds a value takes it from the queue.
LEMMA Takes ==
  ASSUME Abstraction, Abstraction', 
         sent' = sent, taken' = taken, closed' = closed, outcome' = "OK",
         cpc \notin {"holding", "free"}, cpc' = "holding"
  PROVE  Abstract!Dequeue
<1>1. Base = taken /\ Base' = taken + 1 /\ taken + 1 <= sent /\ sent \in Nat /\ taken \in Nat
  BY DEF Abstraction, Base, InHand
<1> DEFINE n == sent - taken
<1>2. n \in Nat /\ n > 0 /\ n - 1 = sent - (taken + 1) BY <1>1
<1>3. Queue = Run(taken, n) /\ Queue' = Run(taken + 1, n - 1) BY <1>1, <1>2 DEF Abstraction
<1>4. Head(Queue) = taken + 1 /\ Queue' = Tail(Queue) /\ Queue # <<>>
  <2> HIDE DEF n
  <2>1. Head(Run(taken, n)) = taken + 1 /\ Tail(Run(taken, n)) = Run(taken + 1, n - 1)
    BY <1>1, <1>2, RunTail
  <2>2. Run(taken, n) # <<>> BY <1>1, <1>2, RunIsSeq
  <2> QED BY <1>3, <2>1, <2>2
<1>5. Held = <<>> /\ Held' = <<taken + 1>> BY DEF Abstraction
<1>6. Told = FALSE /\ Told' = FALSE BY <1>1 DEF Abstraction, Told
<1> QED BY <1>4, <1>5, <1>6 DEF Abstract!Dequeue

\* A pull says CLOSED only when there is nothing left, after close().
LEMMA Says ==
  ASSUME Abstraction, Abstraction', 
         sent' = sent, taken' = taken, closed' = closed, outcome' = "CLOSED",
         cpc \notin {"holding", "free"}, cpc' = "idle"
  PROVE  Abstract!SayClosed
<1>1. Base = taken /\ Base' = taken /\ sent \in Nat /\ taken \in Nat
  BY DEF Abstraction, Base, InHand
<1>2. Told' = TRUE /\ closed /\ taken = sent BY DEF Abstraction, Told
<1>3. Queue = <<>> /\ Queue' = Queue
  <2>1. Queue = Run(taken, 0) /\ Queue' = Queue BY <1>1, <1>2 DEF Abstraction
  <2> QED BY <1>1, <2>1, RunIsSeq
<1>4. Held = <<>> /\ Held' = Held BY DEF Abstraction
<1> QED BY <1>2, <1>3, <1>4 DEF Abstract!SayClosed

\* The exchange of the first slot's flag puts the whole bulk into the queue.
LEMMA Publishes ==
  ASSUME Abstraction, Abstraction', Publish
  PROVE  Abstract!Enqueue
<1>1. /\ count \in 1 .. MaxPush /\ ~closed /\ sent' = sent + count
      /\ taken' = taken /\ cpc' = cpc /\ closed' = closed /\ outcome' = outcome
  BY DEF Publish, Abstraction, consumer
<1>2. /\ sent \in Nat /\ taken \in Nat /\ Base \in Nat /\ Base <= sent /\ InHand \in {0, 1}
      /\ Base' = Base /\ sent + count <= MaxPush /\ sent + count - taken <= Capacity
      /\ MaxPush \in Nat /\ Capacity \in Nat /\ Base = taken + InHand
  BY <1>1, BoundAssumption, CapacityAssumption DEF Abstraction, Base, InHand
<1> DEFINE n == sent - Base
           m == sent + count - Base
<1>3. n \in Nat /\ m \in Nat /\ n < m /\ Base + m <= MaxPush /\ m + InHand <= Capacity
  BY <1>1, <1>2
<1>4. Queue = Run(Base, n) /\ Queue' = Run(Base, m) BY <1>1, <1>2 DEF Abstraction
<1>5. /\ Queue \in Seq(Value) /\ Len(Queue) = n
      /\ Queue' \in Seq(Value) /\ Len(Queue') = m /\ SubSeq(Queue', 1, n) = Queue
  <2> HIDE DEF n, m
  <2>1. Base + n <= MaxPush BY <1>2, <1>3
  <2>2. Run(Base, n) \in Seq(Value) /\ Len(Run(Base, n)) = n
    BY <1>2, <1>3, <2>1, RunIsSeq, RunInRange DEF Value
  <2>3. Run(Base, m) \in Seq(Value) /\ Len(Run(Base, m)) = m
    BY <1>2, <1>3, RunIsSeq, RunInRange DEF Value
  <2>4. SubSeq(Run(Base, m), 1, n) = Run(Base, n) BY <1>2, <1>3, RunPrefix
  <2> QED BY <1>4, <2>2, <2>3, <2>4
<1>6. Held' = Held /\ Len(Held) \in Nat /\ Len(Held) <= InHand
  <2>1. Held' = Held BY <1>1 DEF Abstraction
  <2>2. Held = IF cpc = "holding" THEN <<taken + 1>> ELSE <<>> BY DEF Abstraction
  <2>3. Len(Held) = IF cpc = "holding" THEN 1 ELSE 0 BY <2>2
  <2> QED BY <2>1, <2>3 DEF InHand
<1>7. Told = FALSE /\ Told' = FALSE BY <1>1 DEF Abstraction, Told
<1> HIDE DEF n, m
<1>8. Len(Queue') > Len(Queue) /\ Len(Queue') + Len(Held) <= Capacity BY <1>2, <1>3, <1>5, <1>6
<1>9. SubSeq(Queue', 1, Len(Queue)) = Queue BY <1>5
<1> QED BY <1>1, <1>5, <1>6, <1>7, <1>8, <1>9 DEF Abstract!Enqueue

\* The consumer's scope ends when the value is destroyed.
LEMMA Releases ==
  ASSUME Abstraction, Abstraction', DestroyValue
  PROVE  Abstract!Release
<1>1. /\ cpc = "holding" /\ cpc' = "free" /\ sent' = sent /\ taken' = taken
      /\ closed' = closed /\ outcome' = outcome
  BY DEF DestroyValue, producer
<1>2. Base' = Base BY <1>1 DEF Base, InHand
<1>3. Queue' = Queue BY <1>1, <1>2 DEF Abstraction
<1>4. Held # <<>> /\ Held' = <<>> BY <1>1 DEF Held
<1>5. Told' = Told BY <1>1 DEF Told
<1> QED BY <1>1, <1>3, <1>4, <1>5 DEF Abstract!Release

\* close() of the ring is close() of the queue.
LEMMA Closes ==
  ASSUME Abstraction, Abstraction', Close
  PROVE  Abstract!Close
<1>1. /\ sent' = sent /\ taken' = taken /\ cpc' = cpc /\ closed' = TRUE /\ outcome' = outcome
  BY DEF Close, consumer
<1>2. Base' = Base /\ Told' = Told BY <1>1 DEF Base, InHand, Told
<1>3. Queue' = Queue /\ Held' = Held BY <1>1, <1>2, KeepsValues
<1> QED BY <1>1, <1>2, <1>3 DEF Abstract!Close

\* The destructor empties the queue.
LEMMA Discards ==
  ASSUME Destruct
  PROVE  Abstract!Discard
<1>1. /\ cpc = "idle" /\ cpc' = "gone" /\ ppc' = "gone" /\ closed' = TRUE /\ outcome' = outcome
  BY DEF Destruct
<1>2. Held = <<>> /\ Held' = <<>> /\ Queue' = <<>> /\ Told' = Told BY <1>1 DEF Held, Queue, Told
<1> QED BY <1>1, <1>2 DEF Abstract!Discard

\* The steps of a push before its publication, and waking the other side,
\* show nothing.
LEMMA Quiet ==
  ASSUME Abstraction, Abstraction', sent' = sent, closed' = closed, outcome' = outcome,
         \/ taken' = taken /\ cpc' = cpc
         \/ taken' = taken /\ {cpc, cpc'} \cap {"holding", "free"} = {}
         \/ taken' = taken + 1 /\ cpc = "free" /\ cpc' \notin {"holding", "free"}
  PROVE  UNCHANGED Abstract!vars
<1>1. Base' = Base
  <2>1. CASE taken' = taken /\ cpc' = cpc BY <2>1 DEF Base, InHand
  <2>2. CASE taken' = taken /\ {cpc, cpc'} \cap {"holding", "free"} = {}
    BY <2>2 DEF Base, InHand
  <2>3. CASE taken' = taken + 1 /\ cpc = "free" /\ cpc' \notin {"holding", "free"}
    <3>1. InHand = 1 /\ InHand' = 0 /\ taken \in Nat BY <2>3 DEF InHand, Abstraction
    <3> QED BY <2>3, <3>1 DEF Base
  <2> QED BY <2>1, <2>2, <2>3
<1>2. Queue' = Queue /\ Held' = Held BY <1>1, KeepsValues
<1>3. Told' = Told BY DEF Told
<1> QED BY <1>2, <1>3 DEF Abstract!vars

\* Every step of the producer that calls nothing new.
LEMMA ProducerImplements ==
  ASSUME Abstraction, Abstraction', ProducerStep
  PROVE  [Abstract!Next]_(Abstract!vars)
<1>1. CASE PushSuspend BY <1>1, Quiet DEF PushSuspend, consumer
<1>2. CASE EmplaceFirst BY <1>2, Quiet DEF EmplaceFirst, consumer
<1>3. CASE EmplaceNext BY <1>3, Quiet DEF EmplaceNext, consumer
<1>4. CASE Publish BY <1>4, Publishes DEF Abstract!Next
<1>5. CASE ResumeConsumer
  <2>1. cpc = "parked" /\ cpc' = "resume" /\ taken' = taken
    BY <1>5 DEF ResumeConsumer, Abstraction
  <2> QED BY <1>5, <2>1, Quiet DEF ResumeConsumer
<1> QED BY <1>1, <1>2, <1>3, <1>4, <1>5 DEF ProducerStep

\* Every step of the consumer that calls nothing new.
LEMMA ConsumerImplements ==
  ASSUME Abstraction, Abstraction', ConsumerStep
  PROVE  [Abstract!Next]_(Abstract!vars)
<1>1. CASE PullSuspend
  <2>1. cpc = "suspend" /\ sent' = sent /\ taken' = taken /\ closed' = closed
    BY <1>1 DEF PullSuspend, producer
  <2>2. CASE outcome' = outcome /\ cpc' = "parked" BY <2>1, <2>2, Quiet
  <2>3. CASE outcome' = "CLOSED" /\ cpc' = "idle" BY <2>1, <2>3, Says DEF Abstract!Next
  <2>4. CASE outcome' = "OK" /\ cpc' = "holding" BY <2>1, <2>4, Takes DEF Abstract!Next
  <2> QED BY <1>1, <2>2, <2>3, <2>4 DEF PullSuspend
<1>2. CASE PullResume
  <2>1. cpc = "resume" /\ sent' = sent /\ taken' = taken /\ closed' = closed
    BY <1>2 DEF PullResume, producer
  <2>2. CASE outcome' = "CLOSED" /\ cpc' = "idle" BY <2>1, <2>2, Says DEF Abstract!Next
  <2>3. CASE outcome' = "OK" /\ cpc' = "holding" BY <2>1, <2>3, Takes DEF Abstract!Next
  <2> QED BY <1>2, <2>2, <2>3 DEF PullResume
<1>3. CASE DestroyValue BY <1>3, Releases DEF Abstract!Next
<1>4. CASE FreeSlot
  <2>1. cpc = "free" /\ taken' = taken + 1 /\ sent' = sent /\ closed' = closed /\ outcome' = outcome
    BY <1>4 DEF FreeSlot, producer
  <2>2. cpc' \in {"wake", "republish", "idle"} BY <1>4 DEF FreeSlot, AfterFree
  <2> QED BY <2>1, <2>2, Quiet
<1>5. CASE ResumeProducer BY <1>5, Quiet DEF ResumeProducer
<1>6. CASE Republish BY <1>6, Quiet DEF Republish, producer
<1> QED BY <1>1, <1>2, <1>3, <1>4, <1>5, <1>6 DEF ConsumerStep

\* The first poll of a pull, and try_pull().
LEMMA PollImplements ==
  ASSUME Abstraction, Abstraction', PullReady \/ TryPull
  PROVE  [Abstract!Next]_(Abstract!vars)
<1>1. cpc = "idle" /\ sent' = sent /\ taken' = taken /\ closed' = closed
  BY DEF PullReady, TryPull, producer
<1>2. CASE outcome' = "OK" /\ cpc' = "holding" BY <1>1, <1>2, Takes DEF Abstract!Next
<1>3. CASE outcome' = "CLOSED" /\ cpc' = "idle" BY <1>1, <1>3, Says DEF Abstract!Next
<1>4. CASE outcome' = outcome /\ cpc' = "suspend" BY <1>1, <1>4, Quiet
<1>5. CASE outcome' = "EMPTY" /\ cpc' = "idle" /\ flags[ReadSlot] # "closed"
  <2>1. Base' = Base BY <1>1, <1>5 DEF Base, InHand
  <2>2. Queue' = Queue /\ Held' = Held BY <1>1, <1>5, <2>1, KeepsValues
  <2>3. Told = FALSE /\ Told' = FALSE BY <1>1, <1>5 DEF Abstraction, Told
  <2> QED BY <1>1, <2>2, <2>3 DEF Abstract!vars
<1>6. ASSUME PullReady
      PROVE  \/ outcome' = "OK" /\ cpc' = "holding"
             \/ outcome' = outcome /\ cpc' = "suspend"
  <2>1. CASE DataWaiting(flags[ReadSlot]) BY <1>6, <2>1 DEF PullReady
  <2>2. CASE ~DataWaiting(flags[ReadSlot]) BY <1>6, <2>2 DEF PullReady
  <2> QED BY <2>1, <2>2
<1>7. TryPull => \/ outcome' = "OK" /\ cpc' = "holding"
                 \/ outcome' = "CLOSED" /\ cpc' = "idle"
                 \/ outcome' = "EMPTY" /\ cpc' = "idle" /\ flags[ReadSlot] # "closed"
  BY <1>1 DEF TryPull
<1> QED BY <1>2, <1>3, <1>4, <1>5, <1>6, <1>7

\* Until the destructor has run, the abstract state is what it should be.
Mapped == IInv /\ (ppc # "gone" => Abstraction)

\* Every step of the ring is a step of the queue, or shows nothing.
LEMMA StepImplements ==
  ASSUME Mapped, Mapped', [Next]_vars
  PROVE  [Abstract!Next]_(Abstract!vars)
<1>1. CASE UNCHANGED vars
  <2>1. /\ stored' = stored /\ read_offset' = read_offset /\ sent' = sent /\ taken' = taken
        /\ cpc' = cpc /\ ppc' = ppc /\ closed' = closed /\ outcome' = outcome
    BY <1>1 DEF vars, shared, producer, consumer
  <2>2. Queue' = Queue /\ Held' = Held /\ Told' = Told
    BY <2>1 DEF Queue, Held, Told, StoredAt, InHand
  <2> QED BY <2>1, <2>2 DEF Abstract!vars
<1>2. CASE Destruct BY <1>2, Discards DEF Abstract!Next
<1>3. CASE Next /\ ~Destruct /\ ppc = "gone"
  <2>1. cpc = "gone" BY <1>3 DEF Mapped, IInv, Running, Destroyed
  <2>2. UNCHANGED vars
    BY <1>3, <2>1 DEF Next, PushReady, MayPush, TryPush, ProducerStep, PushSuspend, EmplaceFirst,
       EmplaceNext, Publish, ResumeConsumer, Close, PullReady, TryPull, ConsumerStep, PullSuspend,
       PullResume, DestroyValue, FreeSlot, ResumeProducer, Republish, Gone
  <2> QED BY <1>1, <2>2
<1>4. CASE Next /\ ~Destruct /\ ppc # "gone"
  <2>1. ppc' # "gone"
    BY <1>4 DEF Next, PushReady, MayPush, TryPush, ProducerStep, PushSuspend, EmplaceFirst,
       EmplaceNext, Publish, ResumeConsumer, Close, PullReady, TryPull, ConsumerStep, PullSuspend,
       PullResume, DestroyValue, FreeSlot, ResumeProducer, Republish, Gone, producer
  <2>2. Abstraction /\ Abstraction' BY <1>4, <2>1 DEF Mapped
  <2>3. CASE \E n \in 1 .. MaxBulk : PushReady(n) BY <2>2, <2>3, Quiet DEF PushReady, consumer
  <2>4. CASE TryPush BY <2>2, <2>4, Quiet DEF TryPush, consumer
  <2>5. CASE ProducerStep BY <2>2, <2>5, ProducerImplements
  <2>6. CASE Close BY <2>2, <2>6, Closes DEF Abstract!Next
  <2>7. CASE PullReady \/ TryPull BY <2>2, <2>7, PollImplements
  <2>8. CASE ConsumerStep BY <2>2, <2>8, ConsumerImplements
  <2> QED BY <1>4, <2>3, <2>4, <2>5, <2>6, <2>7, <2>8 DEF Next, Gone
<1> QED BY <1>1, <1>2, <1>3, <1>4

\* A new ring is an empty queue.
LEMMA InitImplements ==
  ASSUME Init
  PROVE  Abstract!Init
<1>1. ppc = "idle" /\ cpc = "idle" /\ closed = FALSE /\ outcome = "none" /\ sent = 0 /\ taken = 0
  BY DEF Init
<1>2. InHand = 0 BY <1>1 DEF InHand
<1>3. Queue = <<>>
  <2>1. Queue = [k \in 1 .. sent - taken - InHand |-> StoredAt(k - 1 + InHand)]
    BY <1>1 DEF Queue
  <2>2. 1 .. sent - taken - InHand = {} BY <1>1, <1>2
  <2>3. Queue = [k \in {} |-> StoredAt(k - 1 + InHand)] BY <2>1, <2>2
  <2>4. Queue \in Seq(Value) /\ Len(Queue) = 0
    <3>1. Queue \in [1 .. 0 -> Value] /\ 0 \in Nat BY <2>3
    <3> QED BY <3>1
  <2> QED BY <2>4, EmptySeq
<1>4. Held = <<>> /\ Told = FALSE BY <1>1 DEF Held, Told
<1> QED BY <1>1, <1>3, <1>4 DEF Abstract!Init

\* qu_spsc_bounded is a bounded single-consumer FIFO queue that can be closed:
\* its slots, flags, wraparounds, suspensions and bulks show in no behaviour.
THEOREM Refinement ==
  ASSUME WrapIsSeamless
  PROVE  Spec => ImplementsAsyncQueue
<1>1. Init => Abstract!Init BY InitImplements
<1>2. IInv => Mapped BY StateAbstracts DEF Mapped
<1>3. Mapped /\ Mapped' /\ [Next]_vars => [Abstract!Next]_(Abstract!vars) BY StepImplements
<1>4. Spec => []IInv BY Invariance
<1> QED BY <1>1, <1>2, <1>3, <1>4, PTL DEF Spec, Abstract!Spec, ImplementsAsyncQueue
================================================================================
