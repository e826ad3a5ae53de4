--------------------------- MODULE MpscBoundedProofs ---------------------------
(***************************************************************************)
(* Safety of the bounded MPSC ring, for any set of producers, capacity and *)
(* word size: the flags of a slot are a lock on it, the line of a slot is  *)
(* served in order and loses nobody, every value is delivered once, and    *)
(* every suspended consumer has somebody who resumes it.                   *)
(***************************************************************************)
EXTENDS MpscBounded, WordArithmetic, SequenceTheorems, FiniteSetTheorems

\* p writes in its slot, or was handed it and is about to be resumed.
Holds(p) == pc[p] \in {"emplace", "publish"} \/ (cpc = "wake" /\ next = p)

\* Somebody has taken the consumer's pointer, or is about to.
Rouses(p)    == pc[p] \in {"extract", "wake"}
CloserRouses == kpc \in {"extract", "wake"}

\* The consumer has a value to read, or is about to be resumed with one.
Reading == cpc \in {"disarm_data", "resume", "holding", "drain"}

\* Slot s holds a value that the consumer has yet to release.
HasData(s) == flags[s].owner = "data" /\ ~(cpc = "drain" /\ s = ReadSlot)

\* The push of p is under way and has not published.
Pending(p) == pc[p] \notin {"idle", "extract", "wake", "gone"}

\* How many tickets were drawn before ticket t.
Age(t) == (t - FirstTicket) % WordMod

\* PROD says that one producer holds the slot, DATA that the consumer may.
Locks ==
    /\ \A p \in Producers : Holds(p) => flags[MySlot(p)].owner = "prod"
    /\ \A p, q \in Producers : Holds(p) /\ Holds(q) /\ MySlot(p) = MySlot(q) => p = q
    /\ \A s \in Slot : flags[s].owner = "prod" => \E p \in Producers : Holds(p) /\ MySlot(p) = s
    /\ Reading => flags[ReadSlot].owner = "data"

\* A value lies where its ticket says, and only there.
Values ==
    /\ \A s \in Slot : HasData(s) => /\ stored[s] # NoValue /\ SlotOf(stored[s][2]) = s
                                     /\ stored[s] \in accepted \ delivered
    /\ \A p \in Producers : pc[p] = "publish" => stored[MySlot(p)] = <<p, ticket[p]>>
    /\ \A s \in Slot : stored[s] # NoValue =>
          HasData(s) \/ \E p \in Producers : pc[p] = "publish" /\ MySlot(p) = s

\* Tickets differ, so a value that is about to be published is new.
Tickets ==
    /\ Age(write_offset) <= MaxPush + (IF closed /\ kpc # "cut" THEN 1 ELSE 0)
    /\ \A v \in accepted : Age(v[2]) < Age(write_offset)
    /\ \A p \in Producers : Pending(p) => /\ Age(ticket[p]) < Age(write_offset)
                                          /\ <<p, ticket[p]>> \notin accepted
    /\ IF kpc = "idle" THEN ~closed ELSE closed

Accounts ==
    /\ delivered \subseteq accepted
    /\ \A v \in accepted : v \in delivered \/ \E s \in Slot : HasData(s) /\ stored[s] = v

\* The line of a slot is who is parked on it, except for the one being resumed.
Lines ==
    /\ cpc = "wake" => next \in Producers /\ pc[next] = "parked"
    /\ \A p \in Producers : pc[p] = "parked" =>
          \/ cpc = "wake" /\ next = p
          \/ \E i \in 1 .. Len(Line(MySlot(p))) : Line(MySlot(p))[i] = p
    /\ \A s \in Slot : \A i \in 1 .. Len(Line(s)) :
          /\ pc[Line(s)[i]] = "parked" /\ MySlot(Line(s)[i]) = s
          /\ ~(cpc = "wake" /\ next = Line(s)[i])
    /\ \A s \in Slot : \A i, j \in 1 .. Len(Line(s)) : Line(s)[i] = Line(s)[j] => i = j
    /\ \A s \in Slot : Line(s) # <<>> => flags[s].owner \in {"prod", "data"}

\* Where the consumer's pointer is, and who is about to resume it.
Rousing ==
    /\ \A s \in Slot : flags[s].cons => cpc = "parked" /\ s = ReadSlot
    /\ cpc \in {"confirm", "disarm_data", "disarm_closed"} => waiting[ReadSlot]
    /\ cpc = "parked" => \/ flags[ReadSlot].cons \/ CloserRouses
                         \/ \E p \in Producers : Rouses(p)
    /\ cpc = "parked" => \/ waiting[ReadSlot] \/ kpc = "wake"
                         \/ \E p \in Producers : pc[p] = "wake"
    /\ \A p \in Producers : Rouses(p) =>
          /\ cpc = "parked" /\ MySlot(p) = ReadSlot
          /\ flags[ReadSlot].owner = "data" /\ ~flags[ReadSlot].cons
    /\ \A p, q \in Producers : Rouses(p) /\ Rouses(q) => p = q
    /\ CloserRouses => /\ cpc = "parked" /\ CutoffSlot = ReadSlot
                       /\ flags[ReadSlot].owner = "closed" /\ ~flags[ReadSlot].cons
    /\ call.mode = "pull" \/ cpc \in {"arm", "confirm", "disarm_data", "disarm_closed",
                                      "rearm", "parked"}
          => can_suspend

Running   == Locks /\ Values /\ Tickets /\ Accounts
Destroyed == cpc = "gone" /\ kpc = "done" /\ \A p \in Producers : pc[p] = "gone"

IInv ==
    /\ TypeOK /\ Lines /\ Rousing
    /\ IF cpc = "gone" THEN Destroyed ELSE Running

\* The type invariant by owner of the variables.
ProducerPc == {"idle", "check", "spin", "claim", "park", "parked", "emplace", "publish",
               "extract", "wake", "gone"}
SlotRecord == [owner : Owner, cons : BOOLEAN, chain : Seq(Producers)]

SlotTypes ==
    /\ flags \in [Slot -> SlotRecord]
    /\ waiting \in [Slot -> BOOLEAN] /\ waiting_idx \in [Slot -> Word]
    /\ output \in [Slot -> Seq(Producers)]
    /\ stored \in [Slot -> Value \cup {NoValue}]
ProducerTypes ==
    /\ pc \in [Producers -> ProducerPc]
    /\ ticket \in [Producers -> Word]
ConsumerTypes ==
    /\ cpc \in {"idle", "look", "check", "spin", "arm", "confirm", "disarm_data",
                "disarm_closed", "rearm", "parked", "resume", "resume_closed", "holding",
                "drain", "wake", "gone"}
    /\ call \in [mode : {"none", "try", "pull"}, sentinel : BOOLEAN]
    /\ told \in BOOLEAN /\ sees_closed \in BOOLEAN
    /\ read_offset \in Word /\ next \in Producers \cup {Nobody}
CloserTypes ==
    /\ write_offset \in Word /\ write_closed_at \in Word
    /\ closed \in BOOLEAN /\ closed_ready \in BOOLEAN /\ marked \in BOOLEAN
    /\ kpc \in {"idle", "cut", "ready", "mark", "settle", "extract", "wake", "done"}
    /\ snapshot \in SlotRecord
HistoryTypes == accepted \subseteq Value /\ delivered \subseteq Value

Going == TypeOK /\ Lines /\ Rousing /\ Running /\ cpc # "gone"

\* Steps that move an actor and leave values, locks and lines as they are.
Quiet ==
    /\ UNCHANGED <<stored, next, accepted, delivered>>
    /\ \A s \in Slot : Line(s)' = Line(s)
    /\ \A s \in Slot : \/ flags'[s].owner = flags[s].owner
                        \/ /\ {flags[s].owner, flags'[s].owner} \subseteq {"none", "closed"}
                           /\ Line(s) = <<>>
    /\ \A p \in Producers :
          \/ pc'[p] = pc[p] /\ ticket'[p] = ticket[p]
          \/ {pc[p], pc'[p]} \cap {"parked", "emplace", "publish"} = {}
    /\ \/ cpc' = cpc /\ read_offset' = read_offset
       \/ {cpc, cpc'} \cap {"drain", "wake", "gone"} = {}
    /\ Reading' => flags'[SlotOf(read_offset')].owner = "data"

\* Slots, words and sequences
\* Every offset names a slot.
LEMMA SlotsAndWords ==
  /\ \A t \in Word : SlotOf(t) \in Slot
  /\ \A t \in Word, k \in Nat : Plus(t, k) \in Word
  /\ 0 \in Word /\ FirstTicket \in Word
  BY CapacityAssumption, WordAssumption, BoundAssumption, DivMod DEF Word, SlotOf, Slot, Plus

\* The age of a ticket is a number below WordMod.
LEMMA Ages == \A t \in Word : Age(t) \in 0 .. WordMod - 1
  BY WordAssumption, CapacityAssumption, BoundAssumption DEF Age, Word

\* Drawing a ticket makes it one older than write_offset was.
LEMMA NextAge ==
  ASSUME NEW t \in Word, Age(t) + 1 < WordMod
  PROVE  Age(Plus(t, 1)) = Age(t) + 1
<1>1. /\ WordMod \in Nat /\ WordMod > 1 /\ FirstTicket \in 0 .. WordMod - 1
      /\ t \in 0 .. WordMod - 1
  BY WordAssumption, CapacityAssumption, BoundAssumption DEF Word
<1>2. \A x \in 0 .. WordMod - 1 :
         Age(x) = IF x >= FirstTicket THEN x - FirstTicket ELSE x - FirstTicket + WordMod
  BY <1>1 DEF Age
<1>3. Plus(t, 1) = IF t = WordMod - 1 THEN 0 ELSE t + 1 BY <1>1 DEF Plus
<1> QED BY <1>1, <1>2, <1>3

\* The stack of a slot, read in the order of parking.
LEMMA ReversedSeq ==
  ASSUME NEW S, NEW c \in Seq(S)
  PROVE  /\ Reversed(c) \in Seq(S) /\ Len(Reversed(c)) = Len(c)
         /\ \A i \in 1 .. Len(c) : Reversed(c)[i] = c[Len(c) + 1 - i]
<1>1. Len(c) \in Nat /\ c \in [1 .. Len(c) -> S] BY LenProperties
<1>2. \A i \in 1 .. Len(c) : Len(c) + 1 - i \in 1 .. Len(c) BY <1>1
<1>3. Reversed(c) \in [1 .. Len(c) -> S] BY <1>1, <1>2 DEF Reversed
<1>4. Reversed(c) \in Seq(S) BY <1>1, <1>3, SeqDef
<1> QED BY <1>1, <1>3, <1>4, LenProperties DEF Reversed

\* Who parks last comes last.
LEMMA ReversedPush ==
  ASSUME NEW S, NEW c \in Seq(S), NEW e \in S
  PROVE  <<e>> \o c \in Seq(S) /\ Reversed(<<e>> \o c) = Append(Reversed(c), e)
<1> DEFINE d == <<e>> \o c
<1>1. /\ Len(c) \in Nat /\ <<e>> \in Seq(S) /\ Len(<<e>>) = 1 /\ <<e>>[1] = e
      /\ Reversed(c) \in Seq(S) /\ Len(Reversed(c)) = Len(c)
      /\ \A i \in 1 .. Len(c) : Reversed(c)[i] = c[Len(c) + 1 - i]
  BY ReversedSeq, LenProperties
<1>2. /\ d \in Seq(S) /\ Len(d) = Len(c) + 1
      /\ \A i \in 1 .. Len(c) + 1 : d[i] = IF i <= 1 THEN e ELSE c[i - 1]
  BY <1>1, ConcatProperties
<1> HIDE DEF d
<1>3. /\ Reversed(d) \in Seq(S) /\ Len(Reversed(d)) = Len(d)
      /\ \A i \in 1 .. Len(d) : Reversed(d)[i] = d[Len(d) + 1 - i]
  BY <1>2, ReversedSeq
<1>4. /\ Append(Reversed(c), e) \in Seq(S) /\ Len(Append(Reversed(c), e)) = Len(c) + 1
      /\ \A i \in 1 .. Len(c) : Append(Reversed(c), e)[i] = Reversed(c)[i]
      /\ Append(Reversed(c), e)[Len(c) + 1] = e
  BY <1>1, AppendProperties
<1>5. ASSUME NEW i \in 1 .. Len(d) PROVE Reversed(d)[i] = Append(Reversed(c), e)[i]
  <2>1. Reversed(d)[i] = IF Len(d) + 1 - i <= 1 THEN e ELSE c[(Len(d) + 1 - i) - 1]
    <3>1. Len(d) + 1 - i \in 1 .. Len(c) + 1 BY <1>1, <1>2
    <3> QED BY <3>1, <1>2, <1>3
  <2>2. CASE i = Len(c) + 1 BY <2>1, <2>2, <1>1, <1>2, <1>4
  <2>3. CASE i \in 1 .. Len(c) BY <2>1, <2>3, <1>1, <1>2, <1>4
  <2> QED BY <2>2, <2>3, <1>1, <1>2
<1>6. Reversed(d) = Append(Reversed(c), e) BY <1>1, <1>2, <1>3, <1>4, <1>5, SeqEqual
<1> QED BY <1>2, <1>6 DEF d

\* Nobody on either list is nobody in line.
LEMMA ConcatOfEmpty ==
  ASSUME NEW S, NEW o \in Seq(S), NEW c \in Seq(S)
  PROVE  /\ o \o Reversed(c) \in Seq(S)
         /\ o \o Reversed(c) = <<>> <=> o = <<>> /\ c = <<>>
         /\ c = <<>> => Reversed(c) = <<>>
<1>1. Reversed(c) \in Seq(S) /\ Len(Reversed(c)) = Len(c) BY ReversedSeq
<1>2. Reversed(c) = <<>> <=> c = <<>>
  <2>1. Len(Reversed(c)) = 0 <=> Reversed(c) = <<>> BY <1>1, EmptySeq
  <2>2. Len(c) = 0 <=> c = <<>> BY EmptySeq
  <2> QED BY <2>1, <2>2, <1>1
<1> QED BY <1>1, <1>2, ConcatProperties, ConcatEqualIffEmpty

\* The head and the tail of a line that starts with a list that is not empty.
LEMMA HeadTailConcat ==
  ASSUME NEW S, NEW o \in Seq(S), NEW r \in Seq(S)
  PROVE  /\ o # <<>> => Head(o \o r) = Head(o) /\ Tail(o \o r) = Tail(o) \o r
         /\ o = <<>> => o \o r = r
<1>1. o = <<>> => o \o r = r BY ConcatEmptySeq
<1>2. ASSUME o # <<>> PROVE Head(o \o r) = Head(o) /\ Tail(o \o r) = Tail(o) \o r
  <2>1. /\ o \o r \in Seq(S) /\ Len(o \o r) = Len(o) + Len(r)
        /\ \A i \in 1 .. Len(o) + Len(r) : (o \o r)[i] = IF i <= Len(o) THEN o[i] ELSE r[i - Len(o)]
        /\ Len(o) \in Nat \ {0} /\ Len(r) \in Nat
    BY <1>2, ConcatProperties, EmptySeq, LenProperties
  <2>2. o \o r # <<>> BY <1>2, ConcatEqualIffEmpty
  <2>3. /\ Tail(o \o r) \in Seq(S) /\ Len(Tail(o \o r)) = Len(o) + Len(r) - 1
        /\ \A i \in 1 .. Len(o) + Len(r) - 1 : Tail(o \o r)[i] = (o \o r)[i + 1]
    BY <2>1, <2>2, HeadTailProperties
  <2>4. /\ Tail(o) \in Seq(S) /\ Len(Tail(o)) = Len(o) - 1
        /\ \A i \in 1 .. Len(o) - 1 : Tail(o)[i] = o[i + 1]
    BY <1>2, HeadTailProperties
  <2>5. /\ Tail(o) \o r \in Seq(S) /\ Len(Tail(o) \o r) = Len(o) - 1 + Len(r)
        /\ \A i \in 1 .. Len(o) - 1 + Len(r) :
              (Tail(o) \o r)[i] = IF i <= Len(o) - 1 THEN Tail(o)[i] ELSE r[i - (Len(o) - 1)]
    BY <2>4, ConcatProperties
  <2>6. ASSUME NEW i \in 1 .. Len(o) + Len(r) - 1
        PROVE  Tail(o \o r)[i] = (Tail(o) \o r)[i]
    <3>1. Tail(o \o r)[i] = IF i + 1 <= Len(o) THEN o[i + 1] ELSE r[i + 1 - Len(o)]
      BY <2>1, <2>3
    <3>2. CASE i + 1 <= Len(o) BY <3>1, <3>2, <2>1, <2>4, <2>5
    <3>3. CASE ~(i + 1 <= Len(o))
      <4>1. (Tail(o) \o r)[i] = r[i - (Len(o) - 1)] BY <3>3, <2>1, <2>5
      <4>2. i - (Len(o) - 1) = i + 1 - Len(o) BY <2>1
      <4> QED BY <3>1, <3>3, <4>1, <4>2
    <3> QED BY <3>2, <3>3
  <2>7. Tail(o \o r) = Tail(o) \o r BY <2>1, <2>3, <2>5, <2>6, SeqEqual
  <2>8. Head(o \o r) = Head(o) BY <2>1
  <2> QED BY <2>7, <2>8
<1> QED BY <1>1, <1>2

\* Who joins the second list joins the line at its end.
LEMMA ConcatAppend ==
  ASSUME NEW S, NEW o \in Seq(S), NEW r \in Seq(S), NEW e \in S
  PROVE  o \o Append(r, e) = Append(o \o r, e)
<1>1. <<e>> \in Seq(S) /\ o \o r \in Seq(S) BY ConcatProperties
<1>2. Append(r, e) = r \o <<e>> /\ Append(o \o r, e) = (o \o r) \o <<e>> BY <1>1, AppendIsConcat
<1> QED BY <1>1, <1>2, ConcatAssociative

\* The type invariant is the types of the slots and of the four actors.
LEMMA TypeParts ==
  TypeOK <=> SlotTypes /\ ProducerTypes /\ ConsumerTypes /\ CloserTypes /\ HistoryTypes
  BY DEF TypeOK, SlotTypes, ProducerTypes, ConsumerTypes, CloserTypes, HistoryTypes,
         SlotRecord, ProducerPc

\* The same, after a step.
LEMMA TypePartsNext ==
  TypeOK' <=> SlotTypes' /\ ProducerTypes' /\ ConsumerTypes' /\ CloserTypes' /\ HistoryTypes'
  BY DEF TypeOK, SlotTypes, ProducerTypes, ConsumerTypes, CloserTypes, HistoryTypes,
         SlotRecord, ProducerPc

\* The line of the slot that p competes for, after a step.
LEMMA LineNext ==
  ASSUME NEW p, NEW s, MySlot(p)' = s
  PROVE  Line(MySlot(p))' = Line(s)'
  BY DEF Line

\* Lines are disturbed by parking and by hand-offs alone.
LEMMA LinesStay ==
  ASSUME SlotTypes, ProducerTypes, Lines, next' = next, cpc' = "wake" <=> cpc = "wake",
         \A s \in Slot : Line(s)' = Line(s),
         \A s \in Slot : Line(s) # <<>> => flags'[s].owner \in {"prod", "data"},
         \A p \in Producers : /\ pc'[p] = "parked" <=> pc[p] = "parked"
                              /\ pc'[p] = "parked" => MySlot(p)' = MySlot(p)
  PROVE  Lines'
<1>1. \A p \in Producers : MySlot(p) \in Slot BY SlotsAndWords DEF MySlot, ProducerTypes
<1>2. \A s \in Slot : Line(s) \in Seq(Producers)
  BY ConcatOfEmpty DEF Line, SlotTypes, SlotRecord
<1>3. cpc' = "wake" => next' \in Producers /\ pc'[next'] = "parked" BY DEF Lines
<1>4. \A p \in Producers : pc'[p] = "parked" =>
        \/ cpc' = "wake" /\ next' = p
        \/ \E i \in 1 .. Len(Line(MySlot(p))') : Line(MySlot(p))'[i] = p
  BY <1>1 DEF Lines
<1>5. \A s \in Slot : \A i \in 1 .. Len(Line(s)') :
        /\ pc'[Line(s)'[i]] = "parked" /\ MySlot(Line(s)[i])' = s
        /\ ~(cpc' = "wake" /\ next' = Line(s)'[i])
  <2> SUFFICES ASSUME NEW s \in Slot, NEW i \in 1 .. Len(Line(s)')
               PROVE  /\ pc'[Line(s)'[i]] = "parked" /\ MySlot(Line(s)[i])' = s
                      /\ ~(cpc' = "wake" /\ next' = Line(s)'[i])
    OBVIOUS
  <2>1. Line(s)' = Line(s) /\ i \in 1 .. Len(Line(s)) /\ Line(s)[i] \in Producers
    BY <1>2, ElementOfSeq
  <2>2. /\ pc[Line(s)[i]] = "parked" /\ MySlot(Line(s)[i]) = s
        /\ ~(cpc = "wake" /\ next = Line(s)[i])
    BY <2>1 DEF Lines
  <2> QED BY <2>1, <2>2
<1>6. /\ \A s \in Slot : \A i, j \in 1 .. Len(Line(s)') : Line(s)'[i] = Line(s)'[j] => i = j
      /\ \A s \in Slot : Line(s)' # <<>> => flags'[s].owner \in {"prod", "data"}
  BY DEF Lines
<1> QED BY <1>3, <1>4, <1>5, <1>6 DEF Lines

\* A quiet step keeps the locks, the values, the accounts and the lines.
LEMMA QuietKeeps ==
  ASSUME SlotTypes, ProducerTypes, ConsumerTypes, Quiet, Locks, Values, Accounts, Lines
  PROVE  Locks' /\ Values' /\ Accounts' /\ Lines'
<1>1. \A p \in Producers : MySlot(p) \in Slot BY SlotsAndWords DEF MySlot, ProducerTypes
<1>3. \A p \in Producers :
         /\ Holds(p)' <=> Holds(p)
         /\ Holds(p) => MySlot(p)' = MySlot(p)
         /\ pc'[p] = "publish" <=> pc[p] = "publish"
         /\ pc'[p] = "publish" => ticket'[p] = ticket[p] /\ MySlot(p)' = MySlot(p)
         /\ pc'[p] = "parked" <=> pc[p] = "parked"
         /\ pc'[p] = "parked" => MySlot(p)' = MySlot(p)
  <2>1. cpc = "wake" => next \in Producers /\ pc[next] = "parked" BY DEF Lines
  <2> QED BY <2>1 DEF Quiet, Holds, MySlot
<1>4. cpc' = "wake" <=> cpc = "wake" BY DEF Quiet
<1>5. \A s \in Slot : HasData(s)' <=> HasData(s) BY DEF Quiet, HasData, ReadSlot
<1>6. Locks'
  <2>1. \A s \in Slot : flags'[s].owner = "prod" <=> flags[s].owner = "prod" BY DEF Quiet
  <2>2. Reading' => flags'[ReadSlot'].owner = "data" BY DEF Quiet, ReadSlot
  <2> HIDE DEF Quiet, Holds
  <2>3. \A p \in Producers : Holds(p)' => flags'[MySlot(p)'].owner = "prod"
    BY <1>1, <1>3, <2>1 DEF Locks
  <2>4. \A p, q \in Producers : Holds(p)' /\ Holds(q)' /\ MySlot(p)' = MySlot(q)' => p = q
    BY <1>3 DEF Locks
  <2>5. \A s \in Slot : flags'[s].owner = "prod" => \E p \in Producers : Holds(p)' /\ MySlot(p)' = s
    BY <1>3, <2>1 DEF Locks
  <2> QED BY <2>2, <2>3, <2>4, <2>5 DEF Locks
<1>7. Values'
  <2>1. \A s \in Slot : HasData(s)' => /\ stored'[s] # NoValue /\ SlotOf(stored'[s][2]) = s
                                       /\ stored'[s] \in accepted' \ delivered'
    BY <1>5 DEF Values, Quiet
  <2>2. \A p \in Producers : pc'[p] = "publish" => stored'[MySlot(p)'] = <<p, ticket'[p]>>
    BY <1>3 DEF Values, Quiet
  <2>3. \A s \in Slot : stored'[s] # NoValue =>
           HasData(s)' \/ \E p \in Producers : pc'[p] = "publish" /\ MySlot(p)' = s
    BY <1>3, <1>5 DEF Values, Quiet
  <2> QED BY <2>1, <2>2, <2>3 DEF Values
<1>8. Accounts' BY <1>5 DEF Accounts, Quiet
<1>9. Lines'
  <2>1. \A s \in Slot : Line(s)' = Line(s) /\ (Line(s) # <<>> => flags'[s].owner = flags[s].owner)
    BY DEF Quiet
  <2>2. \A s \in Slot : Line(s) # <<>> => flags'[s].owner \in {"prod", "data"} BY <2>1 DEF Lines
  <2>3. next' = next BY DEF Quiet
  <2> QED BY <1>3, <1>4, <2>1, <2>2, <2>3, LinesStay
<1> QED BY <1>6, <1>7, <1>8, <1>9

\* The slots that producers, consumer and close() work on are slots.
LEMMA MySlots ==
  ASSUME ProducerTypes, ConsumerTypes, CloserTypes
  PROVE  /\ \A p \in Producers : MySlot(p) \in Slot
         /\ ReadSlot \in Slot /\ CutoffSlot \in Slot
  BY SlotsAndWords DEF MySlot, ReadSlot, CutoffSlot, ProducerTypes, ConsumerTypes, CloserTypes

\* Tickets are disturbed by drawing one, by publishing and by close() alone.
LEMMA TicketsStay ==
  ASSUME Tickets, CloserTypes, UNCHANGED <<write_offset, accepted>>,
         \A p \in Producers : Pending(p)' => Pending(p) /\ ticket'[p] = ticket[p],
         closed /\ kpc # "cut" => closed' /\ kpc' # "cut",
         IF kpc' = "idle" THEN ~closed' ELSE closed'
  PROVE  Tickets'
<1>1. Age(write_offset) \in Int
  BY WordAssumption, CapacityAssumption, BoundAssumption DEF Age, Word, CloserTypes
<1>2. MaxPush \in Nat /\ Age(write_offset)' = Age(write_offset) BY BoundAssumption DEF Age
<1>3. \A p \in Producers : Pending(p)' =>
          Age(ticket[p])' = Age(ticket[p]) /\ Age(ticket[p]) < Age(write_offset)
          /\ <<p, ticket'[p]>> \notin accepted'
  BY DEF Tickets, Age
<1>4. \A v \in accepted' : Age(v[2]) < Age(write_offset) BY DEF Tickets
<1> HIDE DEF Age
<1> QED BY <1>1, <1>2, <1>3, <1>4 DEF Tickets

\* A quiet step keeps the invariant, if tickets and rousing are seen to.
LEMMA QuietGoes ==
  ASSUME Going, Quiet, Tickets', Rousing', cpc' # "gone",
         SlotTypes', ProducerTypes', ConsumerTypes', CloserTypes', HistoryTypes'
  PROVE  Going'
  BY TypeParts, TypePartsNext, QuietKeeps DEF Going, Running

\* The consumer
ConsumerAlone ==
    UNCHANGED <<output, stored, write_offset, closing, producers, next, closer, history,
                can_suspend>>

\* A step of the consumer that leaves values, owners and chains as they are.
ConsumerMoves ==
    /\ ConsumerAlone
    /\ flags' \in [Slot -> SlotRecord]
    /\ waiting' \in [Slot -> BOOLEAN] /\ waiting_idx' \in [Slot -> Word]
    /\ \A s \in Slot : flags'[s].owner = flags[s].owner /\ flags'[s].chain = flags[s].chain
    /\ cpc \notin {"drain", "wake", "gone"} /\ cpc' \notin {"drain", "wake", "gone"}
    /\ Reading' => flags[SlotOf(read_offset')].owner = "data"

\* A consumer's step of that form keeps the invariant if it keeps Rousing.
LEMMA ConsumerQuiet ==
  ASSUME Going, ConsumerMoves, ConsumerTypes', Rousing'
  PROVE  Going'
<1> USE DEF ConsumerMoves
<1>1. /\ SlotTypes /\ ProducerTypes /\ ConsumerTypes /\ CloserTypes /\ HistoryTypes
      /\ Lines /\ Tickets
  BY TypeParts DEF Going, Running
<1>3. \A s \in Slot : flags'[s].owner = flags[s].owner /\ flags'[s].chain = flags[s].chain
  OBVIOUS
<1>4. SlotTypes' /\ ProducerTypes' /\ CloserTypes' /\ HistoryTypes'
  BY <1>1 DEF ConsumerAlone, SlotTypes, ProducerTypes, CloserTypes, HistoryTypes,
                     producers, closing, closer, history
<1>5. \A s \in Slot : Line(s)' = Line(s) BY <1>3 DEF ConsumerAlone, Line
<1>6. Reading' => flags'[SlotOf(read_offset')].owner = "data"
  BY <1>3, SlotsAndWords DEF ConsumerTypes
<1>7. Quiet BY <1>3, <1>5, <1>6 DEF Quiet, ConsumerAlone, producers, history
<1>8. Tickets'
  BY <1>1, TicketsStay DEF ConsumerAlone, Tickets, Pending, producers, closing, closer, history
<1> QED BY <1>4, <1>7, <1>8, QuietGoes

\* Nobody rouses a consumer that is not parked.
LEMMA NobodyRouses ==
  ASSUME Rousing, cpc # "parked"
  PROVE  /\ \A s \in Slot : ~flags[s].cons
         /\ \A p \in Producers : ~Rouses(p)
         /\ ~CloserRouses
  BY DEF Rousing

\* A consumer that does not suspend has nobody to rouse it.
LEMMA AwakeRousing ==
  ASSUME Rousing, cpc # "parked", cpc' # "parked",
         UNCHANGED <<flags, pc, kpc, can_suspend>>,
         cpc' \in {"confirm", "disarm_data", "disarm_closed"} => waiting'[SlotOf(read_offset')],
         call'.mode = "pull" \/ cpc' \in {"arm", "confirm", "disarm_data", "disarm_closed", "rearm"}
           => can_suspend
  PROVE  Rousing'
<1>1. /\ \A s \in Slot : ~flags'[s].cons
      /\ \A p \in Producers : ~Rouses(p)'
      /\ ~CloserRouses'
  BY NobodyRouses DEF Rouses, CloserRouses
<1> QED BY <1>1 DEF Rousing, ReadSlot

CallType == [mode : {"none", "try", "pull"}, sentinel : BOOLEAN]

\* The calls of the consumer are of their type.
LEMMA Calls ==
  /\ NoCall \in CallType /\ NoCall.mode = "none"
  /\ \A m \in {"none", "try", "pull"}, b \in BOOLEAN :
        [mode |-> m, sentinel |-> b] \in CallType /\ [mode |-> m, sentinel |-> b].mode = m
  BY DEF NoCall, CallType

\* try_pull() and the start of pull().
LEMMA LookKeeps ==
  ASSUME Going, StartPull \/ LookAgain
  PROVE  Going'
<1>1. PICK m \in {"none", "try", "pull"} :
         Look(m) /\ cpc \in {"idle", "look"} /\ (m = "pull" => can_suspend)
  <2>1. call.mode \in {"none", "try", "pull"} /\ (call.mode = "pull" => can_suspend)
    BY TypeParts DEF Going, ConsumerTypes, Rousing
  <2> QED BY <2>1 DEF StartPull, LookAgain, Mode
<1>2. /\ SlotTypes /\ ConsumerTypes /\ Rousing BY TypeParts DEF Going
<1>3. ConsumerAlone /\ flags' = flags /\ UNCHANGED <<waiting, waiting_idx, read_offset>>
  BY <1>1 DEF Look, ConsumerAlone, slots
<1>4. cpc' \in {"holding", "check"} /\ (cpc' = "holding" => flags[ReadSlot].owner = "data")
  BY <1>1 DEF Look
<1>5. call' \in CallType /\ (call'.mode = "pull" => m = "pull")
  <2>1. call' = NoCall \/ call' = [mode |-> m, sentinel |-> flags[ReadSlot].owner = "closed"]
    BY <1>1 DEF Look
  <2>2. (flags[ReadSlot].owner = "closed") \in BOOLEAN OBVIOUS
  <2> QED BY <2>1, <2>2, Calls, Zenon
<1>6. ConsumerTypes'
  BY <1>1, <1>2, <1>3, <1>4, <1>5 DEF Look, Acquire, ConsumerTypes, ConsumerAlone, CallType
<1>7. Rousing'
  BY <1>1, <1>2, <1>3, <1>4, <1>5, AwakeRousing DEF ConsumerAlone, producers, closer
<1>8. ConsumerMoves BY <1>1, <1>2, <1>3, <1>4 DEF ConsumerMoves, SlotTypes, ReadSlot, Reading
<1> QED BY <1>6, <1>7, <1>8, ConsumerQuiet

\* The load of closed.
LEMMA LoadClosedKeeps ==
  ASSUME Going, LoadClosed
  PROVE  Going'
<1>1. SlotTypes /\ ConsumerTypes /\ Rousing BY TypeParts DEF Going
<1>2. ConsumerAlone /\ flags' = flags /\ UNCHANGED <<waiting, waiting_idx, read_offset>>
  BY DEF LoadClosed, ConsumerAlone, slots
<1>3. /\ cpc = "check" /\ cpc' \in {"arm", "idle", "spin"} /\ call' \in {call, NoCall}
      /\ cpc' = "arm" => call.mode = "pull"
  BY DEF LoadClosed, NothingYet
<1>4. ConsumerTypes'
  BY <1>1, <1>2, <1>3, Calls DEF LoadClosed, NothingYet, ConsumerTypes, ConsumerAlone, CallType
<1>5. Rousing'
  <2>1. call.mode = "pull" => can_suspend BY <1>1 DEF Rousing
  <2> QED BY <1>1, <1>2, <1>3, <2>1, AwakeRousing DEF NoCall, ConsumerAlone, producers, closer
<1>6. ConsumerMoves BY <1>1, <1>2, <1>3 DEF ConsumerMoves, SlotTypes, Reading
<1> QED BY <1>4, <1>5, <1>6, ConsumerQuiet

\* The wait for the cutoff and the comparison with it.
LEMMA LoadCutoffKeeps ==
  ASSUME Going, LoadCutoff
  PROVE  Going'
<1>1. SlotTypes /\ ConsumerTypes /\ Rousing BY TypeParts DEF Going
<1>2. ConsumerAlone /\ flags' = flags /\ UNCHANGED <<waiting, waiting_idx>>
  BY DEF LoadCutoff, ConsumerAlone, slots
<1>3. /\ cpc = "spin" /\ cpc' \in {"arm", "idle", "look"} /\ call' \in {call, NoCall}
      /\ cpc' = "arm" => call.mode = "pull"
  BY DEF LoadCutoff, NothingYet
<1>4. read_offset' \in Word BY <1>1, SlotsAndWords DEF LoadCutoff, ConsumerTypes
<1>5. ConsumerTypes'
  BY <1>1, <1>2, <1>3, <1>4, Calls
     DEF LoadCutoff, NothingYet, ConsumerTypes, ConsumerAlone, CallType
<1>6. Rousing'
  <2>1. call.mode = "pull" => can_suspend BY <1>1 DEF Rousing
  <2> QED BY <1>1, <1>2, <1>3, <2>1, AwakeRousing DEF NoCall, ConsumerAlone, producers, closer
<1>7. ConsumerMoves BY <1>1, <1>2, <1>3 DEF ConsumerMoves, SlotTypes, Reading
<1> QED BY <1>5, <1>6, <1>7, ConsumerQuiet

\* The publication of the consumer's pointer and index.
LEMMA ArmKeeps ==
  ASSUME Going, Arm
  PROVE  Going'
<1>1. SlotTypes /\ ConsumerTypes /\ Rousing /\ ReadSlot \in Slot BY TypeParts, MySlots DEF Going
<1>2. /\ ConsumerAlone /\ flags' = flags /\ UNCHANGED <<read_offset, call>>
      /\ cpc = "arm" /\ cpc' = "confirm"
  BY DEF Arm, ConsumerAlone
<1>3. /\ waiting' \in [Slot -> BOOLEAN] /\ waiting_idx' \in [Slot -> Word]
      /\ waiting'[ReadSlot]
  BY <1>1 DEF Arm, SlotTypes, ConsumerTypes
<1>4. ConsumerTypes' BY <1>1, <1>2 DEF Arm, ConsumerTypes
<1>5. Rousing'
  <2>1. can_suspend BY <1>1, <1>2 DEF Rousing
  <2> QED BY <1>1, <1>2, <1>3, <2>1, AwakeRousing DEF ConsumerAlone, producers, closer, ReadSlot
<1>6. ConsumerMoves BY <1>1, <1>2, <1>3 DEF ConsumerMoves, SlotTypes, Reading
<1> QED BY <1>4, <1>5, <1>6, ConsumerQuiet

\* CONS is set, or data or the sentinel was there first.
LEMMA ConfirmKeeps ==
  ASSUME Going, Confirm
  PROVE  Going'
<1> DEFINE f == flags[ReadSlot]
<1>1. SlotTypes /\ ConsumerTypes /\ ProducerTypes /\ CloserTypes /\ Rousing /\ ReadSlot \in Slot
  BY TypeParts, MySlots DEF Going
<1>2. /\ ConsumerAlone /\ UNCHANGED <<waiting, waiting_idx, read_offset, call, told>>
      /\ cpc = "confirm"
      /\ cpc' = CASE f.owner = "data"   -> "disarm_data"
                  [] f.owner = "closed" -> "disarm_closed"
                  [] OTHER              -> "parked"
      /\ flags' = IF f.owner \in {"data", "closed"} THEN flags
                  ELSE [flags EXCEPT ![ReadSlot].cons = TRUE]
  BY DEF Confirm, ConsumerAlone
<1>3. ConsumerTypes' BY <1>1, <1>2 DEF Confirm, Acquire, ConsumerTypes, ConsumerAlone
<1>4. waiting[ReadSlot] /\ can_suspend BY <1>1, <1>2 DEF Rousing
<1>5. ReadSlot' = ReadSlot BY <1>2 DEF ReadSlot
<1>6. Rousing'
  <2>1. CASE f.owner \in {"data", "closed"}
    BY <1>1, <1>2, <1>4, <2>1, AwakeRousing DEF ReadSlot, ConsumerAlone, producers, closer, Rousing
  <2>2. CASE f.owner \notin {"data", "closed"}
    <3>1. cpc' = "parked" /\ flags' = [flags EXCEPT ![ReadSlot].cons = TRUE] BY <1>2, <2>2
    <3>2. flags'[ReadSlot].cons /\ \A s \in Slot : s # ReadSlot => flags'[s] = flags[s]
      BY <1>1, <3>1 DEF SlotTypes, SlotRecord
    <3>3. /\ \A s \in Slot : ~flags[s].cons
          /\ \A p \in Producers : ~Rouses(p)'
          /\ ~CloserRouses'
      BY <1>1, <1>2, NobodyRouses DEF Rouses, CloserRouses, ConsumerAlone, producers, closer
    <3>4. can_suspend' BY <1>2, <1>4 DEF ConsumerAlone
    <3> QED BY <1>2, <1>4, <1>5, <3>1, <3>2, <3>3, <3>4 DEF Rousing
  <2> QED BY <2>1, <2>2
<1>7. Reading' => flags[SlotOf(read_offset')].owner = "data" BY <1>2 DEF Reading, ReadSlot
<1>8. /\ flags' \in [Slot -> SlotRecord]
      /\ \A s \in Slot : flags'[s].owner = flags[s].owner /\ flags'[s].chain = flags[s].chain
  BY <1>1, <1>2 DEF SlotTypes, SlotRecord
<1>9. ConsumerMoves BY <1>1, <1>2, <1>7, <1>8 DEF ConsumerMoves, SlotTypes
<1> QED BY <1>3, <1>6, <1>9, ConsumerQuiet

\* The consumer takes its pointer back, and it is always there to be taken.
LEMMA DisarmKeeps ==
  ASSUME Going, Disarm
  PROVE  Going'
<1>1. SlotTypes /\ ConsumerTypes /\ Rousing /\ Locks /\ ReadSlot \in Slot
  BY TypeParts, MySlots DEF Going, Running
<1>2. /\ ConsumerAlone /\ flags' = flags /\ UNCHANGED <<waiting_idx, read_offset, call>>
      /\ cpc \in {"disarm_data", "disarm_closed"}
      /\ waiting' = [waiting EXCEPT ![ReadSlot] = FALSE]
  BY DEF Disarm, ConsumerAlone
<1>3. waiting[ReadSlot] /\ can_suspend BY <1>1, <1>2 DEF Rousing
<1>4. cpc' = IF cpc = "disarm_data" THEN "holding" ELSE "rearm" BY <1>2, <1>3 DEF Disarm
<1>5. ConsumerTypes' BY <1>1, <1>2, <1>4 DEF Disarm, ConsumerTypes, ConsumerAlone
<1>6. Rousing' BY <1>1, <1>2, <1>3, <1>4, AwakeRousing DEF ConsumerAlone, producers, closer
<1>7. Reading' => flags[SlotOf(read_offset')].owner = "data"
  BY <1>1, <1>2, <1>4 DEF Reading, ReadSlot, Locks
<1>8. ConsumerMoves BY <1>1, <1>2, <1>4, <1>7 DEF ConsumerMoves, SlotTypes
<1> QED BY <1>5, <1>6, <1>8, ConsumerQuiet

\* The consumer that met the sentinel goes to the next index, or ends.
LEMMA RearmKeeps ==
  ASSUME Going, Rearm
  PROVE  Going'
<1>1. SlotTypes /\ ConsumerTypes /\ Rousing BY TypeParts DEF Going
<1>2. /\ ConsumerAlone /\ flags' = flags /\ UNCHANGED <<waiting, waiting_idx, call>>
      /\ cpc = "rearm" /\ cpc' \in {"idle", "arm"}
  BY DEF Rearm, ConsumerAlone, slots
<1>3. read_offset' \in Word BY <1>1, SlotsAndWords DEF Rearm, ConsumerTypes
<1>4. ConsumerTypes' BY <1>1, <1>2, <1>3 DEF Rearm, ConsumerTypes, ConsumerAlone
<1>5. Rousing'
  <2>1. can_suspend BY <1>1, <1>2 DEF Rousing
  <2> QED BY <1>1, <1>2, <2>1, AwakeRousing DEF ConsumerAlone, producers, closer
<1>6. ConsumerMoves BY <1>1, <1>2 DEF ConsumerMoves, SlotTypes, Reading
<1> QED BY <1>4, <1>5, <1>6, ConsumerQuiet

\* The consumer that was resumed goes on.
LEMMA PullResumeKeeps ==
  ASSUME Going, PullResume
  PROVE  Going'
<1>1. SlotTypes /\ ConsumerTypes /\ Rousing /\ Locks BY TypeParts DEF Going, Running
<1>2. /\ ConsumerAlone /\ flags' = flags /\ UNCHANGED <<waiting, waiting_idx, read_offset, call>>
      /\ cpc \in {"resume", "resume_closed"}
      /\ cpc' = IF cpc = "resume" THEN "holding" ELSE "idle"
  BY DEF PullResume, ConsumerAlone, slots
<1>3. ConsumerTypes' BY <1>1, <1>2 DEF PullResume, ConsumerTypes, ConsumerAlone
<1>4. Rousing'
  <2>1. call.mode = "pull" => can_suspend BY <1>1 DEF Rousing
  <2> QED BY <1>1, <1>2, <2>1, AwakeRousing DEF ConsumerAlone, producers, closer
<1>5. Reading' => flags[SlotOf(read_offset')].owner = "data"
  BY <1>1, <1>2 DEF Reading, ReadSlot, Locks
<1>6. ConsumerMoves BY <1>1, <1>2, <1>5 DEF ConsumerMoves, SlotTypes
<1> QED BY <1>3, <1>4, <1>6, ConsumerQuiet

\* Producers
\* A step of p that neither gives it the slot, nor parks it, nor publishes.
ProducerMoves(p, l) ==
    /\ UNCHANGED <<flags, waiting_idx, output, stored, write_offset, closing, call, told,
                   read_offset, next, sees_closed, closer, history, can_suspend>>
    /\ waiting' \in [Slot -> BOOLEAN]
    /\ ProducerGoes(p, l)
    /\ l \in ProducerPc \ {"parked", "emplace", "publish", "gone"}
    /\ l \notin {"idle", "extract", "wake"} => Pending(p)
    /\ pc[p] \notin {"parked", "emplace", "publish"}
    /\ \/ cpc' = cpc
       \/ cpc = "parked" /\ cpc' = "resume" /\ flags[ReadSlot].owner = "data"

\* A producer that goes elsewhere keeps its ticket, unless its call is over.
LEMMA GoesTo ==
  ASSUME ProducerTypes, NEW p \in Producers, NEW l \in ProducerPc, ProducerGoes(p, l)
  PROVE  /\ ProducerTypes'
         /\ pc'[p] = l /\ (l # "idle" => ticket'[p] = ticket[p])
         /\ \A q \in Producers : q # p => pc'[q] = pc[q] /\ ticket'[q] = ticket[q]
  BY SlotsAndWords DEF ProducerGoes, ProducerTypes

\* A producer's step of that form keeps the invariant if it keeps Rousing.
LEMMA ProducerQuiet ==
  ASSUME Going, NEW p \in Producers, NEW l, ProducerMoves(p, l), Rousing'
  PROVE  Going'
<1>1. /\ SlotTypes /\ ProducerTypes /\ ConsumerTypes /\ CloserTypes /\ HistoryTypes
      /\ Lines /\ Tickets /\ Locks
  BY TypeParts DEF Going, Running
<1>2. /\ ProducerGoes(p, l) /\ l \in ProducerPc \ {"parked", "emplace", "publish", "gone"}
      /\ l \notin {"idle", "extract", "wake"} => Pending(p)
  BY DEF ProducerMoves
<1>3. /\ ProducerTypes'
      /\ pc'[p] = l /\ (l # "idle" => ticket'[p] = ticket[p])
      /\ \A q \in Producers : q # p => pc'[q] = pc[q] /\ ticket'[q] = ticket[q]
  BY <1>1, <1>2, GoesTo
<1>4. UNCHANGED <<flags, waiting_idx, output, stored, write_offset, closing, call, told,
                  read_offset, next, sees_closed, closer, history, can_suspend>>
  BY DEF ProducerMoves
<1>5. SlotTypes' /\ ConsumerTypes' /\ CloserTypes' /\ HistoryTypes' /\ cpc' # "gone"
  BY <1>1, <1>4 DEF ProducerMoves, SlotTypes, ConsumerTypes, CloserTypes, HistoryTypes,
                     closing, closer, history, Going
<1>6. \A s \in Slot : Line(s)' = Line(s) BY <1>4 DEF Line
<1>7. Reading' => flags'[SlotOf(read_offset')].owner = "data"
  BY <1>1, <1>4 DEF ProducerMoves, Locks, Reading, ReadSlot
<1>8. Quiet BY <1>2, <1>3, <1>4, <1>5, <1>6, <1>7 DEF Quiet, ProducerMoves, history, Going
<1>9. Tickets'
  <2>1. \A q \in Producers : Pending(q)' => Pending(q) /\ ticket'[q] = ticket[q]
    BY <1>2, <1>3 DEF Pending
  <2>2. IF kpc' = "idle" THEN ~closed' ELSE closed' BY <1>1, <1>4 DEF Tickets, closer, closing
  <2> QED BY <1>1, <1>4, <2>1, <2>2, TicketsStay DEF closing, closer, history
<1> QED BY <1>3, <1>5, <1>8, <1>9, QuietGoes

\* A producer that is not about to rouse the consumer does not care for it.
LEMMA AloofRousing ==
  ASSUME Rousing, ProducerTypes, NEW p \in Producers, NEW l \in ProducerPc, ProducerGoes(p, l),
         pc[p] \notin {"extract", "wake"}, l \notin {"extract", "wake"},
         UNCHANGED <<flags, waiting, write_closed_at, call, cpc, read_offset, kpc, can_suspend>>
  PROVE  Rousing'
<1>1. /\ pc'[p] = l
      /\ \A q \in Producers : q # p => pc'[q] = pc[q] /\ ticket'[q] = ticket[q]
  BY GoesTo
<1>2. \A q \in Producers : /\ pc'[q] = "wake" <=> pc[q] = "wake"
                           /\ Rouses(q)' <=> Rouses(q)
                           /\ Rouses(q) => MySlot(q)' = MySlot(q)
  BY <1>1 DEF Rouses, MySlot
<1>3. ReadSlot' = ReadSlot /\ CutoffSlot' = CutoffSlot /\ (CloserRouses' <=> CloserRouses)
  BY DEF ReadSlot, CutoffSlot, CloserRouses
<1> HIDE DEF Rouses
<1> QED BY <1>2, <1>3 DEF Rousing

\* The load of closed by a producer, and its comparison with the cutoff.
LEMMA CheckKeeps ==
  ASSUME Going, NEW p \in Producers, CheckClosed(p) \/ CompareCutoff(p)
  PROVE  Going'
<1>1. SlotTypes /\ ProducerTypes /\ Rousing BY TypeParts DEF Going
<1>2. PICK l \in {"idle", "claim", "spin"} : ProducerGoes(p, l)
  BY DEF CheckClosed, CompareCutoff
<1>3. /\ UNCHANGED <<slots, write_offset, closing, consumer, closer, history, can_suspend>>
      /\ pc[p] \in {"check", "spin"}
  BY DEF CheckClosed, CompareCutoff
<1>4. ProducerMoves(p, l)
  <2>1. l \in ProducerPc \ {"parked", "emplace", "publish", "gone"} /\ Pending(p)
    BY <1>2, <1>3 DEF ProducerPc, Pending
  <2> QED BY <1>1, <1>2, <1>3, <2>1 DEF ProducerMoves, SlotTypes, slots, consumer
<1>5. Rousing'
  BY <1>1, <1>2, <1>3, AloofRousing DEF ProducerPc, slots, consumer, closing, closer
<1> QED BY <1>4, <1>5, ProducerQuiet

\* The attempts that find the slot taken, or closed.
LEMMA TurnedAwayKeeps ==
  ASSUME Going, NEW p \in Producers, TryClaim(p) \/ Park(p), flags' = flags, pc'[p] # "parked",
         pc'[p] # "emplace"
  PROVE  Going'
<1>1. SlotTypes /\ ProducerTypes /\ Rousing BY TypeParts DEF Going
<1>2. PICK l \in {"idle", "claim", "park", "parked", "emplace"} : ProducerGoes(p, l)
  BY DEF TryClaim, Park
<1>3. pc'[p] = l BY <1>1, <1>2, GoesTo DEF ProducerPc
<1>4. /\ UNCHANGED <<waiting, waiting_idx, output, stored, write_offset, closing, consumer,
                     closer, history, can_suspend>>
      /\ pc[p] \in {"claim", "park"}
  BY DEF TryClaim, Park
<1>5. ProducerMoves(p, l)
  <2>1. l \in ProducerPc \ {"parked", "emplace", "publish", "gone"} /\ Pending(p)
    BY <1>2, <1>3, <1>4 DEF ProducerPc, Pending
  <2> QED BY <1>1, <1>2, <1>4, <2>1 DEF ProducerMoves, SlotTypes, consumer
<1>6. Rousing' BY <1>1, <1>2, <1>3, <1>4, AloofRousing DEF ProducerPc, consumer, closing, closer
<1> QED BY <1>5, <1>6, ProducerQuiet

\* The producer that found CONS takes the consumer's pointer, which is there.
LEMMA ExtractConsumerKeeps ==
  ASSUME Going, NEW p \in Producers, ExtractConsumer(p)
  PROVE  Going'
<1>1. /\ SlotTypes /\ ProducerTypes /\ ConsumerTypes /\ Rousing
      /\ MySlot(p) \in Slot /\ ReadSlot \in Slot
  BY TypeParts, MySlots DEF Going
<1>2. /\ pc[p] = "extract" /\ waiting' = [waiting EXCEPT ![MySlot(p)] = FALSE]
      /\ UNCHANGED <<flags, waiting_idx, output, stored, write_offset, closing, consumer, closer,
                     history, can_suspend>>
  BY DEF ExtractConsumer
<1>3. /\ cpc = "parked" /\ MySlot(p) = ReadSlot
      /\ flags[ReadSlot].owner = "data" /\ ~flags[ReadSlot].cons
      /\ \A q \in Producers : Rouses(q) => q = p
      /\ \A s \in Slot : ~flags[s].cons
  BY <1>1, <1>2 DEF Rousing, Rouses
<1>4. ~CloserRouses BY <1>1, <1>3 DEF Rousing
<1>5. waiting[ReadSlot] BY <1>1, <1>2, <1>3, <1>4 DEF Rousing, Rouses, CloserRouses
<1>6. ProducerGoes(p, "wake") BY <1>3, <1>5 DEF ExtractConsumer
<1>7. /\ pc'[p] = "wake" /\ ticket'[p] = ticket[p]
      /\ \A q \in Producers : q # p => pc'[q] = pc[q] /\ ticket'[q] = ticket[q]
  BY <1>1, <1>6, GoesTo DEF ProducerPc
<1>8. ProducerMoves(p, "wake")
  <2>1. "wake" \in ProducerPc \ {"parked", "emplace", "publish", "gone"} BY DEF ProducerPc
  <2> QED BY <1>1, <1>2, <1>6, <2>1 DEF ProducerMoves, SlotTypes, consumer
<1>9. Rousing'
  <2>1. /\ ReadSlot' = ReadSlot /\ (CloserRouses' <=> CloserRouses) /\ MySlot(p)' = MySlot(p)
        /\ \A q \in Producers : Rouses(q)' <=> q = p
    BY <1>2, <1>3, <1>7 DEF ReadSlot, CloserRouses, MySlot, Rouses, consumer, closer
  <2>2. pc'[p] = "wake" /\ UNCHANGED <<flags, cpc, kpc, call, can_suspend>>
    BY <1>2, <1>7 DEF consumer, closer
  <2> HIDE DEF Rouses
  <2> QED BY <1>1, <1>3, <1>4, <2>1, <2>2 DEF Rousing
<1> QED BY <1>8, <1>9, ProducerQuiet

\* The consumer that a producer resumes is suspended and finds its value.
LEMMA WakeConsumerKeeps ==
  ASSUME Going, NEW p \in Producers, WakeConsumer(p)
  PROVE  Going'
<1>1. /\ SlotTypes /\ ProducerTypes /\ ConsumerTypes /\ Rousing
      /\ MySlot(p) \in Slot /\ ReadSlot \in Slot
  BY TypeParts, MySlots DEF Going
<1>2. /\ pc[p] = "wake" /\ cpc' = "resume" /\ ProducerGoes(p, "idle")
      /\ UNCHANGED <<slots, write_offset, closing, call, told, read_offset, next, sees_closed,
                     closer, history, can_suspend>>
  BY DEF WakeConsumer
<1>3. /\ cpc = "parked" /\ MySlot(p) = ReadSlot
      /\ flags[ReadSlot].owner = "data" /\ ~flags[ReadSlot].cons
      /\ \A q \in Producers : Rouses(q) => q = p
      /\ \A s \in Slot : ~flags[s].cons
  BY <1>1, <1>2 DEF Rousing, Rouses
<1>4. ~CloserRouses BY <1>1, <1>3 DEF Rousing
<1>5. pc'[p] = "idle" /\ \A q \in Producers : q # p => pc'[q] = pc[q]
  BY <1>1, <1>2, GoesTo DEF ProducerPc
<1>6. ProducerMoves(p, "idle")
  <2>1. "idle" \in ProducerPc \ {"parked", "emplace", "publish", "gone"} BY DEF ProducerPc
  <2> QED BY <1>1, <1>2, <1>3, <2>1 DEF ProducerMoves, SlotTypes, slots
<1>7. Rousing'
  <2>1. /\ (CloserRouses' <=> CloserRouses) /\ \A q \in Producers : ~Rouses(q)'
    BY <1>2, <1>3, <1>5 DEF CloserRouses, Rouses, closer
  <2> QED BY <1>1, <1>2, <1>3, <1>4, <2>1 DEF Rousing, slots
<1> QED BY <1>6, <1>7, ProducerQuiet

\* close()
\* A step of close() that leaves the flags alone.
CloserMoves ==
    /\ UNCHANGED <<flags, waiting_idx, output, stored, producers, call, told, read_offset, next,
                   sees_closed, history>>
    /\ waiting' \in [Slot -> BOOLEAN]
    /\ cpc' = cpc \/ (cpc = "parked" /\ cpc' = "resume_closed")

\* A step of close() of that form keeps the invariant.
LEMMA CloserQuiet ==
  ASSUME Going, CloserMoves, CloserTypes', Tickets', Rousing'
  PROVE  Going'
<1> USE DEF CloserMoves
<1>1. /\ SlotTypes /\ ProducerTypes /\ ConsumerTypes /\ HistoryTypes /\ Locks
  BY TypeParts DEF Going, Running
<1>2. SlotTypes' /\ ProducerTypes' /\ ConsumerTypes' /\ HistoryTypes' /\ cpc' # "gone"
  BY <1>1 DEF SlotTypes, ProducerTypes, ConsumerTypes, HistoryTypes, producers, history, Going
<1>3. \A s \in Slot : Line(s)' = Line(s) BY DEF Line
<1>4. Reading' => flags'[SlotOf(read_offset')].owner = "data"
  BY <1>1 DEF Locks, Reading, ReadSlot
<1>5. Quiet BY <1>2, <1>3, <1>4 DEF Quiet, producers, history, Going
<1> QED BY <1>2, <1>5, QuietGoes

\* While close() has not taken the consumer's pointer it does not matter to it.
LEMMA CloserAloof ==
  ASSUME Rousing, ~CloserRouses, kpc' \notin {"extract", "wake"},
         UNCHANGED <<flags, waiting, producers, call, cpc, read_offset, can_suspend>>
  PROVE  Rousing'
<1>1. /\ ~CloserRouses' /\ ReadSlot' = ReadSlot
      /\ \A q \in Producers : /\ pc'[q] = pc[q] /\ MySlot(q)' = MySlot(q)
                              /\ Rouses(q)' <=> Rouses(q)
  BY DEF CloserRouses, ReadSlot, MySlot, Rouses, producers
<1>2. kpc # "wake" BY DEF CloserRouses
<1> QED BY <1>1, <1>2 DEF Rousing, producers

\* The exchange of closed.
LEMMA SetClosedKeeps ==
  ASSUME Going, SetClosed
  PROVE  Going'
<1>1. SlotTypes /\ CloserTypes /\ Rousing /\ Tickets BY TypeParts DEF Going, Running
<1>2. /\ kpc = "idle" /\ closed' = TRUE /\ kpc' = "cut"
      /\ UNCHANGED <<slots, write_offset, closed_ready, write_closed_at, producers, consumer,
                     snapshot, marked, history, can_suspend>>
  BY DEF SetClosed, CloserGoes
<1>3. CloserTypes' BY <1>1, <1>2 DEF CloserTypes
<1>4. Tickets'
  <2>1. UNCHANGED <<write_offset, accepted, pc, ticket>> /\ ~closed
    BY <1>1, <1>2 DEF Tickets, producers, history
  <2> QED BY <1>1, <1>2, <2>1, TicketsStay DEF Pending
<1>5. Rousing' BY <1>1, <1>2, CloserAloof DEF CloserRouses, slots, consumer
<1>6. CloserMoves BY <1>1, <1>2 DEF CloserMoves, SlotTypes, slots, consumer, producers, history
<1> QED BY <1>3, <1>4, <1>5, <1>6, CloserQuiet

\* The cutoff is a ticket like any other: no push has it.
LEMMA DrawCutoffKeeps ==
  ASSUME Going, DrawCutoff
  PROVE  Going'
<1>1. /\ SlotTypes /\ CloserTypes /\ HistoryTypes /\ ProducerTypes
      /\ Rousing /\ Tickets
  BY TypeParts DEF Going, Running
<1>2. /\ kpc = "cut" /\ kpc' = "ready"
      /\ write_closed_at' = write_offset /\ write_offset' = Plus(write_offset, 1)
      /\ UNCHANGED <<slots, closed, closed_ready, producers, consumer, snapshot, marked, history,
                     can_suspend>>
  BY DEF DrawCutoff, CloserGoes
<1>3. CloserTypes' BY <1>1, <1>2, SlotsAndWords DEF CloserTypes
<1>4. Tickets'
  <2>1. /\ Age(write_offset) \in Nat /\ Age(write_offset) <= MaxPush
        /\ Age(write_offset) + 1 < WordMod
    BY <1>1, <1>2, WordAssumption, CapacityAssumption, BoundAssumption
       DEF Age, Word, CloserTypes, Tickets
  <2>2. Age(write_offset)' = Age(write_offset) + 1
    <3>1. Age(Plus(write_offset, 1)) = Age(write_offset) + 1
      BY <1>1, <2>1, NextAge, BoundAssumption DEF CloserTypes
    <3> QED BY <1>2, <3>1 DEF Age
  <2> QED
    <3>1. /\ \A v \in accepted : Age(v[2])' = Age(v[2]) /\ Age(v[2]) \in Int
          /\ \A p \in Producers : Age(ticket[p])' = Age(ticket[p]) /\ Age(ticket[p]) \in Int
      <4>1. \A v \in accepted : v[2] \in Word BY <1>1 DEF HistoryTypes, Value
      <4>2. \A p \in Producers : ticket[p] \in Word /\ ticket'[p] = ticket[p]
        BY <1>1, <1>2 DEF ProducerTypes, producers
      <4> QED BY <4>1, <4>2, Ages DEF Age
    <3>2. \A v \in accepted' : Age(v[2])' < Age(write_offset)'
      BY <1>1, <1>2, <2>1, <2>2, <3>1 DEF Tickets, history
    <3>3. \A p \in Producers : Pending(p)' => /\ Age(ticket[p])' < Age(write_offset)'
                                              /\ <<p, ticket'[p]>> \notin accepted'
      BY <1>1, <1>2, <2>1, <2>2, <3>1 DEF Tickets, Pending, producers, history
    <3> QED BY <1>1, <1>2, <2>1, <2>2, <3>2, <3>3, BoundAssumption DEF Tickets
<1>5. Rousing' BY <1>1, <1>2, CloserAloof DEF CloserRouses, slots, consumer
<1>6. CloserMoves BY <1>1, <1>2 DEF CloserMoves, SlotTypes, slots, consumer, producers, history
<1> QED BY <1>3, <1>4, <1>5, <1>6, CloserQuiet

\* The cutoff is announced, and the cutoff slot's flags are read.
LEMMA SettingsKeep ==
  ASSUME Going, SetReady \/ MarkCutoffSlot
  PROVE  Going'
<1>1. SlotTypes /\ CloserTypes /\ Rousing /\ Tickets /\ CutoffSlot \in Slot
  BY TypeParts, MySlots DEF Going, Running
<1>2. /\ kpc \in {"ready", "mark"} /\ kpc' \in {"mark", "settle", "done"}
      /\ UNCHANGED <<slots, write_offset, closed, write_closed_at, producers, consumer, history,
                     can_suspend>>
  BY DEF SetReady, MarkCutoffSlot, CloserGoes, closing
<1>3. CloserTypes'
  <2>1. snapshot' = snapshot \/ snapshot' = flags[CutoffSlot] BY DEF SetReady, MarkCutoffSlot
  <2>2. snapshot' \in SlotRecord BY <1>1, <2>1 DEF SlotTypes, CloserTypes
  <2>3. closed_ready' \in BOOLEAN /\ marked' \in BOOLEAN
    BY <1>1 DEF SetReady, MarkCutoffSlot, CloserTypes, closing
  <2> QED BY <1>1, <1>2, <2>2, <2>3 DEF CloserTypes
<1>4. Tickets' BY <1>1, <1>2, TicketsStay DEF Tickets, Pending, producers, history
<1>5. Rousing' BY <1>1, <1>2, CloserAloof DEF CloserRouses, slots, consumer
<1>6. CloserMoves BY <1>1, <1>2 DEF CloserMoves, SlotTypes, slots, consumer, producers, history
<1> QED BY <1>3, <1>4, <1>5, <1>6, CloserQuiet

\* The consumer that close() resumes is suspended, and at the cutoff slot.
LEMMA CloserResumesKeep ==
  ASSUME Going, CloserExtracts \/ CloserWakes
  PROVE  Going'
<1>1. /\ SlotTypes /\ CloserTypes /\ Rousing /\ Tickets
      /\ CutoffSlot \in Slot /\ ReadSlot \in Slot
  BY TypeParts, MySlots DEF Going, Running
<1>2. /\ kpc \in {"extract", "wake"}
      /\ UNCHANGED <<flags, waiting_idx, output, stored, write_offset, closing, producers, call,
                     told, read_offset, next, sees_closed, snapshot, marked, history, can_suspend>>
  BY DEF CloserExtracts, CloserWakes, slots, consumer
<1>3. /\ cpc = "parked" /\ CutoffSlot = ReadSlot
      /\ flags[ReadSlot].owner = "closed" /\ \A s \in Slot : ~flags[s].cons
      /\ \A q \in Producers : ~Rouses(q)
  BY <1>1, <1>2 DEF Rousing, CloserRouses
<1>4. /\ ReadSlot' = ReadSlot /\ CutoffSlot' = CutoffSlot
      /\ \A q \in Producers : ~Rouses(q)' /\ pc'[q] # "wake"
  BY <1>2, <1>3 DEF ReadSlot, CutoffSlot, Rouses, producers, closing
<1>5. CASE CloserExtracts
  <2>1. waiting[CutoffSlot] BY <1>1, <1>3, <1>5 DEF Rousing, Rouses, CloserExtracts
  <2>2. /\ waiting' = [waiting EXCEPT ![CutoffSlot] = FALSE] /\ kpc' = "wake"
        /\ kpc = "extract" /\ cpc' = cpc
    BY <1>5, <2>1 DEF CloserExtracts, CloserGoes, consumer
  <2>3. waiting' \in [Slot -> BOOLEAN] BY <1>1, <2>2 DEF SlotTypes
  <2>4. Rousing' BY <1>1, <1>2, <1>3, <1>4, <2>2 DEF Rousing, CloserRouses
  <2>5. CloserMoves /\ CloserTypes'
    BY <1>1, <1>2, <2>2, <2>3 DEF CloserMoves, CloserTypes, closing
  <2>6. Tickets'
    BY <1>1, <1>2, <2>2, TicketsStay DEF Tickets, Pending, producers, history, closing
  <2> QED BY <2>4, <2>5, <2>6, CloserQuiet
<1>6. CASE CloserWakes
  <2>1. waiting' = waiting /\ kpc = "wake" /\ kpc' = "done" /\ cpc' = "resume_closed"
    BY <1>6 DEF CloserWakes, CloserGoes, slots
  <2>2. Rousing' BY <1>1, <1>2, <1>3, <1>4, <2>1 DEF Rousing, CloserRouses
  <2>3. CloserMoves /\ CloserTypes'
    BY <1>1, <1>2, <1>3, <2>1 DEF CloserMoves, CloserTypes, SlotTypes, closing
  <2>4. Tickets'
    BY <1>1, <1>2, <2>1, TicketsStay DEF Tickets, Pending, producers, history, closing
  <2> QED BY <2>2, <2>3, <2>4, CloserQuiet
<1> QED BY <1>5, <1>6

\* The sentinel goes into a slot that nobody holds and nobody is in line for.
LEMMA PlaceSentinelKeeps ==
  ASSUME Going, PlaceSentinel
  PROVE  Going' /\ \A s \in Slot : Line(s)' = Line(s)
<1>1. /\ SlotTypes /\ ProducerTypes /\ ConsumerTypes /\ CloserTypes /\ HistoryTypes
      /\ Lines /\ Rousing /\ Tickets /\ Locks /\ CutoffSlot \in Slot /\ ReadSlot \in Slot
  BY TypeParts, MySlots DEF Going, Running
<1>2. /\ kpc = "settle"
      /\ UNCHANGED <<waiting, waiting_idx, output, stored, write_offset, closing, producers,
                     consumer, marked, history, can_suspend>>
  BY DEF PlaceSentinel
<1>3. Free \in SlotRecord /\ Free.owner = "none" /\ Free.chain = <<>>
  BY EmptySeq DEF Free, SlotRecord, Owner
<1>4. kpc' \in {"settle", "extract", "done"} /\ snapshot' \in SlotRecord
  BY <1>1, <1>2, <1>3 DEF PlaceSentinel, CloserGoes, SlotTypes, CloserTypes
<1>5. CloserTypes' BY <1>1, <1>2, <1>4 DEF CloserTypes, closing
<1>6. Tickets'
  BY <1>1, <1>2, <1>4, TicketsStay DEF Tickets, Pending, producers, history, closing
<1>7. CASE flags' = flags /\ kpc' \in {"settle", "done"}
  <2>1. Rousing' BY <1>1, <1>2, <1>7, CloserAloof DEF CloserRouses, consumer
  <2>2. CloserMoves BY <1>1, <1>2, <1>7 DEF CloserMoves, SlotTypes, consumer
  <2>3. \A s \in Slot : Line(s)' = Line(s) BY <1>2, <1>7 DEF Line
  <2> QED BY <1>5, <1>6, <2>1, <2>2, <2>3, CloserQuiet
<1>8. CASE /\ ~LeaveAlone(snapshot) /\ flags[CutoffSlot] = snapshot
           /\ flags' = [flags EXCEPT ![CutoffSlot] = [Free EXCEPT !.owner = "closed"]]
           /\ kpc' = IF snapshot.cons THEN "extract" ELSE "done"
  <2> DEFINE g == [Free EXCEPT !.owner = "closed"]
  <2>1. g \in SlotRecord /\ g.owner = "closed" /\ g.chain = <<>> /\ ~g.cons
    BY EmptySeq DEF Free, SlotRecord, Owner
  <2> HIDE DEF g
  <2>2. /\ flags'[CutoffSlot] = g /\ flags' \in [Slot -> SlotRecord]
        /\ \A s \in Slot : s # CutoffSlot => flags'[s] = flags[s]
    BY <1>1, <1>8, <2>1 DEF SlotTypes, g
  <2>3. flags[CutoffSlot].owner \in {"none", "closed"}
    BY <1>1, <1>8 DEF LeaveAlone, SlotTypes, SlotRecord, Owner
  <2>4. Line(CutoffSlot) = <<>> /\ flags[CutoffSlot].chain = <<>>
    <3>1. Line(CutoffSlot) = <<>> BY <1>1, <2>3 DEF Lines
    <3> QED BY <1>1, <3>1, ConcatOfEmpty DEF Line, SlotTypes, SlotRecord
  <2>5. \A s \in Slot : Line(s)' = Line(s) BY <1>2, <2>1, <2>2, <2>4 DEF Line
  <2>6. SlotTypes' /\ ProducerTypes' /\ ConsumerTypes' /\ HistoryTypes' /\ cpc' # "gone"
    BY <1>1, <1>2, <2>2 DEF SlotTypes, ProducerTypes, ConsumerTypes, HistoryTypes,
                            producers, consumer, history, Going
  <2>7. \A s \in Slot : \/ flags'[s].owner = flags[s].owner
                        \/ /\ flags[s].owner \in {"none", "closed"}
                           /\ flags'[s].owner \in {"none", "closed"} /\ Line(s) = <<>>
    BY <2>1, <2>2, <2>3, <2>4
  <2>8. Reading' => flags'[SlotOf(read_offset')].owner = "data"
    BY <1>1, <1>2, <2>7 DEF Locks, Reading, ReadSlot, consumer
  <2>9. Quiet BY <1>2, <2>5, <2>6, <2>7, <2>8 DEF Quiet, producers, consumer, history
  <2>10. Rousing'
    <3>1. /\ ReadSlot' = ReadSlot /\ CutoffSlot' = CutoffSlot /\ ~CloserRouses
          /\ \A q \in Producers : /\ pc'[q] = pc[q] /\ MySlot(q)' = MySlot(q)
                                  /\ Rouses(q)' <=> Rouses(q)
          /\ UNCHANGED <<cpc, call, waiting, can_suspend>>
      BY <1>2 DEF ReadSlot, CutoffSlot, CloserRouses, MySlot, Rouses, producers, consumer, closing
    <3>2. CASE ~snapshot.cons
      <4>1. ~CloserRouses' /\ kpc # "wake" BY <1>2, <1>8, <3>2 DEF CloserRouses
      <4>2. \A s \in Slot : flags'[s].cons <=> flags[s].cons BY <1>8, <2>1, <2>2, <3>2
      <4>3. flags[ReadSlot].owner = "data" => flags'[ReadSlot].owner = "data" BY <1>1, <2>7
      <4>4. \A q \in Producers : Rouses(q)' =>
               /\ cpc' = "parked" /\ MySlot(q)' = ReadSlot'
               /\ flags'[ReadSlot'].owner = "data" /\ ~flags'[ReadSlot'].cons
        <5> SUFFICES ASSUME NEW q \in Producers, Rouses(q)'
                     PROVE  /\ cpc' = "parked" /\ MySlot(q)' = ReadSlot'
                            /\ flags'[ReadSlot'].owner = "data" /\ ~flags'[ReadSlot'].cons
          OBVIOUS
        <5>1. Rouses(q) BY <3>1
        <5>2. /\ cpc = "parked" /\ MySlot(q) = ReadSlot
              /\ flags[ReadSlot].owner = "data" /\ ~flags[ReadSlot].cons
          BY <1>1, <5>1 DEF Rousing
        <5> QED BY <1>1, <3>1, <4>2, <4>3, <5>2
      <4>5. \A q, r \in Producers : Rouses(q)' /\ Rouses(r)' => q = r BY <1>1, <3>1 DEF Rousing
      <4>6. /\ \A s \in Slot : flags'[s].cons => cpc' = "parked" /\ s = ReadSlot'
            /\ cpc' \in {"confirm", "disarm_data", "disarm_closed"} => waiting'[ReadSlot']
        BY <1>1, <3>1, <4>2 DEF Rousing
      <4>7. cpc' = "parked" => \/ flags'[ReadSlot'].cons
                               \/ \E q \in Producers : Rouses(q)'
        BY <1>1, <3>1, <4>2 DEF Rousing
      <4>8. cpc' = "parked" => \/ waiting'[ReadSlot'] \/ \E q \in Producers : pc'[q] = "wake"
        BY <1>1, <3>1, <4>1 DEF Rousing
      <4>9. call'.mode = "pull" \/ cpc' \in {"arm", "confirm", "disarm_data", "disarm_closed",
                                             "rearm", "parked"} => can_suspend'
        BY <1>1, <3>1 DEF Rousing
      <4> QED BY <4>1, <4>4, <4>5, <4>6, <4>7, <4>8, <4>9 DEF Rousing
    <3>3. CASE snapshot.cons
      <4>1. cpc = "parked" /\ CutoffSlot = ReadSlot /\ flags[ReadSlot].cons
        BY <1>1, <1>8, <3>3 DEF Rousing
      <4>2. \A q \in Producers : ~Rouses(q) BY <1>1, <4>1 DEF Rousing
      <4>3. \A s \in Slot : ~flags'[s].cons BY <1>1, <2>1, <2>2, <4>1 DEF Rousing
      <4>4. waiting[ReadSlot] BY <1>1, <1>2, <4>1, <4>2 DEF Rousing, Rouses
      <4>5. CloserRouses' BY <1>8, <3>3 DEF CloserRouses
      <4>6. flags'[ReadSlot].owner = "closed" BY <2>1, <2>2, <4>1
      <4>7. can_suspend BY <1>1, <4>1 DEF Rousing
      <4> QED BY <1>1, <3>1, <4>1, <4>2, <4>3, <4>4, <4>5, <4>6, <4>7 DEF Rousing
    <3> QED BY <3>2, <3>3
  <2> QED BY <1>5, <1>6, <2>5, <2>6, <2>9, <2>10, QuietGoes
<1> QED BY <1>7, <1>8 DEF PlaceSentinel, CloserGoes

\* Drawing, claiming, parking, publishing
\* Nobody has the ticket that is drawn, so its value will be new.
LEMMA TakeTicketKeeps ==
  ASSUME Going, NEW p \in Producers, TakeTicket(p)
  PROVE  Going'
<1>1. /\ SlotTypes /\ ProducerTypes /\ ConsumerTypes /\ CloserTypes /\ HistoryTypes
      /\ Rousing /\ Tickets /\ Locks
  BY TypeParts DEF Going, Running
<1>2. /\ pc[p] = "idle" /\ Age(write_offset) < MaxPush
      /\ ticket' = [ticket EXCEPT ![p] = write_offset]
      /\ write_offset' = Plus(write_offset, 1)
      /\ pc' = [pc EXCEPT ![p] = "check"]
      /\ UNCHANGED <<slots, closing, consumer, closer, history, can_suspend>>
  BY DEF TakeTicket, Age
<1>3. /\ pc'[p] = "check" /\ ticket'[p] = write_offset
      /\ \A q \in Producers : q # p => pc'[q] = pc[q] /\ ticket'[q] = ticket[q]
      /\ ProducerTypes'
  BY <1>1, <1>2 DEF ProducerTypes, ProducerPc, CloserTypes
<1>4. write_offset' \in Word BY <1>1, <1>2, SlotsAndWords DEF CloserTypes
<1>5. SlotTypes' /\ ConsumerTypes' /\ CloserTypes' /\ HistoryTypes' /\ cpc' # "gone"
  BY <1>1, <1>2, <1>4 DEF SlotTypes, ConsumerTypes, CloserTypes, HistoryTypes, slots, consumer,
                          closing, closer, history, Going
<1>6. \A s \in Slot : Line(s)' = Line(s) BY <1>2 DEF Line, slots
<1>7. Reading' => flags'[SlotOf(read_offset')].owner = "data"
  BY <1>1, <1>2 DEF Locks, Reading, ReadSlot, slots, consumer
<1>8. Quiet BY <1>2, <1>3, <1>5, <1>6, <1>7 DEF Quiet, slots, consumer, history
<1>9. Tickets'
  <2>1. /\ \A v \in accepted : v[2] \in Word /\ Age(v[2])' = Age(v[2]) /\ Age(v[2]) \in Int
        /\ \A q \in Producers : q # p => Age(ticket[q])' = Age(ticket[q]) /\ Age(ticket[q]) \in Int
        /\ Age(ticket[p])' = Age(write_offset) /\ Age(write_offset) \in Nat
    <3>1. \A v \in accepted : v[2] \in Word BY <1>1 DEF HistoryTypes, Value
    <3> QED BY <1>1, <1>3, <3>1, Ages DEF Age, ProducerTypes, CloserTypes
  <2>2. Age(write_offset)' = Age(write_offset) + 1
    <3>1. Age(write_offset) + 1 < WordMod /\ write_offset \in Word
      BY <1>1, <1>2, <2>1, BoundAssumption, WordAssumption, CapacityAssumption DEF CloserTypes
    <3>2. Age(Plus(write_offset, 1)) = Age(write_offset) + 1 BY <3>1, NextAge
    <3> QED BY <1>2, <3>2 DEF Age
  <2>3. \A v \in accepted' : Age(v[2])' < Age(write_offset)'
    BY <1>1, <1>2, <2>1, <2>2 DEF Tickets, history
  <2>4. <<p, write_offset>> \notin accepted
    <3>1. ASSUME <<p, write_offset>> \in accepted PROVE FALSE
      <4>1. Age(<<p, write_offset>>[2]) < Age(write_offset) BY <1>1, <3>1 DEF Tickets
      <4> QED BY <4>1, <2>1
    <3> QED BY <3>1
  <2>5. \A q \in Producers : Pending(q)' => /\ Age(ticket[q])' < Age(write_offset)'
                                            /\ <<q, ticket'[q]>> \notin accepted'
    <3>1. CASE p \in Producers
      BY <1>1, <1>2, <1>3, <2>1, <2>2, <2>4 DEF Tickets, Pending, history
    <3> QED BY <3>1
  <2>6. MaxPush \in Nat BY BoundAssumption
  <2> QED BY <1>1, <1>2, <2>1, <2>2, <2>3, <2>5, <2>6 DEF Tickets, closing, closer
<1>10. Rousing'
  <2>1. \A q \in Producers : /\ pc'[q] = "wake" <=> pc[q] = "wake"
                             /\ Rouses(q)' <=> Rouses(q)
                             /\ Rouses(q) => MySlot(q)' = MySlot(q)
    BY <1>2, <1>3 DEF Rouses, MySlot
  <2>2. /\ ReadSlot' = ReadSlot /\ CutoffSlot' = CutoffSlot /\ (CloserRouses' <=> CloserRouses)
        /\ UNCHANGED <<flags, waiting, cpc, call, kpc, can_suspend>>
    BY <1>2 DEF ReadSlot, CutoffSlot, CloserRouses, slots, consumer, closing, closer
  <2> HIDE DEF Rouses
  <2> QED BY <1>1, <2>1, <2>2 DEF Rousing
<1> QED BY <1>3, <1>5, <1>8, <1>9, <1>10, QuietGoes

\* producer_try_claim that finds the slot free.
LEMMA ClaimKeeps ==
  ASSUME Going, NEW p \in Producers, TryClaim(p), Claimable(flags[MySlot(p)])
  PROVE  Going'
<1> DEFINE s == MySlot(p)
<1>1. /\ SlotTypes /\ ProducerTypes /\ ConsumerTypes /\ CloserTypes /\ HistoryTypes
      /\ Rousing /\ Tickets /\ Locks /\ Values /\ Accounts /\ Lines
      /\ s \in Slot /\ ReadSlot \in Slot
  BY TypeParts, MySlots DEF Going, Running
<1> HIDE DEF s
<1>2. /\ pc[p] = "claim" /\ flags' = [flags EXCEPT ![s].owner = "prod"]
      /\ flags[s].owner = "none" /\ ProducerGoes(p, "emplace")
      /\ UNCHANGED <<waiting, waiting_idx, output, stored, write_offset, closing, consumer, closer,
                     history, can_suspend>>
  BY DEF TryClaim, Claimable, s
<1>3. /\ ProducerTypes' /\ pc'[p] = "emplace" /\ ticket'[p] = ticket[p]
      /\ \A q \in Producers : q # p => pc'[q] = pc[q] /\ ticket'[q] = ticket[q]
  BY <1>1, <1>2, GoesTo DEF ProducerPc
<1>4. /\ flags' \in [Slot -> SlotRecord] /\ flags'[s].owner = "prod"
      /\ \A t \in Slot : /\ flags'[t].cons = flags[t].cons /\ flags'[t].chain = flags[t].chain
                         /\ t # s => flags'[t] = flags[t]
  BY <1>1, <1>2 DEF SlotTypes, SlotRecord, Owner
<1>5. /\ SlotTypes' /\ ConsumerTypes' /\ CloserTypes' /\ HistoryTypes' /\ cpc' # "gone"
      /\ ReadSlot' = ReadSlot
  BY <1>1, <1>2, <1>4 DEF SlotTypes, ConsumerTypes, CloserTypes, HistoryTypes, consumer,
                          closing, closer, history, Going, ReadSlot
<1>6. \A t \in Slot : Line(t)' = Line(t) BY <1>2, <1>4 DEF Line
<1>7. /\ cpc' = cpc /\ next' = next
      /\ \A q \in Producers : MySlot(q)' = MySlot(q) /\ MySlot(q) \in Slot
      /\ \A q \in Producers : Holds(q)' <=> Holds(q) \/ q = p
      /\ \A q \in Producers : pc'[q] = "publish" <=> pc[q] = "publish"
      /\ \A q \in Producers : pc'[q] = "parked" <=> pc[q] = "parked"
      /\ \A t \in Slot : HasData(t)' <=> HasData(t)
      /\ UNCHANGED <<stored, accepted, delivered>>
  <2>1. cpc = "wake" => next \in Producers /\ pc[next] = "parked" BY <1>1 DEF Lines
  <2> QED
    BY <1>1, <1>2, <1>3, <1>4, <1>5, <2>1, MySlots
       DEF Holds, MySlot, HasData, consumer, history
<1>8. Locks'
  <2>1. \A q \in Producers : Holds(q) => MySlot(q) # s BY <1>1, <1>2 DEF Locks
  <2>2. \A q \in Producers : Holds(q)' => flags'[MySlot(q)'].owner = "prod"
    BY <1>1, <1>4, <1>7, <2>1 DEF Locks, s
  <2>3. \A q, r \in Producers : Holds(q)' /\ Holds(r)' /\ MySlot(q)' = MySlot(r)' => q = r
    BY <1>1, <1>7, <2>1 DEF Locks, s
  <2>4. \A t \in Slot : flags'[t].owner = "prod" => \E q \in Producers : Holds(q)' /\ MySlot(q)' = t
    BY <1>1, <1>4, <1>7 DEF Locks, s
  <2>5. Reading' => flags'[ReadSlot'].owner = "data"
    BY <1>1, <1>2, <1>4, <1>5, <1>7 DEF Locks, Reading
  <2> QED BY <2>2, <2>3, <2>4, <2>5 DEF Locks
<1>9. Values' /\ Accounts' BY <1>1, <1>3, <1>7 DEF Values, Accounts
<1>10. Lines' BY <1>1, <1>4, <1>6, <1>7, LinesStay DEF Lines
<1>11. Tickets'
  <2>1. \A q \in Producers : Pending(q)' => Pending(q) /\ ticket'[q] = ticket[q]
    BY <1>2, <1>3 DEF Pending
  <2> QED BY <1>1, <1>2, <2>1, TicketsStay DEF Tickets, closing, closer, history
<1>12. Rousing'
  <2>1. \A q \in Producers : pc'[q] = "wake" <=> pc[q] = "wake" BY <1>2, <1>3
  <2>2. \A q \in Producers : Rouses(q)' <=> Rouses(q) BY <1>2, <1>3 DEF Rouses
  <2>3. /\ CutoffSlot' = CutoffSlot /\ (CloserRouses' <=> CloserRouses)
        /\ UNCHANGED <<waiting, call, kpc, can_suspend>>
    BY <1>2 DEF CutoffSlot, CloserRouses, consumer, closing, closer
  <2>4. flags[ReadSlot].owner \in {"data", "closed"} => flags'[ReadSlot] = flags[ReadSlot]
    BY <1>1, <1>2, <1>4
  <2> QED BY <1>1, <1>4, <1>5, <1>7, <2>1, <2>2, <2>3, <2>4 DEF Rousing
<1> QED BY <1>3, <1>5, <1>8, <1>9, <1>10, <1>11, <1>12, TypePartsNext DEF Going, Running

\* producer_park that finds the slot still taken: p goes to the end of the line.
LEMMA ParkedKeeps ==
  ASSUME Going, NEW p \in Producers, Park(p), ~Claimable(flags[MySlot(p)]),
         flags[MySlot(p)].owner # "closed"
  PROVE  /\ Going'
         /\ pc'[p] = "parked" /\ Line(MySlot(p))' = Append(Line(MySlot(p)), p)
         /\ \A t \in Slot : t # MySlot(p) => Line(t)' = Line(t)
<1>0. PICK s \in Slot : s = MySlot(p) BY TypeParts, MySlots DEF Going
<1>1. /\ SlotTypes /\ ProducerTypes /\ ConsumerTypes /\ CloserTypes /\ HistoryTypes
      /\ Rousing /\ Tickets /\ Locks /\ Values /\ Accounts /\ Lines
      /\ s \in Slot /\ ReadSlot \in Slot
  BY TypeParts, MySlots DEF Going, Running
<1>2. /\ pc[p] = "park" /\ flags' = [flags EXCEPT ![s] = ParkedOn(p, flags[s])]
      /\ ProducerGoes(p, "parked")
      /\ UNCHANGED <<waiting, waiting_idx, output, stored, write_offset, closing, consumer, closer,
                     history, can_suspend>>
  BY <1>0 DEF Park
<1>3. /\ ProducerTypes' /\ pc'[p] = "parked" /\ ticket'[p] = ticket[p]
      /\ \A q \in Producers : q # p => pc'[q] = pc[q] /\ ticket'[q] = ticket[q]
  BY <1>1, <1>2, GoesTo DEF ProducerPc
<1>4. /\ flags[s].chain \in Seq(Producers) /\ output[s] \in Seq(Producers)
      /\ <<p>> \o flags[s].chain \in Seq(Producers)
      /\ Reversed(<<p>> \o flags[s].chain) = Append(Reversed(flags[s].chain), p)
  BY <1>1, ReversedPush DEF SlotTypes, SlotRecord
<1>5. /\ flags' \in [Slot -> SlotRecord]
      /\ \A t \in Slot : /\ flags'[t].owner = flags[t].owner
                         /\ flags'[t].cons = flags[t].cons
                         /\ t # s => flags'[t] = flags[t]
      /\ flags'[s].chain = <<p>> \o flags[s].chain
  <2>1. ParkedOn(p, flags[s]) = [flags[s] EXCEPT !.chain = <<p>> \o flags[s].chain]
    BY DEF ParkedOn
  <2>2. flags[s] \in SlotRecord BY <1>1 DEF SlotTypes
  <2> DEFINE c == <<p>> \o flags[s].chain
             g == [flags[s] EXCEPT !.chain = c]
  <2>3. c \in Seq(Producers) BY <1>4
  <2> HIDE DEF c
  <2>4. /\ g \in SlotRecord /\ g.chain = c /\ g.owner = flags[s].owner
        /\ g.cons = flags[s].cons
    BY <2>2, <2>3 DEF SlotRecord
  <2>5. flags' = [flags EXCEPT ![s] = g] BY <1>2, <2>1 DEF c
  <2> HIDE DEF g
  <2> QED BY <1>1, <2>4, <2>5 DEF SlotTypes, c
<1>6. /\ SlotTypes' /\ ConsumerTypes' /\ CloserTypes' /\ HistoryTypes' /\ cpc' # "gone"
      /\ ReadSlot' = ReadSlot
  BY <1>1, <1>2, <1>5 DEF SlotTypes, ConsumerTypes, CloserTypes, HistoryTypes, consumer,
                          closing, closer, history, Going, ReadSlot
<1>7. Line(s)' = Append(Line(s), p) /\ \A t \in Slot : t # s => Line(t)' = Line(t)
  <2>1. Reversed(flags[s].chain) \in Seq(Producers) BY <1>4, ReversedSeq
  <2>2. output[s] \o Append(Reversed(flags[s].chain), p)
          = Append(output[s] \o Reversed(flags[s].chain), p)
    <3> DEFINE o == output[s]
               r == Reversed(flags[s].chain)
    <3>1. o \in Seq(Producers) /\ r \in Seq(Producers) BY <1>4, <2>1
    <3> HIDE DEF o, r
    <3>2. o \o Append(r, p) = Append(o \o r, p) BY <3>1, ConcatAppend
    <3> QED BY <3>2 DEF o, r
  <2>3. Line(s)' = output[s] \o Append(Reversed(flags[s].chain), p) BY <1>2, <1>4, <1>5 DEF Line
  <2>4. Line(s)' = Append(Line(s), p) BY <2>2, <2>3 DEF Line
  <2> QED BY <1>2, <1>5, <2>4 DEF Line
<1>8. /\ cpc' = cpc /\ next' = next
      /\ \A q \in Producers : MySlot(q)' = MySlot(q) /\ MySlot(q) \in Slot
      /\ \A q \in Producers : Holds(q)' <=> Holds(q)
      /\ \A q \in Producers : pc'[q] = "publish" <=> pc[q] = "publish"
      /\ \A q \in Producers : pc'[q] = "parked" <=> pc[q] = "parked" \/ q = p
      /\ \A t \in Slot : HasData(t)' <=> HasData(t)
      /\ UNCHANGED <<stored, accepted, delivered>>
      /\ ~(cpc = "wake" /\ next = p)
  <2>1. cpc = "wake" => next \in Producers /\ pc[next] = "parked" BY <1>1 DEF Lines
  <2> QED
    BY <1>1, <1>2, <1>3, <1>5, <1>6, <2>1, MySlots
       DEF Holds, MySlot, HasData, consumer, history
<1>9. Locks' BY <1>1, <1>2, <1>5, <1>6, <1>8 DEF Locks, Reading
<1>10. Values' /\ Accounts' BY <1>1, <1>3, <1>8 DEF Values, Accounts
<1>11. Lines'
  <2>1. /\ \A t \in Slot : Line(t) \in Seq(Producers) /\ Len(Line(t)) \in Nat
        /\ Len(Append(Line(s), p)) = Len(Line(s)) + 1
        /\ \A i \in 1 .. Len(Line(s)) : Append(Line(s), p)[i] = Line(s)[i]
        /\ Append(Line(s), p)[Len(Line(s)) + 1] = p
    <3>1. \A t \in Slot : Line(t) \in Seq(Producers)
      BY <1>1, ConcatOfEmpty DEF Line, SlotTypes, SlotRecord
    <3> QED BY <1>1, <3>1, AppendProperties, LenProperties
  <2>2. \A i \in 1 .. Len(Line(s)) : Line(s)[i] \in Producers /\ Line(s)[i] # p
    <3> SUFFICES ASSUME NEW i \in 1 .. Len(Line(s)) PROVE Line(s)[i] \in Producers /\ Line(s)[i] # p
      OBVIOUS
    <3>1. pc[Line(s)[i]] = "parked" BY <1>1 DEF Lines
    <3> QED BY <1>1, <1>2, <2>1, <3>1, ElementOfSeq
  <2>3. cpc' = "wake" => next' \in Producers /\ pc'[next'] = "parked" BY <1>1, <1>8 DEF Lines
  <2>4. \A q \in Producers : pc'[q] = "parked" =>
          \/ cpc' = "wake" /\ next' = q
          \/ \E i \in 1 .. Len(Line(MySlot(q))') : Line(MySlot(q))'[i] = q
    <3> SUFFICES ASSUME NEW q \in Producers, pc'[q] = "parked", ~(cpc = "wake" /\ next = q)
                 PROVE  \E i \in 1 .. Len(Line(MySlot(q))') : Line(MySlot(q))'[i] = q
      BY <1>8
    <3>0. PICK t \in Slot : t = MySlot(q) BY <1>8
    <3>1. Line(MySlot(q))' = IF MySlot(q) = s THEN Append(Line(s), p) ELSE Line(MySlot(q))
      <4>1. Line(MySlot(q))' = Line(t)' BY <1>8, <3>0, LineNext
      <4> QED BY <1>7, <3>0, <4>1
    <3>2. CASE q = p
      <4>1. Line(MySlot(q))' = Append(Line(s), p) BY <1>0, <3>1, <3>2
      <4>2. Len(Line(s)) + 1 \in 1 .. Len(Append(Line(s), p)) BY <1>1, <2>1
      <4> QED BY <2>1, <3>2, <4>1, <4>2
    <3>3. CASE q # p
      <4>1. PICK i \in 1 .. Len(Line(MySlot(q))) : Line(MySlot(q))[i] = q
        BY <1>1, <1>8, <3>3 DEF Lines
      <4>2. CASE MySlot(q) = s
        <5>1. i \in 1 .. Len(Append(Line(s), p)) /\ Append(Line(s), p)[i] = q
          BY <1>1, <2>1, <4>1, <4>2
        <5> QED BY <3>1, <4>2, <5>1
      <4>3. CASE MySlot(q) # s BY <3>1, <4>1, <4>3
      <4> QED BY <4>2, <4>3
    <3> QED BY <3>2, <3>3
  <2>5. \A t \in Slot : \A i \in 1 .. Len(Line(t)') :
          /\ pc'[Line(t)'[i]] = "parked" /\ MySlot(Line(t)[i])' = t
          /\ ~(cpc' = "wake" /\ next' = Line(t)'[i])
    <3> SUFFICES ASSUME NEW t \in Slot, NEW i \in 1 .. Len(Line(t)')
                 PROVE  /\ pc'[Line(t)'[i]] = "parked" /\ SlotOf(ticket'[Line(t)'[i]]) = t
                        /\ ~(cpc' = "wake" /\ next' = Line(t)'[i])
      BY DEF MySlot
    <3>1. \A q \in Producers : SlotOf(ticket'[q]) = MySlot(q) BY <1>8 DEF MySlot
    <3>2. CASE Line(t)'[i] = p /\ t = s BY <1>0, <1>3, <1>8, <3>1, <3>2
    <3>3. CASE i \in 1 .. Len(Line(t)) /\ Line(t)'[i] = Line(t)[i]
      <4>1. Line(t)[i] \in Producers BY <2>1, <3>3, ElementOfSeq
      <4>2. /\ pc[Line(t)[i]] = "parked" /\ MySlot(Line(t)[i]) = t
            /\ ~(cpc = "wake" /\ next = Line(t)[i])
        BY <1>1, <3>3 DEF Lines
      <4> QED BY <1>8, <3>1, <3>3, <4>1, <4>2
    <3>4. t = s => i \in 1 .. Len(Line(s)) \/ i = Len(Line(s)) + 1 BY <1>1, <1>7, <2>1
    <3> QED BY <1>7, <2>1, <3>2, <3>3, <3>4
  <2>6. \A t \in Slot : \A i, j \in 1 .. Len(Line(t)') : Line(t)'[i] = Line(t)'[j] => i = j
    <3> SUFFICES ASSUME NEW t \in Slot, NEW i \in 1 .. Len(Line(t)'), NEW j \in 1 .. Len(Line(t)'),
                        Line(t)'[i] = Line(t)'[j]
                 PROVE  i = j
      OBVIOUS
    <3>1. CASE t # s BY <1>1, <1>7, <3>1 DEF Lines
    <3>2. CASE t = s
      <4>1. \A k \in 1 .. Len(Line(s)') : k \in 1 .. Len(Line(s)) \/ k = Len(Line(s)) + 1
        BY <1>1, <1>7, <2>1
      <4>2. \A k, l \in 1 .. Len(Line(s)) : Line(s)[k] = Line(s)[l] => k = l BY <1>1 DEF Lines
      <4> QED BY <1>7, <2>1, <2>2, <3>2, <4>1, <4>2
    <3> QED BY <3>1, <3>2
  <2>7. \A t \in Slot : Line(t)' # <<>> => flags'[t].owner \in {"prod", "data"}
    <3>1. flags[s].owner \in {"prod", "data"}
      <4>1. flags[s].owner # "none"
        <5>1. ASSUME flags[s].owner = "none" PROVE FALSE
          <6>1. Line(s) = <<>> BY <1>1, <5>1 DEF Lines
          <6>2. flags[s].chain = <<>> BY <1>4, <6>1, ConcatOfEmpty DEF Line
          <6> QED BY <1>0, <5>1, <6>2 DEF Claimable
        <5> QED BY <5>1
      <4> QED BY <1>0, <1>1, <4>1 DEF SlotTypes, SlotRecord, Owner
    <3> QED BY <1>1, <1>5, <1>7, <3>1 DEF Lines
  <2> QED BY <2>3, <2>4, <2>5, <2>6, <2>7 DEF Lines
<1>12. Tickets'
  <2>1. \A q \in Producers : Pending(q)' => Pending(q) /\ ticket'[q] = ticket[q]
    BY <1>2, <1>3 DEF Pending
  <2> QED BY <1>1, <1>2, <2>1, TicketsStay DEF Tickets, closing, closer, history
<1>13. Rousing'
  <2>1. \A q \in Producers : pc'[q] = "wake" <=> pc[q] = "wake" BY <1>2, <1>3
  <2>2. \A q \in Producers : Rouses(q)' <=> Rouses(q) BY <1>2, <1>3 DEF Rouses
  <2>3. /\ CutoffSlot' = CutoffSlot /\ (CloserRouses' <=> CloserRouses)
        /\ UNCHANGED <<waiting, call, kpc, can_suspend>>
    BY <1>2 DEF CutoffSlot, CloserRouses, consumer, closing, closer
  <2> QED BY <1>1, <1>5, <1>6, <1>8, <2>1, <2>2, <2>3 DEF Rousing
<1>14. Line(MySlot(p))' = Line(s)' BY <1>0, <1>8, LineNext
<1> QED
  BY <1>0, <1>3, <1>6, <1>7, <1>9, <1>10, <1>11, <1>12, <1>13, <1>14, TypePartsNext
     DEF Going, Running

\* A value is constructed in a slot that holds none.
LEMMA EmplaceKeeps ==
  ASSUME Going, NEW p \in Producers, Emplace(p)
  PROVE  Going'
<1>0. PICK s \in Slot : s = MySlot(p) BY TypeParts, MySlots DEF Going
<1>1. /\ SlotTypes /\ ProducerTypes /\ ConsumerTypes /\ CloserTypes /\ HistoryTypes
      /\ Rousing /\ Tickets /\ Locks /\ Values /\ Accounts /\ Lines
      /\ ReadSlot \in Slot
  BY TypeParts, MySlots DEF Going, Running
<1> DEFINE v == <<p, ticket[p]>>
<1>2. /\ pc[p] = "emplace" /\ stored' = [stored EXCEPT ![s] = v]
      /\ ProducerGoes(p, "publish")
      /\ UNCHANGED <<flags, waiting, waiting_idx, output, write_offset, closing, consumer, closer,
                     history, can_suspend>>
  BY <1>0 DEF Emplace
<1>3. /\ ProducerTypes' /\ pc'[p] = "publish" /\ ticket'[p] = ticket[p]
      /\ \A q \in Producers : q # p => pc'[q] = pc[q] /\ ticket'[q] = ticket[q]
  BY <1>1, <1>2, GoesTo DEF ProducerPc
<1>4. v \in Value /\ v # NoValue BY <1>1 DEF ProducerTypes, Value, NoValue
<1> HIDE DEF v
<1>5. /\ stored' \in [Slot -> Value \cup {NoValue}] /\ stored'[s] = v
      /\ \A t \in Slot : t # s => stored'[t] = stored[t]
  BY <1>1, <1>2, <1>4 DEF SlotTypes
<1>6. /\ SlotTypes' /\ ConsumerTypes' /\ CloserTypes' /\ HistoryTypes' /\ cpc' # "gone"
  BY <1>1, <1>2, <1>5 DEF SlotTypes, ConsumerTypes, CloserTypes, HistoryTypes, consumer,
                          closing, closer, history, Going
<1>7. \A t \in Slot : Line(t)' = Line(t) BY <1>2 DEF Line
<1>8. /\ cpc' = cpc /\ next' = next /\ ReadSlot' = ReadSlot
      /\ \A q \in Producers : MySlot(q)' = MySlot(q) /\ MySlot(q) \in Slot
      /\ \A q \in Producers : Holds(q)' <=> Holds(q)
      /\ \A q \in Producers : pc'[q] = "publish" <=> pc[q] = "publish" \/ q = p
      /\ \A q \in Producers : pc'[q] = "parked" <=> pc[q] = "parked"
      /\ \A t \in Slot : HasData(t)' <=> HasData(t)
      /\ UNCHANGED <<flags, accepted, delivered>>
  BY <1>1, <1>2, <1>3, MySlots DEF Holds, MySlot, HasData, consumer, history, ReadSlot
<1>9. Locks' BY <1>1, <1>8 DEF Locks, Reading
<1>10. ~HasData(s) /\ \A q \in Producers : pc[q] = "publish" => MySlot(q) # s
  BY <1>0, <1>1, <1>2 DEF Locks, Holds, HasData
<1>11. Values'
  <2>1. \A t \in Slot : HasData(t)' => /\ stored'[t] # NoValue /\ SlotOf(stored'[t][2]) = t
                                       /\ stored'[t] \in accepted' \ delivered'
    BY <1>1, <1>5, <1>8, <1>10 DEF Values
  <2>2. \A q \in Producers : pc'[q] = "publish" => stored'[MySlot(q)'] = <<q, ticket'[q]>>
    BY <1>0, <1>1, <1>3, <1>5, <1>8, <1>10 DEF Values, v
  <2>3. \A t \in Slot : stored'[t] # NoValue =>
          HasData(t)' \/ \E q \in Producers : pc'[q] = "publish" /\ MySlot(q)' = t
    BY <1>0, <1>1, <1>5, <1>8 DEF Values
  <2> QED BY <2>1, <2>2, <2>3 DEF Values
<1>12. Accounts' BY <1>1, <1>5, <1>8, <1>10 DEF Accounts
<1>13. Lines'
  <2>1. \A t \in Slot : Line(t) # <<>> => flags'[t].owner \in {"prod", "data"}
    BY <1>1, <1>8 DEF Lines
  <2> QED BY <1>1, <1>7, <1>8, <2>1, LinesStay
<1>14. Tickets'
  <2>1. \A q \in Producers : Pending(q)' => Pending(q) /\ ticket'[q] = ticket[q]
    BY <1>2, <1>3 DEF Pending
  <2> QED BY <1>1, <1>2, <2>1, TicketsStay DEF Tickets, closing, closer, history
<1>15. Rousing' BY <1>1, <1>2, AloofRousing DEF ProducerPc, consumer, closing, closer
<1> QED BY <1>3, <1>6, <1>9, <1>11, <1>12, <1>13, <1>14, <1>15, TypePartsNext DEF Going, Running

\* The value becomes the consumer's; the one that finds CONS set rouses it.
LEMMA PublishKeeps ==
  ASSUME Going, NEW p \in Producers, Publish(p)
  PROVE  Going'
<1>0. PICK s \in Slot : s = MySlot(p) BY TypeParts, MySlots DEF Going
<1>1. /\ SlotTypes /\ ProducerTypes /\ ConsumerTypes /\ CloserTypes /\ HistoryTypes
      /\ Rousing /\ Tickets /\ Locks /\ Values /\ Accounts /\ Lines
      /\ ReadSlot \in Slot
  BY TypeParts, MySlots DEF Going, Running
<1> DEFINE v == <<p, ticket[p]>>
           g == PublishedFlags(flags[s])
           l == IF can_suspend /\ flags[s].cons THEN "extract" ELSE "idle"
<1>2. /\ pc[p] = "publish" /\ flags' = [flags EXCEPT ![s] = g]
      /\ accepted' = accepted \cup {v} /\ ProducerGoes(p, l)
      /\ UNCHANGED <<waiting, waiting_idx, output, stored, write_offset, closing, consumer, closer,
                     delivered, can_suspend>>
  BY <1>0 DEF Publish
<1>3. l \in {"extract", "idle"} /\ v \in Value BY <1>1 DEF ProducerTypes, Value
<1>4. g \in SlotRecord /\ g.owner = "data" /\ ~g.cons /\ g.chain = flags[s].chain
  BY <1>1 DEF SlotTypes, SlotRecord, PublishedFlags, Owner
<1> HIDE DEF v, g, l
<1>5. /\ ProducerTypes' /\ pc'[p] = l /\ (l = "extract" => ticket'[p] = ticket[p])
      /\ \A q \in Producers : q # p => pc'[q] = pc[q] /\ ticket'[q] = ticket[q]
  BY <1>1, <1>2, <1>3, GoesTo DEF ProducerPc
<1>6. /\ flags' \in [Slot -> SlotRecord] /\ flags'[s] = g
      /\ \A t \in Slot : t # s => flags'[t] = flags[t]
  BY <1>1, <1>2, <1>4 DEF SlotTypes
<1>7. /\ SlotTypes' /\ ConsumerTypes' /\ CloserTypes' /\ HistoryTypes' /\ cpc' # "gone"
  BY <1>1, <1>2, <1>3, <1>6 DEF SlotTypes, ConsumerTypes, CloserTypes, HistoryTypes, consumer,
                               closing, closer, Going
<1>8. \A t \in Slot : Line(t)' = Line(t) BY <1>2, <1>4, <1>6 DEF Line
<1>9. /\ stored[s] = v /\ v # NoValue /\ SlotOf(v[2]) = s /\ v \notin accepted
      /\ flags[s].owner = "prod"
  BY <1>0, <1>1, <1>2 DEF Values, Locks, Holds, Tickets, Pending, v, NoValue, MySlot
<1>10. /\ cpc' = cpc /\ next' = next /\ ReadSlot' = ReadSlot
       /\ \A q \in Producers : MySlot(q) \in Slot /\ (q # p => MySlot(q)' = MySlot(q))
       /\ \A q \in Producers : Holds(q)' <=> Holds(q) /\ q # p
       /\ \A q \in Producers : pc'[q] = "publish" <=> pc[q] = "publish" /\ q # p
       /\ \A q \in Producers : pc'[q] = "parked" <=> pc[q] = "parked"
       /\ \A t \in Slot : HasData(t)' <=> HasData(t) \/ t = s
       /\ UNCHANGED <<stored, delivered>>
  <2>1. ~(cpc = "wake" /\ next = p) BY <1>1, <1>2 DEF Lines
  <2>2. ~(cpc = "drain" /\ s = ReadSlot) BY <1>1, <1>9 DEF Locks, Reading
  <2>3. UNCHANGED <<cpc, next, read_offset>> BY <1>2 DEF consumer
  <2>4. \A q \in Producers : MySlot(q) \in Slot /\ (q # p => MySlot(q)' = MySlot(q))
    BY <1>1, <1>5, MySlots DEF MySlot
  <2>5. \A q \in Producers : Holds(q)' <=> Holds(q) /\ q # p
    BY <1>2, <1>3, <1>5, <2>1, <2>3 DEF Holds
  <2>6. \A t \in Slot : HasData(t)' <=> HasData(t) \/ t = s
    BY <1>4, <1>6, <2>2, <2>3 DEF HasData, ReadSlot
  <2> QED BY <1>2, <1>3, <1>5, <2>3, <2>4, <2>5, <2>6 DEF ReadSlot
<1>11. Locks'
  <2>1. \A q \in Producers : Holds(q) /\ MySlot(q) = s => q = p
    BY <1>0, <1>1, <1>2 DEF Locks, Holds
  <2>2. \A q \in Producers : Holds(q)' => flags'[MySlot(q)'].owner = "prod"
    BY <1>1, <1>6, <1>10, <2>1 DEF Locks
  <2>3. \A q, r \in Producers : Holds(q)' /\ Holds(r)' /\ MySlot(q)' = MySlot(r)' => q = r
    BY <1>1, <1>10 DEF Locks
  <2>4. \A t \in Slot : flags'[t].owner = "prod" => \E q \in Producers : Holds(q)' /\ MySlot(q)' = t
    <3> SUFFICES ASSUME NEW t \in Slot, flags'[t].owner = "prod"
                 PROVE  \E q \in Producers : Holds(q)' /\ MySlot(q)' = t
      OBVIOUS
    <3>1. t # s /\ flags[t].owner = "prod" BY <1>4, <1>6
    <3>2. PICK q \in Producers : Holds(q) /\ MySlot(q) = t BY <1>1, <3>1 DEF Locks
    <3> QED BY <1>0, <1>10, <3>1, <3>2
  <2>5. Reading' => flags'[ReadSlot'].owner = "data"
    BY <1>1, <1>4, <1>6, <1>10 DEF Locks, Reading
  <2> QED BY <2>2, <2>3, <2>4, <2>5 DEF Locks
<1>12. Values'
  <2>1. v \notin delivered BY <1>1, <1>9 DEF Accounts
  <2>2. \A t \in Slot : HasData(t)' => /\ stored'[t] # NoValue /\ SlotOf(stored'[t][2]) = t
                                       /\ stored'[t] \in accepted' \ delivered'
    BY <1>1, <1>2, <1>9, <1>10, <2>1 DEF Values
  <2>3. \A q \in Producers : pc'[q] = "publish" => stored'[MySlot(q)'] = <<q, ticket'[q]>>
    BY <1>1, <1>5, <1>10 DEF Values
  <2>4. \A t \in Slot : stored'[t] # NoValue =>
          HasData(t)' \/ \E q \in Producers : pc'[q] = "publish" /\ MySlot(q)' = t
    BY <1>0, <1>1, <1>10 DEF Values
  <2> QED BY <2>2, <2>3, <2>4 DEF Values
<1>13. Accounts' BY <1>1, <1>2, <1>9, <1>10 DEF Accounts
<1>14. Lines'
  <2>1. \A t \in Slot : Line(t) # <<>> => flags'[t].owner \in {"prod", "data"}
    BY <1>1, <1>4, <1>6 DEF Lines
  <2>2. \A q \in Producers : pc'[q] = "parked" => MySlot(q)' = MySlot(q) BY <1>3, <1>5, <1>10
  <2> QED BY <1>1, <1>8, <1>10, <2>1, <2>2, LinesStay
<1>15. Tickets'
  <2>1. Age(write_offset)' = Age(write_offset) /\ Age(ticket[p]) < Age(write_offset)
    BY <1>1, <1>2 DEF Age, Tickets, Pending
  <2>2. \A u \in accepted' : Age(u[2])' < Age(write_offset)'
    <3> SUFFICES ASSUME NEW u \in accepted' PROVE Age(u[2])' < Age(write_offset)' OBVIOUS
    <3>1. Age(u[2])' = Age(u[2]) BY DEF Age
    <3>2. CASE u \in accepted BY <1>1, <2>1, <3>1, <3>2 DEF Tickets
    <3>3. CASE u = v BY <2>1, <3>1, <3>3 DEF v
    <3> QED BY <1>2, <3>2, <3>3
  <2>3. \A q \in Producers : Pending(q)' =>
          /\ q # p /\ Pending(q) /\ ticket'[q] = ticket[q] /\ <<q, ticket'[q]>> # v
    BY <1>3, <1>5 DEF Pending, v
  <2>4. \A q \in Producers : Pending(q)' => /\ Age(ticket[q])' < Age(write_offset)'
                                            /\ <<q, ticket'[q]>> \notin accepted'
    BY <1>1, <1>2, <2>1, <2>3 DEF Tickets, Age
  <2> QED BY <1>1, <1>2, <2>1, <2>2, <2>4 DEF Tickets, closing, closer
<1>16. Rousing'
  <2>1. /\ UNCHANGED <<waiting, kpc, call, can_suspend>> /\ CutoffSlot' = CutoffSlot
        /\ (CloserRouses' <=> CloserRouses)
        /\ \A q \in Producers : pc'[q] = "wake" <=> pc[q] = "wake"
        /\ \A q \in Producers : Rouses(q)' <=> Rouses(q) \/ (q = p /\ l = "extract")
        /\ \A q \in Producers : Rouses(q)' => MySlot(q)' = MySlot(q)
    BY <1>2, <1>3, <1>5, <1>10
       DEF CloserRouses, CutoffSlot, Rouses, MySlot, consumer, closing, closer
  <2>2. CASE flags[s].cons
    <3>1. cpc = "parked" /\ s = ReadSlot /\ can_suspend /\ l = "extract"
      BY <1>1, <2>2 DEF Rousing, l
    <3>2. ~CloserRouses /\ \A q \in Producers : ~Rouses(q) BY <1>1, <2>2, <3>1 DEF Rousing
    <3>3. \A q \in Producers : Rouses(q)' <=> q = p BY <2>1, <3>1, <3>2
    <3>4. \A t \in Slot : ~flags'[t].cons BY <1>1, <1>4, <1>6, <3>1 DEF Rousing
    <3>5. waiting[ReadSlot] BY <1>1, <3>1, <3>2 DEF Rousing, Rouses, CloserRouses
    <3>6. MySlot(p)' = ReadSlot' /\ flags'[ReadSlot'].owner = "data"
      BY <1>0, <1>4, <1>6, <1>10, <2>1, <3>1, <3>3
    <3> QED BY <1>1, <1>10, <2>1, <3>1, <3>2, <3>3, <3>4, <3>5, <3>6 DEF Rousing
  <2>3. CASE ~flags[s].cons
    <3>1. \A q \in Producers : Rouses(q)' <=> Rouses(q) BY <2>1, <2>3 DEF l
    <3>2. \A t \in Slot : flags'[t].cons <=> flags[t].cons BY <1>4, <1>6, <2>3
    <3>3. /\ flags[ReadSlot].owner = "closed" => flags'[ReadSlot].owner = "closed"
          /\ flags[ReadSlot].owner = "data" => flags'[ReadSlot].owner = "data"
      BY <1>1, <1>4, <1>6, <1>9
    <3> QED BY <1>1, <1>10, <2>1, <3>1, <3>2, <3>3 DEF Rousing
  <2> QED BY <2>2, <2>3
<1> QED BY <1>5, <1>7, <1>11, <1>12, <1>13, <1>14, <1>15, <1>16, TypePartsNext DEF Going, Running

\* The consumer releases a value, and hands the slot over
\* The value released is the one in the slot, and it was not released before.
LEMMA DestroyValueKeeps ==
  ASSUME Going, DestroyValue
  PROVE  Going'
<1>0. PICK s \in Slot : s = ReadSlot BY TypeParts, MySlots DEF Going
<1>1. /\ SlotTypes /\ ProducerTypes /\ ConsumerTypes /\ CloserTypes /\ HistoryTypes
      /\ Rousing /\ Tickets /\ Locks /\ Values /\ Accounts /\ Lines
  BY TypeParts, MySlots DEF Going, Running
<1>2. /\ cpc = "holding" /\ cpc' = "drain"
      /\ stored' = [stored EXCEPT ![s] = NoValue]
      /\ delivered' = delivered \cup {stored[s]}
      /\ UNCHANGED <<flags, waiting, waiting_idx, output, write_offset, closing, producers, call,
                     told, read_offset, next, sees_closed, closer, accepted, can_suspend>>
  BY <1>0 DEF DestroyValue
<1>3. /\ stored' \in [Slot -> Value \cup {NoValue}] /\ stored'[s] = NoValue
      /\ \A t \in Slot : t # s => stored'[t] = stored[t]
  BY <1>1, <1>2 DEF SlotTypes
<1>4. HasData(s) /\ stored[s] \in accepted \ delivered /\ SlotOf(stored[s][2]) = s
  <2>1. HasData(s) BY <1>0, <1>1, <1>2 DEF Locks, Reading, HasData
  <2> QED BY <1>1, <2>1 DEF Values
<1>5. /\ SlotTypes' /\ ProducerTypes' /\ ConsumerTypes' /\ CloserTypes' /\ HistoryTypes'
      /\ cpc' # "gone" /\ ReadSlot' = ReadSlot
  BY <1>1, <1>2, <1>3, <1>4 DEF SlotTypes, ProducerTypes, ConsumerTypes, CloserTypes,
                               HistoryTypes, producers, closing, closer, ReadSlot
<1>6. \A t \in Slot : Line(t)' = Line(t) BY <1>2 DEF Line
<1>7. /\ next' = next /\ flags' = flags /\ accepted' = accepted /\ cpc # "wake"
      /\ \A q \in Producers : MySlot(q)' = MySlot(q) /\ pc'[q] = pc[q] /\ ticket'[q] = ticket[q]
      /\ \A q \in Producers : Holds(q)' <=> Holds(q)
      /\ \A t \in Slot : HasData(t)' <=> HasData(t) /\ t # s
  BY <1>0, <1>2, <1>5 DEF Holds, MySlot, HasData, producers
<1>8. Locks' BY <1>1, <1>2, <1>5, <1>7 DEF Locks, Reading
<1>9. Values'
  <2>1. \A t \in Slot : HasData(t)' => /\ stored'[t] # NoValue /\ SlotOf(stored'[t][2]) = t
                                       /\ stored'[t] \in accepted' \ delivered'
    <3> SUFFICES ASSUME NEW t \in Slot, HasData(t)'
                 PROVE  /\ stored'[t] # NoValue /\ SlotOf(stored'[t][2]) = t
                        /\ stored'[t] \in accepted' \ delivered'
      OBVIOUS
    <3>1. t # s /\ HasData(t) /\ stored'[t] = stored[t] BY <1>3, <1>7
    <3>2. /\ stored[t] # NoValue /\ SlotOf(stored[t][2]) = t
          /\ stored[t] \in accepted \ delivered
      BY <1>1, <3>1 DEF Values
    <3>3. stored[t] # stored[s] BY <1>4, <3>1, <3>2
    <3> QED BY <1>2, <1>7, <3>1, <3>2, <3>3
  <2>2. \A q \in Producers : pc[q] = "publish" => MySlot(q) # s
    BY <1>1, <1>4 DEF Locks, Holds, HasData
  <2>3. \A q \in Producers : pc'[q] = "publish" => stored'[MySlot(q)'] = <<q, ticket'[q]>>
    BY <1>1, <1>3, <1>7, <2>2, MySlots DEF Values
  <2>4. \A t \in Slot : stored'[t] # NoValue =>
          HasData(t)' \/ \E q \in Producers : pc'[q] = "publish" /\ MySlot(q)' = t
    BY <1>1, <1>3, <1>7 DEF Values
  <2> QED BY <2>1, <2>3, <2>4 DEF Values
<1>10. Accounts'
  <2>1. delivered' \subseteq accepted' BY <1>1, <1>2, <1>4, <1>7 DEF Accounts
  <2>2. ASSUME NEW v \in accepted', v \notin delivered'
        PROVE  \E t \in Slot : HasData(t)' /\ stored'[t] = v
    <3>1. PICK t \in Slot : HasData(t) /\ stored[t] = v BY <1>1, <1>2, <1>7, <2>2 DEF Accounts
    <3>2. t # s BY <1>2, <2>2, <3>1
    <3> QED BY <1>3, <1>7, <3>1, <3>2
  <2> QED BY <2>1, <2>2 DEF Accounts
<1>11. Lines'
  <2>1. \A t \in Slot : Line(t) # <<>> => flags'[t].owner \in {"prod", "data"}
    BY <1>1, <1>7 DEF Lines
  <2> QED BY <1>1, <1>2, <1>6, <1>7, <2>1, LinesStay
<1>12. Tickets' BY <1>1, <1>2, TicketsStay DEF Tickets, Pending, producers, closing, closer
<1>13. Rousing' BY <1>1, <1>2, AwakeRousing DEF Rousing, producers, closer
<1> QED BY <1>5, <1>8, <1>9, <1>10, <1>11, <1>12, <1>13, TypePartsNext DEF Going, Running

\* The producer that was handed the slot goes on to write in it.
LEMMA WakeProducerKeeps ==
  ASSUME Going, WakeProducer
  PROVE  Going'
<1>1. /\ SlotTypes /\ ProducerTypes /\ ConsumerTypes /\ CloserTypes /\ HistoryTypes
      /\ Rousing /\ Tickets /\ Locks /\ Values /\ Accounts /\ Lines
  BY TypeParts DEF Going, Running
<1>2. PICK p \in Producers : p = next /\ pc[p] = "parked" BY <1>1 DEF WakeProducer, Lines
<1>3. /\ cpc = "wake" /\ cpc' = "idle" /\ ProducerGoes(p, "emplace") /\ next' = Nobody
      /\ UNCHANGED <<slots, write_offset, closing, call, told, read_offset, sees_closed, closer,
                     history, can_suspend>>
  BY <1>2 DEF WakeProducer
<1>4. /\ ProducerTypes' /\ pc'[p] = "emplace" /\ ticket'[p] = ticket[p]
      /\ \A q \in Producers : q # p => pc'[q] = pc[q] /\ ticket'[q] = ticket[q]
  BY <1>1, <1>3, GoesTo DEF ProducerPc
<1>5. /\ SlotTypes' /\ ConsumerTypes' /\ CloserTypes' /\ HistoryTypes'
      /\ cpc' # "gone" /\ ReadSlot' = ReadSlot
  BY <1>1, <1>3 DEF SlotTypes, ConsumerTypes, CloserTypes, HistoryTypes, slots, closing, closer,
                    history, ReadSlot
<1>6. \A t \in Slot : Line(t)' = Line(t) /\ Line(t) \in Seq(Producers)
  BY <1>1, <1>3, ConcatOfEmpty DEF Line, slots, SlotTypes, SlotRecord
<1>7. /\ UNCHANGED <<flags, stored, accepted, delivered, output>>
      /\ \A q \in Producers : MySlot(q)' = MySlot(q) /\ MySlot(q) \in Slot
      /\ \A q \in Producers : Holds(q)' <=> Holds(q)
      /\ \A q \in Producers : pc'[q] = "publish" <=> pc[q] = "publish"
      /\ \A q \in Producers : pc'[q] = "parked" <=> pc[q] = "parked" /\ q # p
      /\ \A t \in Slot : HasData(t)' <=> HasData(t)
  BY <1>1, <1>2, <1>3, <1>4, <1>5, MySlots DEF Holds, MySlot, HasData, slots, history
<1>8. Locks' BY <1>1, <1>3, <1>5, <1>7 DEF Locks, Reading
<1>9. Values' /\ Accounts' BY <1>1, <1>4, <1>7 DEF Values, Accounts
<1>10. Lines'
  <2>1. \A q \in Producers : pc'[q] = "parked" =>
          \E i \in 1 .. Len(Line(MySlot(q))') : Line(MySlot(q))'[i] = q
    <3> SUFFICES ASSUME NEW q \in Producers, pc'[q] = "parked"
                 PROVE  \E i \in 1 .. Len(Line(MySlot(q))') : Line(MySlot(q))'[i] = q
      OBVIOUS
    <3>1. PICK t \in Slot : t = MySlot(q) BY <1>7
    <3>2. \E i \in 1 .. Len(Line(t)) : Line(t)[i] = q BY <1>1, <1>2, <1>7, <3>1 DEF Lines
    <3>3. Line(MySlot(q))' = Line(t)' BY <1>7, <3>1, LineNext
    <3> QED BY <1>6, <3>2, <3>3
  <2>2. \A t \in Slot : \A i \in 1 .. Len(Line(t)') :
          pc'[Line(t)'[i]] = "parked" /\ MySlot(Line(t)[i])' = t
    <3> SUFFICES ASSUME NEW t \in Slot, NEW i \in 1 .. Len(Line(t)')
                 PROVE  pc'[Line(t)'[i]] = "parked" /\ MySlot(Line(t)[i])' = t
      OBVIOUS
    <3>1. Line(t)' = Line(t) /\ i \in 1 .. Len(Line(t)) /\ Line(t)[i] \in Producers
      BY <1>6, ElementOfSeq
    <3>2. pc[Line(t)[i]] = "parked" /\ MySlot(Line(t)[i]) = t /\ Line(t)[i] # p
      BY <1>1, <1>2, <1>3, <3>1 DEF Lines
    <3>3. MySlot(Line(t)[i])' = SlotOf(ticket'[Line(t)'[i]]) BY DEF MySlot
    <3>4. ticket'[Line(t)[i]] = ticket[Line(t)[i]] BY <1>4, <3>1
    <3> QED BY <1>7, <3>1, <3>2, <3>3, <3>4 DEF MySlot
  <2>3. /\ \A t \in Slot : \A i, j \in 1 .. Len(Line(t)') : Line(t)'[i] = Line(t)'[j] => i = j
        /\ \A t \in Slot : Line(t)' # <<>> => flags'[t].owner \in {"prod", "data"}
    BY <1>1, <1>6, <1>7 DEF Lines
  <2> QED BY <1>3, <2>1, <2>2, <2>3 DEF Lines
<1>11. Tickets'
  <2>1. \A q \in Producers : Pending(q)' => Pending(q) /\ ticket'[q] = ticket[q]
    BY <1>2, <1>4 DEF Pending
  <2> QED BY <1>1, <1>3, <2>1, TicketsStay DEF Tickets, closing, closer, history
<1>12. Rousing'
  <2>1. /\ \A t \in Slot : ~flags'[t].cons
        /\ ~CloserRouses' /\ \A q \in Producers : ~Rouses(q)'
    BY <1>1, <1>3, <1>4, <1>7, NobodyRouses DEF Rouses, CloserRouses, closer
  <2>2. call.mode = "pull" => can_suspend BY <1>1 DEF Rousing
  <2> QED BY <1>3, <2>1, <2>2 DEF Rousing
<1> QED BY <1>4, <1>5, <1>8, <1>9, <1>10, <1>11, <1>12, TypePartsNext DEF Going, Running

\* The list that finish_read serves, and what stays in the flags.
Served(o, c) == IF o # <<>> THEN o ELSE Reversed(c)
Kept(o, c)   == IF o # <<>> THEN c ELSE <<>>

ServesLine(S, o, c) ==
    LET line == o \o Reversed(c) IN
    /\ Served(o, c) \in Seq(S) /\ Kept(o, c) \in Seq(S)
    /\ Served(o, c) = <<>> => line = <<>>
    /\ Served(o, c) # <<>> =>
          /\ Head(Served(o, c)) = Head(line) /\ Tail(Served(o, c)) \in Seq(S)
          /\ Tail(Served(o, c)) \o Reversed(Kept(o, c)) = Tail(line)

\* What finish_read finds to hand over to is the line of the slot.
LEMMA LineIsServed ==
  ASSUME NEW S, NEW o \in Seq(S), NEW c \in Seq(S)
  PROVE  ServesLine(S, o, c)
<1> DEFINE list == Served(o, c)
           rest == Kept(o, c)
<1> USE DEF Served, Kept, ServesLine
<1>1. /\ Reversed(c) \in Seq(S) /\ <<>> \in Seq(S)
      /\ o = <<>> => o \o Reversed(c) = Reversed(c)
      /\ o # <<>> => /\ Head(o \o Reversed(c)) = Head(o)
                     /\ Tail(o \o Reversed(c)) = Tail(o) \o Reversed(c)
  BY ReversedSeq, HeadTailConcat, EmptySeq
<1>2. list \in Seq(S) /\ rest \in Seq(S) BY <1>1
<1>3. list # <<>> => Tail(list) \in Seq(S) BY <1>2, HeadTailProperties
<1>4. CASE o # <<>>
  <2>1. o \o Reversed(c) # <<>> BY <1>4, ConcatOfEmpty
  <2> QED BY <1>1, <1>2, <1>3, <1>4, <2>1
<1>5. CASE o = <<>>
  <2>1. list = Reversed(c) /\ rest = <<>> /\ o \o Reversed(c) = list BY <1>1, <1>5
  <2>2. Reversed(rest) = <<>> BY <1>1, <2>1, ConcatOfEmpty
  <2>3. list # <<>> => Tail(list) \o Reversed(rest) = Tail(list) BY <1>3, <2>2, ConcatEmptySeq
  <2> QED BY <1>2, <1>3, <1>5, <2>1, <2>3
<1> QED BY <1>4, <1>5

\* finish_read, with nobody in line: the slot is free.
LEMMA DrainKeeps ==
  ASSUME Going, DrainAndHandoff, Line(ReadSlot) = <<>>
  PROVE  Going' /\ \A t \in Slot : Line(t)' = Line(t)
<1>0. PICK s \in Slot : s = ReadSlot BY TypeParts, MySlots DEF Going
<1>1. /\ SlotTypes /\ ProducerTypes /\ ConsumerTypes /\ CloserTypes /\ HistoryTypes
      /\ Rousing /\ Tickets /\ Locks /\ Values /\ Accounts /\ Lines
  BY TypeParts, MySlots DEF Going, Running
<1>2. output[s] = <<>> /\ flags[s].chain = <<>> /\ Reversed(flags[s].chain) = <<>>
  <2>1. output[s] \in Seq(Producers) /\ flags[s].chain \in Seq(Producers)
    BY <1>1 DEF SlotTypes, SlotRecord
  <2>2. output[s] \o Reversed(flags[s].chain) = <<>> BY <1>0 DEF Line
  <2> QED BY <2>1, <2>2, ConcatOfEmpty
<1>3. /\ cpc = "drain" /\ cpc' = "idle" /\ flags' = [flags EXCEPT ![s] = Free]
      /\ read_offset' = Plus(read_offset, 1)
      /\ sees_closed' = (sees_closed \/ (marked /\ s = CutoffSlot))
      /\ UNCHANGED <<waiting, waiting_idx, output, stored, write_offset, closing, producers, call,
                     told, next, closer, history, can_suspend>>
  BY <1>0, <1>2 DEF DrainAndHandoff, Acquire
<1>4. Free \in SlotRecord /\ Free.owner = "none" /\ Free.chain = <<>> /\ ~Free.cons
  BY EmptySeq DEF Free, SlotRecord, Owner
<1>5. /\ flags' \in [Slot -> SlotRecord] /\ flags'[s] = Free
      /\ \A t \in Slot : t # s => flags'[t] = flags[t]
  BY <1>1, <1>3, <1>4 DEF SlotTypes
<1>6. read_offset' \in Word BY <1>1, <1>3, SlotsAndWords DEF ConsumerTypes
<1>7. /\ SlotTypes' /\ ProducerTypes' /\ ConsumerTypes' /\ CloserTypes' /\ HistoryTypes'
      /\ cpc' # "gone"
  BY <1>1, <1>3, <1>5, <1>6 DEF SlotTypes, ProducerTypes, ConsumerTypes, CloserTypes,
                               HistoryTypes, producers, closing, closer, history
<1>8. \A t \in Slot : Line(t)' = Line(t) BY <1>2, <1>3, <1>4, <1>5 DEF Line
<1>9. /\ next' = next /\ UNCHANGED <<stored, accepted, delivered>>
      /\ \A q \in Producers : MySlot(q)' = MySlot(q) /\ pc'[q] = pc[q] /\ ticket'[q] = ticket[q]
      /\ \A q \in Producers : Holds(q)' <=> Holds(q)
      /\ \A q \in Producers : Holds(q) => MySlot(q) # s
      /\ \A t \in Slot : HasData(t)' <=> HasData(t)
  <2>1. flags[s].owner = "data" BY <1>0, <1>1, <1>3 DEF Locks, Reading
  <2>2. \A q \in Producers : Holds(q) => MySlot(q) # s BY <1>1, <2>1 DEF Locks
  <2>3. \A t \in Slot : HasData(t)' <=> HasData(t) BY <1>0, <1>3, <1>4, <1>5 DEF HasData
  <2> QED BY <1>3, <2>2, <2>3 DEF Holds, MySlot, producers, history
<1>10. Locks' BY <1>1, <1>3, <1>4, <1>5, <1>9, MySlots DEF Locks, Reading
<1>11. Values' /\ Accounts' BY <1>1, <1>9 DEF Values, Accounts
<1>12. Lines'
  <2>1. \A t \in Slot : Line(t) # <<>> => flags'[t].owner \in {"prod", "data"}
    BY <1>0, <1>1, <1>5 DEF Lines
  <2> QED BY <1>1, <1>3, <1>8, <1>9, <2>1, LinesStay
<1>13. Tickets'
  BY <1>1, <1>3, TicketsStay DEF Tickets, Pending, producers, closing, closer, history
<1>14. Rousing'
  <2>1. /\ \A t \in Slot : ~flags'[t].cons
        /\ ~CloserRouses' /\ \A q \in Producers : ~Rouses(q)'
    BY <1>1, <1>3, <1>4, <1>5, NobodyRouses DEF Rouses, CloserRouses, producers, closer
  <2>2. call.mode = "pull" => can_suspend BY <1>1 DEF Rousing
  <2> QED BY <1>3, <2>1, <2>2 DEF Rousing
<1> QED BY <1>7, <1>8, <1>10, <1>11, <1>12, <1>13, <1>14, TypePartsNext DEF Going, Running

\* finish_read, with somebody in line: who came first holds the slot now.
LEMMA HandoffKeeps ==
  ASSUME Going, DrainAndHandoff, NEW s \in Slot, s = ReadSlot, Line(s) # <<>>
  PROVE  /\ Going'
         /\ Line(s)' = Tail(Line(s)) /\ next' = Head(Line(s))
         /\ \A t \in Slot : t # s => Line(t)' = Line(t)
<1>1. /\ SlotTypes /\ ProducerTypes /\ ConsumerTypes /\ CloserTypes /\ HistoryTypes
      /\ Rousing /\ Tickets /\ Locks /\ Values /\ Accounts /\ Lines
  BY TypeParts, MySlots DEF Going, Running
<1>2. PICK o \in Seq(Producers), c \in Seq(Producers) :
         o = output[s] /\ c = flags[s].chain /\ Line(s) = o \o Reversed(c)
  BY <1>1 DEF SlotTypes, SlotRecord, Line
<1> DEFINE list == Served(o, c)
           rest == Kept(o, c)
           g    == [Free EXCEPT !.owner = "prod", !.chain = rest]
<1>3. /\ cpc = "drain"
      /\ read_offset' = Plus(read_offset, 1)
      /\ sees_closed' = (sees_closed \/ (marked /\ s = CutoffSlot))
      /\ UNCHANGED <<waiting, waiting_idx, stored, write_offset, closing, producers, call,
                     told, closer, history, can_suspend>>
  BY DEF DrainAndHandoff, Acquire
<1>4. /\ list \in Seq(Producers) /\ rest \in Seq(Producers) /\ list # <<>>
      /\ Head(list) = Head(Line(s)) /\ Tail(list) \in Seq(Producers)
      /\ Tail(list) \o Reversed(rest) = Tail(Line(s))
  <2>1. ServesLine(Producers, o, c) BY LineIsServed
  <2> QED BY <1>2, <2>1 DEF ServesLine
<1>5. /\ flags' = [flags EXCEPT ![s] = g]
      /\ output' = [output EXCEPT ![s] = Tail(list)]
      /\ next' = Head(list) /\ cpc' = "wake"
  <2>1. HandedFlags(s) = g BY <1>2 DEF HandedFlags, Kept
  <2> QED BY <1>2, <1>4, <2>1 DEF DrainAndHandoff, Served
<1> HIDE DEF list, rest
<1>6. g \in SlotRecord /\ g.owner = "prod" /\ g.chain = rest /\ ~g.cons
  BY <1>4 DEF Free, SlotRecord, Owner
<1> HIDE DEF g
<1>7. /\ flags' \in [Slot -> SlotRecord] /\ flags'[s] = g
      /\ output' \in [Slot -> Seq(Producers)] /\ output'[s] = Tail(list)
      /\ \A t \in Slot : t # s => flags'[t] = flags[t] /\ output'[t] = output[t]
  BY <1>1, <1>4, <1>5, <1>6 DEF SlotTypes
<1>8. Line(s)' = Tail(Line(s)) /\ \A t \in Slot : t # s => Line(t)' = Line(t)
  BY <1>4, <1>6, <1>7 DEF Line
<1>9. \A t \in Slot : Line(t) \in Seq(Producers) /\ Len(Line(t)) \in Nat
  <2>1. \A t \in Slot : Line(t) \in Seq(Producers)
    BY <1>1, ConcatOfEmpty DEF Line, SlotTypes, SlotRecord
  <2> QED BY <2>1, LenProperties
<1>10. /\ Len(Line(s)) >= 1 /\ Tail(Line(s)) \in Seq(Producers)
       /\ Len(Tail(Line(s))) = Len(Line(s)) - 1
       /\ \A i \in 1 .. Len(Line(s)) - 1 : Tail(Line(s))[i] = Line(s)[i + 1]
       /\ Head(Line(s)) = Line(s)[1] /\ Line(s)[1] \in Producers
  <2>1. Len(Line(s)) # 0 BY <1>9, EmptySeq
  <2>2. 1 \in 1 .. Len(Line(s)) BY <1>9, <2>1
  <2> QED BY <1>9, <2>1, <2>2, HeadTailProperties, ElementOfSeq
<1>11. PICK n \in Producers : n = Line(s)[1] BY <1>10
<1>12. next' = n /\ pc[n] = "parked" /\ MySlot(n) = s /\ 1 \in 1 .. Len(Line(s))
  <2>1. 1 \in 1 .. Len(Line(s)) BY <1>9, <1>10
  <2>2. pc[Line(s)[1]] = "parked" /\ MySlot(Line(s)[1]) = s BY <1>1, <2>1 DEF Lines
  <2> QED BY <1>4, <1>5, <1>10, <1>11, <2>1, <2>2
<1>13. read_offset' \in Word BY <1>1, <1>3, SlotsAndWords DEF ConsumerTypes
<1>14. /\ SlotTypes' /\ ProducerTypes' /\ ConsumerTypes' /\ CloserTypes' /\ HistoryTypes'
       /\ cpc' # "gone"
  BY <1>1, <1>3, <1>5, <1>7, <1>12, <1>13
     DEF SlotTypes, ProducerTypes, ConsumerTypes, CloserTypes, HistoryTypes, producers, closing,
         closer, history
<1>15. /\ UNCHANGED <<stored, accepted, delivered>>
       /\ \A q \in Producers : MySlot(q)' = MySlot(q) /\ pc'[q] = pc[q] /\ ticket'[q] = ticket[q]
       /\ \A q \in Producers : Holds(q)' <=> Holds(q) \/ q = n
       /\ \A q \in Producers : Holds(q) => MySlot(q) # s
       /\ \A t \in Slot : HasData(t)' <=> HasData(t)
  <2>1. flags[s].owner = "data" BY <1>1, <1>3 DEF Locks, Reading
  <2>2. \A q \in Producers : Holds(q) => MySlot(q) # s BY <1>1, <2>1 DEF Locks
  <2>3. \A t \in Slot : HasData(t)' <=> HasData(t) BY <1>3, <1>5, <1>6, <1>7 DEF HasData
  <2>4. \A q \in Producers : Holds(q)' <=> Holds(q) \/ q = n
    BY <1>3, <1>5, <1>12 DEF Holds, producers
  <2> QED BY <1>3, <2>2, <2>3, <2>4 DEF MySlot, producers, history
<1>16. Locks'
  <2>0. /\ flags'[s].owner = "prod"
        /\ \A t \in Slot : t # s => flags'[t].owner = flags[t].owner
    BY <1>6, <1>7
  <2>1. \A q \in Producers : Holds(q)' => flags'[MySlot(q)'].owner = "prod"
    BY <1>1, <1>12, <1>15, <2>0, MySlots DEF Locks
  <2>2. \A q, r \in Producers : Holds(q)' /\ Holds(r)' /\ MySlot(q)' = MySlot(r)' => q = r
    BY <1>1, <1>12, <1>15 DEF Locks
  <2>3. ASSUME NEW t \in Slot, flags'[t].owner = "prod"
        PROVE  \E q \in Producers : Holds(q)' /\ MySlot(q)' = t
    <3>1. CASE t = s BY <1>12, <1>15, <3>1
    <3>2. CASE t # s
      <4>1. PICK q \in Producers : Holds(q) /\ MySlot(q) = t BY <1>1, <2>0, <2>3, <3>2 DEF Locks
      <4> QED BY <1>15, <4>1
    <3> QED BY <3>1, <3>2
  <2>4. ~Reading' BY <1>5 DEF Reading
  <2> QED BY <2>1, <2>2, <2>3, <2>4 DEF Locks
<1>17. Values' /\ Accounts' BY <1>1, <1>15 DEF Values, Accounts
<1>18. Lines'
  <2>1. \A q \in Producers : pc'[q] = "parked" =>
          \/ cpc' = "wake" /\ next' = q
          \/ \E i \in 1 .. Len(Line(MySlot(q))') : Line(MySlot(q))'[i] = q
    <3> SUFFICES ASSUME NEW q \in Producers, pc'[q] = "parked", q # n
                 PROVE  \E i \in 1 .. Len(Line(MySlot(q))') : Line(MySlot(q))'[i] = q
      BY <1>5, <1>12
    <3>1. PICK t \in Slot : t = MySlot(q) BY <1>1, MySlots
    <3>2. Line(MySlot(q))' = Line(t)' BY <1>15, <3>1, LineNext
    <3>3. PICK i \in 1 .. Len(Line(t)) : Line(t)[i] = q BY <1>1, <1>3, <1>15, <3>1 DEF Lines
    <3>4. CASE t # s BY <1>8, <3>2, <3>3, <3>4
    <3>5. CASE t = s
      <4>1. i # 1 /\ i - 1 \in 1 .. Len(Line(s)) - 1 /\ (i - 1) + 1 = i
        BY <1>9, <1>11, <3>3, <3>5
      <4>2. i - 1 \in 1 .. Len(Tail(Line(s))) /\ Tail(Line(s))[i - 1] = q
        BY <1>10, <3>3, <3>5, <4>1
      <4> QED BY <1>8, <3>2, <3>5, <4>2
    <3> QED BY <3>4, <3>5
  <2>2. ASSUME NEW t \in Slot, NEW i \in 1 .. Len(Line(t)')
        PROVE  \E j \in 1 .. Len(Line(t)) : /\ Line(t)'[i] = Line(t)[j]
                                            /\ t = s => j # 1
                                            /\ j = IF t = s THEN i + 1 ELSE i
    <3>1. CASE t # s BY <1>8, <3>1
    <3>2. CASE t = s
      <4>1. i \in 1 .. Len(Line(s)) - 1 /\ i + 1 \in 1 .. Len(Line(s)) /\ i + 1 # 1
        BY <1>8, <1>9, <1>10, <3>2
      <4> QED BY <1>8, <1>10, <3>2, <4>1
    <3> QED BY <3>1, <3>2
  <2>3. \A t \in Slot : \A i \in 1 .. Len(Line(t)') :
          /\ pc'[Line(t)'[i]] = "parked" /\ MySlot(Line(t)[i])' = t
          /\ ~(cpc' = "wake" /\ next' = Line(t)'[i])
    <3> SUFFICES ASSUME NEW t \in Slot, NEW i \in 1 .. Len(Line(t)')
                 PROVE  /\ pc'[Line(t)'[i]] = "parked" /\ SlotOf(ticket'[Line(t)'[i]]) = t
                        /\ n # Line(t)'[i]
      BY <1>12 DEF MySlot
    <3>1. PICK j \in 1 .. Len(Line(t)) : Line(t)'[i] = Line(t)[j] /\ (t = s => j # 1) BY <2>2
    <3>2. Line(t)[j] \in Producers BY <1>9, ElementOfSeq
    <3>3. pc[Line(t)[j]] = "parked" /\ MySlot(Line(t)[j]) = t BY <1>1 DEF Lines
    <3>4. Line(t)[j] # n
      <4>1. CASE t = s BY <1>1, <1>11, <1>12, <3>1, <4>1 DEF Lines
      <4>2. CASE t # s BY <1>12, <3>3, <4>2
      <4> QED BY <4>1, <4>2
    <3> QED BY <1>15, <3>1, <3>2, <3>3, <3>4 DEF MySlot
  <2>4. \A t \in Slot : \A i, j \in 1 .. Len(Line(t)') : Line(t)'[i] = Line(t)'[j] => i = j
    <3> SUFFICES ASSUME NEW t \in Slot, NEW i \in 1 .. Len(Line(t)'), NEW j \in 1 .. Len(Line(t)'),
                        Line(t)'[i] = Line(t)'[j]
                 PROVE  i = j
      OBVIOUS
    <3>1. Len(Line(t)') \in Nat BY <1>8, <1>9, <1>10
    <3>2. PICK k \in 1 .. Len(Line(t)) : Line(t)'[i] = Line(t)[k] /\ k = IF t = s THEN i + 1 ELSE i
      BY <2>2
    <3>3. PICK m \in 1 .. Len(Line(t)) : Line(t)'[j] = Line(t)[m] /\ m = IF t = s THEN j + 1 ELSE j
      BY <2>2
    <3>4. Line(t)[k] = Line(t)[m] BY <3>2, <3>3
    <3>5. k = m BY <1>1, <3>4 DEF Lines
    <3> QED BY <3>1, <3>2, <3>3, <3>5
  <2>5. \A t \in Slot : Line(t)' # <<>> => flags'[t].owner \in {"prod", "data"}
    BY <1>1, <1>6, <1>7, <1>8 DEF Lines
  <2> QED BY <1>12, <1>15, <2>1, <2>3, <2>4, <2>5 DEF Lines
<1>19. Tickets'
  BY <1>1, <1>3, TicketsStay DEF Tickets, Pending, producers, closing, closer, history
<1>20. Rousing'
  <2>1. /\ \A t \in Slot : ~flags'[t].cons
        /\ ~CloserRouses' /\ \A q \in Producers : ~Rouses(q)'
    BY <1>1, <1>3, <1>6, <1>7, NobodyRouses DEF Rouses, CloserRouses, producers, closer
  <2>2. call.mode = "pull" => can_suspend BY <1>1 DEF Rousing
  <2> QED BY <1>3, <1>5, <2>1, <2>2 DEF Rousing
<1> QED BY <1>4, <1>5, <1>8, <1>14, <1>16, <1>17, <1>18, <1>19, <1>20, TypePartsNext DEF Going, Running

\* The beginning and the end
\* A queue that was just constructed.
LEMMA InitHolds == Init => IInv
<1> SUFFICES ASSUME Init PROVE IInv OBVIOUS
<1> USE DEF Init
<1>1. Free \in SlotRecord /\ Free.owner = "none" /\ Free.chain = <<>> /\ ~Free.cons
  BY EmptySeq DEF Free, SlotRecord, Owner
<1>2. /\ \A s \in Slot : flags[s] = Free /\ output[s] = <<>> /\ stored[s] = NoValue
      /\ \A p \in Producers : pc[p] = "idle"
  OBVIOUS
<1>3. TypeOK
  <2>1. SlotTypes BY <1>1, SlotsAndWords, EmptySeq DEF SlotTypes
  <2>2. ProducerTypes BY SlotsAndWords DEF ProducerTypes, ProducerPc
  <2>3. ConsumerTypes BY SlotsAndWords, Calls DEF ConsumerTypes, CallType
  <2>4. CloserTypes BY <1>1, SlotsAndWords DEF CloserTypes
  <2>5. HistoryTypes BY DEF HistoryTypes
  <2> QED BY <2>1, <2>2, <2>3, <2>4, <2>5, TypeParts
<1>4. \A s \in Slot : Line(s) = <<>>
  <2>1. <<>> \in Seq(Producers) BY EmptySeq
  <2>2. <<>> \o Reversed(<<>>) = <<>> BY <2>1, ConcatOfEmpty
  <2> QED BY <1>1, <1>2, <2>2 DEF Line
<1>5. Lines
  <2>1. \A s \in Slot : Len(Line(s)) = 0 BY <1>4
  <2> QED BY <1>2, <1>4, <2>1 DEF Lines
<1>6. Rousing BY <1>1, <1>2, Calls DEF Rousing, Rouses, CloserRouses
<1>7. Locks BY <1>1, <1>2 DEF Locks, Holds, Reading
<1>8. Values BY <1>1, <1>2 DEF Values, HasData
<1>9. Tickets
  <2>1. Age(write_offset) = 0 /\ MaxPush \in Nat
    BY BoundAssumption, WordAssumption, CapacityAssumption DEF Age
  <2> QED BY <1>2, <2>1 DEF Tickets, Pending
<1>10. Accounts BY DEF Accounts
<1> QED BY <1>3, <1>5, <1>6, <1>7, <1>8, <1>9, <1>10 DEF IInv, Running

\* Nobody is parked in a queue that is destroyed.
LEMMA DestructKeeps ==
  ASSUME Going, Destruct
  PROVE  IInv' /\ \A s \in Slot : Line(s)' = Line(s)
<1>1. /\ SlotTypes /\ ProducerTypes /\ ConsumerTypes /\ CloserTypes /\ HistoryTypes
      /\ Rousing /\ Lines
  BY TypeParts DEF Going
<1> DEFINE end == IF closed THEN write_closed_at ELSE write_offset
<1>2. /\ \A p \in Producers : pc[p] = "idle"
      /\ cpc = "idle" /\ kpc \in {"idle", "done"}
      /\ closed' = TRUE /\ closed_ready' = TRUE /\ write_closed_at' = end
      /\ marked' = TRUE
      /\ flags' = IF closed \/ ~can_suspend \/ flags[SlotOf(end)].owner # "none" THEN flags
                  ELSE [flags EXCEPT ![SlotOf(end)].owner = "closed"]
      /\ stored' = [s \in Slot |->
                      IF s \in Leftover(end) /\ flags[s].owner = "data" THEN NoValue
                      ELSE stored[s]]
      /\ write_offset' = IF closed THEN write_offset ELSE Plus(write_offset, 1)
      /\ pc' = [p \in Producers |-> "gone"]
      /\ cpc' = "gone" /\ kpc' = "done"
      /\ UNCHANGED <<waiting, waiting_idx, output, ticket, call, told, read_offset, next,
                     sees_closed, snapshot, history, can_suspend>>
  BY DEF Destruct
<1>3. end \in Word /\ SlotOf(end) \in Slot /\ write_offset' \in Word
  BY <1>1, <1>2, SlotsAndWords DEF CloserTypes
<1> HIDE DEF end
<1>4. /\ flags' \in [Slot -> SlotRecord]
      /\ \A s \in Slot : flags'[s].cons = flags[s].cons /\ flags'[s].chain = flags[s].chain
  BY <1>1, <1>2, <1>3 DEF SlotTypes, SlotRecord, Owner
<1>5. stored' \in [Slot -> Value \cup {NoValue}] BY <1>1, <1>2 DEF SlotTypes
<1>6. /\ SlotTypes' /\ ProducerTypes' /\ ConsumerTypes' /\ CloserTypes' /\ HistoryTypes'
  BY <1>1, <1>2, <1>3, <1>4, <1>5
     DEF SlotTypes, ProducerTypes, ProducerPc, ConsumerTypes, CloserTypes, HistoryTypes, history
<1>7. \A s \in Slot : Line(s)' = Line(s) BY <1>2, <1>4 DEF Line
<1>8. \A s \in Slot : Len(Line(s)) = 0 /\ Line(s) = <<>>
  <2> SUFFICES ASSUME NEW s \in Slot PROVE Len(Line(s)) = 0 /\ Line(s) = <<>> OBVIOUS
  <2>1. Line(s) \in Seq(Producers) /\ Len(Line(s)) \in Nat
    BY <1>1, ConcatOfEmpty, LenProperties DEF Line, SlotTypes, SlotRecord
  <2>2. ASSUME Len(Line(s)) # 0 PROVE FALSE
    <3>1. 1 \in 1 .. Len(Line(s)) BY <2>1, <2>2
    <3>2. Line(s)[1] \in Producers /\ pc[Line(s)[1]] = "parked"
      BY <1>1, <2>1, <3>1, ElementOfSeq DEF Lines
    <3> QED BY <1>2, <3>2
  <2> QED BY <2>1, <2>2, EmptySeq
<1>9. Lines' BY <1>2, <1>7, <1>8 DEF Lines
<1>10. Rousing'
  <2>1. /\ \A s \in Slot : ~flags'[s].cons
        /\ ~CloserRouses' /\ \A q \in Producers : ~Rouses(q)'
    BY <1>1, <1>2, <1>4, NobodyRouses DEF Rouses, CloserRouses
  <2>2. call.mode = "pull" => can_suspend BY <1>1 DEF Rousing
  <2> QED BY <1>2, <2>1, <2>2 DEF Rousing
<1>11. Destroyed' BY <1>2 DEF Destroyed
<1> QED BY <1>2, <1>6, <1>7, <1>9, <1>10, <1>11, TypePartsNext DEF IInv

\* Nothing happens to a queue that is destroyed.
LEMMA GoneStays ==
  ASSUME Destroyed, [Next]_vars
  PROVE  UNCHANGED vars
<1>1. \A p \in Producers : ~TakeTicket(p) /\ ~ProducerStep(p)
  BY DEF Destroyed, TakeTicket, ProducerStep, CheckClosed, CompareCutoff, TryClaim, Park, Emplace,
         Publish, ExtractConsumer, WakeConsumer
<1>2. ~StartPull /\ ~ConsumerStep
  BY DEF Destroyed, StartPull, ConsumerStep, LookAgain, LoadClosed, LoadCutoff, Arm, Confirm,
         Disarm, Rearm, PullResume, DestroyValue, DrainAndHandoff, WakeProducer
<1>3. ~SetClosed /\ ~CloserStep /\ ~Destruct
  BY DEF Destroyed, SetClosed, CloserStep, DrawCutoff, SetReady, MarkCutoffSlot, PlaceSentinel,
         CloserExtracts, CloserWakes, Destruct
<1> QED BY <1>1, <1>2, <1>3 DEF Next, Gone

\* Every step
LineMoves(s) ==
    \/ Line(s)' = Line(s)
    \/ Line(s) # <<>> /\ Line(s)' = Tail(Line(s)) /\ next' = Head(Line(s))
    \/ \E p \in Producers : pc'[p] = "parked" /\ Line(s)' = Append(Line(s), p)

\* Who keeps the chain and the list of a slot keeps its line.
LEMMA SameLine ==
  ASSUME NEW s \in Slot, output'[s] = output[s], flags'[s].chain = flags[s].chain
  PROVE  LineMoves(s)
  BY DEF LineMoves, Line

\* A step of a producer.
LEMMA ProducerKeeps ==
  ASSUME Going, NEW p \in Producers, TakeTicket(p) \/ ProducerStep(p)
  PROVE  Going' /\ \A s \in Slot : LineMoves(s)
<1>1. /\ SlotTypes /\ ProducerTypes /\ MySlot(p) \in Slot BY TypeParts, MySlots DEF Going
<1>2. CASE TakeTicket(p)
  <2>1. UNCHANGED <<output, flags>> BY <1>2 DEF TakeTicket, slots
  <2> QED BY <1>2, <2>1, TakeTicketKeeps, SameLine
<1>3. CASE CheckClosed(p) \/ CompareCutoff(p)
  <2>1. UNCHANGED <<output, flags>> BY <1>3 DEF CheckClosed, CompareCutoff, slots
  <2> QED BY <1>3, <2>1, CheckKeeps, SameLine
<1>4. CASE TryClaim(p)
  <2>1. CASE Claimable(flags[MySlot(p)])
    <3>1. output' = output /\ flags' = [flags EXCEPT ![MySlot(p)].owner = "prod"]
      BY <1>4, <2>1 DEF TryClaim
    <3>2. \A s \in Slot : flags'[s].chain = flags[s].chain
      BY <1>1, <3>1 DEF SlotTypes, SlotRecord
    <3> QED BY <1>4, <2>1, <3>1, <3>2, ClaimKeeps, SameLine
  <2>2. CASE ~Claimable(flags[MySlot(p)])
    <3>1. PICK l \in {"idle", "park"} : ProducerGoes(p, l) /\ flags' = flags /\ output' = output
      BY <1>4, <2>2 DEF TryClaim
    <3>2. pc'[p] = l BY <1>1, <3>1, GoesTo DEF ProducerPc
    <3> QED BY <1>4, <3>1, <3>2, TurnedAwayKeeps, SameLine
  <2> QED BY <2>1, <2>2
<1>5. CASE Park(p)
  <2>1. CASE Claimable(flags[MySlot(p)]) \/ flags[MySlot(p)].owner = "closed"
    <3>1. PICK l \in {"idle", "claim"} : ProducerGoes(p, l) /\ flags' = flags /\ output' = output
      BY <1>5, <2>1 DEF Park
    <3>2. pc'[p] = l BY <1>1, <3>1, GoesTo DEF ProducerPc
    <3> QED BY <1>5, <3>1, <3>2, TurnedAwayKeeps, SameLine
  <2>2. CASE ~Claimable(flags[MySlot(p)]) /\ flags[MySlot(p)].owner # "closed"
    <3>1. PICK m \in Slot : m = MySlot(p) BY <1>1
    <3>2. /\ Going' /\ pc'[p] = "parked" /\ Line(MySlot(p))' = Append(Line(MySlot(p)), p)
          /\ \A t \in Slot : t # MySlot(p) => Line(t)' = Line(t)
      BY <1>5, <2>2, ParkedKeeps
    <3>3. Line(m)' = Append(Line(m), p)
      <4>1. MySlot(p)' = m
        <5>1. ticket' = ticket BY <1>5, <2>2 DEF Park, ProducerGoes
        <5> QED BY <3>1, <5>1 DEF MySlot
      <4>2. Line(MySlot(p))' = Line(m)' BY <4>1, LineNext
      <4> QED BY <3>1, <3>2, <4>2
    <3> QED BY <3>1, <3>2, <3>3 DEF LineMoves
  <2> QED BY <2>1, <2>2
<1>6. CASE Emplace(p)
  <2>1. UNCHANGED <<output, flags>> BY <1>6 DEF Emplace
  <2> QED BY <1>6, <2>1, EmplaceKeeps, SameLine
<1>7. CASE Publish(p)
  <2>1. output' = output /\ flags' = [flags EXCEPT ![MySlot(p)] =
                                        [flags[MySlot(p)] EXCEPT !.owner = "data", !.cons = FALSE]]
    BY <1>7 DEF Publish, PublishedFlags
  <2>2. flags[MySlot(p)] \in SlotRecord BY <1>1 DEF SlotTypes
  <2>3. [flags[MySlot(p)] EXCEPT !.owner = "data", !.cons = FALSE].chain = flags[MySlot(p)].chain
    BY <2>2 DEF SlotRecord
  <2>4. \A s \in Slot : flags'[s].chain = flags[s].chain BY <1>1, <2>1, <2>3 DEF SlotTypes
  <2> QED BY <1>7, <2>1, <2>4, PublishKeeps, SameLine
<1>8. CASE ExtractConsumer(p)
  <2>1. UNCHANGED <<output, flags>> BY <1>8 DEF ExtractConsumer
  <2> QED BY <1>8, <2>1, ExtractConsumerKeeps, SameLine
<1>9. CASE WakeConsumer(p)
  <2>1. UNCHANGED <<output, flags>> BY <1>9 DEF WakeConsumer, slots
  <2> QED BY <1>9, <2>1, WakeConsumerKeeps, SameLine
<1> QED BY <1>2, <1>3, <1>4, <1>5, <1>6, <1>7, <1>8, <1>9 DEF ProducerStep

\* A step of the consumer.
LEMMA ConsumerKeeps ==
  ASSUME Going, StartPull \/ ConsumerStep
  PROVE  Going' /\ \A s \in Slot : LineMoves(s)
<1>1. SlotTypes /\ ReadSlot \in Slot BY TypeParts, MySlots DEF Going
<1>2. CASE StartPull \/ LookAgain
  <2>1. UNCHANGED <<output, flags>> BY <1>2 DEF StartPull, LookAgain, Look, slots
  <2> QED BY <1>2, <2>1, LookKeeps, SameLine
<1>3. CASE LoadClosed BY <1>3, LoadClosedKeeps, SameLine DEF LoadClosed, slots
<1>4. CASE LoadCutoff BY <1>4, LoadCutoffKeeps, SameLine DEF LoadCutoff, slots
<1>5. CASE Arm BY <1>5, ArmKeeps, SameLine DEF Arm
<1>6. CASE Confirm
  <2>1. output' = output /\ \A s \in Slot : flags'[s].chain = flags[s].chain
    BY <1>1, <1>6 DEF Confirm, SlotTypes, SlotRecord
  <2> QED BY <1>6, <2>1, ConfirmKeeps, SameLine
<1>7. CASE Disarm BY <1>7, DisarmKeeps, SameLine DEF Disarm
<1>8. CASE Rearm BY <1>8, RearmKeeps, SameLine DEF Rearm, slots
<1>9. CASE PullResume BY <1>9, PullResumeKeeps, SameLine DEF PullResume, slots
<1>10. CASE DestroyValue BY <1>10, DestroyValueKeeps, SameLine DEF DestroyValue
<1>11. CASE DrainAndHandoff
  <2>1. CASE Line(ReadSlot) = <<>> BY <1>11, <2>1, DrainKeeps DEF LineMoves
  <2>2. CASE Line(ReadSlot) # <<>>
    <3>1. PICK m \in Slot : m = ReadSlot /\ Line(m) # <<>> BY <1>1, <2>2
    <3>2. /\ Going'
          /\ Line(m)' = Tail(Line(m)) /\ next' = Head(Line(m))
          /\ \A t \in Slot : t # m => Line(t)' = Line(t)
      BY <1>11, <3>1, HandoffKeeps
    <3> QED BY <3>1, <3>2 DEF LineMoves
  <2> QED BY <2>1, <2>2
<1>12. CASE WakeProducer BY <1>12, WakeProducerKeeps, SameLine DEF WakeProducer, slots
<1> QED BY <1>2, <1>3, <1>4, <1>5, <1>6, <1>7, <1>8, <1>9, <1>10, <1>11, <1>12 DEF ConsumerStep

\* A step of close().
LEMMA CloserKeeps ==
  ASSUME Going, SetClosed \/ CloserStep
  PROVE  Going' /\ \A s \in Slot : LineMoves(s)
<1>1. CASE SetClosed BY <1>1, SetClosedKeeps, SameLine DEF SetClosed, slots
<1>2. CASE DrawCutoff BY <1>2, DrawCutoffKeeps, SameLine DEF DrawCutoff, slots
<1>3. CASE SetReady \/ MarkCutoffSlot
  <2>1. UNCHANGED <<output, flags>> BY <1>3 DEF SetReady, MarkCutoffSlot, slots
  <2> QED BY <1>3, <2>1, SettingsKeep, SameLine
<1>4. CASE PlaceSentinel BY <1>4, PlaceSentinelKeeps DEF LineMoves
<1>5. CASE CloserExtracts \/ CloserWakes
  <2>1. UNCHANGED <<output, flags>> BY <1>5 DEF CloserExtracts, CloserWakes, slots
  <2> QED BY <1>5, <2>1, CloserResumesKeep, SameLine
<1> QED BY <1>1, <1>2, <1>3, <1>4, <1>5 DEF CloserStep

\* A step that leaves every variable as it is.
LEMMA StutterKeeps ==
  ASSUME IInv, UNCHANGED vars
  PROVE  IInv' /\ \A s \in Slot : LineMoves(s)
<1> USE DEF vars, slots, producers, consumer, closer, closing, history
<1>1. IInv'
  <2>1. TypeOK' <=> TypeOK BY DEF TypeOK
  <2>2. Lines' <=> Lines BY DEF Lines, Line, MySlot
  <2>3. Rousing' <=> Rousing BY DEF Rousing, Rouses, CloserRouses, MySlot, ReadSlot, CutoffSlot
  <2>4. Destroyed' <=> Destroyed BY DEF Destroyed
  <2>5. Locks' <=> Locks BY DEF Locks, Holds, Reading, MySlot, ReadSlot
  <2>6. Values' <=> Values BY DEF Values, HasData, MySlot, ReadSlot
  <2>7. Tickets' <=> Tickets BY DEF Tickets, Pending, Age
  <2>8. Accounts' <=> Accounts BY DEF Accounts, HasData, ReadSlot
  <2> QED BY <2>1, <2>2, <2>3, <2>4, <2>5, <2>6, <2>7, <2>8 DEF IInv, Running
<1>2. \A s \in Slot : LineMoves(s) BY DEF LineMoves, Line
<1> QED BY <1>1, <1>2

\* The invariant is inductive, and lines move as they should.
LEMMA StepKeeps ==
  ASSUME IInv, [Next]_vars
  PROVE  IInv' /\ \A s \in Slot : LineMoves(s)
<1>1. CASE UNCHANGED vars BY <1>1, StutterKeeps
<1>2. CASE cpc = "gone" BY <1>2, GoneStays, StutterKeeps DEF IInv
<1>3. CASE cpc # "gone" /\ Next
  <2>1. Going BY <1>3 DEF IInv, Going
  <2>2. Going' => IInv' BY DEF IInv, Going
  <2>3. CASE Destruct BY <2>1, <2>3, DestructKeeps DEF LineMoves
  <2>4. CASE Gone BY <1>3, <2>4 DEF Gone
  <2> QED BY <1>3, <2>1, <2>2, <2>3, <2>4, ProducerKeeps, ConsumerKeeps, CloserKeeps DEF Next
<1> QED BY <1>1, <1>2, <1>3

\* The properties
\* The inductive invariant holds in every reachable state, whatever the set of
\* producers, the capacity and the word size.
THEOREM Invariance == Spec => []IInv
<1>1. IInv /\ [Next]_vars => IInv' BY StepKeeps
<1> QED BY InitHolds, <1>1, PTL DEF Spec

\* The state of the ring has its type.
THEOREM TypeCorrect == Spec => []TypeOK
<1>1. IInv => TypeOK BY DEF IInv
<1> QED BY <1>1, Invariance, PTL

\* The flags are a lock: PROD means one writer and no reader, DATA a value.
THEOREM SlotExclusion == Spec => []SlotIsExclusive
<1>1. IInv => SlotIsExclusive
  <2> SUFFICES ASSUME IInv, cpc # "gone", NEW s \in Slot
               PROVE  /\ flags[s].owner = "prod" <=> Writers(s) # {}
                      /\ \A p, q \in Writers(s) : p = q
                      /\ Reads(s) => flags[s].owner = "data"
                      /\ stored[s] # NoValue <=>
                            \/ flags[s].owner = "data" /\ ~(Reads(s) /\ cpc = "drain")
                            \/ \E p \in Writers(s) : pc[p] = "publish"
                      /\ cpc = "confirm" => ~flags[ReadSlot].cons
    BY DEF SlotIsExclusive
  <2>1. Locks /\ Values /\ Lines /\ Rousing /\ ReadSlot \in Slot
    BY TypeParts, MySlots DEF IInv, Running
  <2>2. \A p : p \in Writers(s) <=> p \in Producers /\ Holds(p) /\ MySlot(p) = s
    BY <2>1 DEF Writers, Holds, Lines
  <2>3. /\ flags[s].owner = "prod" <=> Writers(s) # {}
        /\ \A p, q \in Writers(s) : p = q
    BY <2>1, <2>2 DEF Locks
  <2>4. Reads(s) => flags[s].owner = "data" BY <2>1 DEF Locks, Reads, Reading
  <2>5. HasData(s) <=> flags[s].owner = "data" /\ ~(Reads(s) /\ cpc = "drain")
    BY DEF HasData, Reads
  <2>6. (\E p \in Producers : pc[p] = "publish" /\ MySlot(p) = s)
          <=> \E p \in Writers(s) : pc[p] = "publish"
    <3>1. \A p \in Producers : pc[p] = "publish" => Holds(p) BY DEF Holds
    <3> QED BY <2>2, <3>1, Zenon
  <2>7. stored[s] # NoValue <=> HasData(s) \/ \E p \in Writers(s) : pc[p] = "publish"
    <3>1. ASSUME NEW p \in Producers, pc[p] = "publish", MySlot(p) = s
          PROVE  stored[s] # NoValue
      BY <2>1, <3>1 DEF Values, NoValue
    <3>2. HasData(s) => stored[s] # NoValue BY <2>1 DEF Values
    <3>3. stored[s] # NoValue =>
            HasData(s) \/ \E p \in Producers : pc[p] = "publish" /\ MySlot(p) = s
      BY <2>1 DEF Values
    <3> QED BY <2>6, <3>1, <3>2, <3>3, Zenon
  <2>8. cpc = "confirm" => ~flags[ReadSlot].cons BY <2>1, NobodyRouses
  <2> QED BY <2>3, <2>4, <2>5, <2>7, <2>8
<1> QED BY <1>1, Invariance, PTL

\* A parked producer is in line for its slot, once, and the slot is in use.
THEOREM NobodyForgotten == Spec => []NoProducerForgotten
<1>1. IInv => NoProducerForgotten
  <2> SUFFICES ASSUME IInv, NEW s \in Slot
               PROVE  /\ { p \in Producers : pc[p] = "parked" /\ MySlot(p) = s }
                           = { Line(s)[i] : i \in 1 .. Len(Line(s)) }
                             \cup (IF cpc = "wake" /\ MySlot(next) = s THEN {next} ELSE {})
                      /\ \A i, j \in 1 .. Len(Line(s)) : Line(s)[i] = Line(s)[j] => i = j
                      /\ Line(s) # <<>> => flags[s].owner \in {"prod", "data"}
    BY DEF NoProducerForgotten
  <2>1. Lines /\ SlotTypes BY TypeParts DEF IInv
  <2>2. Line(s) \in Seq(Producers) BY <2>1, ConcatOfEmpty DEF Line, SlotTypes, SlotRecord
  <2>3. \A i \in 1 .. Len(Line(s)) : /\ Line(s)[i] \in Producers
                                     /\ pc[Line(s)[i]] = "parked" /\ MySlot(Line(s)[i]) = s
    BY <2>1, <2>2, ElementOfSeq DEF Lines
  <2>4. cpc = "wake" => next \in Producers /\ pc[next] = "parked" BY <2>1 DEF Lines
  <2>5. ASSUME NEW p \in Producers, pc[p] = "parked", MySlot(p) = s
        PROVE  \/ cpc = "wake" /\ MySlot(next) = s /\ p = next
               \/ \E i \in 1 .. Len(Line(s)) : Line(s)[i] = p
    BY <2>1, <2>5 DEF Lines
  <2>6. { p \in Producers : pc[p] = "parked" /\ MySlot(p) = s }
          = { Line(s)[i] : i \in 1 .. Len(Line(s)) }
            \cup (IF cpc = "wake" /\ MySlot(next) = s THEN {next} ELSE {})
    BY <2>3, <2>4, <2>5
  <2> QED BY <2>1, <2>6 DEF Lines
<1> QED BY <1>1, Invariance, PTL

\* Who parked first is handed the slot first, over all hand-offs and reversals.
THEOREM HandoffInOrder == Spec => HandoffIsFifo
<1>1. IInv /\ [Next]_vars => \A s \in Slot : LineMoves(s) BY StepKeeps
<1>2. (\A s \in Slot : LineMoves(s)) =>
        [\A s \in Slot :
          \/ Line(s)' = Line(s)
          \/ Line(s) # <<>> /\ Line(s)' = Tail(Line(s)) /\ next' = Head(Line(s))
          \/ \E p \in Producers : pc'[p] = "parked" /\ Line(s)' = Append(Line(s), p)]_vars
  BY DEF LineMoves
<1> QED BY <1>1, <1>2, Invariance, PTL DEF Spec, HandoffIsFifo

\* Until the queue is destroyed, what was accepted and not yet delivered is in
\* the slots, and what the consumer holds is one of these values.
THEOREM Delivery == Spec => [](cpc # "gone" => DeliveredOnce)
<1>1. IInv /\ cpc # "gone" => DeliveredOnce
  <2> SUFFICES ASSUME IInv, cpc # "gone"
               PROVE  /\ cpc = "holding" => stored[ReadSlot] \in accepted \ delivered
                      /\ accepted = delivered \cup
                           { stored[s] : s \in { t \in Slot : flags[t].owner = "data"
                                                   /\ ~(cpc = "drain" /\ t = ReadSlot) } }
    BY DEF DeliveredOnce
  <2>1. Locks /\ Values /\ Accounts /\ ReadSlot \in Slot BY TypeParts, MySlots DEF IInv, Running
  <2>2. \A t \in Slot : HasData(t) <=> t \in { u \in Slot : flags[u].owner = "data"
                                                 /\ ~(cpc = "drain" /\ u = ReadSlot) }
    BY DEF HasData
  <2>3. cpc = "holding" => HasData(ReadSlot) BY <2>1 DEF Locks, Reading, HasData
  <2>4. \A t \in Slot : HasData(t) => stored[t] \in accepted \ delivered BY <2>1 DEF Values
  <2>5. /\ delivered \subseteq accepted
        /\ \A v \in accepted : v \in delivered \/ \E t \in Slot : HasData(t) /\ stored[t] = v
    BY <2>1 DEF Accounts
  <2> QED BY <2>1, <2>2, <2>3, <2>4, <2>5
<1> QED BY <1>1, Invariance, PTL

\* A suspended consumer always has somebody who resumes it, and only one: its
\* pointer is armed in the slot it waits for, or exactly one other actor has it.
THEOREM ConsumerAwaited == Spec => []ConsumerIsRoused
<1>1. IInv => ConsumerIsRoused
  <2> SUFFICES ASSUME IInv PROVE ConsumerIsRoused OBVIOUS
  <2> DEFINE rousers == { p \in Producers : pc[p] \in {"extract", "wake"} }
             armed   == { s \in Slot : flags[s].cons }
  <2>1. Rousing /\ ReadSlot \in Slot BY TypeParts, MySlots DEF IInv
  <2>2. /\ \A p \in Producers : p \in rousers <=> Rouses(p)
        /\ \A s \in Slot : s \in armed <=> flags[s].cons
        /\ CloserRouses <=> kpc \in {"extract", "wake"}
    BY DEF Rouses, CloserRouses
  <2>3. cpc = "parked" <=> armed # {} \/ rousers # {} \/ kpc \in {"extract", "wake"}
    BY <2>1, <2>2 DEF Rousing
  <2>4. armed \subseteq {ReadSlot} BY <2>1, <2>2 DEF Rousing
  <2>5. armed # {} => rousers = {} /\ waiting[ReadSlot]
    <3> SUFFICES ASSUME flags[ReadSlot].cons PROVE rousers = {} /\ waiting[ReadSlot] BY <2>4
    <3>1. cpc = "parked" /\ ~CloserRouses /\ \A p \in Producers : ~Rouses(p) BY <2>1 DEF Rousing
    <3>2. waiting[ReadSlot] BY <2>1, <3>1 DEF Rousing, Rouses, CloserRouses
    <3> QED BY <2>2, <3>1, <3>2
  <2>6. rousers # {} => kpc \notin {"extract", "wake"} /\ \A p, q \in rousers : p = q
    BY <2>1, <2>2 DEF Rousing
  <2> QED BY <2>3, <2>4, <2>5, <2>6 DEF ConsumerIsRoused
<1> QED BY <1>1, Invariance, PTL

\* What close() owes everybody, for any set of producers, capacity and
\* word size: CLOSED is said when nothing will come any more, no consumer
\* stays suspended on a queue it has read up to the cutoff, and the
\* destructor finds every value that is left.
\*
\* The tickets of a slot are not served in order, but one is served in
\* each turn that the consumer takes at it.  So the argument counts: the
\* values had from a slot against the offsets that the consumer has passed
\* there, and against the tickets that were drawn.
\* The offsets of slot s among the first n, and those whose values were had.
Turns(s, n) == { t \in Word : SlotOf(t) = s /\ Age(t) < n }
Had(s)      == { t \in Word : SlotOf(t) = s /\ \E v \in delivered : v[2] = t }

\* How many offsets the consumer has passed, a value it has released included.
Passed(s) == Age(read_offset) + (IF cpc = "drain" /\ s = ReadSlot THEN 1 ELSE 0)

\* The cutoff is drawn, and where the tickets that may be used end.
Cut == kpc \notin {"idle", "cut"}
End == IF Cut THEN write_closed_at ELSE write_offset

\* The push of p has compared its ticket with the cutoff, or need not.
Checked(p) == pc[p] \in {"claim", "park", "parked", "emplace", "publish"}

\* A ticket names one push.
Names ==
    /\ \A p, q \in Producers : Pending(p) /\ Pending(q) /\ ticket[p] = ticket[q] => p = q
    /\ \A p \in Producers : Pending(p) => \A v \in accepted : v[2] # ticket[p]
    /\ \A v, w \in accepted : v[2] = w[2] => v = w

\* What is accepted, or may be, comes before the cutoff.
Bounds ==
    /\ Cut => Age(write_closed_at) < Age(write_offset)
    /\ Cut => Age(write_closed_at) <= MaxPush
    /\ \A v \in accepted : Age(v[2]) < Age(End)
    /\ \A p \in Producers : Checked(p) => Age(ticket[p]) < Age(End)
    /\ (closed_ready <=> kpc \in {"mark", "settle", "extract", "wake", "done"})
    /\ (marked <=> kpc \in {"settle", "extract", "wake", "done"})

\* The sentinel is in the cutoff slot, or nowhere, and stays.
Sentinel ==
    /\ \A s \in Slot : flags[s].owner = "closed" =>
          s = CutoffSlot /\ ~flags[s].cons /\ kpc \in {"extract", "wake", "done"}
    /\ cpc \in {"check", "spin"} /\ call.sentinel => flags[ReadSlot].owner = "closed"
    /\ cpc \in {"disarm_closed", "rearm"} => flags[ReadSlot].owner = "closed"

\* At each slot without the sentinel the consumer has had a value a turn.
Counted ==
    /\ Age(read_offset) <= Age(End)
    /\ \A s \in Slot : flags[s].owner # "closed" =>
          Cardinality(Had(s)) = Cardinality(Turns(s, Passed(s)))

\* CLOSED was said, or is about to be, at the cutoff.
Says ==
    /\ told => closed_ready /\ read_offset = write_closed_at /\ cpc \notin {"holding", "drain"}
    /\ CloserRouses \/ cpc = "resume_closed" => closed_ready /\ read_offset = write_closed_at
    /\ cpc \in {"confirm", "parked"} => waiting_idx[ReadSlot] = read_offset

\* A consumer that suspends at the cutoff without knowing it is found by close().
Settling == flags[CutoffSlot].owner = "closed" \/ (kpc = "settle" /\ ~LeaveAlone(snapshot))
Settles ==
    marked /\ can_suspend /\ read_offset = write_closed_at
           /\ (cpc \in {"arm", "confirm", "parked"} \/ (cpc = "check" /\ ~sees_closed))
      => Settling

Cutting == Names /\ Bounds /\ Sentinel /\ Counted /\ Says /\ Settles

\* After the destructor.
Emptied == (told => accepted = delivered) /\ \A s \in Slot : stored[s] = NoValue

CInv == IF cpc = "gone" THEN Emptied ELSE Cutting

\* Offsets and turns
\* What the age of an offset is, without %.
LEMMA AgeCases ==
  /\ WordMod \in Nat /\ WordMod > 1 /\ FirstTicket \in 0 .. WordMod - 1
  /\ MaxPush \in Nat /\ 2 * MaxPush < WordMod
  /\ Word = 0 .. WordMod - 1
  /\ \A t \in Word :
        Age(t) = IF t >= FirstTicket THEN t - FirstTicket ELSE t - FirstTicket + WordMod
<1>1. /\ WordMod \in Nat /\ WordMod > 1 /\ FirstTicket \in 0 .. WordMod - 1
      /\ MaxPush \in Nat /\ 2 * MaxPush < WordMod /\ Word = 0 .. WordMod - 1
  BY WordAssumption, CapacityAssumption, BoundAssumption DEF Word
<1> QED BY <1>1 DEF Age

\* Offsets differ in age.
LEMMA AgeNames == \A t, u \in Word : Age(t) = Age(u) => t = u
  BY AgeCases

\* An offset that is k later is k older.
LEMMA LaterAge ==
  ASSUME NEW t \in Word, NEW k \in Nat, Age(t) + k < WordMod
  PROVE  Plus(t, k) \in Word /\ Age(Plus(t, k)) = Age(t) + k
<1>1. Plus(t, k) = IF t + k < WordMod THEN t + k ELSE t + k - WordMod
  <2>1. /\ WordMod \in Nat /\ WordMod > 1 /\ t \in 0 .. WordMod - 1 /\ k \in 0 .. WordMod - 1
    BY AgeCases
  <2> QED BY <2>1 DEF Plus
<1> QED BY <1>1, AgeCases

\* circular_less_than compares ages, those of the tickets that can be drawn.
LEMMA LessIsEarlier ==
  ASSUME NEW t \in Word, NEW u \in Word, Age(t) <= MaxPush, Age(u) <= MaxPush
  PROVE  CircularLess(t, u) <=> Age(t) < Age(u)
<1>1. /\ WordMod \in Nat /\ t \in 0 .. WordMod - 1 /\ u \in 0 .. WordMod - 1
      /\ MaxPush \in Nat /\ 2 * MaxPush < WordMod
  BY AgeCases
<1>2. (t - u) % WordMod = IF t >= u THEN t - u ELSE t - u + WordMod BY <1>1
<1>3. CircularLess(t, u) <=> 2 * (IF t >= u THEN t - u ELSE t - u + WordMod) > WordMod
  BY <1>2 DEF CircularLess
<1>4. /\ FirstTicket \in 0 .. WordMod - 1
      /\ Age(t) = IF t >= FirstTicket THEN t - FirstTicket ELSE t - FirstTicket + WordMod
      /\ Age(u) = IF u >= FirstTicket THEN u - FirstTicket ELSE u - FirstTicket + WordMod
  BY AgeCases
<1> QED BY <1>1, <1>3, <1>4

\* There are finitely many turns.
LEMMA TurnsFinite ==
  /\ IsFiniteSet(Word)
  /\ \A s, n : /\ Turns(s, n) \subseteq Word /\ IsFiniteSet(Turns(s, n))
               /\ Cardinality(Turns(s, n)) \in Nat
  /\ \A s : Had(s) \subseteq Word /\ IsFiniteSet(Had(s)) /\ Cardinality(Had(s)) \in Nat
<1>1. IsFiniteSet(Word) BY FS_Interval, AgeCases
<1>2. \A S \in SUBSET Word : IsFiniteSet(S) /\ Cardinality(S) \in Nat
  BY <1>1, FS_Subset, FS_CardinalityType
<1>3. \A s, n : Turns(s, n) \in SUBSET Word BY DEF Turns
<1>4. \A s : Had(s) \in SUBSET Word BY DEF Had
<1> QED BY <1>1, <1>2, <1>3, <1>4

\* Passing an offset is one turn more at its slot, and none at another one.
LEMMA TurnsGrow ==
  ASSUME NEW t \in Word, NEW s
  PROVE  /\ SlotOf(t) = s =>
              Cardinality(Turns(s, Age(t) + 1)) = Cardinality(Turns(s, Age(t))) + 1
         /\ SlotOf(t) # s => Turns(s, Age(t) + 1) = Turns(s, Age(t))
<1>1. \A u \in Word : Age(u) \in Nat /\ (Age(u) < Age(t) + 1 <=> Age(u) < Age(t) \/ u = t)
  BY Ages, AgeNames
<1>2. CASE SlotOf(t) = s
  <2>1. Turns(s, Age(t) + 1) = Turns(s, Age(t)) \cup {t} /\ t \notin Turns(s, Age(t))
    BY <1>1, <1>2 DEF Turns
  <2> QED BY <2>1, <1>2, TurnsFinite, FS_AddElement
<1>3. CASE SlotOf(t) # s BY <1>1, <1>3 DEF Turns
<1> QED BY <1>2, <1>3

\* A set of offsets that lacks one of a larger set has fewer.
LEMMA FewerAreHad ==
  ASSUME NEW S \in SUBSET Word, NEW T \in SUBSET Word, T \subseteq S, NEW a \in S \ T
  PROVE  Cardinality(T) < Cardinality(S)
<1>1. IsFiniteSet(S) /\ Cardinality(S) \in Nat BY TurnsFinite, FS_Subset, FS_CardinalityType
<1>2. IsFiniteSet(T) /\ Cardinality(T) \in Nat /\ Cardinality(T) <= Cardinality(S)
      /\ (Cardinality(S) = Cardinality(T) => S = T)
  BY <1>1, FS_Subset, FS_CardinalityType
<1> QED BY <1>1, <1>2

\* How far the consumer is
\* The numbers and words that the argument is about.
LEMMA Numbers ==
  ASSUME Going
  PROVE  /\ read_offset \in Word /\ write_closed_at \in Word /\ write_offset \in Word
         /\ End \in Word /\ ReadSlot \in Slot /\ CutoffSlot \in Slot
         /\ \A t \in Word : Age(t) \in Nat
         /\ \A s : Passed(s) \in Nat /\ Passed(s) >= Age(read_offset)
         /\ \A v \in accepted : v \in Value /\ v[2] \in Word /\ v[1] \in Producers
         /\ \A p \in Producers : ticket[p] \in Word /\ MySlot(p) \in Slot
         /\ delivered \subseteq accepted
<1>1. /\ ProducerTypes /\ ConsumerTypes /\ CloserTypes /\ HistoryTypes
      /\ delivered \subseteq accepted
  BY TypeParts DEF Going, Running, Accounts
<1>2. /\ read_offset \in Word /\ write_closed_at \in Word /\ write_offset \in Word
      /\ \A p \in Producers : ticket[p] \in Word
  BY <1>1 DEF ProducerTypes, ConsumerTypes, CloserTypes
<1>3. \A t \in Word : Age(t) \in Nat BY Ages
<1>4. \A s : Passed(s) \in Nat /\ Passed(s) >= Age(read_offset) BY <1>2, <1>3 DEF Passed
<1>5. \A v \in accepted : v \in Value /\ v[2] \in Word /\ v[1] \in Producers
  BY <1>1 DEF HistoryTypes, Value
<1> QED BY <1>1, <1>2, <1>3, <1>4, <1>5, MySlots DEF End

\* What the consumer has had came before the end.
LEMMA HadEarly ==
  ASSUME Going, Cutting
  PROVE  \A s : Had(s) \subseteq Turns(s, Age(End))
  BY Numbers DEF Cutting, Bounds, Had, Turns

\* While a turn before n was not had, one of these turns is still to come.
LEMMA Behind ==
  ASSUME Going, Counted, NEW s \in Slot, flags[s].owner # "closed", NEW n,
         Had(s) \subseteq Turns(s, n), NEW a \in Turns(s, n), a \notin Had(s)
  PROVE  \E b \in Turns(s, n) : Age(b) >= Passed(s)
<1> SUFFICES ASSUME \A b \in Turns(s, n) : ~(Age(b) >= Passed(s))
             PROVE  FALSE
  OBVIOUS
<1>1. /\ Passed(s) \in Nat /\ \A t \in Word : Age(t) \in Nat
      /\ Turns(s, n) \subseteq Word /\ Turns(s, Passed(s)) \subseteq Word
      /\ Had(s) \subseteq Word
      /\ Cardinality(Had(s)) \in Nat /\ Cardinality(Turns(s, Passed(s))) \in Nat
  BY Numbers, TurnsFinite
<1>2. Turns(s, n) \subseteq Turns(s, Passed(s)) BY <1>1 DEF Turns
<1>3. Had(s) \subseteq Turns(s, Passed(s)) /\ a \in Turns(s, Passed(s)) \ Had(s) BY <1>2
<1>4. Cardinality(Had(s)) < Cardinality(Turns(s, Passed(s))) BY <1>1, <1>3, FewerAreHad
<1>5. Cardinality(Had(s)) = Cardinality(Turns(s, Passed(s))) BY DEF Counted
<1> QED BY <1>1, <1>4, <1>5

\* A turn that was not had is not one of the turns passed.
LEMMA NotHad ==
  ASSUME Going, Cutting, NEW s \in Slot, flags[s].owner # "closed",
         NEW a \in Word, SlotOf(a) = s, Age(a) < Age(End), a \notin Had(s)
  PROVE  Age(read_offset) < Age(End)
<1>1. a \in Turns(s, Age(End)) BY DEF Turns
<1>2. PICK b \in Turns(s, Age(End)) : Age(b) >= Passed(s) BY <1>1, HadEarly, Behind DEF Cutting
<1>3. b \in Word /\ Age(b) < Age(End) BY DEF Turns
<1> QED BY <1>2, <1>3, Numbers

\* A value that the consumer has not had, by its ticket.
LEMMA NewTicket ==
  ASSUME Going, Cutting, NEW v \in accepted, v \notin delivered
  PROVE  v[2] \notin Had(SlotOf(v[2]))
  BY Numbers DEF Had, Cutting, Names

\* The consumer is at a value only before the end.
LEMMA DataAhead ==
  ASSUME Going, Cutting, flags[ReadSlot].owner = "data"
  PROVE  Age(read_offset) < Age(End)
<1> DEFINE s == ReadSlot
<1>1. s \in Slot /\ flags[s].owner # "closed" /\ read_offset \in Word /\ End \in Word
      /\ Age(read_offset) \in Nat /\ Age(End) \in Nat
  BY Numbers
<1>2. CASE HasData(s)
  <2>1. /\ SlotOf(stored[s][2]) = s /\ stored[s] \in accepted /\ stored[s] \notin delivered
    BY <1>1, <1>2 DEF Going, Running, Values
  <2>2. /\ stored[s][2] \in Word /\ Age(stored[s][2]) < Age(End)
    BY <2>1, Numbers DEF Cutting, Bounds
  <2>3. stored[s][2] \notin Had(s) BY <2>1, NewTicket
  <2> QED BY <1>1, <2>1, <2>2, <2>3, NotHad
<1>3. CASE cpc = "drain"
  <2>1. Age(read_offset) <= Age(End) BY DEF Cutting, Counted
  <2> SUFFICES ASSUME Age(read_offset) = Age(End)
               PROVE  FALSE
    BY <1>1, <2>1
  <2>2. Had(s) \subseteq Turns(s, Age(read_offset)) BY HadEarly
  <2>3. Cardinality(Had(s)) = Cardinality(Turns(s, Age(read_offset) + 1))
    BY <1>1, <1>3 DEF Cutting, Counted, Passed
  <2>4. Cardinality(Turns(s, Age(read_offset) + 1)) = Cardinality(Turns(s, Age(read_offset))) + 1
    BY <1>1, TurnsGrow DEF ReadSlot
  <2>5. Cardinality(Had(s)) <= Cardinality(Turns(s, Age(read_offset)))
    BY <2>2, TurnsFinite, FS_Subset
  <2> QED BY <2>3, <2>4, <2>5, TurnsFinite
<1> QED BY <1>2, <1>3 DEF HasData

\* Offsets with an age below the bound, and how they compare.
LEMMA Comparable ==
  ASSUME Going, Cutting, Cut
  PROVE  /\ Age(read_offset) <= MaxPush /\ Age(write_closed_at) <= MaxPush
         /\ \A p \in Producers : Pending(p) => Age(ticket[p]) <= MaxPush
         /\ \A p \in Producers : Pending(p) =>
              (CircularLess(ticket[p], write_closed_at) <=> Age(ticket[p]) < Age(write_closed_at))
         /\ ReachedCutoff <=> read_offset = write_closed_at
         /\ Age(read_offset) <= Age(write_closed_at)
<1>1. MaxPush \in Nat BY AgeCases
<1>2. Age(read_offset) <= Age(write_closed_at) /\ Age(write_closed_at) <= MaxPush
  BY DEF Cutting, Counted, Bounds, End
<1>3. Age(read_offset) <= MaxPush BY <1>1, <1>2, Numbers
<1>4. \A p \in Producers : Pending(p) => Age(ticket[p]) <= MaxPush
  <2> SUFFICES ASSUME NEW p \in Producers, Pending(p)
               PROVE  Age(ticket[p]) <= MaxPush
    OBVIOUS
  <2>1. Age(ticket[p]) < Age(write_offset) /\ Age(write_offset) <= MaxPush + 1
    <3>1. Age(write_offset) <= MaxPush + (IF closed /\ kpc # "cut" THEN 1 ELSE 0)
          /\ Age(ticket[p]) < Age(write_offset)
      BY DEF Going, Running, Tickets
    <3>2. Age(write_offset) \in Nat BY Numbers
    <3> QED BY <1>1, <3>1, <3>2
  <2>2. Age(ticket[p]) \in Nat /\ Age(write_offset) \in Nat BY Numbers
  <2> QED BY <1>1, <2>1, <2>2
<1>5. \A p \in Producers : Pending(p) =>
        (CircularLess(ticket[p], write_closed_at) <=> Age(ticket[p]) < Age(write_closed_at))
  BY <1>2, <1>4, Numbers, LessIsEarlier
<1>6. CircularLess(read_offset, write_closed_at) <=> Age(read_offset) < Age(write_closed_at)
  BY <1>2, <1>3, Numbers, LessIsEarlier
<1>7. ~(Age(read_offset) < Age(write_closed_at)) <=> read_offset = write_closed_at
  BY <1>2, Numbers, AgeNames
<1> QED BY <1>2, <1>3, <1>4, <1>5, <1>6, <1>7 DEF ReachedCutoff

\* At the cutoff a slot without the sentinel is done with: all its values were
\* had, nobody will push there, and nobody has it.
LEMMA AtCutoff ==
  ASSUME Going, Cutting, Cut, read_offset = write_closed_at,
         NEW s \in Slot, flags[s].owner # "closed"
  PROVE  /\ \A v \in accepted : SlotOf(v[2]) = s => v \in delivered
         /\ \A p \in Producers : Pending(p) /\ Age(ticket[p]) < Age(write_closed_at)
              => MySlot(p) # s
         /\ flags[s].owner = "none"
<1>0. End = write_closed_at /\ ~(Age(read_offset) < Age(End)) BY Numbers DEF End
<1>1. \A v \in accepted : SlotOf(v[2]) = s => v \in delivered
  BY <1>0, Numbers, NewTicket, NotHad DEF Cutting, Bounds
<1>2. \A p \in Producers : Pending(p) /\ Age(ticket[p]) < Age(write_closed_at) => MySlot(p) # s
  <2> SUFFICES ASSUME NEW p \in Producers, Pending(p), Age(ticket[p]) < Age(write_closed_at),
                      MySlot(p) = s
               PROVE  FALSE
    OBVIOUS
  <2>1. ticket[p] \notin Had(s) BY Numbers DEF Had, Cutting, Names
  <2> QED BY <1>0, <2>1, NotHad, Numbers DEF MySlot
<1>3. flags[s].owner # "prod"
  <2> SUFFICES ASSUME flags[s].owner = "prod"
               PROVE  FALSE
    OBVIOUS
  <2>1. PICK p \in Producers : Holds(p) /\ MySlot(p) = s BY DEF Going, Running, Locks
  <2>2. Pending(p) /\ Checked(p) BY <2>1 DEF Holds, Pending, Checked, Going, Lines
  <2> QED BY <1>0, <1>2, <2>1, <2>2 DEF Cutting, Bounds
<1>4. flags[s].owner # "data"
  <2> SUFFICES ASSUME flags[s].owner = "data"
               PROVE  FALSE
    OBVIOUS
  <2>1. CASE HasData(s) BY <1>1, <2>1 DEF Going, Running, Values
  <2>2. CASE s = ReadSlot BY <1>0, <2>2, DataAhead
  <2> QED BY <2>1, <2>2 DEF HasData
<1>5. flags[s].owner \in Owner BY TypeParts DEF Going, SlotTypes, SlotRecord
<1> QED BY <1>1, <1>2, <1>3, <1>4, <1>5 DEF Owner

\* What each actor leaves alone
\* A step of producer p.  It draws a ticket before the cutoff of the model, it
\* checks the ticket it has, or publishes a value that it had checked.
ProducerFrame(p) ==
    /\ UNCHANGED <<closing, closer, delivered, read_offset, told, call, sees_closed, waiting_idx,
                   can_suspend>>
    /\ \A q \in Producers : q # p => pc'[q] = pc[q] /\ ticket'[q] = ticket[q]
    /\ cpc' = cpc \/ (cpc = "parked" /\ cpc' = "resume")
    /\ \A s \in Slot : /\ flags'[s].owner = "closed" <=> flags[s].owner = "closed"
                       /\ flags'[s].cons => flags[s].cons
    /\ \/ /\ write_offset' = Plus(write_offset, 1) /\ Age(write_offset) < MaxPush
          /\ ticket'[p] = write_offset /\ ~Checked(p)' /\ accepted' = accepted
       \/ /\ write_offset' = write_offset
          /\ Pending(p)' => Pending(p) /\ ticket'[p] = ticket[p] /\ accepted' = accepted
          /\ Checked(p)' => Age(ticket[p]) < Age(End)
          /\ \/ accepted' = accepted
             \/ Checked(p) /\ accepted' = accepted \cup {<<p, ticket[p]>>}

\* A step of the consumer.
ConsumerFrame ==
    /\ UNCHANGED <<closing, closer, write_offset, accepted, ticket, can_suspend>>
    /\ \A q \in Producers : (Pending(q)' <=> Pending(q)) /\ (Checked(q)' <=> Checked(q))
    /\ \A s \in Slot : /\ flags'[s].owner = "closed" <=> flags[s].owner = "closed"
                       /\ flags[s].owner = "closed" /\ flags'[s].cons => flags[s].cons

\* A step of close().
CloserFrame ==
    /\ UNCHANGED <<producers, history, read_offset, told, call, sees_closed, waiting_idx,
                   can_suspend>>
    /\ cpc' = cpc \/ (cpc = "parked" /\ cpc' = "resume_closed" /\ CloserRouses)

\* The frame of a producer's step that does not draw, check or publish.
LEMMA SimpleFrame ==
  ASSUME Going, Cutting, NEW p \in Producers, NEW l \in ProducerPc, ProducerGoes(p, l),
         UNCHANGED <<closing, closer, history, read_offset, told, call, sees_closed, waiting_idx,
                     write_offset, can_suspend>>,
         cpc' = cpc \/ (cpc = "parked" /\ cpc' = "resume"),
         \A s \in Slot : /\ flags'[s].owner = "closed" <=> flags[s].owner = "closed"
                         /\ flags'[s].cons => flags[s].cons,
         l \in {"idle", "extract", "wake"} \/ Pending(p),
         l \in {"claim", "park", "parked", "emplace", "publish"} => Age(ticket[p]) < Age(End)
  PROVE  ProducerFrame(p)
<1>1. pc \in [Producers -> ProducerPc] /\ ticket \in [Producers -> Word]
  BY TypeParts DEF Going, ProducerTypes
<1>2. /\ pc'[p] = l
      /\ \A q \in Producers : q # p => pc'[q] = pc[q] /\ ticket'[q] = ticket[q]
      /\ l # "idle" => ticket' = ticket
  BY <1>1 DEF ProducerGoes
<1>3. Pending(p)' => Pending(p) /\ ticket'[p] = ticket[p] BY <1>2 DEF Pending
<1>4. Checked(p)' => Age(ticket[p]) < Age(End) BY <1>2 DEF Checked
<1> QED BY <1>2, <1>3, <1>4, Zenon DEF ProducerFrame, history

\* Producers keep to their frame.
LEMMA ProducerFrames ==
  ASSUME Going, Cutting, NEW p \in Producers, TakeTicket(p) \/ ProducerStep(p)
  PROVE  ProducerFrame(p)
<1>1. /\ SlotTypes /\ ProducerTypes /\ MySlot(p) \in Slot /\ Rousing /\ Locks
  BY TypeParts, MySlots DEF Going, Running
<1>2. PICK s \in Slot : s = MySlot(p) BY <1>1
<1>3. /\ pc \in [Producers -> ProducerPc] /\ ticket \in [Producers -> Word]
      /\ flags \in [Slot -> SlotRecord]
  BY <1>1 DEF ProducerTypes, SlotTypes
<1>4. Checked(p) => Pending(p) /\ Age(ticket[p]) < Age(End)
  BY DEF Checked, Pending, Cutting, Bounds
<1>5. CASE TakeTicket(p)
  <2>1. /\ Age(write_offset) < MaxPush /\ write_offset' = Plus(write_offset, 1)
        /\ ticket'[p] = write_offset /\ pc'[p] = "check"
        /\ \A q \in Producers : q # p => pc'[q] = pc[q] /\ ticket'[q] = ticket[q]
        /\ UNCHANGED <<slots, closing, consumer, closer, history, can_suspend>>
    BY <1>3, <1>5 DEF TakeTicket, Age
  <2>2. ~Checked(p)' BY <2>1 DEF Checked
  <2> QED BY <2>1, <2>2, Zenon DEF ProducerFrame, slots, consumer, history
<1>6. CASE CheckClosed(p)
  <2>1. PICK l \in {"claim", "spin"} :
           /\ ProducerGoes(p, l) /\ pc[p] = "check" /\ (l = "claim" => ~MustSeeClosed(p))
           /\ UNCHANGED <<slots, write_offset, closing, consumer, closer, history, can_suspend>>
    BY <1>6 DEF CheckClosed
  <2>2. Pending(p) /\ Age(ticket[p]) < Age(write_offset)
    BY <2>1 DEF Pending, Going, Running, Tickets
  <2>3. l = "claim" => Age(ticket[p]) < Age(End)
    BY <2>1, <2>2, Comparable DEF MustSeeClosed, Cut, End
  <2>4. l \in ProducerPc BY DEF ProducerPc
  <2> QED BY <2>1, <2>2, <2>3, <2>4, SimpleFrame DEF slots, consumer
<1>7. CASE CompareCutoff(p)
  <2>1. PICK l \in {"claim", "idle"} :
           /\ ProducerGoes(p, l) /\ pc[p] = "spin" /\ closed_ready
           /\ l = "claim" => CircularLess(ticket[p], write_closed_at)
           /\ UNCHANGED <<slots, write_offset, closing, consumer, closer, history, can_suspend>>
    BY <1>7 DEF CompareCutoff
  <2>2. Cut /\ Pending(p) BY <2>1 DEF Pending, Cutting, Bounds, Cut
  <2>3. l = "claim" => Age(ticket[p]) < Age(End) BY <2>1, <2>2, Comparable DEF End
  <2>4. l \in ProducerPc BY DEF ProducerPc
  <2> QED BY <2>1, <2>2, <2>3, <2>4, SimpleFrame DEF slots, consumer
<1>8. CASE TryClaim(p)
  <2>1. PICK l \in {"emplace", "idle", "park"} :
           /\ ProducerGoes(p, l) /\ pc[p] = "claim"
           /\ \/ flags' = flags
              \/ flags[s].owner = "none" /\ flags' = [flags EXCEPT ![s].owner = "prod"]
           /\ UNCHANGED <<waiting_idx, write_offset, closing, consumer, closer, history,
                          can_suspend>>
    BY <1>2, <1>8 DEF TryClaim, Claimable
  <2>2. /\ l \in ProducerPc /\ Checked(p)
        /\ \A t \in Slot : /\ flags'[t].owner = "closed" <=> flags[t].owner = "closed"
                           /\ flags'[t].cons => flags[t].cons
    BY <1>3, <2>1 DEF ProducerPc, Checked, SlotRecord
  <2> QED BY <1>4, <2>1, <2>2, SimpleFrame DEF consumer
<1>9. CASE Park(p)
  <2>1. PICK l \in {"idle", "claim", "parked"} :
           /\ ProducerGoes(p, l) /\ pc[p] = "park"
           /\ \/ flags' = flags
              \/ flags' = [flags EXCEPT ![s] = ParkedOn(p, flags[s])]
           /\ UNCHANGED <<waiting_idx, write_offset, closing, consumer, closer, history,
                          can_suspend>>
    BY <1>2, <1>9 DEF Park
  <2>2. /\ ParkedOn(p, flags[s]).owner = flags[s].owner
        /\ ParkedOn(p, flags[s]).cons = flags[s].cons
    BY <1>3 DEF ParkedOn, SlotRecord
  <2>3. /\ l \in ProducerPc /\ Checked(p)
        /\ \A t \in Slot : /\ flags'[t].owner = "closed" <=> flags[t].owner = "closed"
                           /\ flags'[t].cons => flags[t].cons
    BY <1>3, <2>1, <2>2 DEF ProducerPc, Checked
  <2> QED BY <1>4, <2>1, <2>3, SimpleFrame DEF consumer
<1>10. CASE Emplace(p)
  <2>1. /\ pc[p] = "emplace" /\ ProducerGoes(p, "publish") /\ "publish" \in ProducerPc
        /\ UNCHANGED <<flags, waiting_idx, write_offset, closing, consumer, closer, history,
                       can_suspend>>
    BY <1>10 DEF Emplace, ProducerPc
  <2>2. Checked(p) BY <2>1 DEF Checked
  <2> QED BY <1>4, <2>1, <2>2, SimpleFrame DEF consumer
<1>11. CASE Publish(p)
  <2>1. PICK l \in {"extract", "idle"} :
           /\ ProducerGoes(p, l) /\ pc[p] = "publish"
           /\ flags' = [flags EXCEPT ![s] = PublishedFlags(flags[s])]
           /\ accepted' = accepted \cup {<<p, ticket[p]>>} /\ delivered' = delivered
           /\ UNCHANGED <<waiting_idx, write_offset, closing, consumer, closer, can_suspend>>
    BY <1>2, <1>11 DEF Publish
  <2>2. flags[s].owner = "prod" BY <1>1, <1>2, <2>1 DEF Locks, Holds
  <2>3. PublishedFlags(flags[s]).owner = "data" /\ ~PublishedFlags(flags[s]).cons
    <3>1. flags[s] \in [owner : Owner, cons : BOOLEAN, chain : Seq(Producers)]
      BY <1>3 DEF SlotRecord
    <3> QED BY <3>1 DEF PublishedFlags
  <2>4. \A t \in Slot : /\ flags'[t].owner = "closed" <=> flags[t].owner = "closed"
                        /\ flags'[t].cons => flags[t].cons
    BY <1>3, <2>1, <2>2, <2>3
  <2>5. /\ pc'[p] = l
        /\ \A q \in Producers : q # p => pc'[q] = pc[q] /\ ticket'[q] = ticket[q]
    BY <1>3, <2>1 DEF ProducerGoes
  <2>6. ~Pending(p)' /\ ~Checked(p)' /\ Checked(p) BY <2>1, <2>5 DEF Pending, Checked
  <2> QED BY <2>1, <2>4, <2>5, <2>6, Zenon DEF ProducerFrame, consumer
<1>12. CASE ExtractConsumer(p)
  <2>1. PICK l \in {"wake", "idle"} :
           /\ ProducerGoes(p, l)
           /\ UNCHANGED <<flags, waiting_idx, write_offset, closing, consumer, closer, history,
                          can_suspend>>
    BY <1>12 DEF ExtractConsumer
  <2>2. l \in ProducerPc BY DEF ProducerPc
  <2> QED BY <2>1, <2>2, SimpleFrame DEF consumer
<1>13. CASE WakeConsumer(p)
  <2>1. /\ ProducerGoes(p, "idle") /\ "idle" \in ProducerPc /\ cpc' = "resume" /\ pc[p] = "wake"
        /\ UNCHANGED <<slots, write_offset, closing, call, told, read_offset, sees_closed, closer,
                       history, can_suspend>>
    BY <1>13 DEF WakeConsumer, ProducerPc
  <2>2. cpc = "parked" BY <1>1, <2>1 DEF Rousing, Rouses
  <2> QED BY <2>1, <2>2, SimpleFrame DEF slots
<1> QED BY <1>5, <1>6, <1>7, <1>8, <1>9, <1>10, <1>11, <1>12, <1>13 DEF ProducerStep

\* The consumer keeps to its frame.
LEMMA ConsumerFrames ==
  ASSUME Going, StartPull \/ ConsumerStep
  PROVE  ConsumerFrame
<1>1. /\ SlotTypes /\ ProducerTypes /\ ReadSlot \in Slot /\ Locks /\ Lines
  BY TypeParts, MySlots DEF Going, Running
<1>2. PICK s \in Slot : s = ReadSlot BY <1>1
<1>3. flags \in [Slot -> SlotRecord] BY <1>1 DEF SlotTypes
<1> USE DEF ConsumerFrame, Pending, Checked
<1>4. CASE StartPull \/ LookAgain
  <2>1. UNCHANGED <<slots, write_offset, closing, producers, closer, history, can_suspend>>
    BY <1>4 DEF StartPull, LookAgain, Look
  <2> QED BY <2>1 DEF slots, producers, history
<1>5. CASE LoadClosed \/ LoadCutoff \/ Rearm \/ PullResume
  BY <1>5 DEF LoadClosed, LoadCutoff, Rearm, PullResume, slots, producers, history
<1>6. CASE Arm \/ Disarm \/ DestroyValue
  BY <1>6 DEF Arm, Disarm, DestroyValue, producers, history
<1>7. CASE Confirm
  <2>1. \A t \in Slot : /\ flags'[t].owner = flags[t].owner
                        /\ flags[t].owner = "closed" => flags'[t] = flags[t]
    BY <1>2, <1>3, <1>7 DEF Confirm, SlotRecord
  <2> QED BY <1>7, <2>1 DEF Confirm, producers, history
<1>8. CASE DrainAndHandoff
  <2>1. PICK f \in {Free, HandedFlags(s)} : flags' = [flags EXCEPT ![s] = f]
    BY <1>2, <1>8 DEF DrainAndHandoff
  <2>2. f.owner # "closed"
    <3>1. /\ Free \in [owner : {"none"}, cons : {FALSE}, chain : {<<>>}]
          /\ Free.owner = "none"
      BY DEF Free
    <3>2. HandedFlags(s).owner = "prod" BY <3>1, Zenon DEF HandedFlags, Free
    <3> QED BY <3>1, <3>2
  <2>3. flags[s].owner = "data" BY <1>1, <1>2, <1>8 DEF DrainAndHandoff, Locks, Reading
  <2>4. \A t \in Slot : /\ flags'[t].owner = "closed" <=> flags[t].owner = "closed"
                        /\ flags[t].owner = "closed" => flags'[t] = flags[t]
    BY <1>3, <2>1, <2>2, <2>3
  <2> QED BY <1>8, <2>4 DEF DrainAndHandoff, producers, history
<1>9. CASE WakeProducer
  <2>1. pc[next] = "parked" /\ pc' = [pc EXCEPT ![next] = "emplace"] /\ ticket' = ticket
    BY <1>1, <1>9 DEF WakeProducer, ProducerGoes, Lines
  <2>2. \A q \in Producers : (Pending(q)' <=> Pending(q)) /\ (Checked(q)' <=> Checked(q))
    BY <1>1, <2>1 DEF ProducerTypes
  <2> QED BY <1>9, <2>1, <2>2 DEF WakeProducer, slots, history
<1> QED BY <1>4, <1>5, <1>6, <1>7, <1>8, <1>9 DEF ConsumerStep

\* close() keeps to its frame.
LEMMA CloserFrames ==
  ASSUME Going, SetClosed \/ CloserStep
  PROVE  CloserFrame
<1>1. Rousing BY DEF Going
<1>2. CloserWakes => cpc = "parked" /\ CloserRouses
  BY <1>1 DEF Rousing, CloserRouses, CloserWakes
<1> QED
  BY <1>2 DEF CloserFrame, CloserStep, SetClosed, DrawCutoff, SetReady, MarkCutoffSlot,
              PlaceSentinel, CloserExtracts, CloserWakes, slots, consumer, producers, history

\* Each part of the invariant, over a producer's step
\* The parts and the lock facts that they are used with.
LEMMA Parts ==
  ASSUME Going, Cutting
  PROVE  /\ Names /\ Bounds /\ Sentinel /\ Counted /\ Says /\ Settles
         /\ SlotTypes /\ ProducerTypes /\ ConsumerTypes /\ CloserTypes /\ HistoryTypes
         /\ Rousing /\ Lines /\ Locks /\ Values /\ Tickets /\ Accounts
  BY TypeParts DEF Going, Cutting, Running

\* A producer keeps or draws its ticket, or publishes a value under it.
LEMMA NamesAfterProducer ==
  ASSUME Going, Cutting, NEW p \in Producers, ProducerFrame(p)
  PROVE  Names'
<1>1. Names /\ \A q \in Producers : q # p => (Pending(q)' <=> Pending(q)) /\ ticket'[q] = ticket[q]
  BY Parts DEF ProducerFrame, Pending
<1>2. /\ \A q \in Producers : Pending(q) => ticket[q] # write_offset
      /\ \A v \in accepted : v[2] # write_offset
  <2>1. /\ \A q \in Producers : Pending(q) => Age(ticket[q]) < Age(write_offset)
        /\ \A v \in accepted : Age(v[2]) < Age(write_offset)
    BY Parts DEF Tickets
  <2>2. Age(write_offset) \in Nat BY Numbers
  <2> QED BY <2>1, <2>2
<1>3. CASE ticket'[p] = write_offset /\ accepted' = accepted BY <1>1, <1>2, <1>3 DEF Names
<1>4. CASE /\ Pending(p)' => Pending(p) /\ ticket'[p] = ticket[p]
           /\ accepted' = accepted
  BY <1>1, <1>4 DEF Names
<1>5. CASE ~Pending(p)' /\ Checked(p) /\ accepted' = accepted \cup {<<p, ticket[p]>>}
  <2>1. Pending(p) /\ <<p, ticket[p]>>[2] = ticket[p] BY <1>5 DEF Pending, Checked
  <2> QED BY <1>1, <1>5, <2>1 DEF Names
<1> QED BY <1>3, <1>4, <1>5 DEF ProducerFrame

\* The end moves on with write_offset until the cutoff is drawn.
LEMMA BoundsAfterProducer ==
  ASSUME Going, Cutting, NEW p \in Producers, ProducerFrame(p)
  PROVE  Bounds' /\ Age(End') >= Age(End)
<1>1. /\ Bounds /\ Age(End) \in Nat /\ Age(write_offset) \in Nat
      /\ UNCHANGED <<closed_ready, write_closed_at, kpc, marked>>
  BY Parts, Numbers DEF ProducerFrame, closing, closer
<1>2. Cut' <=> Cut BY <1>1 DEF Cut
<1>3. Age(write_offset') >= Age(write_offset) /\ Age(write_offset') \in Nat
  <2>1. CASE write_offset' = write_offset BY <1>1, <2>1
  <2>2. CASE write_offset' = Plus(write_offset, 1) /\ Age(write_offset) < MaxPush
    <3>1. Age(write_offset) + 1 < WordMod BY <1>1, <2>2, AgeCases
    <3> QED BY <1>1, <2>2, <3>1, LaterAge, Numbers
  <2> QED BY <2>1, <2>2 DEF ProducerFrame
<1>4. Age(End') >= Age(End) /\ Age(End') \in Nat BY <1>1, <1>2, <1>3 DEF End
<1>5. Cut' => /\ Age(write_closed_at') < Age(write_offset')
              /\ Age(write_closed_at') <= MaxPush
  <2>1. Cut => Age(write_closed_at) \in Nat BY Numbers
  <2> QED BY <1>1, <1>2, <1>3, <2>1 DEF Bounds
<1>6. \A q \in Producers : Checked(q)' =>
        /\ Age(ticket'[q]) < Age(End) /\ Age(ticket'[q]) \in Nat
        /\ q # p => Checked(q)
  <2>1. \A q \in Producers : ticket[q] \in Word /\ Age(ticket[q]) \in Nat BY Numbers
  <2>2. \A q \in Producers : q # p /\ Checked(q)' => Checked(q) /\ ticket'[q] = ticket[q]
    BY DEF ProducerFrame, Checked
  <2>3. Checked(p)' => Age(ticket[p]) < Age(End) /\ ticket'[p] = ticket[p]
    BY DEF ProducerFrame, Checked, Pending
  <2> QED BY <1>1, <2>1, <2>2, <2>3 DEF Bounds
<1>7. \A v \in accepted' : Age(v[2]) < Age(End) /\ Age(v[2]) \in Nat
  <2>1. \A v \in accepted : Age(v[2]) < Age(End) /\ Age(v[2]) \in Nat
    BY <1>1, Numbers DEF Bounds
  <2>2. CASE accepted' = accepted BY <2>1, <2>2
  <2>3. CASE Checked(p) /\ accepted' = accepted \cup {<<p, ticket[p]>>}
    <3>1. <<p, ticket[p]>>[2] = ticket[p] /\ Age(ticket[p]) < Age(End) /\ Age(ticket[p]) \in Nat
      BY <1>1, <2>3, Numbers DEF Bounds
    <3> QED BY <2>1, <2>3, <3>1
  <2> QED BY <2>2, <2>3 DEF ProducerFrame
<1>8. /\ \A v \in accepted' : Age(v[2]) < Age(End')
      /\ \A q \in Producers : Checked(q)' => Age(ticket'[q]) < Age(End')
  BY <1>1, <1>4, <1>6, <1>7
<1> QED BY <1>1, <1>4, <1>5, <1>8 DEF Bounds

\* A producer's step neither moves the consumer nor takes away the sentinel.
LEMMA RestAfterProducer ==
  ASSUME Going, Cutting, NEW p \in Producers, ProducerFrame(p)
  PROVE  Sentinel' /\ Counted' /\ Says' /\ Settles'
<1>1. /\ Sentinel /\ Counted /\ Says /\ Settles /\ ReadSlot \in Slot /\ CutoffSlot \in Slot
      /\ Age(End') >= Age(End) /\ Age(End) \in Nat /\ Age(read_offset) \in Nat
  BY Parts, Numbers, BoundsAfterProducer
<1>2. /\ UNCHANGED <<closed_ready, write_closed_at, kpc, marked, snapshot, delivered, read_offset,
                     told, call, sees_closed, waiting_idx, can_suspend>>
      /\ cpc' = cpc \/ (cpc = "parked" /\ cpc' = "resume")
      /\ \A s \in Slot : /\ flags'[s].owner = "closed" <=> flags[s].owner = "closed"
                         /\ flags'[s].cons => flags[s].cons
  BY DEF ProducerFrame, closing, closer
<1>3. ReadSlot' = ReadSlot /\ CutoffSlot' = CutoffSlot BY <1>2 DEF ReadSlot, CutoffSlot
<1>4. Sentinel' BY <1>1, <1>2, <1>3 DEF Sentinel
<1>5. Counted'
  <2>1. Age(End') \in Nat
    <3>1. End' \in Word
      <4>1. Plus(write_offset, 1) \in Word /\ write_offset \in Word /\ write_closed_at \in Word
        BY Numbers, SlotsAndWords
      <4>2. write_offset' = Plus(write_offset, 1) \/ write_offset' = write_offset
        BY DEF ProducerFrame
      <4> QED BY <1>2, <4>1, <4>2 DEF End, Cut
    <3> QED BY <3>1, Numbers
  <2>2. \A s : Passed(s)' = Passed(s) /\ Had(s)' = Had(s) BY <1>2, <1>3 DEF Passed, Had
  <2>3. \A s : Turns(s, Passed(s))' = Turns(s, Passed(s)) BY <2>2 DEF Turns
  <2>4. Age(read_offset') <= Age(End') BY <1>1, <1>2, <2>1 DEF Counted
  <2> QED BY <1>1, <1>2, <2>2, <2>3, <2>4 DEF Counted
<1>6. Says' BY <1>1, <1>2, <1>3 DEF Says, CloserRouses
<1>7. Settles'
  <2>1. Settling' <=> Settling BY <1>1, <1>2, <1>3 DEF Settling, LeaveAlone
  <2> QED BY <1>1, <1>2, <2>1 DEF Settles
<1> QED BY <1>4, <1>5, <1>6, <1>7

\* Each part of the invariant, over a step of the consumer
\* What a step of the consumer does not touch.
LEMMA ConsumerKeepsNames ==
  ASSUME Going, Cutting, ConsumerFrame
  PROVE  Names' /\ Bounds' /\ End' = End /\ (Cut' <=> Cut) /\ CutoffSlot' = CutoffSlot
<1>1. Names /\ Bounds BY Parts
<1>2. /\ UNCHANGED <<closed_ready, write_closed_at, kpc, marked, write_offset, accepted, ticket>>
      /\ \A q \in Producers : (Pending(q)' <=> Pending(q)) /\ (Checked(q)' <=> Checked(q))
  BY DEF ConsumerFrame, closing, closer
<1>3. End' = End /\ (Cut' <=> Cut) /\ CutoffSlot' = CutoffSlot BY <1>2 DEF End, Cut, CutoffSlot
<1>4. Names' BY <1>1, <1>2 DEF Names
<1>5. Bounds' BY <1>1, <1>2, <1>3 DEF Bounds
<1> QED BY <1>3, <1>4, <1>5

\* A look at the flags: data is taken, and a mark of close() is acquired.
LEMMA LooksAt ==
  ASSUME StartPull \/ LookAgain
  PROVE  /\ UNCHANGED <<read_offset, delivered, flags, waiting_idx>>
         /\ sees_closed' = (sees_closed \/ (marked /\ ReadSlot = CutoffSlot))
         /\ cpc \in {"idle", "look"} /\ cpc' \in {"holding", "check"}
         /\ told' => told /\ cpc' = "check"
         /\ cpc' = "check" /\ call'.sentinel => flags[ReadSlot].owner = "closed"
<1>1. PICK m : Look(m) /\ cpc \in {"idle", "look"} BY DEF StartPull, LookAgain
<1>2. UNCHANGED <<read_offset, delivered, flags, waiting_idx>> BY <1>1 DEF Look, slots, history
<1>3. sees_closed' = (sees_closed \/ (marked /\ ReadSlot = CutoffSlot))
  BY <1>1 DEF Look, Acquire
<1>4. CASE flags[ReadSlot].owner = "data" BY <1>1, <1>2, <1>3, <1>4 DEF Look
<1>5. CASE flags[ReadSlot].owner # "data"
  <2>1. /\ cpc' = "check" /\ told' = told
        /\ call' = [mode |-> m, sentinel |-> flags[ReadSlot].owner = "closed"]
    BY <1>1, <1>5 DEF Look
  <2>2. call'.sentinel <=> flags[ReadSlot].owner = "closed" BY <2>1
  <2> QED BY <1>1, <1>2, <1>3, <2>1, <2>2
<1> QED BY <1>4, <1>5

\* What the consumer believes of a sentinel stays so.
LEMMA SentinelAfterConsumer ==
  ASSUME Going, Cutting, ConsumerFrame, StartPull \/ ConsumerStep
  PROVE  Sentinel'
<1>1. /\ Sentinel /\ CutoffSlot' = CutoffSlot /\ kpc' = kpc /\ ReadSlot \in Slot
      /\ \A s \in Slot : /\ flags'[s].owner = "closed" <=> flags[s].owner = "closed"
                         /\ flags[s].owner = "closed" /\ flags'[s].cons => flags[s].cons
  BY Parts, Numbers, ConsumerKeepsNames DEF ConsumerFrame, closer
<1>2. \A s \in Slot : flags'[s].owner = "closed" =>
        s = CutoffSlot' /\ ~flags'[s].cons /\ kpc' \in {"extract", "wake", "done"}
  BY <1>1 DEF Sentinel
<1>3. /\ cpc' \in {"check", "spin"} /\ call'.sentinel =>
            read_offset' = read_offset /\ flags[ReadSlot].owner = "closed"
      /\ cpc' \in {"disarm_closed", "rearm"} =>
            read_offset' = read_offset /\ flags[ReadSlot].owner = "closed"
  <2>1. CASE StartPull \/ LookAgain BY <2>1, LooksAt
  <2>2. CASE LoadClosed BY <1>1, <2>2 DEF LoadClosed, NothingYet, NoCall, Sentinel
  <2>3. CASE LoadCutoff BY <1>1, <2>3 DEF LoadCutoff, NothingYet, NoCall, Sentinel
  <2>4. CASE Arm \/ DestroyValue \/ WakeProducer \/ PullResume
    BY <2>4 DEF Arm, DestroyValue, WakeProducer, PullResume
  <2>5. CASE Confirm BY <2>5, Zenon DEF Confirm
  <2>6. CASE Disarm
    <3>1. /\ read_offset' = read_offset /\ cpc' \in {"parked", "holding", "rearm"}
          /\ cpc' = "rearm" => cpc = "disarm_closed"
      BY <2>6, Zenon DEF Disarm
    <3> QED BY <1>1, <3>1 DEF Sentinel
  <2>7. CASE Rearm BY <2>7 DEF Rearm
  <2>8. CASE DrainAndHandoff
    <3>1. cpc' \in {"idle", "wake"} BY <2>8 DEF DrainAndHandoff
    <3> QED BY <3>1
  <2> QED BY <2>1, <2>2, <2>3, <2>4, <2>5, <2>6, <2>7, <2>8 DEF ConsumerStep
<1>4. read_offset' = read_offset => ReadSlot' = ReadSlot BY DEF ReadSlot
<1> QED BY <1>1, <1>2, <1>3, <1>4 DEF Sentinel

\* Steps that release no value and pass no offset.
LEMMA CountedStays ==
  ASSUME Going, Cutting, ConsumerFrame, UNCHANGED <<read_offset, delivered>>,
         cpc # "drain", cpc' # "drain"
  PROVE  Counted'
<1>1. Counted /\ End' = End /\ ReadSlot' = ReadSlot BY Parts, ConsumerKeepsNames DEF ReadSlot
<1>2. \A s : Passed(s)' = Passed(s) /\ Had(s)' = Had(s) BY <1>1 DEF Passed, Had
<1>3. \A s : Turns(s, Passed(s))' = Turns(s, Passed(s)) BY <1>2 DEF Turns
<1>4. \A s \in Slot : flags'[s].owner = "closed" <=> flags[s].owner = "closed"
  BY DEF ConsumerFrame
<1> QED BY <1>1, <1>2, <1>3, <1>4 DEF Counted

\* A sentinel before the cutoff is passed without a value.
LEMMA CountedAfterSkip ==
  ASSUME Going, Cutting, ConsumerFrame, Cut, ~ReachedCutoff, delivered' = delivered,
         read_offset' = Plus(read_offset, 1), flags[ReadSlot].owner = "closed",
         cpc # "drain", cpc' # "drain"
  PROVE  Counted'
<1>1. /\ Counted /\ End' = End /\ End = write_closed_at
      /\ read_offset \in Word /\ Age(read_offset) \in Nat /\ Age(End) \in Nat
  BY Parts, Numbers, ConsumerKeepsNames DEF End
<1>2. Age(read_offset) < Age(End) /\ Age(End) <= MaxPush
  <2>1. /\ Age(read_offset) <= Age(write_closed_at) /\ read_offset # write_closed_at
        /\ Age(write_closed_at) <= MaxPush
    BY Comparable
  <2> QED BY <1>1, <2>1, Numbers, AgeNames
<1>3. Age(read_offset') = Age(read_offset) + 1 BY <1>1, <1>2, LaterAge, AgeCases
<1>4. Age(read_offset') <= Age(End') BY <1>1, <1>2, <1>3
<1>5. ASSUME NEW s \in Slot, flags'[s].owner # "closed"
      PROVE  Cardinality(Had(s)') = Cardinality(Turns(s, Passed(s)'))
  <2>1. flags[s].owner # "closed" /\ s # ReadSlot BY <1>5 DEF ConsumerFrame
  <2>2. Passed(s) = Age(read_offset) /\ Passed(s)' = Age(read_offset) + 1
    BY <1>1, <1>3 DEF Passed
  <2>3. Turns(s, Age(read_offset) + 1) = Turns(s, Age(read_offset))
    BY <1>1, <2>1, TurnsGrow DEF ReadSlot
  <2>4. Had(s)' = Had(s) BY DEF Had
  <2> QED BY <1>1, <2>1, <2>2, <2>3, <2>4 DEF Counted
<1> QED BY <1>4, <1>5 DEF Counted

\* Releasing a value passes its offset.
LEMMA CountedAfterDestroy ==
  ASSUME Going, Cutting, ConsumerFrame, DestroyValue
  PROVE  Counted'
<1>1. /\ Counted /\ End' = End /\ ReadSlot \in Slot /\ Locks /\ Values
      /\ read_offset \in Word /\ Age(read_offset) \in Nat
  BY Parts, Numbers, ConsumerKeepsNames
<1>2. /\ cpc = "holding" /\ cpc' = "drain" /\ read_offset' = read_offset
      /\ delivered' = delivered \cup {stored[ReadSlot]} /\ flags' = flags
  BY DEF DestroyValue
<1>3. PICK r \in Slot, v \in accepted :
         r = ReadSlot /\ v = stored[r] /\ v \notin delivered /\ SlotOf(v[2]) = r
  BY <1>1, <1>2 DEF Locks, Reading, Values, HasData
<1>4. v[2] \in Word /\ v[2] \notin Had(r) BY <1>3, Numbers, NewTicket
<1>5. Had(r)' = Had(r) \cup {v[2]} BY <1>2, <1>3, <1>4 DEF Had
<1>6. ASSUME NEW s \in Slot, s # r
      PROVE  Had(s)' = Had(s)
  BY <1>2, <1>3, <1>6 DEF Had
<1>7. ReadSlot' = r BY <1>2, <1>3 DEF ReadSlot
<1>8. ASSUME NEW s \in Slot, flags'[s].owner # "closed"
      PROVE  Cardinality(Had(s)') = Cardinality(Turns(s, Passed(s)'))
  <2>1. Cardinality(Had(s)) = Cardinality(Turns(s, Passed(s))) BY <1>1, <1>2, <1>8 DEF Counted
  <2>2. Passed(s) = Age(read_offset) BY <1>1, <1>2 DEF Passed
  <2>3. CASE s = r
    <3>1. Passed(s)' = Age(read_offset) + 1 BY <1>2, <1>7, <2>3 DEF Passed
    <3>2. Cardinality(Turns(s, Age(read_offset) + 1)) = Cardinality(Turns(s, Age(read_offset))) + 1
      BY <1>1, <1>3, <2>3, TurnsGrow DEF ReadSlot
    <3>3. Cardinality(Had(s) \cup {v[2]}) = Cardinality(Had(s)) + 1
      BY <1>4, <2>3, TurnsFinite, FS_AddElement
    <3> QED BY <1>5, <2>1, <2>2, <2>3, <3>1, <3>2, <3>3
  <2>4. CASE s # r
    <3>1. Passed(s)' = Age(read_offset) BY <1>1, <1>2, <1>7, <2>4 DEF Passed
    <3> QED BY <1>6, <2>1, <2>2, <2>4, <3>1
  <2> QED BY <2>3, <2>4
<1>9. Age(read_offset') <= Age(End') BY <1>1, <1>2 DEF Counted
<1> QED BY <1>8, <1>9 DEF Counted

\* Freeing the slot moves read_offset over the value that was released.
LEMMA CountedAfterDrain ==
  ASSUME Going, Cutting, ConsumerFrame, DrainAndHandoff
  PROVE  Counted'
<1>1. /\ Counted /\ End' = End /\ ReadSlot \in Slot /\ Locks
      /\ read_offset \in Word /\ Age(read_offset) \in Nat /\ Age(End) \in Nat
  BY Parts, Numbers, ConsumerKeepsNames
<1>2. /\ cpc = "drain" /\ cpc' # "drain" /\ read_offset' = Plus(read_offset, 1)
      /\ delivered' = delivered
  BY DEF DrainAndHandoff, history
<1>3. Age(read_offset) < Age(End) BY <1>1, <1>2, DataAhead DEF Locks, Reading
<1>4. Age(read_offset') = Age(read_offset) + 1
  <2>1. End \in Word /\ Age(End) <= WordMod - 1 BY Numbers, Ages
  <2>2. Age(read_offset) + 1 < WordMod BY <1>1, <1>3, <2>1, AgeCases
  <2> QED BY <1>1, <1>2, <2>2, LaterAge
<1>5. Age(read_offset') <= Age(End') BY <1>1, <1>3, <1>4
<1>6. ASSUME NEW s \in Slot, flags'[s].owner # "closed"
      PROVE  Cardinality(Had(s)') = Cardinality(Turns(s, Passed(s)'))
  <2>1. Cardinality(Had(s)) = Cardinality(Turns(s, Passed(s))) /\ Had(s)' = Had(s)
    BY <1>1, <1>2, <1>6 DEF Counted, ConsumerFrame, Had
  <2>2. Passed(s)' = Age(read_offset) + 1 BY <1>1, <1>2, <1>4 DEF Passed
  <2>3. CASE s = ReadSlot BY <1>2, <2>1, <2>2, <2>3 DEF Passed
  <2>4. CASE s # ReadSlot
    <3>1. Passed(s) = Age(read_offset) BY <1>1, <2>4 DEF Passed
    <3>2. Turns(s, Age(read_offset) + 1) = Turns(s, Age(read_offset))
      BY <1>1, <2>4, TurnsGrow DEF ReadSlot
    <3> QED BY <2>1, <2>2, <3>1, <3>2
  <2> QED BY <2>3, <2>4
<1> QED BY <1>5, <1>6 DEF Counted

\* A consumer that runs is not parked, and does not resume itself.
LEMMA ConsumerRuns ==
  ASSUME Going, StartPull \/ ConsumerStep
  PROVE  cpc # "parked" /\ cpc' # "resume_closed" /\ ~CloserRouses
<1>1. cpc # "parked"
  BY DEF StartPull, ConsumerStep, LookAgain, LoadClosed, LoadCutoff, Arm, Confirm, Disarm, Rearm,
         PullResume, DestroyValue, DrainAndHandoff, WakeProducer
<1>2. ~CloserRouses BY <1>1, NobodyRouses DEF Going
<1>3. CASE StartPull \/ LookAgain BY <1>1, <1>2, <1>3, LooksAt
<1>4. CASE Confirm \/ Disarm BY <1>1, <1>2, <1>4, Zenon DEF Confirm, Disarm
<1>5. CASE DrainAndHandoff
  <2>1. cpc' \in {"idle", "wake"} BY <1>5 DEF DrainAndHandoff
  <2> QED BY <1>1, <1>2, <2>1
<1> QED
  BY <1>1, <1>2, <1>3, <1>4, <1>5
     DEF ConsumerStep, LoadClosed, LoadCutoff, NothingYet, Arm, Rearm, PullResume, DestroyValue,
         WakeProducer

\* Once the cutoff is readable, the cutoff is where the consumer says it is.
LEMMA ReadableCutoff ==
  ASSUME Going, Cutting, closed_ready
  PROVE  Cut /\ (ReachedCutoff <=> read_offset = write_closed_at)
<1>1. Cut BY Parts DEF Bounds, Cut
<1> QED BY <1>1, Comparable

\* CLOSED is said at the cutoff and nowhere else.
LEMMA SaysAfterConsumer ==
  ASSUME Going, Cutting, ConsumerFrame, StartPull \/ ConsumerStep
  PROVE  Says'
<1>1. /\ Says /\ ReadSlot \in Slot /\ waiting_idx \in [Slot -> Word]
      /\ UNCHANGED <<closed_ready, write_closed_at, kpc>>
  BY Parts, Numbers DEF ConsumerFrame, closing, closer, SlotTypes
<1>2. cpc # "parked" /\ ~CloserRouses' /\ cpc' # "resume_closed"
  BY <1>1, ConsumerRuns DEF CloserRouses
<1> DEFINE Told     == told' => /\ closed_ready /\ read_offset' = write_closed_at
                                /\ cpc' \notin {"holding", "drain"}
           Awaiting == cpc' \in {"confirm", "parked"} =>
                         read_offset' = read_offset /\ waiting_idx'[ReadSlot] = read_offset
<1>3. CASE StartPull \/ LookAgain
  <2>1. /\ read_offset' = read_offset /\ cpc' \in {"holding", "check"}
        /\ told' => told /\ cpc' = "check"
    BY <1>3, LooksAt, Zenon
  <2>2. Told /\ Awaiting BY <1>1, <2>1 DEF Says
  <2> QED BY <1>1, <1>2, <2>2 DEF Says, ReadSlot
<1>4. CASE LoadClosed
  <2>1. /\ read_offset' = read_offset /\ cpc' \in {"arm", "idle", "spin"}
        /\ told' => told
    BY <1>4 DEF LoadClosed, NothingYet
  <2>2. Told /\ Awaiting BY <1>1, <2>1 DEF Says
  <2> QED BY <1>1, <1>2, <2>2 DEF Says, ReadSlot
<1>5. CASE LoadCutoff \/ Rearm
  <2>1. /\ closed_ready /\ cpc' \in {"idle", "look", "arm"}
        /\ \/ ReachedCutoff /\ read_offset' = read_offset
           \/ ~ReachedCutoff /\ (told' => told)
    BY <1>5 DEF LoadCutoff, Rearm, NothingYet
  <2>2. ReachedCutoff <=> read_offset = write_closed_at BY <2>1, ReadableCutoff
  <2>3. Told /\ Awaiting BY <1>1, <2>1, <2>2 DEF Says
  <2> QED BY <1>1, <1>2, <2>3 DEF Says, ReadSlot
<1>6. CASE Arm \/ Confirm
  <2>1. /\ read_offset' = read_offset /\ told' = told
        /\ cpc' \in {"confirm", "disarm_data", "disarm_closed", "parked"}
    BY <1>6, Zenon DEF Arm, Confirm
  <2>2. waiting_idx'[ReadSlot] = read_offset BY <1>1, <1>6 DEF Arm, Confirm, Says
  <2>3. Told /\ Awaiting BY <1>1, <2>1, <2>2 DEF Says
  <2> QED BY <1>1, <1>2, <2>3 DEF Says, ReadSlot
<1>7. CASE Disarm
  <2>1. waiting[ReadSlot] BY <1>7, Parts DEF Rousing, Disarm
  <2>2. /\ read_offset' = read_offset
        /\ \/ cpc' = "holding" /\ told' = FALSE
           \/ cpc' = "rearm" /\ told' = told
    BY <1>7, <2>1, Zenon DEF Disarm
  <2>3. Told /\ Awaiting BY <1>1, <2>2 DEF Says
  <2> QED BY <1>1, <1>2, <2>3 DEF Says, ReadSlot
<1>8. CASE PullResume
  <2>1. /\ read_offset' = read_offset
        /\ cpc' \in {"holding", "idle"}
        /\ told' => cpc = "resume_closed" /\ cpc' = "idle"
    BY <1>8 DEF PullResume
  <2>2. Told /\ Awaiting BY <1>1, <2>1 DEF Says
  <2> QED BY <1>1, <1>2, <2>2 DEF Says, ReadSlot
<1>9. CASE DestroyValue \/ DrainAndHandoff
  <2>1. cpc \in {"holding", "drain"} /\ told' = told /\ cpc' \in {"drain", "idle", "wake"}
    BY <1>9 DEF DestroyValue, DrainAndHandoff
  <2>2. Told /\ Awaiting BY <1>1, <2>1 DEF Says
  <2> QED BY <1>1, <1>2, <2>2 DEF Says, ReadSlot
<1>10. CASE WakeProducer
  <2>1. read_offset' = read_offset /\ told' = told /\ cpc' = "idle" BY <1>10 DEF WakeProducer
  <2>2. Told /\ Awaiting BY <1>1, <2>1 DEF Says
  <2> QED BY <1>1, <1>2, <2>2 DEF Says, ReadSlot
<1> QED BY <1>3, <1>4, <1>5, <1>6, <1>7, <1>8, <1>9, <1>10 DEF ConsumerStep

\* A consumer that missed the mark of close() will be found in the cutoff slot.
LEMMA SettlesAfterConsumer ==
  ASSUME Going, Cutting, ConsumerFrame, StartPull \/ ConsumerStep
  PROVE  Settles'
<1> SUFFICES ASSUME marked', can_suspend', read_offset' = write_closed_at',
                    \/ cpc' \in {"arm", "confirm", "parked"}
                    \/ cpc' = "check" /\ ~sees_closed'
             PROVE  Settling'
  BY DEF Settles
<1>1. /\ Settles /\ Sentinel /\ ReadSlot \in Slot /\ CutoffSlot \in Slot
      /\ SlotTypes /\ waiting_idx \in [Slot -> Word]
      /\ UNCHANGED <<closed_ready, write_closed_at, kpc, snapshot, marked, can_suspend>>
      /\ CutoffSlot' = CutoffSlot
      /\ flags'[CutoffSlot].owner = "closed" <=> flags[CutoffSlot].owner = "closed"
  BY Parts, Numbers DEF ConsumerFrame, closing, closer, SlotTypes, CutoffSlot
<1>2. Settling /\ waiting_idx' = waiting_idx => Settling' BY <1>1 DEF Settling, LeaveAlone
<1>3. CASE StartPull \/ LookAgain
  <2>1. cpc' = "check" /\ ~sees_closed' /\ read_offset = write_closed_at BY <1>1, <1>3, LooksAt
  <2> QED BY <1>1, <1>3, <2>1, LooksAt DEF ReadSlot, CutoffSlot
<1>4. CASE LoadClosed
  <2>1. /\ cpc = "check" /\ ~sees_closed /\ read_offset' = read_offset /\ waiting_idx' = waiting_idx
    BY <1>4 DEF LoadClosed, NothingYet, slots
  <2>2. Settling BY <1>1, <2>1 DEF Settles
  <2> QED BY <1>2, <2>1, <2>2
<1>5. CASE LoadCutoff
  <2>1. closed_ready /\ ~ReachedCutoff /\ read_offset' = read_offset
    BY <1>5 DEF LoadCutoff, NothingYet
  <2> QED BY <1>1, <2>1, ReadableCutoff
<1>6. CASE Arm
  <2>1. /\ cpc = "arm" /\ read_offset' = read_offset
        /\ waiting_idx' = [waiting_idx EXCEPT ![ReadSlot] = read_offset]
    BY <1>6 DEF Arm
  <2>2. Settling /\ ReadSlot = CutoffSlot /\ read_offset = write_closed_at
    BY <1>1, <2>1 DEF Settles, ReadSlot, CutoffSlot
  <2>3. waiting_idx'[CutoffSlot] = write_closed_at BY <1>1, <2>1, <2>2
  <2>4. ~CircularLess(write_closed_at, write_closed_at) BY Numbers, AgeCases DEF CircularLess
  <2> QED BY <1>1, <2>2, <2>3, <2>4 DEF Settling, LeaveAlone
<1>7. CASE Confirm
  <2>1. cpc = "confirm" /\ read_offset' = read_offset /\ waiting_idx' = waiting_idx
    BY <1>7 DEF Confirm
  <2>2. Settling BY <1>1, <2>1 DEF Settles
  <2> QED BY <1>2, <2>1, <2>2
<1>8. CASE Disarm
  <2>1. waiting[ReadSlot] BY <1>8, Parts DEF Rousing, Disarm
  <2>2. cpc' \in {"holding", "rearm"} BY <1>8, <2>1, Zenon DEF Disarm
  <2> QED BY <2>2
<1>9. CASE Rearm
  <2>1. cpc = "rearm" BY <1>9 DEF Rearm
  <2>2. flags[CutoffSlot].owner = "closed" BY <1>1, <2>1 DEF Sentinel
  <2> QED BY <1>1, <2>2 DEF Settling
<1>10. CASE PullResume \/ DestroyValue \/ WakeProducer \/ DrainAndHandoff
  <2>1. cpc' \in {"holding", "idle", "drain", "wake"}
    BY <1>10 DEF PullResume, DestroyValue, WakeProducer, DrainAndHandoff
  <2> QED BY <2>1
<1> QED BY <1>3, <1>4, <1>5, <1>6, <1>7, <1>8, <1>9, <1>10 DEF ConsumerStep

\* At each slot the consumer goes on having a value a turn.
LEMMA CountedAfterConsumer ==
  ASSUME Going, Cutting, ConsumerFrame, StartPull \/ ConsumerStep
  PROVE  Counted'
<1>1. CASE StartPull \/ LookAgain
  <2>1. UNCHANGED <<read_offset, delivered>> /\ cpc # "drain" /\ cpc' # "drain" BY <1>1, LooksAt
  <2> QED BY <2>1, CountedStays
<1>2. CASE LoadClosed
  <2>1. UNCHANGED <<read_offset, delivered>> /\ cpc # "drain" /\ cpc' # "drain"
    BY <1>2 DEF LoadClosed, NothingYet, history
  <2> QED BY <2>1, CountedStays
<1>3. CASE LoadCutoff \/ Rearm
  <2>1. /\ delivered' = delivered /\ cpc # "drain" /\ cpc' # "drain" /\ closed_ready
        /\ \/ read_offset' = read_offset
           \/ /\ ~ReachedCutoff /\ read_offset' = Plus(read_offset, 1)
              /\ (cpc \in {"check", "spin"} /\ call.sentinel) \/ cpc = "rearm"
    BY <1>3 DEF LoadCutoff, Rearm, NothingYet, history
  <2>2. CASE read_offset' = read_offset BY <2>1, <2>2, CountedStays
  <2>3. CASE /\ ~ReachedCutoff /\ read_offset' = Plus(read_offset, 1)
             /\ (cpc \in {"check", "spin"} /\ call.sentinel) \/ cpc = "rearm"
    <3>1. flags[ReadSlot].owner = "closed" /\ Cut
      BY <2>1, <2>3, Parts, ReadableCutoff DEF Sentinel
    <3> QED BY <2>1, <2>3, <3>1, CountedAfterSkip
  <2> QED BY <2>1, <2>2, <2>3
<1>4. CASE Arm \/ PullResume \/ WakeProducer
  <2>1. UNCHANGED <<read_offset, delivered>> /\ cpc # "drain" /\ cpc' # "drain"
    BY <1>4 DEF Arm, PullResume, WakeProducer, history
  <2> QED BY <2>1, CountedStays
<1>5. CASE Confirm \/ Disarm
  <2>1. UNCHANGED <<read_offset, delivered>> BY <1>5 DEF Confirm, Disarm, history
  <2>2. cpc # "drain" /\ cpc' # "drain" BY <1>5, Zenon DEF Confirm, Disarm
  <2> QED BY <2>1, <2>2, CountedStays
<1> QED BY <1>1, <1>2, <1>3, <1>4, <1>5, CountedAfterDestroy, CountedAfterDrain DEF ConsumerStep

\* Each part of the invariant, over a step of close()
\* Between the steps of close(), as the rest of the ring sees it: which step it
\* is at, the cutoff, the mark and the sentinel.
LEMMA CloserAdvances ==
  ASSUME Going, Cutting, SetClosed \/ CloserStep
  PROVE  \/ /\ kpc = "cut" /\ kpc' = "ready" /\ write_closed_at' = write_offset
            /\ write_offset' = Plus(write_offset, 1)
            /\ UNCHANGED <<closed_ready, marked, flags, snapshot>>
         \/ /\ UNCHANGED <<write_closed_at, write_offset>>
            /\ \/ /\ kpc = "idle" /\ kpc' = "cut"
                  /\ UNCHANGED <<closed_ready, marked, flags, snapshot>>
               \/ /\ kpc = "ready" /\ kpc' = "mark" /\ closed_ready' = TRUE
                  /\ UNCHANGED <<marked, flags, snapshot>>
               \/ /\ kpc = "mark" /\ kpc' = (IF can_suspend THEN "settle" ELSE "done")
                  /\ marked' = TRUE /\ snapshot' = flags[CutoffSlot]
                  /\ UNCHANGED <<closed_ready, flags>>
               \/ /\ kpc = "settle" /\ UNCHANGED <<closed_ready, marked>>
                  /\ \/ LeaveAlone(snapshot) /\ kpc' = "done" /\ flags' = flags
                     \/ /\ ~LeaveAlone(snapshot) /\ flags[CutoffSlot] = snapshot
                        /\ flags' = [flags EXCEPT ![CutoffSlot] =
                                       [Free EXCEPT !.owner = "closed"]]
                        /\ kpc' = IF snapshot.cons THEN "extract" ELSE "done"
                     \/ /\ kpc' = "settle" /\ snapshot' = flags[CutoffSlot] /\ flags' = flags
               \/ /\ kpc \in {"extract", "wake"} /\ kpc' \in {"wake", "done"}
                  /\ UNCHANGED <<closed_ready, marked, flags, snapshot>>
<1>1. CASE SetClosed BY <1>1 DEF SetClosed, CloserGoes, slots
<1>2. CASE DrawCutoff BY <1>2 DEF DrawCutoff, CloserGoes, slots
<1>3. CASE SetReady BY <1>3 DEF SetReady, CloserGoes, slots
<1>4. CASE MarkCutoffSlot BY <1>4 DEF MarkCutoffSlot, CloserGoes, slots, closing
<1>5. CASE PlaceSentinel
  <2>1. kpc = "settle" /\ UNCHANGED <<closed_ready, marked, write_closed_at, write_offset>>
    BY <1>5 DEF PlaceSentinel, closing
  <2> QED BY <1>5, <2>1, Zenon DEF PlaceSentinel, CloserGoes
<1>6. CASE CloserExtracts \/ CloserWakes
  BY <1>6 DEF CloserExtracts, CloserWakes, CloserGoes, slots, closing
<1> QED BY <1>1, <1>2, <1>3, <1>4, <1>5, <1>6 DEF CloserStep

\* The flags that close() leaves in the cutoff slot.
LEMMA SentinelFlags ==
  [Free EXCEPT !.owner = "closed"].owner = "closed" /\ ~[Free EXCEPT !.owner = "closed"].cons
  BY DEF Free

\* The cutoff ends the tickets where write_offset was.
LEMMA BoundsAfterCloser ==
  ASSUME Going, Cutting, CloserFrame, SetClosed \/ CloserStep
  PROVE  Names' /\ Bounds' /\ End' = End
<1>1. /\ Names /\ Bounds /\ Tickets /\ Age(write_offset) \in Nat /\ write_offset \in Word
      /\ UNCHANGED <<pc, ticket, accepted, delivered>>
  BY Parts, Numbers DEF CloserFrame, producers, history
<1>2. End' = End BY CloserAdvances DEF End, Cut
<1>3. /\ \A q \in Producers : (Pending(q)' <=> Pending(q)) /\ (Checked(q)' <=> Checked(q))
  BY <1>1 DEF Pending, Checked
<1>4. Names' BY <1>1, <1>3 DEF Names
<1>5. /\ closed_ready' <=> kpc' \in {"mark", "settle", "extract", "wake", "done"}
      /\ marked' <=> kpc' \in {"settle", "extract", "wake", "done"}
  <2>1. /\ closed_ready <=> kpc \in {"mark", "settle", "extract", "wake", "done"}
        /\ marked <=> kpc \in {"settle", "extract", "wake", "done"}
    BY <1>1 DEF Bounds
  <2>2. CASE kpc = "ready"
    <3>1. kpc' = "mark" /\ closed_ready' = TRUE /\ marked' = marked BY <2>2, CloserAdvances
    <3> QED BY <2>1, <2>2, <3>1
  <2>3. CASE kpc = "mark"
    <3>1. kpc' \in {"settle", "done"} /\ closed_ready' = closed_ready /\ marked' = TRUE
      BY <2>3, CloserAdvances
    <3> QED BY <2>1, <2>3, <3>1
  <2>4. CASE kpc \notin {"ready", "mark"}
    <3>1. /\ closed_ready' = closed_ready /\ marked' = marked
          /\ kpc' \in {"mark", "settle", "extract", "wake", "done"} <=>
                kpc \in {"mark", "settle", "extract", "wake", "done"}
          /\ kpc' \in {"settle", "extract", "wake", "done"} <=>
                kpc \in {"settle", "extract", "wake", "done"}
      BY <2>4, CloserAdvances
    <3> QED BY <2>1, <3>1
  <2> QED BY <2>2, <2>3, <2>4
<1>6. Cut' => Age(write_closed_at') < Age(write_offset') /\ Age(write_closed_at') <= MaxPush
  <2>1. CASE kpc = "cut" /\ write_closed_at' = write_offset /\ write_offset' = Plus(write_offset, 1)
    <3>1. Age(write_offset) <= MaxPush BY <1>1, <2>1, AgeCases DEF Tickets
    <3>2. Age(write_offset') = Age(write_offset) + 1 BY <1>1, <2>1, <3>1, LaterAge, AgeCases
    <3> QED BY <1>1, <2>1, <3>1, <3>2
  <2>2. CASE UNCHANGED <<write_closed_at, write_offset>> /\ (Cut' => Cut)
    BY <1>1, <2>2 DEF Bounds
  <2> QED BY <2>1, <2>2, CloserAdvances DEF Cut
<1>7. Bounds' BY <1>1, <1>2, <1>3, <1>5, <1>6 DEF Bounds
<1> QED BY <1>2, <1>4, <1>7

\* close() puts the sentinel where it belongs.
LEMMA SentinelAfterCloser ==
  ASSUME Going, Cutting, CloserFrame, SetClosed \/ CloserStep
  PROVE  /\ Sentinel'
         /\ \A s \in Slot : flags[s].owner = "closed" => flags'[s].owner = "closed"
<1>1. /\ Sentinel /\ flags \in [Slot -> SlotRecord] /\ ReadSlot \in Slot /\ CutoffSlot \in Slot
      /\ UNCHANGED <<call, read_offset>>
      /\ cpc' = cpc \/ cpc' = "resume_closed"
  BY Parts, Numbers DEF CloserFrame, SlotTypes
<1>2. ReadSlot' = ReadSlot BY <1>1 DEF ReadSlot
<1>3. CASE kpc = "cut" /\ flags' = flags BY <1>1, <1>2, <1>3 DEF Sentinel
<1>4. CASE /\ write_closed_at' = write_closed_at /\ flags' = flags
           /\ kpc \in {"extract", "wake", "done"} => kpc' \in {"extract", "wake", "done"}
  <2>1. CutoffSlot' = CutoffSlot BY <1>4 DEF CutoffSlot
  <2> QED BY <1>1, <1>2, <1>4, <2>1 DEF Sentinel
<1>5. CASE /\ kpc = "settle" /\ kpc' \in {"extract", "done"} /\ write_closed_at' = write_closed_at
           /\ flags' = [flags EXCEPT ![CutoffSlot] = [Free EXCEPT !.owner = "closed"]]
  <2>1. CutoffSlot' = CutoffSlot BY <1>5 DEF CutoffSlot
  <2>2. \A s \in Slot : flags[s].owner # "closed" BY <1>1, <1>5 DEF Sentinel
  <2>3. /\ flags'[CutoffSlot].owner = "closed" /\ ~flags'[CutoffSlot].cons
        /\ \A s \in Slot : s # CutoffSlot => flags'[s] = flags[s]
    BY <1>1, <1>5, SentinelFlags
  <2>4. /\ ~(cpc' \in {"check", "spin"} /\ call'.sentinel)
        /\ cpc' \notin {"disarm_closed", "rearm"}
    BY <1>1, <2>2 DEF Sentinel
  <2> QED BY <1>5, <2>1, <2>2, <2>3, <2>4 DEF Sentinel
<1> QED BY <1>3, <1>4, <1>5, CloserAdvances

\* close() does not move the consumer.
LEMMA CountedAfterCloser ==
  ASSUME Going, Cutting, CloserFrame, SetClosed \/ CloserStep
  PROVE  Counted'
<1>1. /\ Counted /\ End' = End /\ UNCHANGED <<read_offset, delivered>>
      /\ cpc' = cpc \/ (cpc = "parked" /\ cpc' = "resume_closed")
      /\ \A s \in Slot : flags[s].owner = "closed" => flags'[s].owner = "closed"
  BY Parts, BoundsAfterCloser, SentinelAfterCloser DEF CloserFrame, history
<1>2. \A s : Passed(s)' = Passed(s) /\ Had(s)' = Had(s) BY <1>1 DEF Passed, Had, ReadSlot
<1>3. \A s : Turns(s, Passed(s))' = Turns(s, Passed(s)) BY <1>2 DEF Turns
<1> QED BY <1>1, <1>2, <1>3 DEF Counted

\* A consumer that waits in the cutoff slot at the cutoff is not left alone.
LEMMA FoundAtCutoff ==
  ASSUME Going, Cutting, Cut, read_offset = write_closed_at, flags[CutoffSlot].owner # "closed"
  PROVE  ~LeaveAlone(flags[CutoffSlot])
<1>1. CutoffSlot \in Slot /\ CutoffSlot = ReadSlot /\ Rousing /\ Says
  BY Parts, Numbers DEF ReadSlot, CutoffSlot
<1>2. flags[CutoffSlot].owner = "none" BY <1>1, AtCutoff
<1>3. flags[CutoffSlot].cons => waiting_idx[CutoffSlot] = write_closed_at
  BY <1>1 DEF Rousing, Says
<1>4. ~CircularLess(write_closed_at, write_closed_at) BY Numbers, AgeCases DEF CircularLess
<1> QED BY <1>2, <1>3, <1>4 DEF LeaveAlone

\* close() takes the consumer's pointer only at the cutoff.
LEMMA SaysAfterCloser ==
  ASSUME Going, Cutting, CloserFrame, SetClosed \/ CloserStep
  PROVE  Says'
<1>1. /\ Says /\ Bounds /\ Rousing
      /\ UNCHANGED <<told, read_offset, waiting_idx>>
      /\ cpc' = cpc \/ (cpc = "parked" /\ cpc' = "resume_closed" /\ CloserRouses)
      /\ CutoffSlot \in Slot /\ ReadSlot \in Slot
  BY Parts, Numbers DEF CloserFrame
<1>2. ReadSlot' = ReadSlot BY <1>1 DEF ReadSlot
<1>3. closed_ready => closed_ready' /\ write_closed_at' = write_closed_at
  BY <1>1, CloserAdvances DEF Bounds
<1>4. ASSUME CloserRouses', ~CloserRouses
      PROVE  closed_ready /\ read_offset = write_closed_at
  <2>1. kpc = "settle" /\ ~LeaveAlone(snapshot) /\ flags[CutoffSlot] = snapshot /\ snapshot.cons
    BY <1>4, CloserAdvances DEF CloserRouses
  <2>2. closed_ready BY <1>1, <2>1 DEF Bounds
  <2>3. cpc = "parked" /\ CutoffSlot = ReadSlot BY <1>1, <2>1 DEF Rousing
  <2>4. ~CircularLess(waiting_idx[CutoffSlot], write_closed_at) BY <2>1 DEF LeaveAlone
  <2>5. waiting_idx[CutoffSlot] = read_offset BY <1>1, <2>3 DEF Says
  <2> QED BY <2>2, <2>4, <2>5, ReadableCutoff DEF ReachedCutoff
<1>5. CloserRouses' \/ cpc' = "resume_closed" => closed_ready /\ read_offset = write_closed_at
  BY <1>1, <1>4 DEF Says
<1> QED BY <1>1, <1>2, <1>3, <1>5 DEF Says

\* The mark comes with a look at the cutoff slot, after which a consumer that
\* suspends there is waited for.
LEMMA SettlesAfterCloser ==
  ASSUME Going, Cutting, CloserFrame, SetClosed \/ CloserStep
  PROVE  Settles'
<1> SUFFICES ASSUME marked', can_suspend', read_offset' = write_closed_at',
                    \/ cpc' \in {"arm", "confirm", "parked"}
                    \/ cpc' = "check" /\ ~sees_closed'
             PROVE  Settling'
  BY DEF Settles
<1>1. /\ Settles /\ Sentinel /\ Bounds /\ CutoffSlot \in Slot /\ flags \in [Slot -> SlotRecord]
      /\ UNCHANGED <<read_offset, sees_closed, can_suspend, waiting_idx>>
      /\ cpc' = cpc
  BY Parts, Numbers DEF CloserFrame, SlotTypes
<1>2. /\ kpc \in {"mark", "settle", "extract", "wake", "done"}
      /\ write_closed_at' = write_closed_at /\ Cut /\ CutoffSlot' = CutoffSlot
      /\ read_offset = write_closed_at
  BY <1>1, CloserAdvances DEF Bounds, Cut, CutoffSlot
<1>3. CASE kpc = "mark" \/ kpc' = "settle"
  <2>1. kpc' = "settle" /\ snapshot' = flags[CutoffSlot] /\ flags' = flags
    BY <1>1, <1>2, <1>3, CloserAdvances
  <2>2. CASE flags[CutoffSlot].owner = "closed" BY <1>2, <2>1, <2>2 DEF Settling
  <2>3. CASE flags[CutoffSlot].owner # "closed"
    <3>1. ~LeaveAlone(flags[CutoffSlot]) BY <1>2, <2>3, FoundAtCutoff
    <3> QED BY <1>1, <1>2, <2>1, <3>1 DEF Settling, LeaveAlone
  <2> QED BY <2>2, <2>3
<1>4. CASE kpc # "mark" /\ kpc' # "settle"
  <2>1. marked /\ Settling BY <1>1, <1>2, <1>4 DEF Settles, Bounds
  <2>2. CASE kpc = "settle"
    <3>1. CASE LeaveAlone(snapshot)
      <4>1. flags[CutoffSlot].owner = "closed" BY <2>1, <3>1 DEF Settling
      <4> QED BY <1>1, <2>2, <4>1 DEF Sentinel
    <3>2. CASE ~LeaveAlone(snapshot)
      <4>1. flags'[CutoffSlot].owner = "closed"
        BY <1>1, <1>4, <2>2, <3>2, CloserAdvances, SentinelFlags
      <4> QED BY <1>2, <4>1 DEF Settling
    <3> QED BY <3>1, <3>2
  <2>3. CASE kpc # "settle"
    <3>1. flags[CutoffSlot].owner = "closed" /\ flags' = flags
      BY <1>2, <1>4, <2>1, <2>3, CloserAdvances DEF Settling
    <3> QED BY <1>2, <3>1 DEF Settling
  <2> QED BY <2>2, <2>3
<1> QED BY <1>3, <1>4

\* The beginning, the end and every step
\* Nothing was had of a queue that was just constructed, and no turn is over.
LEMMA CutInit == Init => CInv
<1> SUFFICES ASSUME Init PROVE CInv OBVIOUS
<1> USE DEF Init
<1>1. /\ \A p \in Producers : ~Pending(p) /\ ~Checked(p)
      /\ ~Cut /\ ~CloserRouses /\ \A s \in Slot : flags[s] = Free
  BY DEF Pending, Checked, Cut, CloserRouses
<1>2. Free.owner = "none" /\ ~Free.cons /\ ~NoCall.sentinel BY DEF Free, NoCall
<1>3. Age(FirstTicket) = 0 BY AgeCases, SlotsAndWords
<1>4. Names /\ Bounds BY <1>1 DEF Names, Bounds
<1>5. Sentinel BY <1>1, <1>2 DEF Sentinel
<1>6. Counted
  <2>1. \A s : Had(s) = {} BY DEF Had
  <2>2. \A s : Passed(s) = 0 BY <1>3 DEF Passed
  <2>3. \A s : Turns(s, 0) = {}
    <3>1. \A t \in Word : ~(Age(t) < 0) BY Ages
    <3> QED BY <3>1 DEF Turns
  <2>4. Age(read_offset) <= Age(End) BY <1>1, <1>3 DEF End
  <2> QED BY <2>1, <2>2, <2>3, <2>4 DEF Counted
<1>7. Says /\ Settles BY <1>1 DEF Says, Settles
<1> QED BY <1>4, <1>5, <1>6, <1>7 DEF CInv, Cutting

\* A value that the destructor may meet lies at an offset that it looks at.
LEMMA LeftoverFound ==
  ASSUME Going, Cutting, cpc # "drain", NEW s \in Slot, HasData(s)
  PROVE  s \in Leftover(End)
<1>1. /\ SlotOf(stored[s][2]) = s /\ stored[s] \in accepted /\ stored[s] \notin delivered
      /\ flags[s].owner = "data"
  BY Parts DEF Values, HasData
<1>2. /\ stored[s][2] \in Word /\ Age(stored[s][2]) < Age(End)
  BY <1>1, Numbers DEF Cutting, Bounds
<1>3. stored[s][2] \in Turns(s, Age(End)) /\ stored[s][2] \notin Had(s)
  BY <1>1, <1>2, NewTicket DEF Turns
<1>4. PICK b \in Turns(s, Age(End)) : Age(b) >= Passed(s)
  BY <1>1, <1>3, HadEarly, Behind DEF Cutting
<1>5. /\ b \in Word /\ SlotOf(b) = s /\ Age(b) < Age(End) /\ Age(b) >= Age(read_offset)
      /\ Age(b) \in Nat /\ Age(read_offset) \in Nat /\ read_offset \in Word
      /\ End \in Word /\ Age(End) \in Nat
  <2>1. b \in Word /\ SlotOf(b) = s /\ Age(b) < Age(End) BY DEF Turns
  <2> QED BY <1>4, <2>1, Numbers
<1>6. Age(End) <= MaxPush
  <2>1. CASE Cut BY <2>1, Parts DEF Bounds, End
  <2>2. CASE ~Cut
    <3>1. Age(write_offset) <= MaxPush BY <2>2, Parts, AgeCases DEF Tickets, Cut
    <3> QED BY <2>2, <3>1 DEF End
  <2> QED BY <2>1, <2>2
<1> DEFINE k == Age(b) - Age(read_offset)
<1>7. k \in Nat /\ k \in Word
  <2>1. Age(b) <= WordMod - 1 BY <1>5, Ages
  <2> QED BY <1>5, <2>1, AgeCases
<1>8. \A j \in 0 .. k : /\ Plus(read_offset, j) \in Word
                        /\ Age(Plus(read_offset, j)) = Age(read_offset) + j
  <2> SUFFICES ASSUME NEW j \in 0 .. k
               PROVE  /\ Plus(read_offset, j) \in Word
                      /\ Age(Plus(read_offset, j)) = Age(read_offset) + j
    OBVIOUS
  <2>1. j \in Nat /\ Age(read_offset) + j < WordMod BY <1>5, <1>6, <1>7, AgeCases
  <2> QED BY <1>5, <2>1, LaterAge
<1>9. \A j \in 0 .. k : CircularLess(Plus(read_offset, j), End)
  <2> SUFFICES ASSUME NEW j \in 0 .. k
               PROVE  CircularLess(Plus(read_offset, j), End)
    OBVIOUS
  <2>1. /\ Plus(read_offset, j) \in Word
        /\ Age(Plus(read_offset, j)) < Age(End) /\ Age(Plus(read_offset, j)) <= MaxPush
    BY <1>5, <1>6, <1>7, <1>8, AgeCases
  <2> QED BY <1>5, <1>6, <2>1, LessIsEarlier
<1>10. Plus(read_offset, k) = b
  <2>1. Plus(read_offset, k) \in Word /\ Age(Plus(read_offset, k)) = Age(b) BY <1>5, <1>7, <1>8
  <2> QED BY <1>5, <2>1, AgeNames
<1> HIDE DEF k
<1> QED BY <1>5, <1>7, <1>9, <1>10 DEF Leftover

\* The destructor finds every value that is left.
LEMMA DestructEmpties ==
  ASSUME Going, Cutting, Destruct
  PROVE  CInv'
<1> DEFINE end == IF closed THEN write_closed_at ELSE write_offset
<1>1. /\ cpc = "idle" /\ kpc \in {"idle", "done"} /\ \A p \in Producers : pc[p] = "idle"
      /\ stored' = [s \in Slot |->
                      IF s \in Leftover(end) /\ flags[s].owner = "data" THEN NoValue
                      ELSE stored[s]]
      /\ cpc' = "gone" /\ UNCHANGED <<told, accepted, delivered>>
  BY DEF Destruct, history
<1>2. end = End BY <1>1, Parts DEF End, Cut, Tickets
<1> HIDE DEF end
<1>3. ASSUME NEW s \in Slot
      PROVE  stored'[s] = NoValue
  <2>1. CASE stored[s] = NoValue BY <1>1, <2>1
  <2>2. CASE stored[s] # NoValue
    <3>1. HasData(s) BY <1>1, <2>2, Parts DEF Values
    <3>2. s \in Leftover(end) /\ flags[s].owner = "data"
      BY <1>1, <1>2, <3>1, LeftoverFound DEF HasData
    <3> QED BY <1>1, <3>2
  <2> QED BY <2>1, <2>2
<1>4. told => accepted = delivered
  <2> SUFFICES ASSUME told
               PROVE  accepted \subseteq delivered
    BY Numbers
  <2>1. /\ closed_ready /\ read_offset = write_closed_at /\ Accounts /\ Values BY Parts DEF Says
  <2>2. Cut BY <2>1, ReadableCutoff
  <2>3. \A v \in accepted : v \in delivered \/ \E s \in Slot : HasData(s) /\ stored[s] = v
    BY <2>1 DEF Accounts
  <2>4. \A s \in Slot : HasData(s) => flags[s].owner # "none" /\ flags[s].owner # "closed"
    BY DEF HasData
  <2> QED BY <2>1, <2>2, <2>3, <2>4, AtCutoff
<1> QED BY <1>1, <1>3, <1>4 DEF CInv, Emptied

\* A step that leaves every variable as it is.
LEMMA CutStutters ==
  ASSUME CInv, UNCHANGED vars
  PROVE  CInv'
<1> USE DEF vars, slots, producers, consumer, closer, closing, history
<1>1. Names' <=> Names BY DEF Names, Pending
<1>2. Bounds' <=> Bounds BY DEF Bounds, Cut, End, Checked
<1>3. Sentinel' <=> Sentinel BY DEF Sentinel, CutoffSlot, ReadSlot
<1>4. Counted' <=> Counted BY DEF Counted, Cut, End, Had, Passed, ReadSlot
<1>5. Says' <=> Says BY DEF Says, CloserRouses, ReadSlot
<1>6. Settles' <=> Settles BY DEF Settles, Settling, LeaveAlone, CutoffSlot
<1>7. Emptied' <=> Emptied BY DEF Emptied
<1>8. cpc' = cpc OBVIOUS
<1> QED BY <1>1, <1>2, <1>3, <1>4, <1>5, <1>6, <1>7, <1>8 DEF CInv, Cutting

\* The counting invariant is inductive, given the lock invariant.
LEMMA CutSteps ==
  ASSUME IInv, CInv, [Next]_vars
  PROVE  CInv'
<1>1. CASE UNCHANGED vars BY <1>1, CutStutters
<1>2. CASE cpc = "gone" BY <1>2, GoneStays, CutStutters DEF IInv
<1>3. CASE cpc # "gone" /\ Next
  <2>1. Going /\ Cutting BY <1>3 DEF IInv, Going, CInv
  <2>2. Going' /\ Cutting' => CInv' BY DEF CInv, Going
  <2>3. ASSUME NEW p \in Producers, TakeTicket(p) \/ ProducerStep(p)
        PROVE  Going' /\ Cutting'
    BY <2>1, <2>3, ProducerKeeps, ProducerFrames, NamesAfterProducer, BoundsAfterProducer,
       RestAfterProducer DEF Cutting
  <2>4. CASE StartPull \/ ConsumerStep
    BY <2>1, <2>2, <2>4, ConsumerKeeps, ConsumerFrames, ConsumerKeepsNames,
       SentinelAfterConsumer, CountedAfterConsumer, SaysAfterConsumer, SettlesAfterConsumer
       DEF Cutting
  <2>5. CASE SetClosed \/ CloserStep
    BY <2>1, <2>2, <2>5, CloserKeeps, CloserFrames, BoundsAfterCloser, SentinelAfterCloser,
       CountedAfterCloser, SaysAfterCloser, SettlesAfterCloser DEF Cutting
  <2>6. CASE Destruct BY <2>1, <2>6, DestructEmpties
  <2>7. CASE Gone BY <1>3, <2>7 DEF Gone
  <2> QED BY <1>3, <2>2, <2>3, <2>4, <2>5, <2>6, <2>7 DEF Next
<1> QED BY <1>1, <1>2, <1>3

\* The properties
\* Both invariants hold in every reachable state.
THEOREM CutoffInvariance == Spec => [](IInv /\ CInv)
<1>1. Init => IInv /\ CInv BY InitHolds, CutInit
<1>2. IInv /\ CInv /\ [Next]_vars => (IInv /\ CInv)' BY StepKeeps, CutSteps
<1> QED BY <1>1, <1>2, PTL DEF Spec

\* When a pull says CLOSED every accepted value was delivered, and no producer
\* is left that could still have one accepted.
THEOREM DrainedWhenClosed == Spec => []ClosedMeansDrained
<1>1. IInv /\ CInv => ClosedMeansDrained
  <2> SUFFICES ASSUME IInv, CInv, told
               PROVE  /\ accepted = delivered
                      /\ \A p \in Producers :
                           /\ pc[p] \notin {"parked", "emplace", "publish"}
                           /\ pc[p] \in {"check", "spin", "claim", "park"}
                                /\ CircularLess(ticket[p], write_closed_at)
                                => flags[MySlot(p)].owner = "closed"
    BY DEF ClosedMeansDrained
  <2>1. CASE cpc = "gone" BY <2>1 DEF CInv, Emptied, IInv, Destroyed
  <2>2. CASE cpc # "gone"
    <3>1. Going /\ Cutting BY <2>2 DEF IInv, CInv, Going
    <3>2. /\ closed_ready /\ read_offset = write_closed_at /\ Accounts /\ Values /\ Lines /\ Locks
          /\ delivered \subseteq accepted
      BY <3>1, Parts, Numbers DEF Says
    <3>3. Cut /\ End = write_closed_at BY <3>1, <3>2, ReadableCutoff DEF End
    <3>4. \A s \in Slot : flags[s].owner \notin {"prod", "data"} BY <3>1, <3>2, <3>3, AtCutoff
    <3>5. accepted = delivered
      <4>1. \A v \in accepted : v \in delivered \/ \E s \in Slot : HasData(s) /\ stored[s] = v
        BY <3>2 DEF Accounts
      <4> QED BY <3>2, <3>4, <4>1 DEF HasData
    <3>6. ASSUME NEW p \in Producers, pc[p] \in {"parked", "emplace", "publish"}
          PROVE  FALSE
      <4>1. /\ Checked(p) /\ Pending(p) /\ Age(ticket[p]) < Age(write_closed_at)
            /\ MySlot(p) \in Slot
        BY <3>1, <3>3, <3>6, Parts, Numbers DEF Checked, Pending, Bounds
      <4>2. flags[MySlot(p)].owner = "closed" BY <3>1, <3>2, <3>3, <4>1, AtCutoff
      <4>3. CASE pc[p] \in {"emplace", "publish"} BY <3>2, <4>2, <4>3 DEF Locks, Holds
      <4>4. CASE pc[p] = "parked"
        <5>1. CASE cpc = "wake" /\ next = p BY <3>2, <4>2, <5>1 DEF Locks, Holds
        <5>2. CASE ~(cpc = "wake" /\ next = p)
          <6>1. PICK s \in Slot : s = MySlot(p) BY <4>1
          <6>2. PICK i \in 1 .. Len(Line(s)) : Line(s)[i] = p
            BY <3>2, <4>4, <5>2, <6>1 DEF Lines
          <6>3. Line(s) # <<>>
            <7>1. Len(<<>>) = 0 OBVIOUS
            <7>2. 1 .. 0 = {} OBVIOUS
            <7> QED BY <6>2, <7>1, <7>2
          <6>4. flags[s].owner \in {"prod", "data"} BY <3>2, <6>3 DEF Lines
          <6> QED BY <3>4, <6>4
        <5> QED BY <5>1, <5>2
      <4> QED BY <3>6, <4>3, <4>4
    <3>7. ASSUME NEW p \in Producers, pc[p] \in {"check", "spin", "claim", "park"},
                 CircularLess(ticket[p], write_closed_at)
          PROVE  flags[MySlot(p)].owner = "closed"
      <4>1. Pending(p) /\ MySlot(p) \in Slot BY <3>1, <3>7, Numbers DEF Pending
      <4>2. Age(ticket[p]) < Age(write_closed_at) BY <3>1, <3>3, <3>7, <4>1, Comparable
      <4> QED BY <3>1, <3>2, <3>3, <4>1, <4>2, AtCutoff
    <3> QED BY <3>5, <3>6, <3>7
  <2> QED BY <2>1, <2>2
<1> QED BY <1>1, CutoffInvariance, PTL

\* Once close() has returned no consumer is suspended at the cutoff, unless
\* somebody has taken its pointer and is about to resume it.
THEOREM ConsumerNotForgotten == Spec => []NoConsumerForgotten
<1>1. IInv /\ CInv /\ ConsumerIsRoused => NoConsumerForgotten
  <2> SUFFICES ASSUME IInv, CInv, cpc = "parked", NEW s \in Slot, flags[s].cons, kpc = "done",
                      ReachedCutoff
               PROVE  FALSE
    BY DEF NoConsumerForgotten
  <2>1. Going /\ Cutting BY DEF IInv, CInv, Going
  <2>2. /\ Cut /\ Rousing /\ Settles /\ Sentinel /\ marked BY <2>1, Parts DEF Cut, Bounds
  <2>3. read_offset = write_closed_at BY <2>1, <2>2, Comparable
  <2>4. s = ReadSlot /\ ReadSlot = CutoffSlot /\ can_suspend
    BY <2>2, <2>3 DEF Rousing, ReadSlot, CutoffSlot
  <2>5. flags[CutoffSlot].owner = "closed" BY <2>2, <2>3, <2>4 DEF Settles, Settling
  <2> QED BY <2>2, <2>4, <2>5 DEF Sentinel
<1> QED BY <1>1, ConsumerAwaited, CutoffInvariance, PTL

\* Every accepted value is delivered exactly once or destroyed by the
\* destructor, which finds all that are left.
THEOREM DeliveredAndDestroyed == Spec => []DeliveredOnce
<1>1. CInv /\ cpc = "gone" => DeliveredOnce BY DEF CInv, Emptied, DeliveredOnce
<1>2. (cpc # "gone" => DeliveredOnce) /\ CInv => DeliveredOnce BY <1>1
<1> QED BY <1>2, Delivery, CutoffInvariance, PTL

\* The ring with one slot implements the abstract queue of capacity one,
\* for any set of producers and any word size: tickets, parking, hand-offs,
\* the cutoff and the sentinel show in no behaviour.
\* A consumer that was told CLOSED has seen it, or will when it looks again:
\* it never suspends, nor takes CLOSED back.
Knows ==
    /\ told => cpc \in {"idle", "check", "spin", "gone"} /\ (sees_closed \/ marked)
    /\ told /\ cpc = "check" => sees_closed
    /\ cpc = "spin" => sees_closed
    /\ cpc = "resume_closed" => marked

\* Both invariants and what the consumer knows, until the destructor ran.
Before == Going /\ Cutting /\ Knows

\* There is a value that the consumer has not taken.
Full == flags[0].owner = "data" /\ cpc \notin {"holding", "drain"}

\* What they say of the abstract state.
Abstraction ==
    /\ told \in BOOLEAN /\ closed \in BOOLEAN
    /\ Queue = IF Full THEN <<stored[0]>> ELSE <<>>
    /\ Held = IF cpc = "holding" THEN <<stored[0]>> ELSE <<>>
    /\ Full \/ cpc = "holding" => stored[0] \in Value
    /\ Reading => flags[0].owner = "data"
    /\ closed_ready /\ read_offset = write_closed_at =>
          closed /\ flags[0].owner \notin {"prod", "data"}
    /\ told => closed_ready /\ read_offset = write_closed_at
    /\ cpc = "resume_closed" => closed_ready /\ read_offset = write_closed_at

\* The only slot
\* Everybody is in slot 0.
LEMMA OneSlot ==
  ASSUME Capacity = 1
  PROVE  /\ Slot = {0} /\ 0 \in Slot
         /\ Going => ReadSlot = 0 /\ CutoffSlot = 0 /\ \A p \in Producers : MySlot(p) = 0
<1>1. Slot = {0} /\ 0 \in Slot BY DEF Slot
<1> QED BY <1>1, Numbers

\* The abstract state is what it should be.
LEMMA StateAbstracts ==
  ASSUME Capacity = 1, Before
  PROVE  Abstraction
<1>1. /\ Going /\ Cutting /\ Locks /\ Values /\ Says /\ Bounds /\ Tickets
      /\ ConsumerTypes /\ CloserTypes /\ HistoryTypes /\ delivered \subseteq accepted
      /\ ReadSlot = 0 /\ 0 \in Slot /\ cpc # "gone"
  BY Parts, Numbers, OneSlot DEF Before, Going
<1>2. HasData(0) <=> flags[0].owner = "data" /\ cpc # "drain" BY <1>1 DEF HasData
<1>3. HasData(0) => stored[0] # NoValue /\ stored[0] \in Value BY <1>1 DEF Values, HistoryTypes
<1>4. Reading => flags[0].owner = "data" BY <1>1 DEF Locks
<1>5. cpc = "holding" => HasData(0) BY <1>2, <1>4 DEF Reading
<1>6. cpc = "drain" => stored[0] = NoValue
  <2> SUFFICES ASSUME cpc = "drain", stored[0] # NoValue
               PROVE  FALSE
    OBVIOUS
  <2>1. PICK p \in Producers : pc[p] = "publish" /\ MySlot(p) = 0 BY <1>1, <1>2 DEF Values
  <2>2. flags[0].owner = "prod" BY <1>1, <2>1 DEF Locks, Holds
  <2> QED BY <1>4, <2>2 DEF Reading
<1>7. Queue = IF Full THEN <<stored[0]>> ELSE <<>> BY <1>1, <1>2, <1>3, <1>6 DEF Queue, Full
<1>8. ASSUME closed_ready, read_offset = write_closed_at
      PROVE  closed /\ flags[0].owner \notin {"prod", "data"}
  <2>1. Cut BY <1>1, <1>8, ReadableCutoff
  <2>2. flags[0].owner = "closed" \/ flags[0].owner = "none" BY <1>1, <1>8, <2>1, AtCutoff
  <2>3. closed BY <1>1, <2>1 DEF Tickets, Cut
  <2> QED BY <2>2, <2>3
<1> QED
  BY <1>1, <1>2, <1>3, <1>4, <1>5, <1>7, <1>8
     DEF Abstraction, Held, Full, ConsumerTypes, CloserTypes, Says

\* What the consumer knows
\* It keeps knowing, whatever it does next ...
LEMMA KnowsAfterConsumer ==
  ASSUME Capacity = 1, Before, StartPull \/ ConsumerStep
  PROVE  Knows'
<1>1. /\ Going /\ Cutting /\ Knows /\ Abstraction /\ Says /\ Bounds /\ Sentinel
      /\ 0 \in Slot /\ ReadSlot = 0 /\ CutoffSlot = 0 /\ ConsumerTypes /\ ConsumerFrame
  BY StateAbstracts, Parts, OneSlot, ConsumerFrames DEF Before
<1>2. marked' = marked /\ cpc' # "resume_closed" BY <1>1, ConsumerRuns DEF ConsumerFrame, closer
<1>3. CASE StartPull \/ LookAgain BY <1>1, <1>2, <1>3, LooksAt DEF Knows
<1>4. CASE LoadClosed
  <2>1. CASE ~sees_closed /\ NothingYet /\ UNCHANGED sees_closed
    <3>1. ~told /\ ~told' /\ cpc' \in {"arm", "idle"}
      BY <1>1, <1>4, <2>1 DEF LoadClosed, NothingYet, Knows, ConsumerTypes
    <3> QED BY <1>2, <3>1 DEF Knows
  <2>2. CASE cpc' = "spin" /\ sees_closed' = TRUE BY <1>2, <2>2 DEF Knows
  <2> QED BY <1>4, <2>1, <2>2 DEF LoadClosed
<1>5. CASE LoadCutoff
  <2>1. cpc = "spin" /\ sees_closed' = sees_closed /\ sees_closed
    BY <1>1, <1>5 DEF LoadCutoff, Knows
  <2>2. ReachedCutoff <=> read_offset = write_closed_at
    BY <1>1, <1>5, ReadableCutoff DEF LoadCutoff
  <2>3. cpc' \in {"idle", "look", "arm"} BY <1>5 DEF LoadCutoff, NothingYet
  <2>4. told' => cpc' = "idle"
    <3>1. CASE ReachedCutoff BY <1>5, <3>1 DEF LoadCutoff
    <3>2. CASE ~ReachedCutoff
      <4>1. ~told BY <1>1, <2>2, <3>2 DEF Abstraction
      <4> QED BY <1>5, <3>2, <4>1 DEF LoadCutoff, NothingYet
    <3> QED BY <3>1, <3>2
  <2> QED BY <1>2, <2>1, <2>3, <2>4 DEF Knows
<1>6. CASE Rearm
  <2>1. /\ cpc = "rearm" /\ cpc' \in {"idle", "arm"} /\ ~told
        /\ told' => cpc' = "idle"
    BY <1>1, <1>6 DEF Rearm, Knows
  <2>2. marked BY <1>1, <2>1 DEF Sentinel, Bounds
  <2> QED BY <1>2, <2>1, <2>2 DEF Knows
<1>7. CASE PullResume
  <2>1. /\ cpc' \in {"holding", "idle"} /\ sees_closed' = sees_closed
        /\ told' => cpc = "resume_closed" /\ cpc' = "idle"
    BY <1>7 DEF PullResume
  <2> QED BY <1>1, <1>2, <2>1 DEF Knows
<1>8. CASE Confirm \/ Disarm
  <2>1. ~told /\ ~told' /\ cpc' \notin {"spin", "check"}
    BY <1>1, <1>8, Zenon DEF Confirm, Disarm, Knows
  <2> QED BY <1>2, <2>1 DEF Knows
<1>9. CASE Arm \/ DestroyValue \/ WakeProducer
  BY <1>1, <1>2, <1>9 DEF Arm, DestroyValue, WakeProducer, Knows
<1>10. CASE DrainAndHandoff
  <2>1. cpc = "drain" /\ told' = told /\ cpc' \in {"idle", "wake"} BY <1>10 DEF DrainAndHandoff
  <2> QED BY <1>1, <1>2, <2>1 DEF Knows
<1> QED BY <1>3, <1>4, <1>5, <1>6, <1>7, <1>8, <1>9, <1>10 DEF ConsumerStep

\* ... and whatever others do.
LEMMA KnowsAfterOthers ==
  ASSUME Before,
         \/ SetClosed \/ CloserStep
         \/ \E p \in Producers : TakeTicket(p) \/ ProducerStep(p)
  PROVE  Knows'
<1>1. Going /\ Cutting /\ Knows /\ Bounds BY Parts DEF Before
<1>2. CASE SetClosed \/ CloserStep
  <2>1. marked => marked'
    BY <1>2 DEF SetClosed, CloserStep, DrawCutoff, SetReady, MarkCutoffSlot, PlaceSentinel,
                CloserExtracts, CloserWakes
  <2>2. CloserFrame BY <1>1, <1>2, CloserFrames
  <2>3. CloserRouses => marked BY <1>1 DEF CloserRouses, Bounds
  <2> QED BY <1>1, <2>1, <2>2, <2>3 DEF CloserFrame, Knows
<1>3. ASSUME NEW p \in Producers, TakeTicket(p) \/ ProducerStep(p)
      PROVE  Knows'
  <2>1. ProducerFrame(p) BY <1>1, <1>3, ProducerFrames
  <2> QED BY <1>1, <2>1 DEF ProducerFrame, closer, Knows
<1> QED BY <1>2, <1>3

\* Steps
\* A step that leaves what the slot and the consumer's hand show, shows nothing.
LEMMA Unseen ==
  ASSUME Abstraction, Abstraction', UNCHANGED <<told, closed>>,
         Full' <=> Full, Full => stored'[0] = stored[0],
         cpc' = "holding" <=> cpc = "holding", cpc = "holding" => stored'[0] = stored[0]
  PROVE  UNCHANGED Abstract!vars
<1>1. Queue' = Queue BY DEF Abstraction
<1>2. Held' = Held BY DEF Abstraction
<1> QED BY <1>1, <1>2 DEF Abstract!vars

\* So does one that moves nobody in or out of the value.
LEMMA Apart ==
  ASSUME Abstraction, Abstraction', UNCHANGED <<told, closed, stored>>,
         flags'[0].owner = "data" <=> flags[0].owner = "data",
         cpc' = cpc \/ {cpc, cpc'} \cap {"holding", "drain"} = {}
  PROVE  UNCHANGED Abstract!vars
<1>1. Full' <=> Full BY DEF Full
<1>2. cpc' = "holding" <=> cpc = "holding" OBVIOUS
<1> QED BY <1>1, <1>2, Unseen

\* A pull that finds the value takes it from the queue.
LEMMA Takes ==
  ASSUME Abstraction, Abstraction', UNCHANGED <<closed, stored, flags>>,
         cpc \notin {"holding", "drain"}, cpc' = "holding", ~told, ~told',
         flags[0].owner = "data"
  PROVE  Abstract!Dequeue
<1>1. Full /\ ~Full' BY DEF Full
<1>2. Queue = <<stored[0]>> /\ Queue' = <<>> /\ Held = <<>> /\ Held' = <<stored[0]>>
  BY <1>1 DEF Abstraction
<1>3. told' = told BY Zenon DEF Abstraction
<1>4. /\ <<stored[0]>> # <<>> /\ Head(<<stored[0]>>) = stored[0]
      /\ Tail(<<stored[0]>>) = <<>>
  OBVIOUS
<1> QED BY <1>2, <1>3, <1>4 DEF Abstract!Dequeue

\* CLOSED is said on an empty queue that is closed.
LEMMA SaysIt ==
  ASSUME Abstraction, Abstraction', UNCHANGED <<closed, stored, flags>>,
         cpc \notin {"holding", "drain"}, cpc' = "idle", told' = TRUE,
         closed_ready, read_offset = write_closed_at
  PROVE  Abstract!SayClosed
<1>1. closed /\ ~Full /\ ~Full' BY DEF Abstraction, Full
<1>2. Queue = <<>> /\ Queue' = <<>> /\ Held = <<>> /\ Held' = <<>> BY <1>1 DEF Abstraction
<1> QED BY <1>1, <1>2 DEF Abstract!SayClosed

\* Publishing the value in the slot is the push.
LEMMA Publishes ==
  ASSUME Capacity = 1, Before, Abstraction, Abstraction', NEW p \in Producers, Publish(p)
  PROVE  Abstract!Enqueue
<1>1. /\ Going /\ Locks /\ SlotTypes /\ MySlot(p) = 0 /\ 0 \in Slot
      /\ pc[p] = "publish" /\ Holds(p)
  BY Parts, OneSlot DEF Before, Publish, Holds
<1>2. flags[0].owner = "prod" BY <1>1 DEF Locks
<1>3. flags'[0].owner = "data" BY <1>1 DEF Publish, PublishedFlags, SlotTypes, SlotRecord
<1>4. cpc' = cpc /\ closed' = closed /\ told' = told /\ stored' = stored
  BY DEF Publish, consumer, closing
<1>5. ~told /\ ~Reading BY <1>2 DEF Abstraction
<1>6. ~Full /\ Full' /\ cpc # "holding" BY <1>2, <1>3, <1>4, <1>5 DEF Full, Reading
<1>7. Queue = <<>> /\ Queue' = <<stored[0]>> /\ stored[0] \in Value /\ Held = <<>> /\ Held' = <<>>
  BY <1>4, <1>6 DEF Abstraction
<1>8. /\ Len(<<>>) = 0 /\ Len(<<stored[0]>>) = 1
      /\ <<stored[0]>> \in Seq(Value) /\ SubSeq(<<stored[0]>>, 1, 0) = <<>>
  <2>1. SubSeq(<<stored[0]>>, 1, 0) \in Seq(Value) /\ Len(SubSeq(<<stored[0]>>, 1, 0)) = 0
    BY <1>7
  <2> QED BY <1>7, <2>1, EmptySeq
<1> QED BY <1>4, <1>5, <1>7, <1>8 DEF Abstract!Enqueue

\* A step of a producer.
LEMMA ProducerImplements ==
  ASSUME Capacity = 1, Before, Abstraction, Abstraction',
         NEW p \in Producers, TakeTicket(p) \/ ProducerStep(p)
  PROVE  [Abstract!Next]_(Abstract!vars)
<1>1. /\ Locks /\ SlotTypes /\ MySlot(p) = 0 /\ 0 \in Slot
      /\ pc[p] = "emplace" => flags[0].owner = "prod"
  BY Parts, OneSlot DEF Before, Locks, Holds
<1>2. CASE Publish(p) BY <1>2, Publishes DEF Abstract!Next
<1>3. CASE TakeTicket(p) \/ CheckClosed(p) \/ CompareCutoff(p) \/ ExtractConsumer(p)
  BY <1>3, Apart DEF TakeTicket, CheckClosed, CompareCutoff, ExtractConsumer, slots, consumer,
                     closing
<1>4. CASE WakeConsumer(p)
  <2>1. cpc = "parked" /\ cpc' = "resume"
    BY <1>4, Parts DEF Before, Rousing, Rouses, WakeConsumer
  <2> QED BY <1>4, <2>1, Apart DEF WakeConsumer, slots, closing
<1>5. CASE TryClaim(p) \/ Park(p)
  <2>1. flags'[0].owner = "data" <=> flags[0].owner = "data"
    BY <1>1, <1>5 DEF TryClaim, Park, Claimable, ParkedOn, SlotTypes, SlotRecord
  <2> QED BY <1>5, <2>1, Apart DEF TryClaim, Park, consumer, closing
<1>6. CASE Emplace(p)
  <2>1. /\ flags' = flags /\ cpc' = cpc /\ closed' = closed /\ told' = told
        /\ flags[0].owner = "prod"
    BY <1>1, <1>6 DEF Emplace, consumer, closing
  <2>2. ~Full /\ ~Full' /\ cpc # "holding" BY <2>1 DEF Full, Abstraction, Reading
  <2> QED BY <2>1, <2>2, Unseen
<1> QED BY <1>2, <1>3, <1>4, <1>5, <1>6 DEF ProducerStep

\* A pull that finds nothing: it suspends later, or says EMPTY.
LEMMA FindsNothing ==
  ASSUME Abstraction, Abstraction', UNCHANGED <<closed, stored, flags>>, ~told, NothingYet,
         cpc \in {"check", "spin"}
  PROVE  UNCHANGED Abstract!vars
<1>1. ~told' /\ cpc' \in {"arm", "idle"} BY DEF NothingYet
<1>2. told' = told BY <1>1, Zenon DEF Abstraction
<1> QED BY <1>1, <1>2, Apart

\* The steps of a pull.
LEMMA PullImplements ==
  ASSUME Capacity = 1, Before, Abstraction, Abstraction',
         \/ StartPull \/ LookAgain \/ LoadClosed \/ LoadCutoff \/ Rearm
         \/ Arm \/ Confirm \/ Disarm \/ PullResume
  PROVE  [Abstract!Next]_(Abstract!vars)
<1>1. /\ Going /\ Cutting /\ Knows /\ SlotTypes /\ ConsumerTypes /\ ReadSlot = 0 /\ 0 \in Slot
      /\ closed_ready => (ReachedCutoff <=> read_offset = write_closed_at)
  BY Parts, OneSlot, ReadableCutoff DEF Before
<1>2. CASE StartPull \/ LookAgain
  <2>1. PICK m : Look(m) /\ cpc \in {"idle", "look"} BY <1>2 DEF StartPull, LookAgain
  <2>2. UNCHANGED <<closed, stored, flags>> BY <2>1 DEF Look, slots, closing
  <2>3. CASE flags[0].owner = "data"
    <3>1. ~told /\ ~told' /\ cpc' = "holding" BY <1>1, <2>1, <2>3 DEF Look, Abstraction
    <3> QED BY <2>1, <2>2, <2>3, <3>1, Takes DEF Abstract!Next
  <2>4. CASE flags[0].owner # "data"
    <3>1. told' = told /\ cpc' = "check" BY <1>1, <2>1, <2>4 DEF Look
    <3> QED BY <2>1, <2>2, <3>1, Apart
  <2> QED BY <2>3, <2>4
<1>3. CASE LoadClosed
  <2>1. cpc = "check" /\ UNCHANGED <<closed, stored, flags>>
    BY <1>3 DEF LoadClosed, slots, closing
  <2>2. CASE ~sees_closed /\ NothingYet
    <3>1. ~told BY <1>1, <2>1, <2>2 DEF Knows
    <3> QED BY <2>1, <2>2, <3>1, FindsNothing
  <2>3. CASE cpc' = "spin" /\ UNCHANGED told BY <2>1, <2>3, Apart
  <2> QED BY <1>3, <2>2, <2>3 DEF LoadClosed
<1>4. CASE LoadCutoff
  <2>1. cpc = "spin" /\ closed_ready /\ UNCHANGED <<closed, stored, flags>>
    BY <1>4 DEF LoadCutoff, slots, closing
  <2>2. CASE ReachedCutoff
    <3>1. cpc' = "idle" /\ told' = TRUE BY <1>4, <2>2 DEF LoadCutoff
    <3> QED BY <1>1, <2>1, <2>2, <3>1, SaysIt DEF Abstract!Next
  <2>3. CASE ~ReachedCutoff
    <3>1. ~told BY <1>1, <2>1, <2>3 DEF Abstraction
    <3>2. NothingYet \/ (cpc' = "look" /\ UNCHANGED told) BY <1>4, <2>3 DEF LoadCutoff
    <3> QED BY <2>1, <3>1, <3>2, FindsNothing, Apart
  <2> QED BY <2>2, <2>3
<1>5. CASE Rearm
  <2>1. cpc = "rearm" /\ closed_ready /\ UNCHANGED <<closed, stored, flags>>
    BY <1>5 DEF Rearm, slots, closing
  <2>2. CASE ReachedCutoff
    <3>1. cpc' = "idle" /\ told' = TRUE BY <1>5, <2>2 DEF Rearm
    <3> QED BY <1>1, <2>1, <2>2, <3>1, SaysIt DEF Abstract!Next
  <2>3. CASE ~ReachedCutoff BY <1>5, <2>1, <2>3, Apart DEF Rearm
  <2> QED BY <2>2, <2>3
<1>6. CASE Arm BY <1>6, Apart DEF Arm, closing
<1>7. CASE Confirm
  <2>1. /\ cpc = "confirm" /\ UNCHANGED <<told, closed, stored>>
        /\ cpc' \in {"disarm_data", "disarm_closed", "parked"}
    BY <1>7, Zenon DEF Confirm, closing
  <2>2. flags'[0].owner = flags[0].owner BY <1>1, <1>7 DEF Confirm, SlotTypes, SlotRecord
  <2> QED BY <2>1, <2>2, Apart
<1>8. CASE Disarm
  <2>1. /\ cpc \in {"disarm_data", "disarm_closed"} /\ UNCHANGED <<closed, stored, flags>>
        /\ \/ cpc' \in {"parked", "rearm"} /\ UNCHANGED told
           \/ cpc = "disarm_data" /\ cpc' = "holding" /\ ~told'
    BY <1>8, Zenon DEF Disarm, closing
  <2>2. CASE cpc' \in {"parked", "rearm"} /\ UNCHANGED told BY <2>1, <2>2, Apart
  <2>3. CASE cpc = "disarm_data" /\ cpc' = "holding" /\ ~told'
    <3>1. ~told /\ flags[0].owner = "data" BY <1>1, <2>3 DEF Knows, Abstraction, Reading
    <3> QED BY <2>1, <2>3, <3>1, Takes DEF Abstract!Next
  <2> QED BY <2>1, <2>2, <2>3
<1>9. CASE PullResume
  <2>1. UNCHANGED <<closed, stored, flags>> BY <1>9 DEF PullResume, slots, closing
  <2>2. CASE cpc = "resume"
    <3>1. ~told /\ flags[0].owner = "data" BY <1>1, <2>2 DEF Knows, Abstraction, Reading
    <3>2. cpc' = "holding" /\ ~told' BY <1>9, <2>2 DEF PullResume
    <3> QED BY <2>1, <2>2, <3>1, <3>2, Takes DEF Abstract!Next
  <2>3. CASE cpc = "resume_closed"
    <3>1. cpc' = "idle" /\ told' = TRUE BY <1>9, <2>3 DEF PullResume
    <3>2. closed_ready /\ read_offset = write_closed_at BY <2>3 DEF Abstraction
    <3> QED BY <2>1, <2>3, <3>1, <3>2, SaysIt DEF Abstract!Next
  <2> QED BY <1>9, <2>2, <2>3 DEF PullResume
<1> QED BY <1>2, <1>3, <1>4, <1>5, <1>6, <1>7, <1>8, <1>9

\* The end of the scope, and what finish_read does for the producers.
LEMMA FinishImplements ==
  ASSUME Capacity = 1, Before, Abstraction, Abstraction',
         DestroyValue \/ DrainAndHandoff \/ WakeProducer
  PROVE  [Abstract!Next]_(Abstract!vars)
<1>1. SlotTypes /\ ReadSlot = 0 /\ 0 \in Slot BY Parts, OneSlot DEF Before
<1>2. CASE DestroyValue
  <2>1. cpc = "holding" /\ cpc' = "drain" /\ UNCHANGED <<closed, told>>
    BY <1>2 DEF DestroyValue, closing
  <2>2. ~Full /\ ~Full' BY <2>1 DEF Full
  <2>3. Queue = <<>> /\ Queue' = <<>> /\ Held = <<stored[0]>> /\ Held' = <<>>
    BY <2>1, <2>2 DEF Abstraction
  <2> QED BY <2>1, <2>3 DEF Abstract!Next, Abstract!Release
<1>3. CASE DrainAndHandoff
  <2>1. cpc = "drain" /\ cpc' \in {"idle", "wake"} /\ UNCHANGED <<closed, told, stored>>
    BY <1>3 DEF DrainAndHandoff, closing
  <2>2. flags' = [flags EXCEPT ![0] = Free] \/ flags' = [flags EXCEPT ![0] = HandedFlags(0)]
    BY <1>1, <1>3 DEF DrainAndHandoff
  <2>3. Free.owner = "none" /\ HandedFlags(0).owner = "prod" BY DEF Free, HandedFlags
  <2>4. flags'[0].owner # "data" BY <1>1, <2>2, <2>3 DEF SlotTypes
  <2>5. ~Full /\ ~Full' /\ cpc' # "holding" /\ cpc # "holding" BY <2>1, <2>4 DEF Full
  <2> QED BY <2>1, <2>5, Unseen
<1>4. CASE WakeProducer BY <1>4, Apart DEF WakeProducer, slots, closing
<1> QED BY <1>2, <1>3, <1>4

\* A step of close().
LEMMA CloserImplements ==
  ASSUME Capacity = 1, Before, Abstraction, Abstraction', SetClosed \/ CloserStep
  PROVE  [Abstract!Next]_(Abstract!vars)
<1>1. /\ SlotTypes /\ CutoffSlot = 0 /\ 0 \in Slot /\ Rousing BY Parts, OneSlot DEF Before
<1>2. CASE SetClosed
  <2>1. cpc' = cpc /\ stored' = stored /\ flags' = flags /\ told' = told /\ closed' = TRUE
    BY <1>2 DEF SetClosed, slots, consumer
  <2>2. Queue' = Queue /\ Held' = Held BY <2>1 DEF Queue, Held
  <2> QED BY <2>1, <2>2 DEF Abstract!Next, Abstract!Close
<1>3. CASE DrawCutoff \/ SetReady \/ MarkCutoffSlot
  BY <1>3, Apart DEF DrawCutoff, SetReady, MarkCutoffSlot, slots, consumer, closing
<1>4. CASE PlaceSentinel
  <2>1. cpc' = cpc /\ UNCHANGED <<told, closed, stored>>
    BY <1>4 DEF PlaceSentinel, consumer, closing
  <2>2. flags'[0].owner = "data" <=> flags[0].owner = "data"
    <3>1. CASE flags' = flags BY <3>1
    <3>2. CASE /\ ~LeaveAlone(snapshot) /\ flags[0] = snapshot
               /\ flags' = [flags EXCEPT ![0] = [Free EXCEPT !.owner = "closed"]]
      <4>1. [Free EXCEPT !.owner = "closed"].owner = "closed" BY SentinelFlags
      <4>2. flags'[0].owner = "closed" BY <1>1, <3>2, <4>1, Zenon DEF SlotTypes
      <4> QED BY <3>2, <4>2 DEF LeaveAlone
    <3> QED BY <1>1, <1>4, <3>1, <3>2 DEF PlaceSentinel
  <2> QED BY <2>1, <2>2, Apart
<1>5. CASE CloserExtracts BY <1>5, Apart DEF CloserExtracts, consumer, closing
<1>6. CASE CloserWakes
  <2>1. cpc = "parked" /\ cpc' = "resume_closed"
    BY <1>1, <1>6 DEF CloserWakes, Rousing, CloserRouses
  <2> QED BY <1>6, <2>1, Apart DEF CloserWakes, slots, closing
<1> QED BY <1>2, <1>3, <1>4, <1>5, <1>6 DEF CloserStep

\* The destructor empties the queue and leaves it closed.
LEMMA Discards ==
  ASSUME Destruct
  PROVE  Abstract!Discard
<1>1. cpc = "idle" /\ cpc' = "gone" /\ closed' = TRUE /\ told' = told BY DEF Destruct
<1>2. Queue' = <<>> /\ Held = <<>> /\ Held' = <<>> BY <1>1 DEF Queue, Held
<1> QED BY <1>1, <1>2 DEF Abstract!Discard

\* The refinement
\* What the consumer knows is invariant, and so the abstract state is right.
Known  == IInv /\ CInv /\ (cpc # "gone" => Knows)
Mapped == Known /\ (cpc # "gone" => Abstraction)

\* While the queue is there, a step but its last is one actor's.
LEMMA StepOfAnActor ==
  ASSUME IInv, CInv, Next, cpc # "gone", ~Destruct
  PROVE  /\ Going /\ Cutting /\ Going'
         /\ \/ StartPull \/ ConsumerStep \/ SetClosed \/ CloserStep
            \/ \E p \in Producers : TakeTicket(p) \/ ProducerStep(p)
<1>1. Going /\ Cutting BY DEF Going, IInv, CInv
<1>2. \/ StartPull \/ ConsumerStep \/ SetClosed \/ CloserStep
      \/ \E p \in Producers : TakeTicket(p) \/ ProducerStep(p)
  BY DEF Next, Gone
<1>3. Going' BY <1>1, <1>2, ProducerKeeps, ConsumerKeeps, CloserKeeps
<1> QED BY <1>1, <1>2, <1>3

\* Every step keeps what the consumer knows.
LEMMA StepKnows ==
  ASSUME Capacity = 1, Known, IInv', CInv', [Next]_vars
  PROVE  Known'
<1>1. CASE UNCHANGED vars BY <1>1 DEF Known, Knows, vars, consumer, closer
<1>2. CASE cpc = "gone" BY <1>1, <1>2, GoneStays DEF Known, IInv
<1>3. CASE Destruct BY <1>3 DEF Known, Destruct
<1>4. CASE Next /\ cpc # "gone" /\ ~Destruct
  <2>1. Knows' BY <1>4, StepOfAnActor, KnowsAfterConsumer, KnowsAfterOthers DEF Known, Before
  <2> QED BY <2>1 DEF Known
<1> QED BY <1>1, <1>2, <1>3, <1>4

\* Every step of the ring is a step of the queue, or shows nothing.
LEMMA StepImplements ==
  ASSUME Capacity = 1, Mapped, Mapped', [Next]_vars
  PROVE  [Abstract!Next]_(Abstract!vars)
<1>1. CASE UNCHANGED vars
  <2>1. UNCHANGED <<cpc, flags, stored, told, closed>>
    BY <1>1 DEF vars, slots, consumer, closing
  <2>2. Queue' = Queue /\ Held' = Held BY <2>1 DEF Queue, Held
  <2> QED BY <2>1, <2>2 DEF Abstract!vars
<1>2. CASE cpc = "gone" BY <1>1, <1>2, GoneStays DEF Mapped, Known, IInv
<1>3. CASE Destruct BY <1>3, Discards DEF Abstract!Next
<1>4. CASE Next /\ cpc # "gone" /\ ~Destruct
  <2>1. /\ Before /\ Abstraction /\ Abstraction'
        /\ \/ StartPull \/ ConsumerStep \/ SetClosed \/ CloserStep
           \/ \E p \in Producers : TakeTicket(p) \/ ProducerStep(p)
    BY <1>4, StepOfAnActor DEF Mapped, Known, Before, Going
  <2> QED
    BY <2>1, ProducerImplements, PullImplements, FinishImplements, CloserImplements
       DEF ConsumerStep
<1> QED BY <1>1, <1>2, <1>3, <1>4

\* A new ring is an empty queue.
LEMMA InitImplements ==
  ASSUME Capacity = 1, Init
  PROVE  Abstract!Init /\ Knows
<1>1. /\ flags[0] = Free /\ cpc = "idle" /\ told = FALSE /\ closed = FALSE BY OneSlot DEF Init
<1>2. Queue = <<>> /\ Held = <<>> BY <1>1 DEF Queue, Held, Free
<1> QED BY <1>1, <1>2 DEF Abstract!Init, Knows

\* With one slot qu_mpsc_bounded is a bounded FIFO queue that can be closed,
\* however many producers race for the slot, park, and are turned away.
THEOREM OneSlotRefinement ==
  ASSUME Capacity = 1
  PROVE  Spec => ImplementsAsyncQueue
<1>1. Init => Abstract!Init /\ Known BY InitImplements, InitHolds, CutInit DEF Known
<1>2. Known /\ IInv' /\ CInv' /\ [Next]_vars => Known' BY StepKnows
<1>3. Spec => [](IInv /\ CInv) BY CutoffInvariance
<1>4. Known => Mapped BY StateAbstracts DEF Known, Mapped, Before, Going, IInv, CInv
<1>5. Mapped /\ Mapped' /\ [Next]_vars => [Abstract!Next]_(Abstract!vars) BY StepImplements
<1> QED BY <1>1, <1>2, <1>3, <1>4, <1>5, PTL DEF Spec, Abstract!Spec, ImplementsAsyncQueue
================================================================================
