----------------------------- MODULE WordArithmetic -----------------------------
(***************************************************************************)
(* Facts about % on naturals, for the proofs about rings: a queue turns an *)
(* offset, which is a position modulo 2^w, into a slot by a second %.  And *)
(* about runs of consecutive numbers, which is what a queue holds when the *)
(* n-th value that went in is the number n.                                *)
(***************************************************************************)
EXTENDS Integers, Sequences, SequenceTheorems, WellFoundedInduction, TLAPS

\* Induction over the naturals.
LEMMA LeastOf ==
  ASSUME NEW T, T \subseteq Nat, T # {}
  PROVE  \E x \in T : \A y \in T : x <= y
<1>1. PICK x \in T : \A y \in T : ~(<<y, x>> \in OpToRel(<, Nat))
  BY WFMin, NatLessThanWellFounded
<1>2. ASSUME NEW y \in T, y < x
      PROVE  <<y, x>> \in OpToRel(<, Nat)
  BY <1>2 DEF OpToRel
<1>3. \A y \in T : ~(y < x) BY <1>1, <1>2, Zenon
<1> QED BY <1>3

\* Quotient and remainder.
LEMMA DivMod ==
  ASSUME NEW a \in Nat, NEW m \in Nat, m > 0
  PROVE  /\ a \div m \in Nat /\ a % m \in 0 .. m - 1
         /\ a = m * (a \div m) + (a % m)
  BY SMT

\* A larger quotient is larger by a whole divisor.
LEMMA MulMono ==
  ASSUME NEW m \in Nat, NEW q \in Nat, NEW r \in Nat, q < r
  PROVE  m * q + m <= m * r
  BY SMT

\* The remainder is the only number below the divisor that fits.
LEMMA ModUnique ==
  ASSUME NEW m \in Nat, m > 0, NEW q \in Nat, NEW r \in 0 .. m - 1
  PROVE  (m * q + r) % m = r
  BY SMT

\* Wrapping before an addition does not change what wrapping after it gives.
LEMMA ModPlus ==
  ASSUME NEW a \in Nat, NEW k \in Nat, NEW m \in Nat, m > 0
  PROVE  ((a % m) + k) % m = (a + k) % m
<1> DEFINE q == a \div m
           r == a % m
           q2 == (r + k) \div m
           r2 == (r + k) % m
<1>1. q \in Nat /\ r \in 0 .. m - 1 /\ a = m * q + r BY DivMod
<1>2. r + k \in Nat BY <1>1
<1>3. q2 \in Nat /\ r2 \in 0 .. m - 1 /\ r + k = m * q2 + r2 BY <1>2, DivMod
<1> HIDE DEF q, r, q2, r2
<1>4. m * q + m * q2 = m * (q + q2) BY <1>1, <1>3
<1>5. a + k = m * (q + q2) + r2 BY <1>1, <1>3, <1>4
<1>6. (a + k) % m = r2
  <2>1. q + q2 \in Nat BY <1>1, <1>3
  <2>2. (m * (q + q2) + r2) % m = r2 BY <2>1, <1>3, ModUnique
  <2> QED BY <2>2, <1>5
<1> QED BY <1>6 DEF r, r2

\* When c divides w, a position has the same slot before and after wrapping.
LEMMA ModMod ==
  ASSUME NEW a \in Nat, NEW c \in Nat, NEW w \in Nat, c > 0, w > 0, w % c = 0
  PROVE  (a % w) % c = a % c
<1> DEFINE d == w \div c
           q == a \div w
           r == a % w
           q2 == r \div c
           r2 == r % c
<1>1. d \in Nat /\ w = c * d BY DivMod
<1>2. q \in Nat /\ r \in Nat /\ a = w * q + r BY DivMod
<1>3. q2 \in Nat /\ r2 \in 0 .. c - 1 /\ r = c * q2 + r2 BY <1>2, DivMod
<1> HIDE DEF d, q, r, q2, r2
<1>4. (c * d) * q = c * (d * q) /\ d * q \in Nat BY <1>1, <1>2
<1>5. c * (d * q) + c * q2 = c * (d * q + q2) BY <1>3, <1>4
<1>6. a = c * (d * q + q2) + r2 BY <1>1, <1>2, <1>3, <1>4, <1>5
<1>7. a % c = r2
  <2>1. d * q + q2 \in Nat BY <1>3, <1>4
  <2>2. (c * (d * q + q2) + r2) % c = r2 BY <2>1, <1>3, ModUnique
  <2> QED BY <2>2, <1>6
<1> QED BY <1>7 DEF r, r2

\* Two positions with one remainder are at least a divisor apart.
LEMMA ModApart ==
  ASSUME NEW a \in Nat, NEW b \in Nat, NEW m \in Nat, m > 0,
         a < b, a % m = b % m
  PROVE  a + m <= b
<1> DEFINE q == a \div m
           p == b \div m
           r == a % m
<1>1. q \in Nat /\ r \in 0 .. m - 1 /\ a = m * q + r BY DivMod
<1>2. p \in Nat /\ b = m * p + r BY DivMod
<1> HIDE DEF q, p, r
<1>3. m * q < m * p BY <1>1, <1>2
<1>4. q < p
  <2>1. CASE p < q BY <2>1, <1>1, <1>2, <1>3, MulMono
  <2>2. CASE p = q BY <2>2, <1>1, <1>2, <1>3
  <2> QED BY <2>1, <2>2, <1>1, <1>2
<1> QED BY <1>1, <1>2, <1>4, MulMono

\* Circular distance: a position that is d behind another is, after wrapping,
\* d behind it modulo m.
LEMMA ModBehind ==
  ASSUME NEW a \in Nat, NEW b \in Nat, NEW m \in Nat, a < b, b - a < m
  PROVE  ((a % m) - (b % m)) % m = m - (b - a)
<1> DEFINE q == a \div m
           r == a % m
           p == b \div m
           t == b % m
<1>1. q \in Nat /\ r \in 0 .. m - 1 /\ a = m * q + r BY DivMod
<1>2. p \in Nat /\ t \in 0 .. m - 1 /\ b = m * p + t BY DivMod
<1> HIDE DEF q, r, p, t
<1>3. CASE p = q
  <2> DEFINE x == m - (b - a)
  <2>1. r - t = x - m /\ x \in 0 .. m - 1 BY <1>1, <1>2, <1>3
  <2> HIDE DEF x
  <2>2. (x - m) % m = x BY <2>1
  <2> QED BY <2>1, <2>2 DEF r, t, x
<1>4. CASE p = q + 1
  <2>1. m * p = m * q + m BY <1>1, <1>2, <1>4
  <2>2. r - t = m - (b - a) BY <2>1, <1>1, <1>2
  <2> QED BY <2>2, <1>1, <1>2 DEF r, t
<1>5. CASE p < q BY <1>1, <1>2, <1>5, MulMono
<1>6. CASE p > q + 1
  <2>1. m * (q + 1) + m <= m * p /\ m * (q + 1) = m * q + m BY <1>1, <1>2, <1>6, MulMono
  <2> QED BY <2>1, <1>1, <1>2
<1> QED BY <1>1, <1>2, <1>3, <1>4, <1>5, <1>6

\* A difference wraps once at most.
LEMMA ModMinus ==
  ASSUME NEW m \in Nat, NEW a \in 0 .. m - 1, NEW b \in 0 .. m - 1
  PROVE  /\ b <= a => (a - b) % m = a - b
         /\ a < b => (a - b) % m = a - b + m
<1>1. CASE b <= a BY <1>1
<1>2. CASE a < b
  <2> DEFINE x == a - b + m
  <2>1. x \in 0 .. m - 1 /\ a - b = x - m BY <1>2
  <2> HIDE DEF x
  <2>2. (x - m) % m = x BY <2>1
  <2> QED BY <1>2, <2>1, <2>2 DEF x
<1> QED BY <1>1, <1>2

(***************************************************************************)
(* Runs                                                                    *)
(***************************************************************************)
\* The n numbers after a.
Run(a, n) == [k \in 1 .. n |-> a + k]

\* A run is a sequence ...
LEMMA RunIsSeq ==
  ASSUME NEW a \in Nat, NEW n \in Nat
  PROVE  /\ Run(a, n) \in Seq(Nat) /\ Len(Run(a, n)) = n
         /\ \A k \in 1 .. n : Run(a, n)[k] = a + k
         /\ Run(a, n) = <<>> <=> n = 0
<1>1. Run(a, n) \in [1 .. n -> Nat] BY DEF Run
<1>2. Run(a, n) \in Seq(Nat) /\ Len(Run(a, n)) = n BY <1>1
<1>3. \A k \in 1 .. n : Run(a, n)[k] = a + k BY DEF Run
<1>4. Run(a, n) = <<>> <=> n = 0
  <2>1. n = 0 => Run(a, n) = <<>> BY <1>2, EmptySeq
  <2> QED BY <1>2, <2>1, EmptySeq
<1> QED BY <1>2, <1>3, <1>4

\* ... of numbers up to the last one.
LEMMA RunInRange ==
  ASSUME NEW a \in Nat, NEW n \in Nat, NEW max \in Nat, a + n <= max
  PROVE  Run(a, n) \in Seq(1 .. max)
<1>1. Run(a, n) \in [1 .. n -> 1 .. max] BY DEF Run
<1> QED BY <1>1

\* Taking the first value of a run leaves the run of those after it.
LEMMA RunTail ==
  ASSUME NEW a \in Nat, NEW n \in Nat, n > 0
  PROVE  Head(Run(a, n)) = a + 1 /\ Tail(Run(a, n)) = Run(a + 1, n - 1)
<1> DEFINE s == Run(a, n)
           t == Run(a + 1, n - 1)
<1>1. /\ s \in Seq(Nat) /\ Len(s) = n /\ s # <<>>
      /\ \A k \in 1 .. n : s[k] = a + k
  BY RunIsSeq
<1>2. /\ t \in Seq(Nat) /\ Len(t) = n - 1
      /\ \A k \in 1 .. n - 1 : t[k] = a + 1 + k
  <2>1. a + 1 \in Nat /\ n - 1 \in Nat OBVIOUS
  <2> QED BY <2>1, RunIsSeq
<1> HIDE DEF s, t
<1>3. Tail(s) \in Seq(Nat) /\ Len(Tail(s)) = n - 1 /\ \A i \in 1 .. n - 1 : Tail(s)[i] = s[i + 1]
  BY <1>1, HeadTailProperties
<1>4. \A i \in 1 .. n - 1 : Tail(s)[i] = t[i] BY <1>1, <1>2, <1>3
<1>5. Tail(s) = t BY <1>2, <1>3, <1>4, SeqEqual
<1>6. Head(s) = a + 1 BY <1>1
<1> QED BY <1>5, <1>6 DEF s, t

\* A longer run begins with the shorter one.
LEMMA RunPrefix ==
  ASSUME NEW a \in Nat, NEW n \in Nat, NEW m \in Nat, n <= m
  PROVE  SubSeq(Run(a, m), 1, n) = Run(a, n)
<1> DEFINE s == Run(a, m)
           t == Run(a, n)
<1>1. /\ s \in Seq(Nat) /\ \A k \in 1 .. m : s[k] = a + k /\ s[k] \in Nat
  <2>1. Run(a, m) \in Seq(Nat) /\ Len(Run(a, m)) = m /\ \A k \in 1 .. m : s[k] = a + k
    BY RunIsSeq
  <2> QED BY <2>1, ElementOfSeq
<1>2. /\ t \in Seq(Nat) /\ Len(t) = n /\ \A k \in 1 .. n : t[k] = a + k BY RunIsSeq
<1> HIDE DEF s, t
<1> DEFINE u == SubSeq(s, 1, n)
<1>3. u \in Seq(Nat) /\ Len(u) = n /\ \A i \in 1 .. n : u[i] = s[i]
  <2>1. \A i \in 1 .. n : s[i] \in Nat BY <1>1
  <2>2. /\ u \in Seq(Nat) /\ Len(u) = IF 1 <= n THEN n - 1 + 1 ELSE 0
        /\ \A i \in 1 .. n - 1 + 1 : u[i] = s[1 + i - 1]
    BY <2>1, SubSeqProperties
  <2> HIDE DEF u
  <2> QED BY <2>2
<1>4. \A i \in 1 .. n : u[i] = t[i] BY <1>1, <1>2, <1>3
<1>5. u = t
  <2> HIDE DEF u
  <2> QED BY <1>2, <1>3, <1>4, SeqEqual
<1> QED BY <1>5 DEF s, t, u
================================================================================
