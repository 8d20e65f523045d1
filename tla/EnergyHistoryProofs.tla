---------------------------- MODULE EnergyHistoryProofs ----------------------------
(***************************************************************************)
(* Nothing is written to the card twice, energy is counted once and only     *)
(* where it was observed, and the summary of a day on the card misses nothing *)
(* that its file shows but the last interval before midnight: for every      *)
(* length of the rings and the queue, any days and gaps, and a card that may *)
(* fail at every step.                                                       *)
(***************************************************************************)
EXTENDS MCEnergyHistory, FiniteSetTheorems, SequenceTheorems, WellFoundedInduction, TLAPS

-----------------------------------------------------------------------------
(* Numbers.                                                                 *)

LEMMA LeastElement ==
  ASSUME NEW S \in SUBSET Nat, S # {}
  PROVE  \E x \in S : \A y \in S : x <= y
<1> DEFINE R == OpToRel(<, Nat)
<1>1. \A a, b \in Nat : a < b => <<a, b>> \in R
  BY Zenon DEF OpToRel
<1>2. IsWellFoundedOn(R, Nat)
  BY NatLessThanWellFounded, Zenon
<1> HIDE DEF R
<1>3. PICK x \in S : \A y \in S : ~(<<y, x>> \in R)
  BY <1>2, WFMin
<1>4. \A y \in S : ~(y < x)
  BY <1>1, <1>3, Zenon
<1> QED BY <1>3, <1>4

\* Slots of a ring are numbered from any beginning without repetition.
LEMMA Slot ==
  ASSUME NEW r \in Nat \ {0}, NEW a \in 0 .. r - 1, NEW k \in 0 .. r - 1
  PROVE  /\ (a + k) % r = (IF a + k < r THEN a + k ELSE a + k - r)
         /\ (a + k) % r \in 0 .. r - 1
         /\ a % r = a
  OBVIOUS

LEMMA Quotient ==
  ASSUME NEW N \in Nat \ {0}, NEW x \in Nat
  PROVE  \E q \in Nat, m \in 0 .. N - 1 : x = N * q + m
<1>1. x = N * (x \div N) + (x % N) /\ x \div N \in Nat /\ x % N \in 0 .. N - 1
  OBVIOUS
<1> QED BY <1>1

LEMMA Remainder ==
  ASSUME NEW N \in Nat \ {0}, NEW x \in Nat, NEW q \in Nat, NEW m \in 0 .. N - 1, x = N * q + m
  PROVE  x % N = m
OBVIOUS

LEMMA RestOfNext ==
  ASSUME NEW N \in Nat \ {0}, NEW x \in Nat
  PROVE  (x + N) % N = x % N /\ ((x % N) + 1) % N = (x + 1) % N
<1>1. PICK q \in Nat, m \in 0 .. N - 1 : x = N * q + m
  BY Quotient
<1>2. x % N = m
  BY <1>1, Remainder
<1>3. (x + N) % N = m
  <2>1. x + N = N * (q + 1) + m /\ x + N \in Nat /\ q + 1 \in Nat
    BY <1>1
  <2> QED BY <2>1, Remainder
<1>4. CASE m + 1 < N
  <2>1. x + 1 = N * q + (m + 1) /\ m + 1 \in 0 .. N - 1 /\ x + 1 \in Nat
    BY <1>1, <1>4
  <2>2. (x + 1) % N = m + 1
    BY <2>1, Remainder
  <2>3. (m + 1) % N = m + 1
    BY <1>4
  <2> QED BY <1>2, <1>3, <2>2, <2>3
<1>5. CASE m + 1 = N
  <2>1. x + 1 = N * (q + 1) + 0 /\ 0 \in 0 .. N - 1 /\ x + 1 \in Nat /\ q + 1 \in Nat
    BY <1>1, <1>5
  <2>2. (x + 1) % N = 0
    BY <2>1, Remainder
  <2>3. (m + 1) % N = 0
    BY <1>5
  <2> QED BY <1>2, <1>3, <2>2, <2>3
<1> QED BY <1>4, <1>5

-----------------------------------------------------------------------------
(* A recovery goes on row by row.                                           *)

\* It goes from a beginning to an end, and what each row keeps it never leaves.
LEMMA RecoveryRuns ==
  ASSUME NEW S, NEW failing,
         rows["samples"] \in Seq(Row),
         Recovery \in S,
         \A n \in 1 .. Len(rows["samples"]) : \A r \in S :
           RecoverDailySample(r, rows["samples"][n], failing) \in S
  PROVE  \E f \in [0 .. Len(rows["samples"]) -> S] :
           /\ f[0] = Recovery
           /\ \A n \in 1 .. Len(rows["samples"]) :
                f[n] = IF IsRead(n) THEN RecoverDailySample(f[n - 1], rows["samples"][n], failing)
                       ELSE f[n - 1]
           /\ RecoveredUnfinished(failing) = f[Len(rows["samples"])]
PROOF
<1> DEFINE all     == rows["samples"]
           N       == Len(all)
           Step(g, n) == IF n = 0 THEN Recovery
                         ELSE IF IsRead(n) THEN RecoverDailySample(g[n - 1], all[n], failing)
                         ELSE g[n - 1]
           Fits(g) == g = [n \in 0 .. N |-> Step(g, n)]
<1>1. N \in Nat
  BY LenProperties
<1>2. RecoveredUnfinished(failing) = (CHOOSE g : Fits(g))[N]
  BY DEF RecoveredUnfinished
<1>3. ASSUME NEW g, NEW n \in 0 .. N, n # 0 => g[n - 1] \in S
      PROVE  Step(g, n) \in S
  <2>1. CASE n = 0
    BY <2>1
  <2>2. CASE n # 0
    <3>1. n \in 1 .. Len(rows["samples"]) /\ g[n - 1] \in S
      BY <1>1, <1>3, <2>2
    <3>2. RecoverDailySample(g[n - 1], all[n], failing) \in S
      BY <3>1
    <3> QED BY <2>2, <3>1, <3>2
  <2> QED BY <2>1, <2>2
<1>4. ASSUME NEW g, NEW k \in 0 .. N, \A n \in 0 .. k : g[n] = Step(g, n)
      PROVE  \A n \in 0 .. k : g[n] \in S
  <2> DEFINE Bad == {n \in 0 .. k : g[n] \notin S}
  <2>1. SUFFICES ASSUME Bad # {} PROVE FALSE
    OBVIOUS
  <2> HIDE DEF Step
  <2>2. PICK n \in Bad : \A m \in Bad : n <= m
    <3>1. Bad \in SUBSET Nat
      BY <1>1
    <3> QED BY <2>1, <3>1, LeastElement
  <2>3. n \in 0 .. N /\ n \in 0 .. k
    BY <1>1, <2>2
  <2>4. n # 0 => g[n - 1] \in S
    BY <1>1, <2>2, <2>3
  <2>5. Step(g, n) \in S
    BY <1>3, <2>3, <2>4
  <2> QED BY <1>4, <2>2, <2>3, <2>5
<1>5. \E g : Fits(g)
  <2> DEFINE Grows(k) == \E g \in [0 .. k -> S] : \A n \in 0 .. k : g[n] = Step(g, n)
             Bad == {k \in 0 .. N : ~Grows(k)}
  <2>1. Grows(0)
    <3> DEFINE g == [n \in 0 .. 0 |-> Recovery]
    <3>1. g \in [0 .. 0 -> S]
      OBVIOUS
    <3>2. \A n \in 0 .. 0 : n = 0
      OBVIOUS
    <3>3. \A n \in 0 .. 0 : g[n] = Step(g, n)
      BY <3>2
    <3> HIDE DEF g, Step
    <3> QED BY <3>1, <3>3
  <2>2. ASSUME NEW k \in 0 .. N, k # 0, Grows(k - 1) PROVE Grows(k)
    <3>1. PICK g \in [0 .. k - 1 -> S] : \A n \in 0 .. k - 1 : g[n] = Step(g, n)
      BY <2>2
    <3> DEFINE h == [n \in 0 .. k |-> IF n < k THEN g[n] ELSE Step(g, k)]
    <3>2. g[k - 1] \in S
      BY <1>1, <2>2
    <3>3. Step(g, k) \in S
      <4>1. k # 0 => g[k - 1] \in S
        BY <3>2
      <4> HIDE DEF Step
      <4> QED BY <1>3, <4>1
    <3>4. h \in [0 .. k -> S]
      <4>1. \A n \in 0 .. k : IF n < k THEN g[n] \in S ELSE Step(g, k) \in S
        BY <1>1, <3>3
      <4> HIDE DEF Step
      <4> QED BY <4>1
    <3>5. \A n \in 0 .. k : n # 0 => h[n - 1] = g[n - 1]
      <4> HIDE DEF Step
      <4> QED BY <1>1
    <3>6. \A n \in 0 .. k : Step(h, n) = Step(g, n)
      BY <3>5
    <3>7. \A n \in 0 .. k : h[n] = Step(g, n)
      <4> HIDE DEF Step
      <4> QED BY <1>1, <3>1
    <3> HIDE DEF h, Step
    <3> QED BY <3>4, <3>6, <3>7
  <2>3. Bad = {}
    <3> HIDE DEF Grows
    <3>1. SUFFICES ASSUME Bad # {} PROVE FALSE
      OBVIOUS
    <3>2. PICK k \in Bad : \A m \in Bad : k <= m
      <4>1. Bad \in SUBSET Nat
        BY <1>1
      <4> QED BY <3>1, <4>1, LeastElement
    <3>3. k \in 0 .. N /\ ~Grows(k)
      BY <3>2
    <3>4. k # 0
      BY <2>1, <3>3
    <3>5. Grows(k - 1)
      <4>1. k - 1 \in 0 .. N /\ k - 1 < k
        BY <1>1, <3>3, <3>4
      <4>2. k - 1 \notin Bad
        BY <3>2, <4>1, <1>1
      <4> QED BY <4>1, <4>2
    <3> QED BY <2>2, <3>3, <3>4, <3>5
  <2>4. Grows(N)
    <3> HIDE DEF Grows
    <3> QED BY <1>1, <2>3
  <2>5. PICK g \in [0 .. N -> S] : \A n \in 0 .. N : g[n] = Step(g, n)
    BY <2>4
  <2>6. Fits(g)
    <3> HIDE DEF Step
    <3> QED BY <2>5
  <2> QED BY <2>6
<1> DEFINE f == CHOOSE g : Fits(g)
<1>6. Fits(f)
  BY <1>5
<1>7. \A n \in 0 .. N : f[n] = Step(f, n)
  <2> HIDE DEF f, Step
  <2> QED BY <1>6
<1>8. \A n \in 0 .. N : f[n] \in S
  <2>1. N \in 0 .. N
    BY <1>1
  <2> HIDE DEF f, Step
  <2> QED BY <1>4, <1>7, <2>1
<1>9. f \in [0 .. N -> S]
  <2>1. f = [n \in 0 .. N |-> Step(f, n)]
    BY <1>6
  <2>2. \A n \in 0 .. N : Step(f, n) \in S
    <3> HIDE DEF f, Step
    <3> QED BY <1>7, <1>8
  <2> HIDE DEF f, Step
  <2> QED BY <2>1, <2>2
<1>10. f[0] = Recovery
  <2>1. f[0] = Step(f, 0)
    <3> HIDE DEF f, Step
    <3> QED BY <1>1, <1>7
  <2> HIDE DEF f
  <2> QED BY <2>1
<1>11. \A n \in 1 .. N : f[n] = IF IsRead(n) THEN RecoverDailySample(f[n - 1], all[n], failing)
                                ELSE f[n - 1]
  <2> SUFFICES ASSUME NEW n \in 1 .. N
               PROVE  f[n] = IF IsRead(n) THEN RecoverDailySample(f[n - 1], all[n], failing)
                             ELSE f[n - 1]
    OBVIOUS
  <2>1. f[n] = Step(f, n)
    <3> HIDE DEF f, Step
    <3> QED BY <1>1, <1>7
  <2>2. n # 0
    BY <1>1
  <2> HIDE DEF f
  <2> QED BY <2>1, <2>2
<1>12. RecoveredUnfinished(failing) = f[N]
  BY <1>2
<1> HIDE DEF f
<1> QED BY <1>9, <1>10, <1>11, <1>12

\* What the beginning of a recovery has, and each row keeps, it has at the end.
LEMMA RecoveryKeeps ==
  ASSUME NEW S, NEW failing,
         rows["samples"] \in Seq(Row),
         Recovery \in S,
         \A n \in 1 .. Len(rows["samples"]) : \A r \in S :
           RecoverDailySample(r, rows["samples"][n], failing) \in S
  PROVE  RecoveredUnfinished(failing) \in S
<1>1. Len(rows["samples"]) \in Nat
  BY LenProperties
<1>2. \E f \in [0 .. Len(rows["samples"]) -> S] :
        RecoveredUnfinished(failing) = f[Len(rows["samples"])]
  BY RecoveryRuns
<1> QED BY <1>1, <1>2

-----------------------------------------------------------------------------
(* Types.                                                                   *)

\* What the assumptions say of a set-up.
LEMMA SetUpFacts ==
  ASSUME setup \in SetUp
  PROVE  /\ setup.ring \in Nat \ {0} /\ setup.queue \in Nat \ {0} /\ setup.time \in Nat
         /\ setup.time <= MaxTime
  BY WriterAssumption, EnergyAssumption

LEMMA DayIsDay ==
  ASSUME NEW t \in Time PROVE DayOf(t) \in Day
  BY EnergyAssumption DEF Time, DayOf

\* Adding up.
LEMMA AccumulatedType ==
  ASSUME NEW s \in Summary, NEW a \in Sample \cup {None}, NEW b \in Row \cup Sample
  PROVE  /\ Accumulated(s, a, b) \in Summary
         /\ Accumulated(s, a, b).day = s.day
<1> DEFINE day   == DayOf(b.time)
           upper == IF day > s.day THEN DayStart(day) ELSE b.time
<1>1. \A e \in Energy : \A lower, higher : AddEnergyPair(e, a, b, lower, higher) \in Energy
  BY DEF AddEnergyPair, Energy
<1>2. AddEnergyPair(s.energy, a, b, DayStart(s.day), upper) \in Energy
  BY <1>1 DEF Summary
<1>3. Accumulated(s, a, b) = IF a = None THEN s
        ELSE [s EXCEPT !.energy = AddEnergyPair(s.energy, a, b, DayStart(s.day), upper)]
  BY DEF Accumulated
<1> HIDE DEF upper
<1> QED BY <1>2, <1>3 DEF Summary

LEMMA ResetType ==
  ASSUME NEW d \in Day PROVE Reset(d) \in Summary
  BY DEF Reset, Summary, NoEnergy, Energy

RecoveryType ==
  [summary : Summary \cup {None}, completed : BOOLEAN, previous : Sample \cup {None},
   daily : [Day -> Energy \cup {Missing}], today : Summary \cup {None}, active : BOOLEAN]

LEMMA FinishedType ==
  ASSUME NEW r \in RecoveryType, NEW failing
  PROVE  Finished(r, failing) \in RecoveryType
<1>1. CASE r.summary = None
  BY <1>1 DEF Finished
<1>2. CASE r.summary # None
  <2>1. r.summary \in Summary /\ r.summary.day \in Day /\ r.summary.energy \in Energy
    BY <1>2 DEF RecoveryType, Summary
  <2>2. [r EXCEPT !.today = r.summary] \in RecoveryType
    BY <2>1 DEF RecoveryType
  <2>3. [r EXCEPT !.active = FALSE] \in RecoveryType
    BY DEF RecoveryType
  <2>4. [r EXCEPT !.daily[r.summary.day] = r.summary.energy] \in RecoveryType
    BY <2>1 DEF RecoveryType
  <2> QED BY <1>2, <2>2, <2>3, <2>4 DEF Finished
<1> QED BY <1>1, <1>2

LEMMA OpenedType ==
  ASSUME NEW r \in RecoveryType, NEW d \in Day
  PROVE  Opened(r, d) \in RecoveryType /\ Opened(r, d).summary \in Summary
<1>1. r.daily[d] # Missing => r.daily[d] \in Energy
  BY DEF RecoveryType
<1>2. (IF r.daily[d] # Missing THEN r.daily[d] ELSE NoEnergy) \in Energy
  BY <1>1 DEF NoEnergy, Energy
<1>3. [day |-> d, energy |-> IF r.daily[d] # Missing THEN r.daily[d] ELSE NoEnergy] \in Summary
  BY <1>2 DEF Summary
<1> QED BY <1>3 DEF Opened, RecoveryType

LEMMA AddRowType ==
  ASSUME NEW r \in RecoveryType, r.summary \in Summary, NEW row \in Row
  PROVE  AddRow(r, row) \in RecoveryType /\ AddRow(r, row).summary \in Summary
<1>1. r.previous \in Sample \cup {None}
  BY DEF RecoveryType
<1>2. Accumulated(r.summary, r.previous, row) \in Summary
  BY <1>1, AccumulatedType
<1> QED BY <1>2 DEF AddRow, RecoveryType

LEMMA RowOfRecoveryType ==
  ASSUME NEW r \in RecoveryType, NEW row \in Row, NEW failing
  PROVE  RecoverDailySample(r, row, failing) \in RecoveryType
<1> DEFINE other == r.summary = None \/ r.summary.day # DayOf(row.time)
           cut   == IF r.summary # None THEN AddRow(r, row) ELSE r
           ready == IF other THEN Opened(Finished(cut, failing), DayOf(row.time)) ELSE r
           last  == [boot |-> row.boot, time |-> row.time]
<1>1. DayOf(row.time) \in Day
  BY DayIsDay DEF Row
<1>2. r.summary # None => r.summary \in Summary
  BY DEF RecoveryType
<1>3. cut \in RecoveryType
  BY <1>2, AddRowType
<1>4. Opened(Finished(cut, failing), DayOf(row.time)) \in RecoveryType
        /\ Opened(Finished(cut, failing), DayOf(row.time)).summary \in Summary
  <2> HIDE DEF cut
  <2> QED BY <1>1, <1>3, FinishedType, OpenedType
<1>5. ready \in RecoveryType /\ ready.summary \in Summary
  <2> HIDE DEF cut
  <2> QED BY <1>2, <1>4
<1>6. AddRow(ready, row) \in RecoveryType
  <2> HIDE DEF ready
  <2> QED BY <1>5, AddRowType
<1>7. last \in Sample
  BY DEF Row, Sample
<1>8. [AddRow(ready, row) EXCEPT !.previous = last] \in RecoveryType
  <2> HIDE DEF ready, last
  <2> QED BY <1>6, <1>7 DEF RecoveryType
<1>9. RecoverDailySample(r, row, failing) = r
        \/ RecoverDailySample(r, row, failing) = [AddRow(ready, row) EXCEPT !.previous = last]
  BY DEF RecoverDailySample
<1> HIDE DEF ready, last
<1> QED BY <1>8, <1>9

LEMMA RecoveredType ==
  ASSUME rows["samples"] \in Seq(Row), daily \in [Day -> Energy \cup {Missing}], NEW failing
  PROVE  /\ RecoveredUnfinished(failing) \in RecoveryType
         /\ Recovered(failing) \in RecoveryType
<1>1. Recovery \in RecoveryType
  BY DEF Recovery, RecoveryType
<1>2. \A n \in 1 .. Len(rows["samples"]) : rows["samples"][n] \in Row
  BY ElementOfSeq
<1>3. \A n \in 1 .. Len(rows["samples"]) : \A r \in RecoveryType :
        RecoverDailySample(r, rows["samples"][n], failing) \in RecoveryType
  BY <1>2, RowOfRecoveryType
<1>4. RecoveredUnfinished(failing) \in RecoveryType
  BY <1>1, <1>3, RecoveryKeeps
<1> QED BY <1>4, FinishedType DEF Recovered

-----------------------------------------------------------------------------
(* What the steps of the main loop and of the task are proved to keep, by what *)
(* they are about: the main loop's own state, the rings, the card, the task.   *)

MainPart ==
  /\ setup \in SetUp
  /\ active \in BOOLEAN /\ sdFlushQueued \in BOOLEAN
  /\ sdWorkQueue \in Seq(Work) /\ Len(sdWorkQueue) <= setup.queue
  /\ sdFlushQueued => FlushWork \in ToSet(sdWorkQueue)
  /\ daily \in [Day -> Energy \cup {Missing}]
  /\ summary \in Summary \cup {None}
  /\ restored \in BOOLEAN /\ handledDay \in Day \cup {None}
  /\ now \in 0 .. setup.time /\ boot \in Nat
  /\ taken \subseteq Sample /\ previous \in Sample \cup {None}

Ring == [slots : [0 .. setup.ring - 1 -> Entry], start : Nat, count : Nat]

\* A ring in which n entries of boot b were stored.
Holding(r, n, b) ==
  /\ r \in Ring
  /\ r.start \in 0 .. setup.ring - 1 /\ r.count \in 0 .. setup.ring
  /\ r.count = IF n < setup.ring THEN n ELSE setup.ring
  /\ r.start = IF n < setup.ring THEN 0 ELSE n % setup.ring
  /\ \A i \in 0 .. setup.ring - 1 :
       IF r.slots[i].sequence = 0 THEN n <= i
       ELSE /\ r.slots[i].sequence \in n - setup.ring + 1 .. n
            /\ (r.slots[i].sequence - 1) % setup.ring = i
            /\ r.slots[i].boot = b

RingPart ==
  /\ ram \in [Stream -> Ring] /\ sequence \in [Stream -> Nat]
  /\ \A s \in Stream : Holding(ram[s], sequence[s], boot)

CardPart ==
  /\ rows \in [Stream -> Seq(Row)] /\ flushed \in [Stream -> Nat]
  /\ \A s \in Stream : flushed[s] \in 0 .. sequence[s]
  /\ WrittenOnce /\ RowsAreFlushed

WriterPart == WriterTypeOK /\ CopyHolds

LEMMA Parts ==
  CardInvariant <=> MainPart /\ RingPart /\ CardPart /\ WriterPart
<1>1. CardInvariant => MainPart
  BY DEF CardInvariant, TypeOK, WorkTypeOK, MainPart
<1>2. CardInvariant => RingPart
  BY DEF CardInvariant, TypeOK, WorkTypeOK, RingHolds, RingPart, Holding, Ring
<1>3. CardInvariant => CardPart
  BY DEF CardInvariant, TypeOK, WorkTypeOK, CardPart
<1>4. CardInvariant => WriterPart
  BY DEF CardInvariant, WorkTypeOK, WriterPart
<1>5. ASSUME MainPart, RingPart, CardPart, WriterPart PROVE CardInvariant
  <2>1. TypeOK
    BY <1>5 DEF TypeOK, MainPart, RingPart, Holding, Ring, CardPart
  <2>2. WorkTypeOK
    BY <1>5 DEF WorkTypeOK, MainPart, RingPart, Ring, CardPart, WriterPart
  <2>3. RingHolds
    BY <1>5 DEF RingHolds, RingPart, Holding
  <2> QED BY <1>5, <2>1, <2>2, <2>3 DEF CardInvariant, CardPart, WriterPart
<1> QED BY <1>1, <1>2, <1>3, <1>4, <1>5

\* At the beginning, and after a restart but for the card.
LEMMA EmptyRingHolds ==
  ASSUME setup \in SetUp, NEW b \in Nat
  PROVE  Holding(EmptyRing(setup.ring), 0, b)
<1>1. setup.ring \in Nat \ {0}
  BY SetUpFacts
<1>2. Blank \in Entry
  BY EnergyAssumption DEF Blank, Entry, Time
<1> QED BY <1>1, <1>2 DEF Holding, EmptyRing, Ring, Blank

LEMMA Begins ==
  ASSUME Init PROVE CardInvariant
<1> USE DEF Init, InitWriter, InitRam
<1>1. setup \in SetUp
  OBVIOUS
<1>2. MainPart
  <2>1. sdWorkQueue \in Seq(Work) /\ Len(sdWorkQueue) = 0 /\ ~sdFlushQueued
    OBVIOUS
  <2>2. setup.queue \in Nat /\ setup.time \in Nat
    BY SetUpFacts
  <2>3. daily \in [Day -> Energy \cup {Missing}] /\ now \in 0 .. setup.time /\ boot \in Nat
    BY <2>2
  <2>4. taken \subseteq Sample /\ summary = None /\ previous = None /\ handledDay = None
          /\ active \in BOOLEAN /\ sdFlushQueued \in BOOLEAN /\ restored \in BOOLEAN
    OBVIOUS
  <2>5. Len(sdWorkQueue) <= setup.queue
    BY <2>1, <2>2
  <2> QED BY <1>1, <2>1, <2>3, <2>4, <2>5 DEF MainPart
<1>3. RingPart
  <2>1. \A s \in Stream : Holding(ram[s], sequence[s], boot)
    BY <1>1, EmptyRingHolds
  <2> QED BY <2>1 DEF RingPart, Holding
<1>4. CardPart
  BY DEF CardPart, WrittenOnce, RowsAreFlushed
<1>5. WriterPart
  BY DEF WriterPart, WriterTypeOK, CopyHolds, InFile, Idle
<1> QED BY <1>2, <1>3, <1>4, <1>5, Parts

-----------------------------------------------------------------------------
(* The rings.                                                               *)

\* An entry that is stored displaces the oldest, and only that.
LEMMA StoredHolds ==
  ASSUME setup \in SetUp, NEW n \in Nat, NEW b \in Nat, NEW t \in Time,
         NEW r, Holding(r, n, b),
         NEW e, e = [sequence |-> n + 1, boot |-> b, time |-> t]
  PROVE  /\ Holding(StoredIn(r, e), n + 1, b)
         /\ StoredIn(r, e).slots = [r.slots EXCEPT ![n % setup.ring] = e]
<1> DEFINE R == setup.ring
           q == StoredIn(r, e)
<1>1. R \in Nat \ {0}
  BY SetUpFacts
<1>2. e \in Entry
  BY DEF Entry
<1>3. n % R \in 0 .. R - 1 /\ (n < R => n % R = n) /\ ((n % R) + R) % R = n % R
  BY <1>1
<1>4. (r.start + r.count) % R = n % R
  BY <1>1, <1>3 DEF Holding
<1>5. ((n % R) + 1) % R = (n + 1) % R
  BY <1>1, RestOfNext
<1>6. r.slots \in [0 .. R - 1 -> Entry]
  BY DEF Holding, Ring
<1>7. q.slots = [r.slots EXCEPT ![n % R] = e]
  BY <1>4 DEF StoredIn
<1>8. q.count = IF n + 1 < R THEN n + 1 ELSE R
  BY <1>1 DEF StoredIn, Holding
<1>9. q.start = IF n + 1 < R THEN 0 ELSE (n + 1) % R
  BY <1>1, <1>5 DEF StoredIn, Holding
<1>10. q = [slots |-> q.slots, start |-> q.start, count |-> q.count]
  BY DEF StoredIn
<1>11. q.slots \in [0 .. R - 1 -> Entry]
  BY <1>2, <1>3, <1>6, <1>7
<1>12. q.start \in 0 .. R - 1 /\ q.count \in 0 .. R
  BY <1>1, <1>8, <1>9
<1>13. ASSUME NEW i \in 0 .. R - 1
       PROVE  IF q.slots[i].sequence = 0 THEN n + 1 <= i
              ELSE /\ q.slots[i].sequence \in (n + 1) - R + 1 .. n + 1
                   /\ (q.slots[i].sequence - 1) % R = i
                   /\ q.slots[i].boot = b
  <2>1. CASE i = n % R
    <3>1. q.slots[i] = e
      BY <1>3, <1>6, <1>7, <2>1
    <3>2. (n + 1) - 1 = n /\ n + 1 \in (n + 1) - R + 1 .. n + 1 /\ n + 1 # 0
      BY <1>1
    <3> QED BY <2>1, <3>1, <3>2
  <2>2. CASE i # n % R
    <3>1. q.slots[i] = r.slots[i]
      BY <1>3, <1>6, <1>7, <2>2
    <3> DEFINE k == r.slots[i].sequence
    <3>2. k \in Nat
      BY <1>6 DEF Entry
    <3>3. CASE k = 0
      <4>1. n <= i
        BY <3>3 DEF Holding
      <4>2. n # i
        BY <1>1, <1>3, <2>2
      <4> QED BY <3>1, <3>3, <4>1, <4>2
    <3>4. CASE k # 0
      <4>1. k \in n - R + 1 .. n /\ (k - 1) % R = i /\ r.slots[i].boot = b
        BY <3>4 DEF Holding
      <4>2. k # n - R + 1
        <5>1. SUFFICES ASSUME k = n - R + 1 PROVE FALSE
          OBVIOUS
        <5>2. n - R \in Nat /\ k - 1 = n - R
          BY <1>1, <3>2, <3>4, <5>1
        <5>3. (n - R) % R = n % R
          <6>1. n - R + R = n
            BY <1>1
          <6> QED BY <1>1, <5>2, <6>1, RestOfNext
        <5> QED BY <2>2, <4>1, <5>2, <5>3
      <4>3. k \in (n + 1) - R + 1 .. n + 1
        BY <1>1, <3>2, <4>1, <4>2
      <4> QED BY <3>1, <3>4, <4>1, <4>3
    <3> QED BY <3>3, <3>4
  <2> QED BY <2>1, <2>2
<1>14. q \in Ring
  <2> HIDE DEF q
  <2> QED BY <1>1, <1>10, <1>11, <1>12 DEF Ring
<1>15. Holding(q, n + 1, b)
  <2>1. \A i \in 0 .. setup.ring - 1 :
          IF q.slots[i].sequence = 0 THEN n + 1 <= i
          ELSE /\ q.slots[i].sequence \in (n + 1) - setup.ring + 1 .. n + 1
               /\ (q.slots[i].sequence - 1) % setup.ring = i
               /\ q.slots[i].boot = b
    BY <1>13
  <2> HIDE DEF q
  <2>2. /\ q \in Ring
        /\ q.start \in 0 .. setup.ring - 1 /\ q.count \in 0 .. setup.ring
        /\ q.count = IF n + 1 < setup.ring THEN n + 1 ELSE setup.ring
        /\ q.start = IF n + 1 < setup.ring THEN 0 ELSE (n + 1) % setup.ring
    BY <1>8, <1>9, <1>12, <1>14
  <2> QED BY <1>1, <2>1, <2>2 DEF Holding
<1> QED BY <1>7, <1>15

\* What is found in a ring that has not turned is numbered as its slot is.
LEMMA FoundWhereExpected ==
  ASSUME setup \in SetUp, NEW n \in Nat, NEW b \in Nat, NEW r, Holding(r, n, b),
         NEW i \in 0 .. setup.ring - 1
  PROVE  /\ r.slots[i] \in Entry /\ r.slots[i].sequence <= n
         /\ r.slots[i].sequence # 0 => r.slots[i].boot = b
                                      /\ (r.slots[i].sequence - 1) % setup.ring = i
         /\ n <= setup.ring /\ i < n => r.slots[i].sequence = i + 1
<1> DEFINE k == r.slots[i].sequence
<1>1. setup.ring \in Nat \ {0}
  BY SetUpFacts
<1>2. r.slots[i] \in Entry /\ k \in Nat
  BY DEF Holding, Ring, Entry
<1>3. k # 0 => k \in n - setup.ring + 1 .. n /\ (k - 1) % setup.ring = i
               /\ r.slots[i].boot = b
  BY DEF Holding
<1>4. k = 0 => n <= i
  BY DEF Holding
<1>5. k # 0 /\ n <= setup.ring => k - 1 \in 0 .. setup.ring - 1 /\ (k - 1) % setup.ring = k - 1
  <2> SUFFICES ASSUME k # 0, n <= setup.ring
               PROVE k - 1 \in 0 .. setup.ring - 1 /\ (k - 1) % setup.ring = k - 1
    OBVIOUS
  <2>1. k - 1 \in 0 .. setup.ring - 1
    BY <1>1, <1>2, <1>3
  <2> QED BY <1>1, <2>1
<1> QED BY <1>1, <1>2, <1>3, <1>4, <1>5

\* Where the task is tells what it knows.
LEMMA WriterFields ==
  ASSUME WriterTypeOK
  PROVE  /\ InFile => /\ writer.stream \in Stream
                      /\ writer.start \in Nat /\ writer.count \in Nat
                      /\ ~(writer \in [at : {"daily", "cycle"}, item : Work])
         /\ writer.at \in {"look", "copy"} => writer.day \in Day
         /\ writer.at = "begin" => writer \in [at : {"begin"}, stream : Stream]
         /\ writer.at = "open" =>
              writer \in [at : {"open"}, stream : Stream, start : Nat, count : Nat]
         /\ writer.at = "look" =>
              writer \in [at : {"look"}, stream : Stream, start : Nat, count : Nat, day : Day]
         /\ writer.at = "copy" =>
              writer \in [at : {"copy"}, stream : Stream, start : Nat, count : Nat, day : Day,
                          offset : Nat, newest : Nat, buffer : Seq(Row)]
         /\ writer.at \in {"daily", "cycle"} =>
              writer \in [at : {"daily", "cycle"}, item : Work] /\ writer.at = writer.item.type
  BY DEF WriterTypeOK, InFile, Idle

\* Storing an entry leaves what the task has copied right.
LEMMA StoreKeeps ==
  ASSUME RingPart, CardPart, WriterPart, setup \in SetUp, boot \in Nat, now \in Time,
         NEW s \in Stream, Store(s, boot, now),
         UNCHANGED <<setup, boot, flushed, rows, writer, active>>
  PROVE  /\ RingPart' /\ CardPart' /\ WriterPart'
         /\ ram'[s].slots = [ram[s].slots EXCEPT ![sequence[s] % setup.ring] =
                               [sequence |-> sequence[s] + 1, boot |-> boot, time |-> now]]
<1> DEFINE e == [sequence |-> sequence[s] + 1, boot |-> boot, time |-> now]
<1>1. sequence \in [Stream -> Nat] /\ ram \in [Stream -> Ring]
  BY DEF RingPart
<1>2. /\ sequence' \in [Stream -> Nat]
      /\ sequence'[s] = sequence[s] + 1
      /\ \A x \in Stream : x # s => sequence'[x] = sequence[x]
      /\ \A x \in Stream : sequence[x] <= sequence'[x]
  BY <1>1 DEF Store
<1>3. ram' = [ram EXCEPT ![s] = StoredIn(ram[s], e)]
  BY <1>1, <1>2 DEF Store
<1>4. /\ Holding(StoredIn(ram[s], e), sequence[s] + 1, boot)
      /\ StoredIn(ram[s], e).slots = [ram[s].slots EXCEPT ![sequence[s] % setup.ring] = e]
  BY <1>1, StoredHolds DEF RingPart
<1>5. Ring' = Ring
  BY DEF Ring
<1>6. ram' \in [Stream -> Ring']
  <2>1. StoredIn(ram[s], e) \in Ring
    BY <1>4 DEF Holding
  <2> QED BY <1>1, <1>3, <1>5, <2>1
<1>7. \A x \in Stream : Holding(ram'[x], sequence'[x], boot)
  BY <1>1, <1>2, <1>3, <1>4 DEF RingPart
<1>8. RingPart'
  <2>1. \A x \in Stream : Holding(ram[x], sequence[x], boot)'
    BY <1>5, <1>7 DEF Holding
  <2> QED BY <1>2, <1>6, <2>1 DEF RingPart
<1>9. setup.ring \in Nat
  BY SetUpFacts
<1>10. CardPart'
  <2>1. \A x \in Stream : flushed[x] \in Nat /\ flushed[x] <= sequence[x]
    BY <1>1 DEF CardPart
  <2>2. \A x \in Stream : flushed'[x] \in 0 .. sequence'[x]
    BY <1>1, <1>2, <2>1
  <2>3. RowsAreFlushed'
    BY DEF CardPart, RowsAreFlushed, InFile
  <2>4. WrittenOnce'
    <3>1. \A x \in Stream : sequence'[x] <= setup.ring => sequence[x] <= setup.ring
      BY <1>1, <1>2, <1>9
    <3>2. rows' = rows /\ flushed' = flushed /\ boot' = boot /\ setup' = setup
      OBVIOUS
    <3>3. WrittenOnce
      BY DEF CardPart
    <3>4. ASSUME NEW x \in Stream
          PROVE  /\ \A i, j \in DOMAIN rows'[x] :
                      i # j => <<rows'[x][i].boot, rows'[x][i].sequence>>
                                 # <<rows'[x][j].boot, rows'[x][j].sequence>>
                 /\ sequence'[x] <= setup'.ring =>
                      \A n \in 1 .. flushed'[x] :
                        \E i \in DOMAIN rows'[x] : rows'[x][i].boot = boot'
                                                  /\ rows'[x][i].sequence = n
      <4>1. \A i, j \in DOMAIN rows[x] :
              i # j => <<rows[x][i].boot, rows[x][i].sequence>>
                         # <<rows[x][j].boot, rows[x][j].sequence>>
        BY <3>3 DEF WrittenOnce
      <4>2. sequence[x] <= setup.ring =>
              \A n \in 1 .. flushed[x] :
                \E i \in DOMAIN rows[x] : rows[x][i].boot = boot /\ rows[x][i].sequence = n
        BY <3>3, Zenon DEF WrittenOnce
      <4>3. sequence'[x] <= setup.ring => sequence[x] <= setup.ring
        BY <3>1
      <4> QED BY <3>2, <4>1, <4>2, <4>3, Zenon
    <3> QED BY <3>4, Zenon DEF WrittenOnce
  <2> QED BY <2>2, <2>3, <2>4 DEF CardPart
<1>11. WriterPart'
  <2>1. WriterTypeOK'
    BY DEF WriterPart, WriterTypeOK
  <2>2. CopyHolds'
    <3> SUFFICES ASSUME InFile PROVE CopyHolds'
      BY DEF CopyHolds, InFile
    <3> DEFINE x == writer.stream
    <3>1. /\ x \in Stream /\ writer.count \in Nat
          /\ writer.at = "copy" => writer.newest \in Nat
      BY WriterFields DEF WriterPart
    <3>2. sequence'[x] \in Nat /\ sequence[x] \in Nat /\ sequence[x] <= sequence'[x]
      BY <1>1, <1>2, <3>1
    <3>3. writer.count <= sequence'[x]
      BY <3>1, <3>2 DEF WriterPart, CopyHolds
    <3>4. sequence'[x] <= setup.ring => sequence[x] <= setup.ring
      BY <1>9, <3>2
    <3>5. writer.at = "copy" => writer.newest \in flushed[x] .. sequence'[x]
      <4>1. flushed[x] \in Nat
        BY <3>1 DEF CardPart
      <4> QED BY <3>1, <3>2, <4>1 DEF WriterPart, CopyHolds
    <3> QED BY <3>3, <3>4, <3>5 DEF WriterPart, CopyHolds
  <2> QED BY <2>1, <2>2 DEF WriterPart
<1> QED BY <1>3, <1>4, <1>8, <1>10, <1>11, <1>1

-----------------------------------------------------------------------------
(* The task.                                                                *)

LEMMA RingsStay ==
  ASSUME RingPart, UNCHANGED <<setup, boot, ram, sequence>>
  PROVE  RingPart'
<1>1. Ring' = Ring
  BY DEF Ring
<1>2. \A s \in Stream : Holding(ram[s], sequence[s], boot)'
  BY <1>1 DEF RingPart, Holding
<1> QED BY <1>1, <1>2 DEF RingPart

LEMMA CardStays ==
  ASSUME CardPart, UNCHANGED <<setup, boot, sequence, flushed, rows>>,
         \A s \in Stream : active' \/ (InFile' /\ writer'.stream = s)
                             => active \/ (InFile /\ writer.stream = s)
  PROVE  CardPart'
<1>1. WrittenOnce'
  <2>1. WrittenOnce
    BY DEF CardPart
  <2> QED BY <2>1 DEF WrittenOnce
<1>2. RowsAreFlushed'
  BY DEF CardPart, RowsAreFlushed
<1> QED BY <1>1, <1>2 DEF CardPart

LEMMA RowsAreRows ==
  ASSUME CardPart
  PROVE  \A s \in Stream : /\ rows[s] \in Seq(Row) /\ Len(rows[s]) \in Nat
                           /\ DOMAIN rows[s] = 1 .. Len(rows[s])
                           /\ \A i \in DOMAIN rows[s] : rows[s][i] \in Row
  BY ElementOfSeq, LenProperties DEF CardPart

\* What WrittenOnce says of the rows of one stream.
NoneTwice(rs) ==
  \A i, j \in DOMAIN rs : i # j => <<rs[i].boot, rs[i].sequence>> # <<rs[j].boot, rs[j].sequence>>

UpTo(n, rs, b) ==
  \A k \in 1 .. n : \E i \in DOMAIN rs : rs[i].boot = b /\ rs[i].sequence = k

OnceEach ==
  \A s \in Stream : /\ NoneTwice(rows[s])
                    /\ sequence[s] <= setup.ring => UpTo(flushed[s], rows[s], boot)

LEMMA WrittenOnceIsOnceEach == WrittenOnce <=> OnceEach
  BY DEF WrittenOnce, OnceEach, NoneTwice, UpTo

LEMMA NextWrittenOnceIsOnceEach == WrittenOnce' <=> OnceEach'
  BY WrittenOnceIsOnceEach, PTL

\* What a step of the task leaves alone.
AtWork == UNCHANGED <<setup, boot, ram, sequence>>

LEMMA StreamBegins ==
  ASSUME RingPart, CardPart, WriterPart, BeginStream, AtWork, setup \in SetUp
  PROVE  CardPart' /\ WriterPart'
<1> DEFINE s == writer.stream
<1>1. s \in Stream
  BY WriterFields DEF WriterPart, BeginStream
<1>2. ~InFile
  BY DEF BeginStream, InFile
<1>3. CASE active /\ ram[s].count > 0
  <2>1. writer' = [at |-> "open", stream |-> s, start |-> ram[s].start, count |-> ram[s].count]
    BY <1>3 DEF BeginStream
  <2>2. Holding(ram[s], sequence[s], boot) /\ sequence[s] \in Nat /\ setup.ring \in Nat
    BY <1>1, SetUpFacts DEF RingPart
  <2>3. WriterTypeOK'
    BY <1>1, <2>1, <2>2 DEF WriterTypeOK, Holding, Ring
  <2>4. CopyHolds'
    BY SMTT(60), <1>1, <2>1, <2>2 DEF CopyHolds, InFile, Holding, Ring, AtWork
  <2>5. CardPart'
    BY <1>3, CardStays DEF BeginStream, AtWork, cardVars
  <2> QED BY <2>3, <2>4, <2>5 DEF WriterPart
<1>4. CASE ~(active /\ ram[s].count > 0)
  <2>1. writer' = AfterStream(s)
    BY <1>4 DEF BeginStream
  <2>2. WriterTypeOK' /\ ~InFile'
    BY <1>1, <2>1, WriterAssumption DEF WriterTypeOK, InFile, AfterStream, Begin, Idle
  <2>3. CardPart'
    BY <2>2, CardStays DEF BeginStream, AtWork, cardVars
  <2> QED BY <2>2, <2>3 DEF WriterPart, CopyHolds
<1> QED BY <1>3, <1>4

LEMMA FileOpens ==
  ASSUME RingPart, CardPart, WriterPart, NEW day \in Day, OpenFile(day), AtWork,
         active \in BOOLEAN
  PROVE  CardPart' /\ WriterPart'
<1> DEFINE s == writer.stream
<1>1. s \in Stream /\ InFile /\ writer.start \in Nat /\ writer.count \in Nat
  BY WriterFields DEF WriterPart, OpenFile, InFile
<1>2. CASE writer' = [at |-> "look", stream |-> s, start |-> writer.start,
                      count |-> writer.count, day |-> day] /\ active' = active
  <2>1. WriterTypeOK'
    BY <1>1, <1>2 DEF WriterTypeOK
  <2>2. CopyHolds'
    BY <1>1, <1>2 DEF WriterPart, CopyHolds, InFile, AtWork
  <2>3. CardPart'
    BY <1>1, <1>2, CardStays DEF OpenFile, AtWork, cardVars
  <2> QED BY <2>1, <2>2, <2>3 DEF WriterPart
<1>3. CASE writer' = AfterStream(s) /\ active' = FALSE
  <2>1. WriterTypeOK' /\ ~InFile'
    BY <1>1, <1>3, WriterAssumption DEF WriterTypeOK, InFile, AfterStream, Begin, Idle
  <2>2. CardPart'
    BY <1>3, <2>1, CardStays DEF OpenFile, AtWork, cardVars
  <2> QED BY <2>1, <2>2 DEF WriterPart, CopyHolds
<1> QED BY <1>2, <1>3 DEF OpenFile, WriterError

LEMMA FirstLook ==
  ASSUME RingPart, CardPart, WriterPart, Look, AtWork, setup \in SetUp
  PROVE  CardPart' /\ WriterPart'
<1> DEFINE s == writer.stream
           oldest == ram[s].slots[writer.start].sequence
<1>1. s \in Stream /\ InFile /\ writer.start \in Nat /\ writer.count \in Nat
        /\ writer.day \in Day /\ writer.at = "look"
  BY WriterFields DEF WriterPart, Look, InFile
<1>2. /\ writer.start \in 0 .. setup.ring - 1 /\ writer.count <= setup.ring
      /\ writer.count <= sequence[s]
      /\ sequence[s] <= setup.ring => writer.start = 0
  BY <1>1 DEF WriterPart, CopyHolds
<1>3. Holding(ram[s], sequence[s], boot) /\ sequence[s] \in Nat /\ boot = boot'
        /\ setup.ring \in Nat \ {0} /\ flushed[s] \in 0 .. sequence[s]
  BY <1>1, SetUpFacts DEF RingPart, CardPart, AtWork
<1>4. oldest \in Nat /\ oldest <= sequence[s] /\ (sequence[s] <= setup.ring => oldest <= 1)
  <2>1. ram[s].slots[writer.start] \in Entry
    BY <1>2, <1>3 DEF Holding, Ring
  <2>2. oldest # 0 => oldest \in sequence[s] - setup.ring + 1 .. sequence[s]
                        /\ (oldest - 1) % setup.ring = writer.start
    BY <1>2, <1>3 DEF Holding
  <2>3. ASSUME sequence[s] <= setup.ring, oldest # 0 PROVE oldest <= 1
    <3>1. oldest - 1 \in 0 .. setup.ring - 1 /\ (oldest - 1) % setup.ring = 0
      BY SMTT(60), <1>2, <1>3, <2>1, <2>2, <2>3 DEF Entry
    <3>2. \A k \in 0 .. setup.ring - 1 : k % setup.ring = k
      BY <1>3
    <3> QED BY <1>3, <2>1, <3>1, <3>2 DEF Entry
  <2> QED BY SMTT(30), <1>3, <2>1, <2>2, <2>3 DEF Entry
<1>5. flushed' = [flushed EXCEPT ![s] = FlushedBelow(s, oldest)]
  BY DEF Look
<1>6. /\ flushed' \in [Stream -> Nat]
      /\ flushed'[s] \in flushed[s] .. sequence[s]
      /\ sequence[s] <= setup.ring => flushed'[s] = flushed[s]
      /\ \A x \in Stream : x # s => flushed'[x] = flushed[x]
  <2> DEFINE f == FlushedBelow(s, oldest)
  <2>1. flushed \in [Stream -> Nat]
    BY DEF CardPart
  <2>2. f \in flushed[s] .. sequence[s] /\ (sequence[s] <= setup.ring => f = flushed[s])
    BY <1>3, <1>4 DEF FlushedBelow
  <2> HIDE DEF f
  <2>3. f \in Nat
    BY <1>3, <2>2
  <2>4. flushed' = [flushed EXCEPT ![s] = f]
    BY <1>5 DEF f
  <2>5. flushed'[s] = f
    BY <1>1, <2>1, <2>4
  <2> QED BY <1>1, <2>1, <2>2, <2>3, <2>4, <2>5
<1>7. writer' = [at |-> "copy", stream |-> s, start |-> writer.start, count |-> writer.count,
                 day |-> writer.day, offset |-> 0, newest |-> flushed'[s], buffer |-> <<>>]
  BY DEF Look
<1>8. WriterTypeOK'
  <2>1. flushed'[s] \in Nat /\ <<>> \in Seq(Row)
    BY <1>1, <1>6
  <2> QED BY <1>1, <1>7, <2>1 DEF WriterTypeOK
<1>9. CopyHolds'
  <2>1. DOMAIN writer'.buffer = {}
    BY <1>7
  <2>2. \A n \in flushed'[s] + 1 .. flushed'[s] : FALSE
    BY <1>1, <1>6
  <2> QED BY <1>1, <1>2, <1>3, <1>6, <1>7, <2>1, <2>2 DEF CopyHolds, InFile, AtWork
<1>10. CardPart'
  <2>1. \A x \in Stream : flushed'[x] \in 0 .. sequence'[x]
    BY <1>3, <1>6 DEF CardPart, AtWork
  <2>2. RowsAreFlushed'
    <3>1. \A x \in Stream : \A i \in DOMAIN rows[x] : rows[x][i].sequence \in Nat
      BY RowsAreRows DEF Row
    <3>2. \A x \in Stream : flushed[x] \in Nat /\ flushed[x] <= flushed'[x]
      <4>1. \A x \in Stream : flushed[x] \in Nat
        BY DEF CardPart
      <4> QED BY <1>3, <1>6, <4>1
    <3>3. InFile' /\ writer'.stream = s
      BY <1>7 DEF InFile
    <3> QED BY SMTT(60), <1>1, <1>6, <3>1, <3>2, <3>3 DEF CardPart, RowsAreFlushed, Look, AtWork, cardVars
  <2>3. WrittenOnce'
    <3>1. WrittenOnce /\ rows' = rows /\ sequence' = sequence /\ setup' = setup /\ boot' = boot
      BY DEF CardPart, Look, AtWork, cardVars
    <3>2. \A x \in Stream : sequence[x] <= setup.ring => flushed'[x] = flushed[x]
      BY <1>6
    <3>3. OnceEach
      BY <3>1, WrittenOnceIsOnceEach
    <3>4. OnceEach'
      BY <3>1, <3>2, <3>3, Zenon DEF OnceEach
    <3> QED BY <3>4, NextWrittenOnceIsOnceEach
  <2> QED BY <1>6, <2>1, <2>2, <2>3 DEF CardPart, Look, AtWork, cardVars
<1> QED BY <1>8, <1>9, <1>10 DEF WriterPart

\* An entry is copied: entries the ring has overtaken are newer ones, and none is copied twice.
LEMMA EntryIsCopied ==
  ASSUME RingPart, CardPart, WriterPart, CopyEntry, AtWork, setup \in SetUp, boot \in Nat
  PROVE  CardPart' /\ WriterPart'
<1> DEFINE s == writer.stream
           R == setup.ring
           place == (writer.start + writer.offset) % R
           entry == ram[s].slots[place]
           next  == [writer EXCEPT !.offset = writer.offset + 1]
           row   == RowOf(entry, writer.day)
<1>1. /\ s \in Stream /\ InFile /\ writer.at = "copy" /\ writer.offset < writer.count
      /\ writer \in [at : {"copy"}, stream : Stream, start : Nat, count : Nat, day : Day,
                     offset : Nat, newest : Nat, buffer : Seq(Row)]
  BY WriterFields DEF WriterPart, CopyEntry, InFile
<1>2. R \in Nat \ {0} /\ sequence[s] \in Nat /\ flushed[s] \in Nat
        /\ Holding(ram[s], sequence[s], boot)
  BY <1>1, SetUpFacts DEF RingPart, CardPart
<1>3. /\ writer.start \in 0 .. R - 1 /\ writer.count <= R
      /\ writer.count <= sequence[s]
      /\ sequence[s] <= R => writer.start = 0
      /\ writer.newest \in flushed[s] .. sequence[s]
  BY <1>1 DEF WriterPart, CopyHolds
<1>4. writer.offset \in 0 .. R - 1 /\ place \in 0 .. R - 1
        /\ (sequence[s] <= R => place = writer.offset)
  <2>1. writer.offset \in Nat /\ writer.count \in Nat /\ writer.offset < writer.count
    BY <1>1
  <2>2. writer.offset \in 0 .. R - 1
    BY <1>2, <1>3, <2>1
  <2>3. place \in 0 .. R - 1
    BY <1>2, <1>3, <2>2, Slot
  <2>4. ASSUME sequence[s] <= R PROVE place = writer.offset
    <3>1. 0 + writer.offset = writer.offset /\ writer.offset % R = writer.offset
      BY <1>2, <2>2
    <3> QED BY <1>3, <2>4, <3>1
  <2> QED BY <2>2, <2>3, <2>4
<1>5. /\ entry \in Entry /\ entry.sequence <= sequence[s]
      /\ entry.sequence # 0 => entry.boot = boot /\ (entry.sequence - 1) % R = place
      /\ sequence[s] <= R => entry.sequence = writer.offset + 1
  <2>1. place < sequence[s] \/ ~(sequence[s] <= R)
    <3>1. writer.offset \in Nat /\ writer.count \in Nat /\ writer.offset < writer.count
      BY <1>1
    <3> QED BY <1>2, <1>3, <1>4, <3>1
  <2> HIDE DEF place
  <2> QED BY SMTT(30), <1>2, <1>4, <2>1, FoundWhereExpected
<1>6. /\ flushed' = flushed /\ rows' = rows /\ active' = active
      /\ setup' = setup /\ boot' = boot /\ sequence' = sequence /\ ram' = ram
  BY DEF CopyEntry, AtWork, cardVars, ramVars
<1>7. \A k \in 0 .. writer.offset - 1 : (writer.start + k) % R # place
  <2> SUFFICES ASSUME NEW k \in 0 .. writer.offset - 1, (writer.start + k) % R = place
               PROVE FALSE
    OBVIOUS
  <2>1. k \in 0 .. R - 1 /\ k < writer.offset /\ k # writer.offset
    BY <1>2, <1>4
  <2>2. (writer.start + k) % R = IF writer.start + k < R THEN writer.start + k
                                 ELSE writer.start + k - R
    BY <1>2, <1>3, <2>1, Slot
  <2>3. place = IF writer.start + writer.offset < R THEN writer.start + writer.offset
                ELSE writer.start + writer.offset - R
    BY <1>2, <1>3, <1>4, Slot
  <2> HIDE DEF place
  <2> QED BY <1>2, <1>3, <1>4, <2>1, <2>2, <2>3
<1>8. CASE entry.sequence <= flushed[s]
  <2>1. writer' = next
    BY <1>8 DEF CopyEntry
  <2>2. /\ next \in [at : {"copy"}, stream : Stream, start : Nat, count : Nat, day : Day,
                     offset : Nat, newest : Nat, buffer : Seq(Row)]
        /\ next.offset = writer.offset + 1 /\ next.offset <= next.count
        /\ next.stream = s /\ next.start = writer.start /\ next.count = writer.count
        /\ next.newest = writer.newest /\ next.buffer = writer.buffer /\ next.at = "copy"
    BY <1>1
  <2> HIDE DEF next
  <2>3. WriterTypeOK'
    BY <2>1, <2>2 DEF WriterTypeOK
  <2>4. CardPart'
    BY <1>1, <1>6, <2>1, <2>2, CardStays DEF InFile
  <2>5. CopyHolds'
    <3>1. \A i \in DOMAIN writer.buffer :
            /\ writer.buffer[i].boot = boot
            /\ writer.buffer[i].sequence \in flushed[s] + 1 .. writer.newest
            /\ \E k \in 0 .. writer.offset :
                 (writer.buffer[i].sequence - 1) % R = (writer.start + k) % R
      <4>1. 0 .. writer.offset - 1 \subseteq 0 .. writer.offset
        BY <1>1
      <4> QED BY <1>1, <4>1 DEF WriterPart, CopyHolds
    <3>2. \A i, j \in DOMAIN writer.buffer :
            i # j => writer.buffer[i].sequence # writer.buffer[j].sequence
      BY <1>1 DEF WriterPart, CopyHolds
    <3>3. sequence[s] <= R =>
            writer.newest = IF writer.offset + 1 > flushed[s] THEN writer.offset + 1
                            ELSE flushed[s]
      BY SMTT(60), <1>1, <1>2, <1>5, <1>8 DEF WriterPart, CopyHolds
    <3>4. sequence[s] <= R =>
            \A n \in flushed[s] + 1 .. writer.newest :
              \E i \in DOMAIN writer.buffer : writer.buffer[i].sequence = n
      BY <1>1 DEF WriterPart, CopyHolds
    <3>5. writer.offset + 1 - 1 = writer.offset
      BY <1>1
    <3> QED BY <1>1, <1>3, <1>6, <2>1, <2>2, <3>1, <3>2, <3>3, <3>4, <3>5 DEF CopyHolds, InFile
  <2> QED BY <2>3, <2>4, <2>5 DEF WriterPart
<1>9. CASE ~(entry.sequence <= flushed[s])
  <2> DEFINE buffer == Append(writer.buffer, row)
             newest == IF entry.sequence > writer.newest THEN entry.sequence ELSE writer.newest
             done == [next EXCEPT !.buffer = buffer, !.newest = newest]
  <2>1. writer' = done
    BY <1>1, <1>9 DEF CopyEntry
  <2>2. row \in Row /\ row.boot = entry.boot /\ row.sequence = entry.sequence
    BY <1>1, <1>5 DEF RowOf, Row, Entry
  <2>3. newest \in flushed[s] .. sequence[s] /\ newest \in Nat
          /\ entry.sequence \in flushed[s] + 1 .. newest /\ writer.newest <= newest
    <3>1. entry.sequence \in Nat /\ writer.newest \in Nat
      BY <1>1, <1>5 DEF Entry
    <3>2. entry.sequence <= sequence[s] /\ entry.sequence > flushed[s]
      BY SMTT(60), <1>2, <1>5, <1>9, <3>1
    <3> HIDE DEF entry
    <3> QED BY <1>2, <1>3, <3>1, <3>2
  <2> HIDE DEF row
  <2>4. /\ buffer \in Seq(Row) /\ DOMAIN buffer = 1 .. Len(writer.buffer) + 1
        /\ Len(writer.buffer) \in Nat /\ DOMAIN writer.buffer = 1 .. Len(writer.buffer)
        /\ \A i \in 1 .. Len(writer.buffer) : buffer[i] = writer.buffer[i]
        /\ buffer[Len(writer.buffer) + 1] = row
    <3>1. writer.buffer \in Seq(Row)
      BY <1>1
    <3> QED BY <2>2, <3>1, AppendProperties, LenProperties
  <2> HIDE DEF buffer, newest
  <2>5. /\ done \in [at : {"copy"}, stream : Stream, start : Nat, count : Nat, day : Day,
                     offset : Nat, newest : Nat, buffer : Seq(Row)]
        /\ done.offset = writer.offset + 1 /\ done.offset <= done.count
        /\ done.stream = s /\ done.start = writer.start /\ done.count = writer.count
        /\ done.newest = newest /\ done.buffer = buffer /\ done.at = "copy"
    <3>1. /\ next \in [at : {"copy"}, stream : Stream, start : Nat, count : Nat, day : Day,
                       offset : Nat, newest : Nat, buffer : Seq(Row)]
          /\ next.offset = writer.offset + 1 /\ next.offset <= next.count
          /\ next.stream = s /\ next.start = writer.start /\ next.count = writer.count
          /\ next.at = "copy"
      BY <1>1
    <3> HIDE DEF next
    <3> QED BY <2>3, <2>4, <3>1
  <2> HIDE DEF next, done
  <2>6. WriterTypeOK'
    BY <2>1, <2>5 DEF WriterTypeOK
  <2>7. CardPart'
    BY <1>1, <1>6, <2>1, <2>5, CardStays DEF InFile
  <2>8. CopyHolds'
    <3>1. \A i \in DOMAIN writer.buffer :
            /\ writer.buffer[i].boot = boot
            /\ writer.buffer[i].sequence \in flushed[s] + 1 .. writer.newest
            /\ \E k \in 0 .. writer.offset - 1 :
                 (writer.buffer[i].sequence - 1) % R = (writer.start + k) % R
      BY <1>1 DEF WriterPart, CopyHolds
    <3>2. \A i \in DOMAIN buffer :
            /\ buffer[i].boot = boot
            /\ buffer[i].sequence \in flushed[s] + 1 .. newest
            /\ \E k \in 0 .. writer.offset :
                 (buffer[i].sequence - 1) % R = (writer.start + k) % R
      <4> SUFFICES ASSUME NEW i \in DOMAIN buffer
                   PROVE  /\ buffer[i].boot = boot
                          /\ buffer[i].sequence \in flushed[s] + 1 .. newest
                          /\ \E k \in 0 .. writer.offset :
                               (buffer[i].sequence - 1) % R = (writer.start + k) % R
        OBVIOUS
      <4>1. CASE i \in DOMAIN writer.buffer
        <5>1. buffer[i] = writer.buffer[i]
          BY <2>4, <4>1
        <5>2. flushed[s] + 1 .. writer.newest \subseteq flushed[s] + 1 .. newest
          BY SMTT(30), <1>1, <1>2, <2>3
        <5>3. 0 .. writer.offset - 1 \subseteq 0 .. writer.offset
          BY <1>1
        <5> QED BY <3>1, <4>1, <5>1, <5>2, <5>3
      <4>2. CASE i \notin DOMAIN writer.buffer
        <5>1. buffer[i] = row
          BY <2>4, <4>2
        <5>2. entry.sequence # 0
          BY SMTT(30), <1>2, <2>3
        <5>3. writer.offset \in 0 .. writer.offset
          BY <1>1
        <5> QED BY <1>5, <2>2, <2>3, <5>1, <5>2, <5>3
      <4> QED BY <4>1, <4>2
    <3>3. \A i \in DOMAIN writer.buffer : writer.buffer[i].sequence # entry.sequence
      <4> SUFFICES ASSUME NEW i \in DOMAIN writer.buffer,
                          writer.buffer[i].sequence = entry.sequence
                   PROVE FALSE
        OBVIOUS
      <4>1. PICK k \in 0 .. writer.offset - 1 :
              (writer.buffer[i].sequence - 1) % R = (writer.start + k) % R
        BY <3>1
      <4>2. (entry.sequence - 1) % R = place
        BY SMTT(60), <1>2, <1>5, <2>3
      <4> QED BY <1>7, <4>1, <4>2
    <3>4. \A i, j \in DOMAIN buffer : i # j => buffer[i].sequence # buffer[j].sequence
      <4>1. \A i, j \in DOMAIN writer.buffer :
              i # j => writer.buffer[i].sequence # writer.buffer[j].sequence
        BY <1>1 DEF WriterPart, CopyHolds
      <4>2. \A i \in DOMAIN buffer : \/ i \in DOMAIN writer.buffer /\ buffer[i] = writer.buffer[i]
                                     \/ i = Len(writer.buffer) + 1 /\ buffer[i] = row
        BY <2>4
      <4> HIDE DEF entry
      <4> QED BY <2>2, <3>3, <4>1, <4>2
    <3>5. sequence[s] <= R =>
            /\ newest = IF writer.offset + 1 > flushed[s] THEN writer.offset + 1 ELSE flushed[s]
            /\ \A n \in flushed[s] + 1 .. newest : \E i \in DOMAIN buffer : buffer[i].sequence = n
      <4> SUFFICES ASSUME sequence[s] <= R
                   PROVE  /\ newest = IF writer.offset + 1 > flushed[s] THEN writer.offset + 1
                                      ELSE flushed[s]
                          /\ \A n \in flushed[s] + 1 .. newest :
                               \E i \in DOMAIN buffer : buffer[i].sequence = n
        OBVIOUS
      <4>1. /\ writer.newest = IF writer.offset > flushed[s] THEN writer.offset ELSE flushed[s]
            /\ \A n \in flushed[s] + 1 .. writer.newest :
                 \E i \in DOMAIN writer.buffer : writer.buffer[i].sequence = n
        BY <1>1 DEF WriterPart, CopyHolds
      <4>2. entry.sequence = writer.offset + 1 /\ writer.offset + 1 > flushed[s]
        BY SMTT(60), <1>1, <1>2, <1>5, <1>9
      <4>3. newest = writer.offset + 1 /\ writer.newest = writer.offset
        BY <1>1, <1>2, <4>1, <4>2 DEF newest
      <4>4. \A n \in flushed[s] + 1 .. newest : n = entry.sequence \/ n \in flushed[s] + 1 .. writer.newest
        BY <1>1, <1>2, <4>2, <4>3
      <4>5. \A n \in flushed[s] + 1 .. writer.newest : \E i \in DOMAIN buffer : buffer[i].sequence = n
        <5>1. DOMAIN writer.buffer \subseteq DOMAIN buffer
          BY <2>4
        <5> QED BY <2>4, <4>1, <5>1
      <4>6. Len(writer.buffer) + 1 \in DOMAIN buffer
        BY <2>4
      <4> QED BY <2>2, <2>4, <4>2, <4>3, <4>4, <4>5, <4>6
    <3>6. writer.offset + 1 - 1 = writer.offset
      BY <1>1
    <3> QED BY SMTT(60), <1>1, <1>3, <1>6, <2>1, <2>3, <2>5, <3>2, <3>4, <3>5, <3>6 DEF CopyHolds, InFile
  <2> QED BY <2>6, <2>7, <2>8 DEF WriterPart
<1> QED BY <1>8, <1>9

\* Rows that are appended count what was not yet on the card, and a file that is closed makes
\* all that was copied count as flushed.
LEMMA AppendedOnce ==
  ASSUME CardPart, NEW s \in Stream, NEW more \in Seq(Row), boot \in Nat,
         \A i \in DOMAIN more : more[i].boot = boot /\ more[i].sequence > flushed[s],
         \A i, j \in DOMAIN more : i # j => more[i].sequence # more[j].sequence,
         \A i \in DOMAIN rows[s] : rows[s][i].boot = boot => rows[s][i].sequence <= flushed[s]
  PROVE  LET rs == rows[s] \o more
         IN /\ rs \in Seq(Row) /\ NoneTwice(rs)
            /\ \A i \in DOMAIN rs : \/ \E j \in DOMAIN rows[s] : rs[i] = rows[s][j]
                                    \/ \E j \in DOMAIN more : rs[i] = more[j]
            /\ \A j \in DOMAIN rows[s] : \E i \in DOMAIN rs : rs[i] = rows[s][j]
            /\ \A j \in DOMAIN more : \E i \in DOMAIN rs : rs[i] = more[j]
<1> DEFINE rs == rows[s] \o more
           a  == Len(rows[s])
           b  == Len(more)
<1>1. /\ rows[s] \in Seq(Row) /\ a \in Nat /\ DOMAIN rows[s] = 1 .. a
      /\ \A i \in DOMAIN rows[s] : rows[s][i] \in Row
  BY RowsAreRows
<1>2. b \in Nat /\ DOMAIN more = 1 .. b /\ \A i \in DOMAIN more : more[i] \in Row
  BY ElementOfSeq, LenProperties
<1>3. /\ rs \in Seq(Row) /\ Len(rs) = a + b
      /\ \A i \in 1 .. a + b : rs[i] = IF i <= a THEN rows[s][i] ELSE more[i - a]
  BY <1>1, ConcatProperties
<1>4. DOMAIN rs = 1 .. a + b
  BY <1>3, LenProperties
<1> HIDE DEF rs, a, b
<1>5. \A i \in DOMAIN rs : \/ i \in DOMAIN rows[s] /\ rs[i] = rows[s][i]
                           \/ i - a \in DOMAIN more /\ rs[i] = more[i - a] /\ i > a
  BY <1>1, <1>2, <1>3, <1>4
<1>6. \A j \in DOMAIN rows[s] : j \in DOMAIN rs /\ rs[j] = rows[s][j]
  BY <1>1, <1>2, <1>3, <1>4
<1>7. \A j \in DOMAIN more : j + a \in DOMAIN rs /\ rs[j + a] = more[j]
  <2> SUFFICES ASSUME NEW j \in DOMAIN more PROVE j + a \in DOMAIN rs /\ rs[j + a] = more[j]
    OBVIOUS
  <2>1. j + a \in 1 .. a + b /\ ~(j + a <= a) /\ (j + a) - a = j
    BY <1>1, <1>2
  <2>2. rs[j + a] = IF j + a <= a THEN rows[s][j + a] ELSE more[(j + a) - a]
    BY <1>3, <2>1, Zenon
  <2> QED BY <1>4, <2>1, <2>2
<1>8. NoneTwice(rs)
  <2> SUFFICES ASSUME NEW i \in DOMAIN rs, NEW j \in DOMAIN rs, i # j,
                      rs[i].boot = rs[j].boot, rs[i].sequence = rs[j].sequence
               PROVE  FALSE
    BY DEF NoneTwice
  <2>1. NoneTwice(rows[s])
    BY WrittenOnceIsOnceEach DEF CardPart, OnceEach
  <2>2. i \in Nat /\ j \in Nat
    BY <1>1, <1>2, <1>4
  <2>3. ~(i \in DOMAIN rows[s] /\ rs[i] = rows[s][i] /\ j \in DOMAIN rows[s] /\ rs[j] = rows[s][j])
    BY <2>1 DEF NoneTwice
  <2>4. flushed[s] \in Nat
    BY DEF CardPart
  <2>5. ASSUME NEW x \in DOMAIN rows[s], NEW y \in DOMAIN more
        PROVE  ~(rows[s][x].boot = more[y].boot /\ rows[s][x].sequence = more[y].sequence)
    <3> SUFFICES ASSUME rows[s][x].boot = more[y].boot, rows[s][x].sequence = more[y].sequence
                 PROVE  FALSE
      OBVIOUS
    <3>1. rows[s][x].sequence \in Nat /\ more[y].sequence > flushed[s] /\ more[y].boot = boot
      BY <1>1 DEF Row
    <3>2. rows[s][x].sequence <= flushed[s]
      BY <3>1
    <3> QED BY <2>4, <3>1, <3>2
  <2>6. ~(i - a \in DOMAIN more /\ rs[i] = more[i - a] /\ j - a \in DOMAIN more /\ rs[j] = more[j - a])
    BY <1>1, <2>2
  <2>7. CASE i \in DOMAIN rows[s] /\ rs[i] = rows[s][i]
    <3>1. j - a \in DOMAIN more /\ rs[j] = more[j - a]
      BY <1>5, <2>3, <2>7
    <3> QED BY <2>5, <2>7, <3>1
  <2>8. CASE i - a \in DOMAIN more /\ rs[i] = more[i - a]
    <3>1. j \in DOMAIN rows[s] /\ rs[j] = rows[s][j]
      BY <1>5, <2>6, <2>8
    <3> QED BY <2>5, <2>8, <3>1
  <2> QED BY <1>5, <2>7, <2>8
<1>9. rs = rows[s] \o more
  BY DEF rs
<1>10. rs \in Seq(Row)
  BY <1>3
<1>11. \A i \in DOMAIN rs : \/ \E j \in DOMAIN rows[s] : rs[i] = rows[s][j]
                            \/ \E j \in DOMAIN more : rs[i] = more[j]
  BY <1>5
<1>12. \A j \in DOMAIN rows[s] : \E i \in DOMAIN rs : rs[i] = rows[s][j]
  BY <1>6
<1>13. \A j \in DOMAIN more : \E i \in DOMAIN rs : rs[i] = more[j]
  BY <1>7
<1> QED BY <1>8, <1>9, <1>10, <1>11, <1>12, <1>13

\* Of what was copied any beginning may be appended.
LEMMA PrefixIsPart ==
  ASSUME NEW q \in Seq(Row), NEW p \in Prefixes(q)
  PROVE  /\ p \in Seq(Row) /\ DOMAIN p \subseteq DOMAIN q
         /\ \A i \in DOMAIN p : p[i] = q[i]
<1>1. Len(q) \in Nat /\ DOMAIN q = 1 .. Len(q) /\ \A i \in DOMAIN q : q[i] \in Row
  BY ElementOfSeq, LenProperties
<1>2. CASE p = <<>>
  BY <1>2
<1>3. CASE \E m \in 1 .. Len(q) : p = SubSeq(q, 1, m)
  <2>1. PICK m \in 1 .. Len(q) : p = SubSeq(q, 1, m)
    BY <1>3
  <2>2. /\ SubSeq(q, 1, m) \in Seq(Row) /\ Len(SubSeq(q, 1, m)) = m
        /\ \A i \in 1 .. m : SubSeq(q, 1, m)[i] = q[i]
    BY <1>1, SubSeqProperties
  <2>3. DOMAIN p = 1 .. m
    BY <2>1, <2>2, LenProperties
  <2> QED BY <1>1, <2>1, <2>2, <2>3
<1> QED BY <1>1, <1>2, <1>3 DEF Prefixes

LEMMA BufferIsNew ==
  ASSUME RingPart, CardPart, WriterPart, writer.at = "copy"
  PROVE  LET s == writer.stream
         IN /\ s \in Stream /\ writer.buffer \in Seq(Row)
            /\ \A i \in DOMAIN writer.buffer :
                 /\ writer.buffer[i] \in Row /\ writer.buffer[i].boot = boot
                 /\ writer.buffer[i].sequence > flushed[s]
                 /\ writer.buffer[i].sequence <= writer.newest
            /\ \A i, j \in DOMAIN writer.buffer :
                 i # j => writer.buffer[i].sequence # writer.buffer[j].sequence
            /\ \A i \in DOMAIN rows[s] :
                 rows[s][i].boot = boot => rows[s][i].sequence <= flushed[s]
<1> DEFINE s == writer.stream
<1>1. s \in Stream /\ InFile /\ writer.buffer \in Seq(Row) /\ writer.newest \in Nat
  BY WriterFields DEF WriterPart, InFile
<1>2. \A i \in DOMAIN writer.buffer : writer.buffer[i] \in Row
  BY <1>1, ElementOfSeq, LenProperties
<1>3. flushed[s] \in Nat
  BY <1>1 DEF CardPart
<1>4. \A i \in DOMAIN writer.buffer :
        /\ writer.buffer[i].boot = boot
        /\ writer.buffer[i].sequence \in flushed[s] + 1 .. writer.newest
  BY <1>1 DEF WriterPart, CopyHolds
<1>5. \A i \in DOMAIN writer.buffer : /\ writer.buffer[i].sequence > flushed[s]
                                      /\ writer.buffer[i].sequence <= writer.newest
  BY <1>1, <1>3, <1>4
<1>6. \A i, j \in DOMAIN writer.buffer :
        i # j => writer.buffer[i].sequence # writer.buffer[j].sequence
  BY <1>1 DEF WriterPart, CopyHolds
<1>7. \A i \in DOMAIN rows[s] : rows[s][i].boot = boot => rows[s][i].sequence <= flushed[s]
  BY <1>1 DEF CardPart, RowsAreFlushed
<1> QED BY <1>1, <1>2, <1>4, <1>5, <1>6, <1>7

\* Rows of the copy that are appended, all or a beginning of them.
LEMMA RowsAppended ==
  ASSUME RingPart, CardPart, WriterPart, boot \in Nat, writer.at = "copy",
         NEW more \in Seq(Row), DOMAIN more \subseteq DOMAIN writer.buffer,
         \A i \in DOMAIN more : more[i] = writer.buffer[i],
         AppendRows(writer.stream, more)
  PROVE  LET s == writer.stream
         IN /\ rows' \in [Stream -> Seq(Row)]
            /\ \A x \in Stream : x # s => rows'[x] = rows[x]
            /\ \A x \in Stream : NoneTwice(rows'[x])
            /\ \A i \in DOMAIN rows'[s] : \/ \E j \in DOMAIN rows[s] : rows'[s][i] = rows[s][j]
                                          \/ \E j \in DOMAIN more : rows'[s][i] = more[j]
            /\ \A j \in DOMAIN rows[s] : \E i \in DOMAIN rows'[s] : rows'[s][i] = rows[s][j]
            /\ \A j \in DOMAIN more : \E i \in DOMAIN rows'[s] : rows'[s][i] = more[j]
            /\ \A x \in Stream : \A i \in DOMAIN rows'[x] : rows'[x][i].boot <= boot
<1> DEFINE s == writer.stream
<1>1. s \in Stream /\ writer.buffer \in Seq(Row)
  BY BufferIsNew
<1>2. \A i \in DOMAIN writer.buffer :
        writer.buffer[i].boot = boot /\ writer.buffer[i].sequence > flushed[s]
  BY BufferIsNew
<1>3. /\ \A i, j \in DOMAIN writer.buffer :
           i # j => writer.buffer[i].sequence # writer.buffer[j].sequence
      /\ \A i \in DOMAIN rows[s] :
           rows[s][i].boot = boot => rows[s][i].sequence <= flushed[s]
  BY BufferIsNew
<1>4. OnceEach
  BY WrittenOnceIsOnceEach DEF CardPart
<1>5. /\ rows \in [Stream -> Seq(Row)]
      /\ \A x \in Stream : \A i \in DOMAIN rows[x] : rows[x][i] \in Row /\ rows[x][i].boot <= boot
  BY RowsAreRows DEF CardPart, RowsAreFlushed
<1> DEFINE rs == rows[s] \o more
<1>6. rows' = [rows EXCEPT ![s] = rs]
  BY DEF AppendRows
<1>7. \A i \in DOMAIN more : more[i].boot = boot /\ more[i].sequence > flushed[s]
  BY <1>2
<1>8. \A i, j \in DOMAIN more : i # j => more[i].sequence # more[j].sequence
  BY <1>3
<1>9. /\ rs \in Seq(Row) /\ NoneTwice(rs)
      /\ \A i \in DOMAIN rs : \/ \E j \in DOMAIN rows[s] : rs[i] = rows[s][j]
                              \/ \E j \in DOMAIN more : rs[i] = more[j]
      /\ \A j \in DOMAIN rows[s] : \E i \in DOMAIN rs : rs[i] = rows[s][j]
      /\ \A j \in DOMAIN more : \E i \in DOMAIN rs : rs[i] = more[j]
  BY <1>1, <1>3, <1>7, <1>8, AppendedOnce
<1> HIDE DEF rs
<1>10. rows'[s] = rs /\ \A x \in Stream : x # s => rows'[x] = rows[x]
  BY <1>1, <1>5, <1>6
<1>11. rows' \in [Stream -> Seq(Row)]
  BY <1>5, <1>6, <1>9
<1>12. \A x \in Stream : NoneTwice(rows'[x])
  BY <1>4, <1>9, <1>10 DEF OnceEach
<1>13. \A i \in DOMAIN rs : rs[i].boot <= boot
  <2>1. \A j \in DOMAIN more : more[j].boot <= boot
    BY <1>7
  <2> QED BY <1>1, <1>5, <1>9, <2>1
<1>14. \A x \in Stream : \A i \in DOMAIN rows'[x] : rows'[x][i].boot <= boot
  BY <1>5, <1>10, <1>13
<1>15. /\ \A i \in DOMAIN rows'[s] : \/ \E j \in DOMAIN rows[s] : rows'[s][i] = rows[s][j]
                                    \/ \E j \in DOMAIN more : rows'[s][i] = more[j]
       /\ \A j \in DOMAIN rows[s] : \E i \in DOMAIN rows'[s] : rows'[s][i] = rows[s][j]
       /\ \A j \in DOMAIN more : \E i \in DOMAIN rows'[s] : rows'[s][i] = more[j]
  BY <1>9, <1>10
<1> QED BY <1>10, <1>11, <1>12, <1>14, <1>15

\* The file is closed, or left as it is when the card fails.
LEMMA FileCloses ==
  ASSUME RingPart, CardPart, WriterPart, CloseFile, AtWork, setup \in SetUp, boot \in Nat
  PROVE  CardPart' /\ WriterPart'
<1> DEFINE s == writer.stream
<1>1. writer.at = "copy" /\ writer.offset = writer.count
  BY DEF CloseFile
<1>2. /\ s \in Stream /\ InFile /\ writer.newest \in Nat /\ writer.count \in Nat
      /\ writer.buffer \in Seq(Row)
  BY <1>1, WriterFields DEF WriterPart, InFile
<1>3. WriterPart' /\ ~InFile'
  <2>1. writer' = AfterStream(s)
    BY DEF CloseFile
  <2>2. WriterTypeOK' /\ ~InFile'
    BY <1>2, <2>1, WriterAssumption DEF WriterTypeOK, InFile, AfterStream, Begin, Idle
  <2> QED BY <2>2 DEF WriterPart, CopyHolds
<1>4. /\ setup' = setup /\ boot' = boot /\ sequence' = sequence
      /\ setup.ring \in Nat \ {0} /\ sequence \in [Stream -> Nat] /\ flushed \in [Stream -> Nat]
  BY SetUpFacts DEF AtWork, RingPart, CardPart
<1>5. \A x \in Stream : flushed[x] \in 0 .. sequence[x]
  BY DEF CardPart
<1>6. \A i \in DOMAIN writer.buffer :
        /\ writer.buffer[i].boot = boot /\ writer.buffer[i].sequence > flushed[s]
        /\ writer.buffer[i].sequence <= writer.newest
  BY <1>1, BufferIsNew
<1>7. /\ \A i, j \in DOMAIN writer.buffer :
           i # j => writer.buffer[i].sequence # writer.buffer[j].sequence
      /\ \A i \in DOMAIN rows[s] :
           rows[s][i].boot = boot => rows[s][i].sequence <= flushed[s]
  BY <1>1, BufferIsNew
<1>8. OnceEach
  BY WrittenOnceIsOnceEach DEF CardPart
<1>9. /\ rows \in [Stream -> Seq(Row)]
      /\ \A x \in Stream : \A i \in DOMAIN rows[x] : rows[x][i] \in Row /\ rows[x][i].boot <= boot
  BY RowsAreRows DEF CardPart, RowsAreFlushed
<1>10. ASSUME NEW more \in Seq(Row), DOMAIN more \subseteq DOMAIN writer.buffer,
              \A i \in DOMAIN more : more[i] = writer.buffer[i],
              AppendRows(s, more)
       PROVE  /\ rows' \in [Stream -> Seq(Row)]
              /\ \A x \in Stream : x # s => rows'[x] = rows[x]
              /\ \A x \in Stream : NoneTwice(rows'[x])
              /\ \A i \in DOMAIN rows'[s] : \/ \E j \in DOMAIN rows[s] : rows'[s][i] = rows[s][j]
                                            \/ \E j \in DOMAIN more : rows'[s][i] = more[j]
              /\ \A j \in DOMAIN rows[s] : \E i \in DOMAIN rows'[s] : rows'[s][i] = rows[s][j]
              /\ \A j \in DOMAIN more : \E i \in DOMAIN rows'[s] : rows'[s][i] = more[j]
              /\ \A x \in Stream : \A i \in DOMAIN rows'[x] : rows'[x][i].boot <= boot
  BY <1>1, <1>10, RowsAppended
<1>11. CASE AppendRows(s, writer.buffer) /\ flushed' = FlushedAfter(s) /\ active' = active
  <2>1. /\ rows' \in [Stream -> Seq(Row)]
        /\ \A x \in Stream : x # s => rows'[x] = rows[x]
        /\ \A x \in Stream : NoneTwice(rows'[x])
        /\ \A i \in DOMAIN rows'[s] :
             \/ \E j \in DOMAIN rows[s] : rows'[s][i] = rows[s][j]
             \/ \E j \in DOMAIN writer.buffer : rows'[s][i] = writer.buffer[j]
        /\ \A j \in DOMAIN rows[s] : \E i \in DOMAIN rows'[s] : rows'[s][i] = rows[s][j]
        /\ \A j \in DOMAIN writer.buffer : \E i \in DOMAIN rows'[s] : rows'[s][i] = writer.buffer[j]
        /\ \A x \in Stream : \A i \in DOMAIN rows'[x] : rows'[x][i].boot <= boot
    <3>1. DOMAIN writer.buffer \subseteq DOMAIN writer.buffer
            /\ \A i \in DOMAIN writer.buffer : writer.buffer[i] = writer.buffer[i]
      OBVIOUS
    <3> QED BY <1>2, <1>10, <1>11, <3>1
  <2>2. writer.newest \in flushed[s] .. sequence[s]
    BY <1>1, <1>2 DEF WriterPart, CopyHolds
  <2>3. /\ flushed' \in [Stream -> Nat] /\ flushed'[s] = writer.newest
        /\ \A x \in Stream : x # s => flushed'[x] = flushed[x]
    BY <1>2, <1>4, <1>11 DEF FlushedAfter
  <2>4. \A x \in Stream : flushed'[x] \in 0 .. sequence[x]
    <3>1. writer.newest \in 0 .. sequence[s]
      BY <1>2, <1>4, <2>2
    <3> QED BY <1>5, <2>3, <3>1
  <2>5. \A i \in DOMAIN rows'[s] : rows'[s][i].boot = boot => rows'[s][i].sequence <= writer.newest
    <3>1. \A i \in DOMAIN rows[s] :
            rows[s][i].boot = boot => rows[s][i].sequence <= writer.newest
      <4>1. \A i \in DOMAIN rows[s] : rows[s][i].sequence \in Nat
        BY <1>2, <1>9 DEF Row
      <4> QED BY <1>2, <1>4, <1>7, <2>2, <4>1
    <3> QED BY <1>6, <2>1, <3>1
  <2>6. RowsAreFlushed'
    <3>1. active' = active /\ boot' = boot
      BY <1>4, <1>11
    <3>2. \A x \in Stream : \A i \in DOMAIN rows'[x] :
            rows'[x][i].boot = boot /\ active => rows'[x][i].sequence <= flushed'[x]
      <4>1. \A x \in Stream : \A i \in DOMAIN rows[x] :
              rows[x][i].boot = boot /\ active => rows[x][i].sequence <= flushed[x]
        BY DEF CardPart, RowsAreFlushed
      <4> QED BY <2>1, <2>3, <2>5, <4>1
    <3> QED BY <1>3, <2>1, <3>1, <3>2 DEF RowsAreFlushed
  <2>7. ASSUME sequence[s] <= setup.ring PROVE UpTo(writer.newest, rows'[s], boot)
    <3> SUFFICES ASSUME NEW k \in 1 .. writer.newest
                 PROVE  \E i \in DOMAIN rows'[s] : rows'[s][i].boot = boot
                                                  /\ rows'[s][i].sequence = k
      BY DEF UpTo
    <3>1. UpTo(flushed[s], rows[s], boot)
      BY <1>2, <1>8, <2>7 DEF OnceEach
    <3>2. \A n \in flushed[s] + 1 .. writer.newest :
            \E i \in DOMAIN writer.buffer : writer.buffer[i].sequence = n
      BY <1>1, <1>2, <2>7 DEF WriterPart, CopyHolds
    <3>3. flushed[s] \in Nat
      BY <1>2, <1>4
    <3>4. CASE k \in 1 .. flushed[s]
      <4>1. PICK j \in DOMAIN rows[s] : rows[s][j].boot = boot /\ rows[s][j].sequence = k
        BY <3>1, <3>4 DEF UpTo
      <4> QED BY <2>1, <4>1
    <3>5. CASE k \in flushed[s] + 1 .. writer.newest
      <4>1. PICK j \in DOMAIN writer.buffer : writer.buffer[j].sequence = k
        BY <3>2, <3>5
      <4> QED BY <1>6, <2>1, <4>1
    <3> QED BY <1>2, <3>3, <3>4, <3>5
  <2>8. OnceEach'
    <3>1. \A x \in Stream : sequence[x] <= setup.ring => UpTo(flushed'[x], rows'[x], boot)
      BY <1>8, <2>1, <2>3, <2>7 DEF OnceEach
    <3> QED BY <1>4, <2>1, <3>1 DEF OnceEach
  <2>9. CardPart'
    BY <1>4, <2>1, <2>3, <2>4, <2>6, <2>8, NextWrittenOnceIsOnceEach DEF CardPart
  <2> QED BY <1>3, <2>9
<1>12. ASSUME NEW kept \in Prefixes(writer.buffer), AppendRows(s, kept),
              active' = FALSE, flushed' = flushed
       PROVE  CardPart'
  <2>1. kept \in Seq(Row) /\ DOMAIN kept \subseteq DOMAIN writer.buffer
          /\ \A i \in DOMAIN kept : kept[i] = writer.buffer[i]
    BY <1>2, PrefixIsPart
  <2>2. /\ rows' \in [Stream -> Seq(Row)]
        /\ \A x \in Stream : x # s => rows'[x] = rows[x]
        /\ \A x \in Stream : NoneTwice(rows'[x])
        /\ \A j \in DOMAIN rows[s] : \E i \in DOMAIN rows'[s] : rows'[s][i] = rows[s][j]
        /\ \A x \in Stream : \A i \in DOMAIN rows'[x] : rows'[x][i].boot <= boot
    BY <1>10, <1>12, <2>1
  <2>3. RowsAreFlushed'
    BY <1>3, <1>4, <1>12, <2>2 DEF RowsAreFlushed
  <2>4. \A x \in Stream : sequence[x] <= setup.ring => UpTo(flushed[x], rows'[x], boot)
    <3>1. \A x \in Stream : sequence[x] <= setup.ring => UpTo(flushed[x], rows[x], boot)
      BY <1>8 DEF OnceEach
    <3>2. \A n : UpTo(n, rows[s], boot) => UpTo(n, rows'[s], boot)
      BY <2>2 DEF UpTo
    <3> QED BY <2>2, <3>1, <3>2
  <2>5. OnceEach'
    BY <1>4, <1>12, <2>2, <2>4 DEF OnceEach
  <2> QED BY <1>4, <1>5, <1>12, <2>2, <2>3, <2>5, NextWrittenOnceIsOnceEach DEF CardPart
<1> QED BY <1>3, <1>11, <1>12 DEF CloseFile, WriterError

\* After a restart nothing of the new boot is on the card.
LEMMA RestartKeeps ==
  ASSUME RingPart, CardPart, WriterPart, LoseRam, setup' = setup, boot' = boot + 1,
         setup \in SetUp, boot \in Nat
  PROVE  RingPart' /\ CardPart' /\ WriterPart'
<1>1. /\ ram' = [s \in Stream |-> EmptyRing(setup.ring)]
      /\ sequence' = [s \in Stream |-> 0] /\ flushed' = [s \in Stream |-> 0]
      /\ writer' = Idle
  BY DEF LoseRam
<1>2. RingPart'
  <2>1. Ring' = Ring
    BY DEF Ring
  <2>2. Holding(EmptyRing(setup.ring), 0, boot + 1)
    BY EmptyRingHolds
  <2>3. \A s \in Stream : ram'[s] = EmptyRing(setup.ring) /\ sequence'[s] = 0
    BY <1>1
  <2>4. \A s \in Stream : Holding(ram'[s], sequence'[s], boot + 1)
    BY <2>2, <2>3
  <2>5. \A s \in Stream : Holding(ram[s], sequence[s], boot)'
    BY <2>1, <2>4 DEF Holding
  <2>6. EmptyRing(setup.ring) \in Ring
    BY <2>2 DEF Holding
  <2>7. ram' \in [Stream -> Ring'] /\ sequence' \in [Stream -> Nat]
    BY <1>1, <2>1, <2>6
  <2> QED BY <2>5, <2>7 DEF RingPart
<1>3. WriterPart'
  BY <1>1 DEF WriterPart, WriterTypeOK, CopyHolds, InFile, Idle
<1>4. /\ rows' \in [Stream -> Seq(Row)]
      /\ \A x \in Stream : NoneTwice(rows'[x])
      /\ \A x \in Stream : \A i \in DOMAIN rows'[x] : rows'[x][i].boot <= boot
  <2>1. CASE writer.at = "copy"
    <3>1. PICK kept \in Prefixes(writer.buffer) : AppendRows(writer.stream, kept)
      BY <2>1 DEF LoseRam
    <3>2. kept \in Seq(Row) /\ DOMAIN kept \subseteq DOMAIN writer.buffer
            /\ \A i \in DOMAIN kept : kept[i] = writer.buffer[i]
      BY <2>1, BufferIsNew, PrefixIsPart
    <3> QED BY <2>1, <3>1, <3>2, RowsAppended
  <2>2. CASE writer.at # "copy"
    <3>1. rows' = rows /\ OnceEach
      BY <2>2, WrittenOnceIsOnceEach DEF LoseRam, CardPart
    <3> QED BY <3>1 DEF CardPart, RowsAreFlushed, OnceEach
  <2> QED BY <2>1, <2>2
<1>5. CardPart'
  <2>1. RowsAreFlushed'
    <3>1. \A x \in Stream : \A i \in DOMAIN rows'[x] :
            rows'[x][i].boot <= boot' /\ rows'[x][i].boot # boot'
      <4>1. \A x \in Stream : \A i \in DOMAIN rows'[x] : rows'[x][i] \in Row
        BY <1>4, ElementOfSeq, LenProperties
      <4> QED BY <1>4, <4>1 DEF Row
    <3> QED BY <3>1 DEF RowsAreFlushed
  <2>2. OnceEach'
    <3>1. \A x \in Stream : UpTo(0, rows'[x], boot')
      BY DEF UpTo
    <3> QED BY <1>1, <1>4, <3>1 DEF OnceEach
  <2>3. flushed' \in [Stream -> Nat] /\ \A s \in Stream : flushed'[s] \in 0 .. sequence'[s]
    BY <1>1
  <2> QED BY <1>4, <2>1, <2>2, <2>3, NextWrittenOnceIsOnceEach DEF CardPart
<1> QED BY <1>2, <1>3, <1>5

\* The other steps of the task, and what the main loop does to `active`.
LEMMA TaskElsewhere ==
  ASSUME CardPart, WriterPart, AtWork, UNCHANGED <<flushed, rows>>,
         active' => active, WriterTypeOK',
         UNCHANGED writer \/ (~InFile /\ ~InFile')
  PROVE  CardPart' /\ WriterPart'
<1>1. CASE UNCHANGED writer
  <2>1. CardPart'
    BY <1>1, CardStays DEF AtWork, InFile
  <2>2. CopyHolds'
    BY <1>1 DEF WriterPart, CopyHolds, InFile, AtWork
  <2> QED BY <2>1, <2>2 DEF WriterPart
<1>2. CASE ~InFile /\ ~InFile'
  <2>1. CardPart'
    BY <1>2, CardStays DEF AtWork
  <2> QED BY <1>2, <2>1 DEF WriterPart, CopyHolds
<1> QED BY <1>1, <1>2

-----------------------------------------------------------------------------
(* The main loop.                                                           *)

LEMMA WorkTypes ==
  /\ FlushWork \in Work /\ CycleWork \in Work
  /\ \A d \in Day, e \in Energy : DailyWork(d, e) \in Work
  /\ \A w \in Work : /\ w.type \in {"flush", "cycle", "daily"}
                     /\ w.type = "flush" <=> w = FlushWork
                     /\ w.type = "daily" => w.day \in Day /\ w.energy \in Energy
                                            /\ w = DailyWork(w.day, w.energy)
  BY DEF Work, FlushWork, CycleWork, DailyWork

\* Work is queued, or dropped.
LEMMA Queued ==
  ASSUME sdWorkQueue \in Seq(Work), Len(sdWorkQueue) <= setup.queue, setup \in SetUp,
         NEW item \in Work, QueueSdWork(item)
  PROVE  /\ sdWorkQueue' \in Seq(Work) /\ Len(sdWorkQueue') <= setup.queue
         /\ Room => item \in ToSet(sdWorkQueue')
         /\ \A w \in ToSet(sdWorkQueue) : w \in ToSet(sdWorkQueue')
         /\ \A w \in ToSet(sdWorkQueue') : w \in ToSet(sdWorkQueue) \/ w = item
<1>1. setup.queue \in Nat
  BY SetUpFacts
<1>2. CASE ~Room
  BY <1>2 DEF QueueSdWork
<1>3. CASE Room
  <2> DEFINE q == sdWorkQueue
             n == Len(q)
             r == Append(q, item)
  <2>1. sdWorkQueue' = r
    BY <1>3 DEF QueueSdWork
  <2>2. n \in Nat /\ DOMAIN q = 1 .. n /\ n < setup.queue
    BY <1>1, <1>3, LenProperties DEF Room
  <2>3. /\ r \in Seq(Work) /\ Len(r) = n + 1 /\ r[n + 1] = item
        /\ \A i \in 1 .. n : r[i] = q[i]
    BY AppendProperties
  <2> HIDE DEF r
  <2>4. DOMAIN r = 1 .. n + 1
    BY <2>3, LenProperties
  <2>5. \A w \in ToSet(q) : w \in ToSet(r)
    <3> SUFFICES ASSUME NEW i \in 1 .. n PROVE q[i] \in ToSet(r)
      BY <2>2 DEF ToSet
    <3> QED BY <2>2, <2>3, <2>4 DEF ToSet
  <2>6. item \in ToSet(r)
    BY <2>2, <2>3, <2>4 DEF ToSet
  <2>7. \A w \in ToSet(r) : w \in ToSet(q) \/ w = item
    <3> SUFFICES ASSUME NEW i \in 1 .. n + 1 PROVE r[i] \in ToSet(q) \/ r[i] = item
      BY <2>4 DEF ToSet
    <3> QED BY <2>2, <2>3 DEF ToSet
  <2>8. Len(r) <= setup.queue
    BY <1>1, <2>2, <2>3
  <2> QED BY <1>3, <2>1, <2>3, <2>5, <2>6, <2>7, <2>8
<1> QED BY <1>2, <1>3

LEMMA ClockIsTime ==
  ASSUME MainPart
  PROVE  now \in Time /\ DayOf(now) \in Day /\ [boot |-> boot, time |-> now] \in Sample
<1>1. now \in Time
  <2>1. MaxTime \in Nat
    BY EnergyAssumption
  <2> QED BY <2>1, SetUpFacts DEF MainPart, Time
<1> QED BY <1>1, DayIsDay DEF MainPart, Sample

LEMMA SampleKeepsMain ==
  ASSUME MainPart, TakeSample
  PROVE  MainPart'
<1> DEFINE sample == [boot |-> boot, time |-> now]
           over   == summary # None /\ summary.day # DayOf(now)
           base   == IF summary = None \/ over THEN Reset(DayOf(now)) ELSE summary
<1>1. sample \in Sample /\ DayOf(now) \in Day
  BY ClockIsTime
<1>2. summary # None => summary \in Summary
  BY DEF MainPart
<1>3. base \in Summary
  BY <1>1, <1>2, ResetType
<1>4. previous \in Sample \cup {None}
  BY DEF MainPart
<1>5. Accumulated(base, previous, sample) \in Summary
  <2> HIDE DEF base
  <2> QED BY <1>1, <1>3, <1>4, AccumulatedType
<1>6. /\ sdWorkQueue' \in Seq(Work) /\ Len(sdWorkQueue') <= setup.queue
      /\ \A w \in ToSet(sdWorkQueue) : w \in ToSet(sdWorkQueue')
  <2>1. CASE over
    <3>1. Accumulated(summary, previous, sample) \in Summary
      BY <1>1, <1>2, <1>4, <2>1, AccumulatedType
    <3> DEFINE s == Accumulated(summary, previous, sample)
    <3>2. DailyWork(s.day, s.energy) \in Work
      BY <3>1, WorkTypes DEF Summary
    <3>3. QueueSdWork(DailyWork(s.day, s.energy))
      BY <2>1 DEF TakeSample, PersistDailySummary
    <3> HIDE DEF s
    <3> QED BY <3>2, <3>3, Queued DEF MainPart
  <2>2. CASE ~over
    BY <2>2 DEF TakeSample, MainPart
  <2> QED BY <2>1, <2>2
<1>7. summary' \in Summary /\ previous' = sample /\ taken' = taken \cup {sample}
  <2>1. summary' = Accumulated(base, previous, sample)
    BY DEF TakeSample
  <2>2. previous' = sample /\ taken' = taken \cup {sample}
    BY DEF TakeSample
  <2> QED BY <1>5, <2>1, <2>2
<1>8. UNCHANGED <<setup, active, sdFlushQueued, daily, restored, handledDay, now, boot>>
  BY DEF TakeSample, cardVars
<1> HIDE DEF sample
<1> QED BY <1>1, <1>6, <1>7, <1>8 DEF MainPart

LEMMA DayKeepsMain ==
  ASSUME MainPart, BeginDay
  PROVE  MainPart'
<1>1. /\ sdWorkQueue' \in Seq(Work) /\ Len(sdWorkQueue') <= setup.queue
      /\ \A w \in ToSet(sdWorkQueue) : w \in ToSet(sdWorkQueue')
  <2>1. CASE summary # None /\ summary.day < DayOf(now)
    <3>1. DailyWork(summary.day, summary.energy) \in Work
      BY <2>1, WorkTypes DEF MainPart, Summary
    <3>2. QueueSdWork(DailyWork(summary.day, summary.energy))
      BY <2>1 DEF BeginDay, PersistDailySummary
    <3> QED BY <3>1, <3>2, Queued DEF MainPart
  <2>2. CASE ~(summary # None /\ summary.day < DayOf(now))
    BY <2>2 DEF BeginDay, MainPart
  <2> QED BY <2>1, <2>2
<1>2. UNCHANGED <<setup, active, sdFlushQueued, daily, restored, summary, previous, timeVars>>
  BY DEF BeginDay, cardVars
<1>3. handledDay' \in Day
  BY ClockIsTime DEF BeginDay
<1> QED BY <1>1, <1>2, <1>3 DEF MainPart, timeVars

LEMMA FlushKeepsMain ==
  ASSUME MainPart, FlushEveryMinute
  PROVE  MainPart'
<1>1. UNCHANGED <<setup, active, daily, dayVars, now, boot, taken>>
  BY DEF FlushEveryMinute, RequestSdFlush, cardVars, writerVars
<1>2. CASE RequestSdFlush
  <2>1. /\ sdWorkQueue' \in Seq(Work) /\ Len(sdWorkQueue') <= setup.queue
        /\ Room => FlushWork \in ToSet(sdWorkQueue')
    BY <1>2, WorkTypes, Queued DEF MainPart, RequestSdFlush
  <2>2. sdFlushQueued' = Room /\ Room \in BOOLEAN
    BY <1>2 DEF RequestSdFlush, Room, MainPart
  <2> QED BY <1>1, <2>1, <2>2 DEF MainPart, dayVars
<1>3. CASE UNCHANGED writerVars
  BY <1>1, <1>3 DEF MainPart, dayVars, writerVars, queueVars
<1> QED BY <1>2, <1>3 DEF FlushEveryMinute

LEMMA RecoveryKeepsMain ==
  ASSUME MainPart, CardPart, RestoreEnergyHistory
  PROVE  MainPart' /\ (active' => active)
<1>1. PICK failing : LET r == Recovered(failing)
                     IN /\ daily' = r.daily /\ active' = r.active
                        /\ summary' = IF r.today # None THEN r.today ELSE summary
  BY DEF RestoreEnergyHistory
<1> DEFINE r == Recovered(failing)
<1>2. r \in RecoveryType
  BY RecoveredType, WriterAssumption DEF MainPart, CardPart
<1>3. /\ daily' \in [Day -> Energy \cup {Missing}] /\ active' \in BOOLEAN
      /\ summary' \in Summary \cup {None}
  <2> HIDE DEF r
  <2>1. r.daily \in [Day -> Energy \cup {Missing}] /\ r.active \in BOOLEAN
          /\ r.today \in Summary \cup {None}
    BY <1>2 DEF RecoveryType
  <2> QED BY <1>1, <2>1 DEF MainPart, r
<1>4. UNCHANGED <<setup, sdWorkQueue, sdFlushQueued, handledDay, now, boot, taken>>
        /\ previous' = None /\ restored' = TRUE /\ active = TRUE
  BY DEF RestoreEnergyHistory, queueVars, timeVars, MainPart
<1> QED BY <1>3, <1>4 DEF MainPart

LEMMA RestartKeepsMain ==
  ASSUME MainPart, Restart
  PROVE  MainPart'
<1>1. /\ active' \in BOOLEAN /\ summary' = None /\ previous' = None /\ handledDay' = None
      /\ sdWorkQueue' = <<>> /\ sdFlushQueued' = FALSE /\ restored' = FALSE
      /\ UNCHANGED <<setup, now, taken, daily>> /\ boot' = boot + 1
  BY DEF Restart, LoseRam
<1>2. /\ sdWorkQueue' \in Seq(Work) /\ Len(sdWorkQueue') <= setup.queue
  <2>1. setup.queue \in Nat /\ <<>> \in Seq(Work) /\ Len(<<>>) = 0
    BY SetUpFacts DEF MainPart
  <2> QED BY <1>1, <2>1
<1>3. /\ summary' \in Summary \cup {None} /\ previous' \in Sample \cup {None}
      /\ handledDay' \in Day \cup {None} /\ sdFlushQueued' \in BOOLEAN /\ restored' \in BOOLEAN
      /\ (sdFlushQueued' => FlushWork \in ToSet(sdWorkQueue')) /\ boot' \in Nat
  <2>1. /\ summary' \in Summary \cup {None} /\ previous' \in Sample \cup {None}
        /\ handledDay' \in Day \cup {None} /\ boot' \in Nat
    BY <1>1 DEF MainPart
  <2>2. sdFlushQueued' = FALSE /\ restored' = FALSE
    BY <1>1
  <2> QED BY <2>1, <2>2
<1>4. setup' \in SetUp /\ now' \in 0 .. setup'.time /\ taken' \subseteq Sample
        /\ daily' \in [Day -> Energy \cup {Missing}]
  BY <1>1 DEF MainPart
<1>5. Len(sdWorkQueue') <= setup'.queue
  BY <1>1, <1>2
<1> QED BY <1>1, <1>2, <1>3, <1>4, <1>5 DEF MainPart

LEMMA ReceiveKeepsMain ==
  ASSUME MainPart, Receive, UNCHANGED <<setup, dayVars, timeVars>>
  PROVE  MainPart' /\ WriterTypeOK' /\ ~InFile'
<1> DEFINE q    == sdWorkQueue
           item == Head(q)
<1>1. q \in Seq(Work) /\ q # <<>> /\ item \in Work
  BY HeadTailProperties DEF Receive, MainPart
<1>2. /\ Tail(q) \in Seq(Work) /\ Len(Tail(q)) = Len(q) - 1 /\ Len(q) \in Nat
      /\ \A i \in 1 .. Len(Tail(q)) : Tail(q)[i] = q[i + 1]
  BY <1>1, HeadTailProperties, LenProperties
<1>3. \A w \in ToSet(q) : w = item \/ w \in ToSet(Tail(q))
  <2>1. DOMAIN q = 1 .. Len(q) /\ DOMAIN Tail(q) = 1 .. Len(q) - 1
    BY <1>1, <1>2, LenProperties
  <2> SUFFICES ASSUME NEW i \in 1 .. Len(q) PROVE q[i] = item \/ q[i] \in ToSet(Tail(q))
    BY <2>1 DEF ToSet
  <2>2. CASE i = 1
    BY <1>1, <2>2, HeadTailProperties
  <2>3. CASE i # 1
    <3>1. i - 1 \in 1 .. Len(q) - 1 /\ (i - 1) + 1 = i
      BY <1>2, <2>3
    <3> QED BY <1>2, <2>1, <3>1 DEF ToSet
  <2> QED BY <2>2, <2>3
<1>4. /\ sdWorkQueue' = Tail(q)
      /\ sdFlushQueued' = (sdFlushQueued /\ item.type # "flush")
      /\ writer' = IF item.type = "flush" THEN Begin("samples")
                   ELSE [at |-> item.type, item |-> item]
      /\ UNCHANGED <<active, daily>>
  BY DEF Receive, cardVars
<1>5. sdWorkQueue' \in Seq(Work) /\ Len(sdWorkQueue') <= setup.queue
  <2>1. setup.queue \in Nat
    BY SetUpFacts DEF MainPart
  <2> QED BY <1>2, <1>4, <2>1 DEF MainPart
<1>6. sdFlushQueued' => FlushWork \in ToSet(sdWorkQueue')
  <2> SUFFICES ASSUME sdFlushQueued, item.type # "flush" PROVE FlushWork \in ToSet(Tail(q))
    BY <1>4
  <2>1. FlushWork \in ToSet(q)
    BY DEF MainPart
  <2>2. FlushWork # item
    BY DEF FlushWork
  <2> QED BY <1>3, <2>1, <2>2
<1>7. MainPart'
  <2>1. sdFlushQueued' \in BOOLEAN
    BY <1>4
  <2> QED BY <1>4, <1>5, <1>6, <2>1 DEF MainPart, dayVars, timeVars
<1>8. WriterTypeOK' /\ ~InFile'
  <2>1. item.type \in {"flush", "cycle", "daily"}
    BY <1>1, WorkTypes
  <2>2. CASE item.type = "flush"
    BY <1>4, <2>2, WriterAssumption DEF Begin, WriterTypeOK, InFile
  <2>3. CASE item.type # "flush"
    <3>1. writer' = [at |-> item.type, item |-> item] /\ item.type \in {"daily", "cycle"}
      BY <1>4, <2>1, <2>3
    <3> HIDE DEF item
    <3>2. writer' \in [at : {"daily", "cycle"}, item : Work] /\ writer'.at = writer'.item.type
            /\ writer'.at = item.type
      BY <1>1, <3>1
    <3> QED BY <3>1, <3>2 DEF WriterTypeOK, InFile
  <2> QED BY <2>2, <2>3
<1> QED BY <1>7, <1>8

\* The task does not touch what is the main loop's own, but for `active` and the card.
LEMMA WriterKeepsMain ==
  ASSUME MainPart, WriterPart,
         BeginStream \/ OpenFile(DayOf(now)) \/ Look \/ CopyEntry \/ CloseFile
           \/ WriteDailySummary \/ WriteCycleRecord,
         UNCHANGED <<setup, dayVars, timeVars>>
  PROVE  MainPart' /\ (active' => active)
<1>1. UNCHANGED queueVars
  BY DEF BeginStream, OpenFile, Look, CopyEntry, CloseFile, WriteDailySummary, WriteCycleRecord
<1>2. active' \in BOOLEAN /\ (active' => active)
  <2>1. active \in BOOLEAN
    BY DEF MainPart
  <2>2. active' = active \/ active' = FALSE
    BY DEF BeginStream, OpenFile, Look, CopyEntry, CloseFile, WriteDailySummary,
           WriteCycleRecord, WriterError
  <2>3. CASE active' = active
    BY <2>1, <2>3
  <2>4. CASE active' = FALSE
    BY <2>4
  <2> QED BY <2>2, <2>3, <2>4
<1>3. daily' \in [Day -> Energy \cup {Missing}]
  <2>1. CASE WriteDailySummary
    <3>1. writer.item \in Work /\ writer.item.type = "daily"
      BY <2>1, WriterFields DEF WriterPart, WriteDailySummary
    <3>2. writer.item.day \in Day /\ writer.item.energy \in Energy
      BY <3>1, WorkTypes
    <3> QED BY <2>1, <3>2 DEF WriteDailySummary, MainPart
  <2>2. CASE ~WriteDailySummary
    BY <2>2 DEF BeginStream, OpenFile, Look, CopyEntry, CloseFile, WriteCycleRecord, MainPart,
                cardVars
  <2> QED BY <2>1, <2>2
<1> QED BY <1>1, <1>2, <1>3 DEF MainPart, queueVars, dayVars, timeVars

LEMMA CardInvariantStep ==
  ASSUME CardInvariant, [Next]_vars
  PROVE  CardInvariant'
<1>1. /\ MainPart /\ RingPart /\ CardPart /\ WriterPart
      /\ setup \in SetUp /\ boot \in Nat /\ active \in BOOLEAN
      /\ now \in Time /\ DayOf(now) \in Day
  BY Parts, ClockIsTime DEF MainPart
<1>2. SUFFICES MainPart' /\ RingPart' /\ CardPart' /\ WriterPart'
  <2>1. CardInvariant' <=> MainPart' /\ RingPart' /\ CardPart' /\ WriterPart'
    BY Parts, PTL
  <2> QED BY <2>1
<1>3. WriterTypeOK
  BY <1>1 DEF WriterPart
<1>4. ASSUME UNCHANGED <<setup, boot, ram, sequence, flushed, rows, writer>>, active' => active
      PROVE  RingPart' /\ CardPart' /\ WriterPart'
  <2>1. WriterTypeOK'
    BY <1>3, <1>4 DEF WriterTypeOK
  <2> QED BY <1>1, <1>4, <2>1, RingsStay, TaskElsewhere DEF AtWork
<1>5. CASE TakeSample
  <2>1. Store("samples", boot, now) /\ UNCHANGED <<setup, boot, flushed, rows, writer, active>>
    BY <1>5 DEF TakeSample, cardVars
  <2> QED BY <1>1, <1>5, <2>1, StoreKeeps, SampleKeepsMain, WriterAssumption
<1>6. CASE AddEvent
  <2>1. Store("events", boot, now) /\ UNCHANGED <<setup, boot, flushed, rows, writer, active>>
    BY <1>6 DEF AddEvent, cardVars, timeVars
  <2>2. MainPart'
    BY <1>1, <1>6 DEF AddEvent, cardVars, timeVars, dayVars, queueVars, MainPart
  <2> QED BY <1>1, <2>1, <2>2, StoreKeeps, WriterAssumption
<1>7. CASE BeginDay
  <2>1. UNCHANGED <<setup, boot, ram, sequence, flushed, rows, writer, active>>
    BY <1>7 DEF BeginDay, cardVars, ramVars, timeVars
  <2> QED BY <1>1, <1>4, <1>7, <2>1, DayKeepsMain
<1>8. CASE FlushEveryMinute
  <2>1. UNCHANGED <<setup, boot, ram, sequence, flushed, rows, writer, active>>
    BY <1>8 DEF FlushEveryMinute, RequestSdFlush, cardVars, ramVars, writerVars
  <2> QED BY <1>1, <1>4, <1>8, <2>1, FlushKeepsMain
<1>9. CASE RestoreEnergyHistory
  <2>1. UNCHANGED <<setup, boot, ram, sequence, flushed, rows, writer>>
    BY <1>9 DEF RestoreEnergyHistory, ramVars, timeVars
  <2> QED BY <1>1, <1>4, <1>9, <2>1, RecoveryKeepsMain
<1>10. CASE Tick
  <2>1. UNCHANGED <<writerVars, dayVars, boot, taken>> /\ now' \in 0 .. setup.time
    BY <1>1, <1>10, SetUpFacts DEF Tick, MainPart
  <2>2. MainPart'
    BY <1>1, <2>1 DEF MainPart, writerVars, queueVars, cardVars, dayVars
  <2>3. UNCHANGED <<setup, boot, ram, sequence, flushed, rows, writer, active>>
    BY <2>1 DEF writerVars, ramVars, cardVars
  <2> QED BY <1>4, <2>2, <2>3
<1>11. CASE Restart
  BY <1>1, <1>11, RestartKeepsMain, RestartKeeps DEF Restart
<1>12. CASE WriterStep
  <2>1. UNCHANGED <<setup, dayVars, timeVars>> /\ UNCHANGED <<boot, now>>
    BY <1>12 DEF WriterStep, timeVars
  <2>2. UNCHANGED <<ram, sequence>>
    BY <1>12 DEF WriterStep, PersistCycleRecord, CheckSdWriterHealth, Receive, BeginStream,
                 OpenFile, Look, CopyEntry, CloseFile, WriteDailySummary, WriteCycleRecord, ramVars
  <2>3. AtWork /\ RingPart'
    BY <1>1, <2>1, <2>2, RingsStay DEF AtWork
  <2>4. CASE PersistCycleRecord
    <3>1. MainPart'
      <4>1. /\ sdWorkQueue' \in Seq(Work) /\ Len(sdWorkQueue') <= setup.queue
            /\ \A w \in ToSet(sdWorkQueue) : w \in ToSet(sdWorkQueue')
        BY <1>1, <2>4, WorkTypes, Queued DEF PersistCycleRecord, MainPart
      <4>2. UNCHANGED <<active, sdFlushQueued, daily>>
        BY <2>4 DEF PersistCycleRecord, cardVars
      <4> QED BY <1>1, <2>1, <4>1, <4>2 DEF MainPart, dayVars, timeVars
    <3>2. UNCHANGED <<flushed, rows, writer, active>>
      BY <2>4 DEF PersistCycleRecord, cardVars
    <3> QED BY <1>4, <2>1, <2>2, <3>1, <3>2
  <2>5. CASE CheckSdWriterHealth
    <3>1. UNCHANGED <<sdWorkQueue, sdFlushQueued, daily, flushed, rows, writer>> /\ active' = FALSE
      BY <2>5 DEF CheckSdWriterHealth, queueVars, cardVars
    <3>2. MainPart'
      BY <1>1, <2>1, <3>1 DEF MainPart, dayVars, timeVars
    <3> QED BY <1>4, <2>1, <2>2, <3>1, <3>2
  <2>6. CASE Receive
    <3>1. MainPart' /\ WriterTypeOK' /\ ~InFile'
      BY <1>1, <2>1, <2>6, ReceiveKeepsMain
    <3>2. ~InFile /\ UNCHANGED <<flushed, rows, active>>
      BY <2>6 DEF Receive, InFile, cardVars
    <3> QED BY <1>1, <2>3, <3>1, <3>2, TaskElsewhere
  <2>7. CASE BeginStream
    BY <1>1, <2>1, <2>3, <2>7, WriterKeepsMain, StreamBegins
  <2>8. CASE OpenFile(DayOf(now))
    BY <1>1, <2>1, <2>3, <2>8, WriterKeepsMain, FileOpens
  <2>9. CASE Look
    BY <1>1, <2>1, <2>3, <2>9, WriterKeepsMain, FirstLook
  <2>10. CASE CopyEntry
    BY <1>1, <2>1, <2>3, <2>10, WriterKeepsMain, EntryIsCopied
  <2>11. CASE CloseFile
    BY <1>1, <2>1, <2>3, <2>11, WriterKeepsMain, FileCloses
  <2>12. CASE WriteDailySummary \/ WriteCycleRecord
    <3>1. MainPart' /\ (active' => active)
      BY <1>1, <2>1, <2>12, WriterKeepsMain
    <3>2. ~InFile /\ UNCHANGED <<flushed, rows>> /\ writer' = Idle
      BY <2>12 DEF WriteDailySummary, WriteCycleRecord, InFile, cardVars
    <3>3. WriterTypeOK' /\ ~InFile'
      BY <3>2 DEF WriterTypeOK, InFile, Idle
    <3> QED BY <1>1, <2>3, <3>1, <3>2, <3>3, TaskElsewhere
  <2> QED BY <1>12, <2>4, <2>5, <2>6, <2>7, <2>8, <2>9, <2>10, <2>11, <2>12 DEF WriterStep
<1>13. CASE UNCHANGED vars
  <2>1. UNCHANGED <<setup, boot, ram, sequence, flushed, rows, writer, active>>
    BY <1>13 DEF vars, writerVars, ramVars, cardVars, timeVars
  <2>2. MainPart'
    BY <1>1, <1>13 DEF MainPart, vars, writerVars, queueVars, cardVars, dayVars, timeVars
  <2> QED BY <1>4, <2>1, <2>2
<1> QED BY <1>5, <1>6, <1>7, <1>8, <1>9, <1>10, <1>11, <1>12, <1>13 DEF Next

\* The rings, the task and the card stay consistent at every step of either side.
LEMMA CardInvariantHolds == Spec => []CardInvariant
  BY Begins, CardInvariantStep, PTL DEF Spec

\* What counts as flushed is on the card while a ring has not turned, and nothing is written
\* twice, for rings and queues of any length, whatever fails and whenever the device restarts
\* (writeSdSamples, writeSdEvents, sdWriterTask).
THEOREM CardStaysConsistent == Spec => []CardIsConsistent
<1>1. CardInvariant => CardIsConsistent
  BY DEF CardInvariant, CardIsConsistent
<1> QED BY <1>1, CardInvariantHolds, PTL

-----------------------------------------------------------------------------
(* Days.                                                                    *)

LEMMA DayBounds ==
  ASSUME NEW t \in Nat, NEW d \in Nat
  PROVE  /\ DayOf(t) \in Nat
         /\ DayStart(DayOf(t)) <= t /\ t < DayStart(DayOf(t)) + DayLength
         /\ DayStart(d) <= t /\ t < DayStart(d) + DayLength => DayOf(t) = d
<1>1. DayLength \in Nat \ {0}
  BY EnergyAssumption
<1> DEFINE q == t \div DayLength
<1>2. q \in Nat /\ t = DayLength * q + (t % DayLength) /\ t % DayLength \in 0 .. DayLength - 1
  BY <1>1
<1>3. DayOf(t) = q /\ DayStart(q) = DayLength * q /\ DayStart(d) = DayLength * d
  BY <1>1, <1>2 DEF DayOf, DayStart
<1> HIDE DEF q
<1>4. ASSUME DayStart(d) <= t, t < DayStart(d) + DayLength PROVE q = d
  <2>1. CASE q < d
    <3>1. DayLength * q + DayLength <= DayLength * d
      BY <1>1, <1>2, <2>1
    <3> QED BY <1>1, <1>2, <1>3, <1>4, <3>1
  <2>2. CASE d < q
    <3>1. DayLength * d + DayLength <= DayLength * q
      BY <1>1, <1>2, <2>2
    <3> QED BY <1>1, <1>2, <1>3, <1>4, <3>1
  <2> QED BY <1>2, <2>1, <2>2
<1> QED BY <1>1, <1>2, <1>3, <1>4

LEMMA DaysInOrder ==
  ASSUME NEW d \in Nat, NEW e \in Nat, d < e
  PROVE  DayStart(d) + DayLength <= DayStart(e) /\ DayStart(d) \in Nat /\ DayStart(e) \in Nat
<1>1. DayLength \in Nat \ {0}
  BY EnergyAssumption
<1>2. d * DayLength + DayLength <= e * DayLength /\ d * DayLength \in Nat /\ e * DayLength \in Nat
  BY <1>1
<1> QED BY <1>2 DEF DayStart

-----------------------------------------------------------------------------
(* What is observed.                                                        *)

\* IsObserved, by the samples `known`.
ObservedBy(s, known) ==
  \A u \in Unit : /\ s.energy[u] <= 1
                  /\ s.energy[u] = 1 => DayOf(u) = s.day /\ u \in Observed(known)

LEMMA ObservedByMore ==
  ASSUME NEW s, NEW known, NEW more, known \subseteq more, ObservedBy(s, known)
  PROVE  ObservedBy(s, more)
<1>1. Observed(known) \subseteq Observed(more)
  BY DEF Observed
<1> QED BY <1>1 DEF ObservedBy

LEMMA IsObservedByTaken ==
  ASSUME NEW s
  PROVE  IsObserved(s) <=> ObservedBy(s, taken)
  BY DEF IsObserved, ObservedBy

\* What is observed lies before the last sample.
LEMMA ObservedBefore ==
  ASSUME NEW known \in SUBSET Sample, NEW t \in Nat, \A x \in known : x.time <= t,
         NEW u \in Observed(known)
  PROVE  u < t
<1>1. PICK a \in known, b \in known : u \in a.time .. b.time - 1
  BY DEF Observed
<1>2. a.time \in Nat /\ b.time \in Nat /\ b.time <= t
  BY DEF Sample, Time
<1> QED BY <1>1, <1>2

\* The energy between two samples, cut at the midnight before the second and the beginning of
\* the day: nothing is added that was there, and nothing of another day.
LEMMA AccumulatedIsObserved ==
  ASSUME NEW known \in SUBSET Sample, NEW s \in Summary, ObservedBy(s, known),
         NEW a \in known, NEW row \in Row \cup Sample, [boot |-> row.boot, time |-> row.time] \in known,
         \A u \in Unit : s.energy[u] = 1 => u < a.time,
         DayOf(row.time) = s.day \/ DayOf(a.time) = s.day
  PROVE  ObservedBy(Accumulated(s, a, row), known)
<1> DEFINE day   == DayOf(row.time)
           upper == IF day > s.day THEN DayStart(day) ELSE row.time
           lower == DayStart(s.day)
           r     == Accumulated(s, a, row)
           b     == [boot |-> row.boot, time |-> row.time]
<1>1. /\ a.time \in Nat /\ row.time \in Nat /\ s.day \in Nat /\ MaxGap \in 0 .. DayLength
      /\ DayLength \in Nat /\ s.energy \in [Unit -> Nat]
  <2>1. MaxGap \in 0 .. DayLength /\ DayLength \in Nat
    BY EnergyAssumption
  <2>2. s.day \in Nat
    BY WriterAssumption DEF Summary
  <2>3. a.time \in Nat /\ row.time \in Nat
    BY DEF Sample, Row, Time
  <2> QED BY <2>1, <2>2, <2>3 DEF Summary, Energy
<1>2. /\ day \in Nat /\ DayStart(day) <= row.time /\ row.time < DayStart(day) + DayLength
      /\ DayOf(a.time) \in Nat /\ a.time < DayStart(DayOf(a.time)) + DayLength
  BY <1>1, DayBounds
<1>3. CASE a = None \/ ~Connected(a, row)
  <2>1. r = s \/ r = [s EXCEPT !.energy = s.energy]
    BY <1>3 DEF Accumulated, AddEnergyPair
  <2>2. r.energy = s.energy /\ r.day = s.day
    BY <2>1 DEF Summary
  <2> QED BY <2>2 DEF ObservedBy
<1>4. CASE a # None /\ Connected(a, row)
  <2> DEFINE more(u) == u \in a.time .. row.time - 1 /\ u \in lower .. upper - 1
  <2>1. r = [s EXCEPT !.energy = [u \in Unit |-> IF more(u) THEN s.energy[u] + 1 ELSE s.energy[u]]]
    BY <1>4 DEF Accumulated, AddEnergyPair
  <2>2. r.day = s.day /\ \A u \in Unit : r.energy[u] = IF more(u) THEN s.energy[u] + 1 ELSE s.energy[u]
    <3> HIDE DEF more
    <3> QED BY <2>1 DEF Summary
  <2>3. a.boot = b.boot /\ b.time - a.time <= MaxGap /\ b.time = row.time
    BY <1>4 DEF Connected
  <2>4. ASSUME NEW u \in Unit, more(u)
        PROVE  r.energy[u] = 1 /\ DayOf(u) = s.day /\ u \in Observed(known)
    <3>1. u \in Nat /\ a.time <= u /\ u < row.time
      BY <1>1, <2>4, EnergyAssumption DEF Unit
    <3>2. s.energy[u] = 0
      <4>1. s.energy[u] # 1 /\ s.energy[u] <= 1 /\ s.energy[u] \in Nat
        BY <1>1, <3>1 DEF ObservedBy
      <4> QED BY <4>1
    <3>3. r.energy[u] = 1
      BY <2>2, <2>4, <3>2
    <3>4. u \in Observed(known)
      BY <2>3, <2>4 DEF Observed
    <3>5. lower \in Nat /\ lower <= u /\ u < upper
      <4>1. lower \in Nat
        BY <1>1 DEF DayStart
      <4>2. upper \in Int
        BY <1>1, <1>2 DEF DayStart
      <4> HIDE DEF lower, upper
      <4> QED BY <2>4, <3>1, <4>1, <4>2
    <3>6. u < lower + DayLength
      <4>1. CASE day = s.day
        BY <1>1, <1>2, <3>1, <3>5, <4>1
      <4>2. CASE day # s.day
        <5>1. DayOf(a.time) = s.day
          BY <4>2
        <5>2. CASE day < s.day
          <6>1. DayStart(day) + DayLength <= lower
            BY <1>1, <1>2, <5>2, DaysInOrder
          <6> QED BY <1>1, <1>2, <3>1, <3>5, <6>1 DEF DayStart
        <5>3. CASE day > s.day
          <6>1. u < DayStart(day)
            BY <3>5, <5>3
          <6>2. CASE day = s.day + 1
            <7>1. DayStart(day) = lower + DayLength
              BY <1>1, <6>2 DEF DayStart
            <7> QED BY <6>1, <7>1
          <6>3. CASE day > s.day + 1
            <7>1. DayStart(s.day + 1) = lower + DayLength
              BY <1>1 DEF DayStart
            <7>2. DayStart(s.day + 1) + DayLength <= DayStart(day)
              BY <1>1, <1>2, <6>3, DaysInOrder
            <7>3. a.time < lower + DayLength /\ row.time - a.time <= DayLength
              BY <1>1, <1>2, <2>3, <5>1
            <7>4. DayStart(day) \in Nat
              BY <1>1, <1>2 DEF DayStart
            <7> HIDE DEF lower
            <7> QED BY <1>1, <1>2, <3>5, <7>1, <7>2, <7>3, <7>4
          <6> QED BY <1>1, <1>2, <5>3, <6>2, <6>3
        <5> QED BY <1>1, <1>2, <4>2, <5>2, <5>3
      <4> QED BY <4>1, <4>2
    <3>7. DayOf(u) = s.day
      BY <1>1, <3>1, <3>5, <3>6, DayBounds
    <3> QED BY <3>3, <3>4, <3>7
  <2>5. ASSUME NEW u \in Unit, ~more(u)
        PROVE  r.energy[u] <= 1 /\ (r.energy[u] = 1 => DayOf(u) = s.day /\ u \in Observed(known))
    <3>1. r.energy[u] = s.energy[u]
      BY <2>2, <2>5
    <3> QED BY <3>1 DEF ObservedBy
  <2> HIDE DEF r, more
  <2>6. ObservedBy(r, known)
    <3>1. \A u \in Unit : r.energy[u] <= 1 /\ (r.energy[u] = 1 => DayOf(u) = s.day /\ u \in Observed(known))
      BY <2>4, <2>5
    <3> QED BY <2>2, <3>1 DEF ObservedBy
  <2> QED BY <2>6 DEF r
<1> QED BY <1>3, <1>4

-----------------------------------------------------------------------------
(* A recovery counts what was observed.                                     *)

\* All summaries of a recovery under way count what was observed; one that is being made, only
\* what came before the last row, on whose day it is.
FaithfulRecovery ==
  {r \in RecoveryType :
    /\ r.previous # None => r.previous \in taken
    /\ r.summary # None => r.previous # None /\ IsObserved(r.summary)
    /\ r.today # None => IsObserved(r.today)
    /\ \A d \in Day : r.daily[d] # Missing => IsObserved([day |-> d, energy |-> r.daily[d]])
    /\ r.summary # None /\ ~r.completed =>
         /\ r.summary.day = DayOf(r.previous.time)
         /\ \A u \in Unit : r.summary.energy[u] = 1 => u < r.previous.time}

LEMMA NothingIsObserved ==
  ASSUME NEW d, NEW known
  PROVE  /\ ObservedBy([day |-> d, energy |-> NoEnergy], known)
         /\ \A u \in Unit : NoEnergy[u] # 1
  BY DEF ObservedBy, NoEnergy

LEMMA FinishedIsFaithful ==
  ASSUME NEW r \in RecoveryType, NEW failing,
         r.summary # None => IsObserved(r.summary),
         r.today # None => IsObserved(r.today),
         \A d \in Day : r.daily[d] # Missing => IsObserved([day |-> d, energy |-> r.daily[d]])
  PROVE  LET f == Finished(r, failing)
         IN /\ f.previous = r.previous
            /\ f.today # None => IsObserved(f.today)
            /\ \A d \in Day : f.daily[d] # Missing => IsObserved([day |-> d, energy |-> f.daily[d]])
<1> DEFINE f == Finished(r, failing)
<1>1. CASE r.summary = None
  BY <1>1 DEF Finished
<1>2. CASE r.summary # None
  <2> DEFINE s == r.summary
  <2>1. s \in Summary /\ s.day \in Day /\ IsObserved(s)
    BY <1>2 DEF RecoveryType, Summary
  <2>2. IsObserved([day |-> s.day, energy |-> s.energy])
    BY <2>1 DEF IsObserved
  <2>3. \/ f = [r EXCEPT !.today = s]
        \/ f = r
        \/ f = [r EXCEPT !.active = FALSE]
        \/ f = [r EXCEPT !.daily[s.day] = s.energy]
    BY <1>2 DEF Finished
  <2> HIDE DEF f, s
  <2>4. /\ f.previous = r.previous
        /\ f.today # None => IsObserved(f.today)
        /\ \A d \in Day : f.daily[d] # Missing => IsObserved([day |-> d, energy |-> f.daily[d]])
    <3>1. CASE f = [r EXCEPT !.today = s]
      <4>1. f.previous = r.previous /\ f.today = s /\ f.daily = r.daily
        BY <3>1 DEF RecoveryType
      <4> QED BY <2>1, <4>1
    <3>2. CASE f = r
      BY <3>2
    <3>3. CASE f = [r EXCEPT !.active = FALSE]
      <4>1. f.previous = r.previous /\ f.today = r.today /\ f.daily = r.daily
        BY <3>3 DEF RecoveryType
      <4> QED BY <4>1
    <3>4. CASE f = [r EXCEPT !.daily[s.day] = s.energy]
      <4>1. f.previous = r.previous /\ f.today = r.today
        BY <3>4 DEF RecoveryType
      <4>2. \A d \in Day : f.daily[d] = IF d = s.day THEN s.energy ELSE r.daily[d]
        BY <2>1, <3>4 DEF RecoveryType
      <4> QED BY <2>2, <4>1, <4>2
    <3> QED BY <2>3, <3>1, <3>2, <3>3, <3>4
  <2> QED BY <2>4 DEF f
<1> QED BY <1>1, <1>2

LEMMA RowIsFaithful ==
  ASSUME taken \subseteq Sample, NEW r \in FaithfulRecovery, NEW row \in Row, NEW failing,
         [boot |-> row.boot, time |-> row.time] \in taken
  PROVE  RecoverDailySample(r, row, failing) \in FaithfulRecovery
<1> DEFINE other == r.summary = None \/ r.summary.day # DayOf(row.time)
           cut   == IF r.summary # None THEN AddRow(r, row) ELSE r
           done  == Finished(cut, failing)
           anew  == Opened(done, DayOf(row.time))
           ready == IF other THEN anew ELSE r
           last  == [boot |-> row.boot, time |-> row.time]
<1>1. /\ r \in RecoveryType
      /\ r.previous # None => r.previous \in taken /\ r.previous \in Sample
      /\ r.summary # None => /\ r.previous # None /\ IsObserved(r.summary)
                             /\ r.summary \in Summary
      /\ r.today # None => IsObserved(r.today)
      /\ \A d \in Day : r.daily[d] # Missing => IsObserved([day |-> d, energy |-> r.daily[d]])
      /\ r.summary # None /\ ~r.completed =>
           /\ r.summary.day = DayOf(r.previous.time)
           /\ \A u \in Unit : r.summary.energy[u] = 1 => u < r.previous.time
  BY DEF FaithfulRecovery, RecoveryType
<1>2. DayOf(row.time) \in Day /\ row.time \in Nat /\ last \in taken /\ taken \in SUBSET Sample
  BY DayIsDay DEF Row, Time
<1>3. last # None /\ last \in Sample
  BY EnergyAssumption DEF Row, Sample, Time
<1>4. SUFFICES ASSUME ~(r.previous # None /\ row.time <= r.previous.time)
               PROVE  [AddRow(ready, row) EXCEPT !.previous = last] \in FaithfulRecovery
  BY DEF RecoverDailySample
<1>5. r.previous # None => r.previous.time < row.time
  BY <1>1, <1>2, <1>4 DEF Sample, Time
<1>6. ASSUME r.summary # None
      PROVE  /\ AddRow(r, row) \in RecoveryType /\ AddRow(r, row).summary \in Summary
             /\ AddRow(r, row).summary.day = r.summary.day
             /\ IsObserved(AddRow(r, row).summary)
             /\ AddRow(r, row).previous = r.previous /\ AddRow(r, row).daily = r.daily
             /\ AddRow(r, row).today = r.today /\ AddRow(r, row).completed = r.completed
  <2>1. AddRow(r, row) \in RecoveryType /\ AddRow(r, row).summary \in Summary
    BY <1>1, <1>6, AddRowType
  <2>2. CASE r.completed
    BY <1>1, <1>6, <2>1, <2>2 DEF AddRow
  <2>3. CASE ~r.completed
    <3> DEFINE s == Accumulated(r.summary, r.previous, row)
    <3>1. AddRow(r, row) = [r EXCEPT !.summary = s]
      BY <2>3 DEF AddRow
    <3>2. ObservedBy(s, taken) /\ s.day = r.summary.day
      <4>1. ObservedBy(r.summary, taken)
        BY <1>1, <1>6, IsObservedByTaken
      <4>2. ObservedBy(s, taken)
        BY <1>1, <1>2, <1>6, <2>3, <4>1, AccumulatedIsObserved
      <4> QED BY <1>1, <1>6, <4>2, AccumulatedType
    <3> HIDE DEF s
    <3>3. IsObserved(s)
      BY <3>2, IsObservedByTaken
    <3> QED BY <1>1, <2>1, <3>1, <3>2, <3>3 DEF RecoveryType
  <2> QED BY <2>2, <2>3
<1>7. /\ cut \in RecoveryType /\ cut.previous = r.previous
      /\ cut.summary # None => IsObserved(cut.summary)
      /\ cut.today # None => IsObserved(cut.today)
      /\ \A d \in Day : cut.daily[d] # Missing => IsObserved([day |-> d, energy |-> cut.daily[d]])
  BY <1>1, <1>6
<1>8. /\ done \in RecoveryType /\ done.previous = r.previous
      /\ done.today # None => IsObserved(done.today)
      /\ \A d \in Day : done.daily[d] # Missing => IsObserved([day |-> d, energy |-> done.daily[d]])
  <2> HIDE DEF cut
  <2> QED BY <1>7, FinishedType, FinishedIsFaithful
<1>9. /\ anew \in RecoveryType /\ anew.summary \in Summary
      /\ anew.previous = r.previous /\ anew.today = done.today /\ anew.daily = done.daily
      /\ anew.summary.day = DayOf(row.time) /\ IsObserved(anew.summary)
      /\ ~anew.completed => anew.summary.energy = NoEnergy
  <2> HIDE DEF done
  <2> DEFINE d == DayOf(row.time)
             s == [day |-> d, energy |-> IF done.daily[d] # Missing THEN done.daily[d] ELSE NoEnergy]
  <2>1. anew \in RecoveryType /\ anew.summary \in Summary
    BY <1>2, <1>8, OpenedType
  <2>2. /\ anew.summary = s /\ anew.previous = done.previous /\ anew.today = done.today
        /\ anew.daily = done.daily /\ anew.completed = (done.daily[d] # Missing)
    BY <1>8 DEF Opened, RecoveryType
  <2>3. s.day = d /\ (~anew.completed => s.energy = NoEnergy)
    BY <2>2
  <2>4. IsObserved(s)
    <3>1. CASE done.daily[d] # Missing
      BY <1>2, <1>8, <3>1
    <3>2. CASE done.daily[d] = Missing
      <4>1. ObservedBy([day |-> d, energy |-> NoEnergy], taken)
        BY NothingIsObserved
      <4> QED BY <3>2, <4>1, IsObservedByTaken
    <3> QED BY <3>1, <3>2
  <2> HIDE DEF s, anew
  <2> QED BY <1>8, <2>1, <2>2, <2>3, <2>4
<1>10. /\ ready \in RecoveryType /\ ready.summary \in Summary
       /\ ready.previous = r.previous
       /\ ready.summary.day = DayOf(row.time) /\ IsObserved(ready.summary)
       /\ ready.today # None => IsObserved(ready.today)
       /\ \A d \in Day : ready.daily[d] # Missing => IsObserved([day |-> d, energy |-> ready.daily[d]])
       /\ ~ready.completed /\ r.previous # None =>
            \A u \in Unit : ready.summary.energy[u] = 1 => u < r.previous.time
       /\ ~ready.completed /\ r.previous = None =>
            \A u \in Unit : ready.summary.energy[u] # 1
  <2> HIDE DEF anew, done
  <2>1. CASE other
    BY <1>8, <1>9, <2>1, NothingIsObserved
  <2>2. CASE ~other
    BY <1>1, <2>2
  <2> QED BY <2>1, <2>2
<1> HIDE DEF ready
<1> DEFINE e == AddRow(ready, row)
<1>11. /\ e \in RecoveryType /\ e.summary \in Summary
       /\ e.summary.day = DayOf(row.time) /\ IsObserved(e.summary)
       /\ e.today = ready.today /\ e.daily = ready.daily
       /\ ~e.completed => \A u \in Unit : e.summary.energy[u] = 1 => u < row.time
  <2>1. e \in RecoveryType /\ e.summary \in Summary
    BY <1>10, AddRowType
  <2>2. CASE ready.completed
    BY <1>10, <2>1, <2>2 DEF AddRow
  <2>3. CASE ~ready.completed
    <3> DEFINE s == Accumulated(ready.summary, r.previous, row)
    <3>1. e = [ready EXCEPT !.summary = s]
      BY <1>10, <2>3 DEF AddRow
    <3>2. s.day = DayOf(row.time) /\ ObservedBy(s, taken)
            /\ \A u \in Unit : s.energy[u] = 1 => u < row.time
      <4>1. CASE r.previous = None
        <5>1. s = ready.summary
          BY <4>1 DEF Accumulated
        <5> QED BY <1>10, <2>3, <4>1, <5>1, IsObservedByTaken
      <4>2. CASE r.previous # None
        <5>1. ObservedBy(ready.summary, taken)
          BY <1>10, IsObservedByTaken
        <5>2. ObservedBy(s, taken)
          BY <1>1, <1>2, <1>10, <2>3, <4>2, <5>1, AccumulatedIsObserved
        <5>3. s.day = DayOf(row.time)
          BY ZenonT(60), <1>1, <1>10, AccumulatedType
        <5>4. ASSUME NEW u \in Unit, s.energy[u] = 1 PROVE u < row.time
          <6>1. r.previous.time \in Nat /\ u \in Nat
            BY <1>1, <4>2, EnergyAssumption DEF Sample, Time, Unit
          <6>2. CASE ready.summary.energy[u] = 1
            BY <1>2, <1>5, <1>10, <2>3, <4>2, <6>1, <6>2
          <6>3. CASE ready.summary.energy[u] # 1
            <7>1. ~(u \in r.previous.time .. row.time - 1) => s.energy[u] = ready.summary.energy[u]
              <8>1. ready.summary \in Summary
                BY <1>10
              <8> QED BY <8>1 DEF Accumulated, AddEnergyPair, Summary, Energy
            <7> QED BY <1>2, <5>4, <6>1, <6>3, <7>1
          <6> QED BY <6>2, <6>3
        <5> QED BY <5>2, <5>3, <5>4
      <4> QED BY <4>1, <4>2
    <3> HIDE DEF s
    <3>3. IsObserved(s)
      BY <3>2, IsObservedByTaken
    <3> QED BY <1>10, <2>1, <3>1, <3>2, <3>3 DEF RecoveryType
  <2> QED BY <2>2, <2>3
<1> HIDE DEF e, last
<1>12. [e EXCEPT !.previous = last] \in FaithfulRecovery
  <2> DEFINE g == [e EXCEPT !.previous = last]
  <2>1. /\ g \in RecoveryType /\ g.previous = last /\ g.summary = e.summary /\ g.today = e.today
        /\ g.daily = e.daily /\ g.completed = e.completed
    BY <1>3, <1>11 DEF RecoveryType
  <2>2. last.time = row.time
    BY DEF last
  <2> HIDE DEF g
  <2>3. g.previous \in taken /\ g.previous # None /\ IsObserved(g.summary)
    BY <1>2, <1>3, <1>11, <2>1
  <2>4. /\ g.today # None => IsObserved(g.today)
        /\ \A d \in Day : g.daily[d] # Missing => IsObserved([day |-> d, energy |-> g.daily[d]])
    BY <1>10, <1>11, <2>1
  <2>5. /\ g.summary.day = DayOf(g.previous.time)
        /\ ~g.completed => \A u \in Unit : g.summary.energy[u] = 1 => u < g.previous.time
    BY <1>11, <2>1, <2>2
  <2>6. g \in FaithfulRecovery
    BY <2>1, <2>3, <2>4, <2>5 DEF FaithfulRecovery
  <2> QED BY <2>6 DEF g
<1> QED BY <1>12 DEF e

LEMMA RecoveredIsFaithful ==
  ASSUME MainPart, CardPart, EnergyIsObserved, NEW failing
  PROVE  LET r == Recovered(failing)
         IN /\ r.today # None => IsObserved(r.today)
            /\ \A d \in Day : r.daily[d] # Missing => IsObserved([day |-> d, energy |-> r.daily[d]])
<1> DEFINE all == rows["samples"]
<1>1. /\ all \in Seq(Row) /\ daily \in [Day -> Energy \cup {Missing}] /\ taken \subseteq Sample
      /\ Len(all) \in Nat /\ DOMAIN all = 1 .. Len(all)
      /\ \A n \in DOMAIN all : all[n] \in Row
  BY RowsAreRows, WriterAssumption DEF MainPart, CardPart
<1>2. Recovery \in FaithfulRecovery
  <2>1. Recovery \in RecoveryType
    BY <1>1 DEF Recovery, RecoveryType
  <2>2. \A d \in Day : daily[d] # Missing => IsObserved([day |-> d, energy |-> daily[d]])
    BY DEF EnergyIsObserved
  <2> QED BY <2>1, <2>2 DEF Recovery, FaithfulRecovery
<1>3. \A n \in 1 .. Len(all) : [boot |-> all[n].boot, time |-> all[n].time] \in taken
  BY <1>1 DEF EnergyIsObserved
<1>4. \A n \in 1 .. Len(all) : \A r \in FaithfulRecovery :
        RecoverDailySample(r, all[n], failing) \in FaithfulRecovery
  BY <1>1, <1>3, RowIsFaithful
<1>5. RecoveredUnfinished(failing) \in FaithfulRecovery
  BY <1>1, <1>2, <1>4, RecoveryKeeps
<1> QED BY <1>5, FinishedIsFaithful DEF Recovered, FaithfulRecovery

-----------------------------------------------------------------------------
(* Every step counts what was observed.                                     *)

TakenBefore == \A t \in taken : t.time <= now

RamTaken ==
  \A i \in 0 .. setup.ring - 1 :
    ram["samples"].slots[i].sequence # 0 =>
      [boot |-> ram["samples"].slots[i].boot, time |-> ram["samples"].slots[i].time] \in taken

BufferTaken ==
  writer.at = "copy" /\ writer.stream = "samples" =>
    \A i \in DOMAIN writer.buffer :
      [boot |-> writer.buffer[i].boot, time |-> writer.buffer[i].time] \in taken

CardTaken ==
  \A i \in DOMAIN rows["samples"] :
    [boot |-> rows["samples"][i].boot, time |-> rows["samples"][i].time] \in taken

SamplesAreTaken == TakenBefore /\ RamTaken /\ BufferTaken /\ CardTaken

DailyObserved ==
  \A d \in Day : daily[d] # Missing => ObservedBy([day |-> d, energy |-> daily[d]], taken)

QueueObserved == \A w \in ToSet(sdWorkQueue) : w.type = "daily" => ObservedBy(w, taken)

ItemObserved == writer.at = "daily" => ObservedBy(writer.item, taken)

TodayObserved ==
  /\ summary # None => ObservedBy(summary, taken)
  /\ previous # None => previous \in taken
  /\ previous # None /\ summary # None =>
       /\ summary.day = DayOf(previous.time)
       /\ \A u \in Unit : summary.energy[u] = 1 => u < previous.time

SummariesAreObserved == DailyObserved /\ QueueObserved /\ ItemObserved /\ TodayObserved

LEMMA EnergyParts ==
  EnergyIsObserved <=> SamplesAreTaken /\ SummariesAreObserved
<1>1. \A s : IsObserved(s) <=> ObservedBy(s, taken)
  BY IsObservedByTaken
<1>2. EnergyIsObserved => SamplesAreTaken
  BY DEF EnergyIsObserved, SamplesAreTaken, TakenBefore, RamTaken, BufferTaken, CardTaken
<1>3. EnergyIsObserved => SummariesAreObserved
  BY <1>1 DEF EnergyIsObserved, SummariesAreObserved, DailyObserved, QueueObserved, ItemObserved,
              TodayObserved, ToSet
<1>4. SamplesAreTaken /\ SummariesAreObserved => EnergyIsObserved
  <2> SUFFICES ASSUME SamplesAreTaken, SummariesAreObserved PROVE EnergyIsObserved
    OBVIOUS
  <2>1. \A i \in DOMAIN sdWorkQueue : sdWorkQueue[i].type = "daily" => IsObserved(sdWorkQueue[i])
    BY <1>1 DEF SummariesAreObserved, QueueObserved, ToSet
  <2> QED BY <1>1, <2>1 DEF EnergyIsObserved, SamplesAreTaken, TakenBefore, RamTaken, BufferTaken,
             CardTaken, SummariesAreObserved, DailyObserved, ItemObserved, TodayObserved
<1> QED BY <1>2, <1>3, <1>4

LEMMA BeginsObserved ==
  ASSUME Init PROVE EnergyIsObserved
<1>1. /\ taken = {} /\ rows["samples"] = <<>> /\ sdWorkQueue = <<>> /\ writer = Idle
      /\ summary = None /\ previous = None /\ daily = [d \in Day |-> Missing]
      /\ ram["samples"] = EmptyRing(setup.ring)
  BY WriterAssumption DEF Init, InitWriter, InitRam
<1>2. SamplesAreTaken
  BY <1>1 DEF SamplesAreTaken, TakenBefore, RamTaken, BufferTaken, CardTaken, EmptyRing, Blank, Idle
<1>3. SummariesAreObserved
  BY <1>1 DEF SummariesAreObserved, DailyObserved, QueueObserved, ItemObserved, TodayObserved,
              ToSet, Idle
<1> QED BY <1>2, <1>3, EnergyParts

\* A sample adds to today's summary, or begins a new one and hands over the last.
LEMMA SampleIsObserved ==
  ASSUME MainPart, RingPart, CardPart, WriterPart, SamplesAreTaken, SummariesAreObserved, TakeSample
  PROVE  SamplesAreTaken' /\ SummariesAreObserved'
<1> DEFINE sample == [boot |-> boot, time |-> now]
           over   == summary # None /\ summary.day # DayOf(now)
           base   == IF summary = None \/ over THEN Reset(DayOf(now)) ELSE summary
<1>1. sample \in Sample /\ DayOf(now) \in Day /\ now \in Nat
  BY ClockIsTime DEF Time
<1>2. /\ taken' = taken \cup {sample} /\ previous' = sample /\ now' = now
      /\ summary' = Accumulated(base, previous, sample)
      /\ UNCHANGED <<setup, writer, rows, daily, boot>>
  BY DEF TakeSample, cardVars
<1>3. taken' \in SUBSET Sample /\ taken \subseteq taken' /\ sample \in taken'
  BY <1>1, <1>2 DEF MainPart
<1>4. \A t \in taken' : t.time <= now
  BY <1>1, <1>2 DEF SamplesAreTaken, TakenBefore
<1>5. previous # None => previous \in taken' /\ previous.time <= now /\ previous.time \in Nat
  BY <1>3, <1>4 DEF SummariesAreObserved, TodayObserved, Sample, Time
<1>6. summary # None => summary \in Summary /\ ObservedBy(summary, taken')
  BY <1>3, ObservedByMore DEF MainPart, SummariesAreObserved, TodayObserved
<1>7. sample.boot = boot /\ sample.time = now
  OBVIOUS
<1>8. [boot |-> sample.boot, time |-> sample.time] = sample
  OBVIOUS
<1> HIDE DEF sample
<1>9. base \in Summary /\ base.day = DayOf(now) /\ ObservedBy(base, taken')
        /\ (previous # None => \A u \in Unit : base.energy[u] = 1 => u < previous.time)
  <2>1. CASE summary = None \/ over
    <3>1. base = [day |-> DayOf(now), energy |-> NoEnergy]
      BY <2>1 DEF Reset
    <3>2. base \in Summary
      BY <1>1, <2>1, ResetType
    <3> HIDE DEF base
    <3> QED BY <3>1, <3>2, NothingIsObserved
  <2>2. CASE ~(summary = None \/ over)
    BY <1>6, <2>2 DEF SummariesAreObserved, TodayObserved
  <2> QED BY <2>1, <2>2
<1> HIDE DEF base
<1>10. /\ ObservedBy(summary', taken') /\ summary'.day = DayOf(now)
  <2>1. CASE previous = None
    <3>1. summary' = base
      BY <1>2, <2>1 DEF Accumulated
    <3> QED BY <1>9, <3>1
  <2>2. CASE previous # None
    <3>1. ObservedBy(Accumulated(base, previous, sample), taken')
      BY <1>1, <1>3, <1>5, <1>7, <1>8, <1>9, <2>2, AccumulatedIsObserved
    <3>2. Accumulated(base, previous, sample).day = base.day
      <4>1. previous \in Sample
        BY <1>3, <1>5, <2>2
      <4> QED BY <1>1, <1>9, <4>1, AccumulatedType
    <3> QED BY <1>2, <1>9, <3>1, <3>2
  <2> QED BY <2>1, <2>2
<1>11. TodayObserved'
  <2>1. \A u \in Unit : summary'.energy[u] = 1 => u < now
    <3>1. \A u \in Unit : summary'.energy[u] = 1 => u \in Observed(taken')
      BY <1>10 DEF ObservedBy
    <3> QED BY <1>1, <1>3, <1>4, <3>1, ObservedBefore
  <2> QED BY <1>2, <1>3, <1>7, <1>10, <2>1 DEF TodayObserved
<1>12. QueueObserved'
  <2>1. \A w \in ToSet(sdWorkQueue) : w.type = "daily" => ObservedBy(w, taken')
    BY <1>3, ObservedByMore DEF SummariesAreObserved, QueueObserved
  <2>2. CASE over
    <3> DEFINE s == Accumulated(summary, previous, sample)
               w == DailyWork(s.day, s.energy)
    <3>1. summary \in Summary /\ ObservedBy(summary, taken')
      BY <1>6, <2>2
    <3>2. previous \in Sample \cup {None}
      BY DEF MainPart
    <3>3. s \in Summary
      BY <1>1, <3>1, <3>2, AccumulatedType
    <3>4. ObservedBy(s, taken')
      <4>1. CASE previous = None
        BY <3>1, <4>1 DEF Accumulated
      <4>2. CASE previous # None
        <5>1. DayOf(previous.time) = summary.day
                /\ \A u \in Unit : summary.energy[u] = 1 => u < previous.time
          BY <2>2, <4>2 DEF SummariesAreObserved, TodayObserved
        <5> QED BY <1>1, <1>3, <1>5, <1>8, <3>1, <4>2, <5>1, AccumulatedIsObserved
      <4> QED BY <4>1, <4>2
    <3>5. QueueSdWork(w)
      BY <2>2 DEF TakeSample, PersistDailySummary, sample
    <3> HIDE DEF s
    <3>6. w \in Work /\ ObservedBy(w, taken')
      BY <3>3, <3>4, WorkTypes DEF Summary, DailyWork, ObservedBy
    <3> HIDE DEF w
    <3>7. \A x \in ToSet(sdWorkQueue') : x \in ToSet(sdWorkQueue) \/ x = w
      BY <3>5, <3>6, Queued DEF MainPart
    <3> QED BY <2>1, <3>6, <3>7 DEF QueueObserved
  <2>3. CASE ~over
    <3>1. sdWorkQueue' = sdWorkQueue
      BY <2>3 DEF TakeSample
    <3> QED BY <2>1, <3>1 DEF QueueObserved
  <2> QED BY <2>2, <2>3
<1>13. DailyObserved' /\ ItemObserved'
  <2>1. \A d \in Day : daily[d] # Missing => ObservedBy([day |-> d, energy |-> daily[d]], taken')
    BY <1>3, ObservedByMore DEF SummariesAreObserved, DailyObserved
  <2>2. writer.at = "daily" => ObservedBy(writer.item, taken')
    BY <1>3, ObservedByMore DEF SummariesAreObserved, ItemObserved
  <2> QED BY <1>2, <2>1, <2>2 DEF DailyObserved, ItemObserved
<1>14. TakenBefore' /\ BufferTaken' /\ CardTaken'
  <2>1. BufferTaken /\ CardTaken
    BY DEF SamplesAreTaken
  <2> QED BY <1>2, <1>3, <1>4, <2>1 DEF TakenBefore, BufferTaken, CardTaken
<1>15. RamTaken'
  <2> DEFINE q == ram["samples"]
             k == sequence["samples"] % setup.ring
             e == [sequence |-> sequence["samples"] + 1, boot |-> boot, time |-> now]
  <2>1. ram'["samples"].slots = [q.slots EXCEPT ![k] = e]
    <3>1. Store("samples", boot, now) /\ UNCHANGED <<setup, boot, flushed, rows, writer, active>>
      BY DEF TakeSample, cardVars
    <3>2. setup \in SetUp /\ boot \in Nat /\ now \in Time
      BY ClockIsTime DEF MainPart
    <3> QED BY <3>1, <3>2, StoreKeeps, WriterAssumption
  <2>2. q.slots \in [0 .. setup.ring - 1 -> Entry]
    BY WriterAssumption DEF RingPart, Ring
  <2>3. \A i \in 0 .. setup.ring - 1 : ram'["samples"].slots[i] = IF i = k THEN e ELSE q.slots[i]
    BY <2>1, <2>2
  <2>4. [boot |-> e.boot, time |-> e.time] = sample
    BY DEF sample
  <2>5. RamTaken
    BY DEF SamplesAreTaken
  <2> HIDE DEF e, k
  <2>6. \A i \in 0 .. setup.ring - 1 :
          ram'["samples"].slots[i].sequence # 0 =>
            [boot |-> ram'["samples"].slots[i].boot, time |-> ram'["samples"].slots[i].time] \in taken'
    BY <1>3, <2>3, <2>4, <2>5 DEF RamTaken
  <2> QED BY <1>2, <2>6 DEF RamTaken
<1> QED BY <1>11, <1>12, <1>13, <1>14, <1>15 DEF SamplesAreTaken, SummariesAreObserved

\* Work that is handed over is taken as it is.
LEMMA QueueStaysObserved ==
  ASSUME MainPart, QueueObserved, NEW item \in Work, QueueSdWork(item), taken' = taken,
         item.type = "daily" => ObservedBy(item, taken)
  PROVE  QueueObserved'
<1>1. \A w \in ToSet(sdWorkQueue') : w \in ToSet(sdWorkQueue) \/ w = item
  BY Queued DEF MainPart
<1> QED BY <1>1 DEF QueueObserved

LEMMA MainLoopIsObserved ==
  ASSUME MainPart, SamplesAreTaken, SummariesAreObserved,
         BeginDay \/ FlushEveryMinute \/ AddEvent \/ Tick
  PROVE  SamplesAreTaken' /\ SummariesAreObserved'
<1>1. /\ UNCHANGED <<setup, writer, rows, daily, summary, previous, taken>>
      /\ now \in Nat /\ now' \in Nat /\ now <= now'
  <2>1. now \in Nat
    BY ClockIsTime DEF Time
  <2>2. now' = now \/ now' = now + 1
    BY DEF BeginDay, FlushEveryMinute, AddEvent, Tick, timeVars
  <2>3. UNCHANGED <<setup, writer, rows, daily, summary, previous, taken>>
    BY DEF BeginDay, FlushEveryMinute, RequestSdFlush, AddEvent, Tick, timeVars, cardVars, dayVars,
           writerVars
  <2> QED BY <2>1, <2>2, <2>3
<1>2. ram'["samples"] = ram["samples"]
  <2>1. CASE AddEvent
    BY <2>1 DEF AddEvent, Store
  <2>2. CASE BeginDay \/ FlushEveryMinute \/ Tick
    BY <2>2 DEF BeginDay, FlushEveryMinute, RequestSdFlush, Tick, ramVars, writerVars
  <2> QED BY <2>1, <2>2
<1>3. TakenBefore'
  <2>1. \A t \in taken : t.time \in Nat /\ t.time <= now
    BY DEF MainPart, Sample, Time, SamplesAreTaken, TakenBefore
  <2> QED BY <1>1, <2>1 DEF TakenBefore
<1>4. RamTaken' /\ BufferTaken' /\ CardTaken'
  <2>1. RamTaken /\ BufferTaken /\ CardTaken
    BY DEF SamplesAreTaken
  <2> QED BY <1>1, <1>2, <2>1 DEF RamTaken, BufferTaken, CardTaken
<1>5. DailyObserved' /\ ItemObserved' /\ TodayObserved'
  <2>1. DailyObserved /\ ItemObserved /\ TodayObserved
    BY DEF SummariesAreObserved
  <2> QED BY <1>1, <2>1 DEF DailyObserved, ItemObserved, TodayObserved
<1>6. QueueObserved'
  <2>1. QueueObserved
    BY DEF SummariesAreObserved
  <2>2. CASE UNCHANGED sdWorkQueue
    BY <1>1, <2>1, <2>2 DEF QueueObserved
  <2>3. CASE BeginDay /\ summary # None /\ summary.day < DayOf(now)
    <3> DEFINE w == DailyWork(summary.day, summary.energy)
    <3>1. summary \in Summary /\ ObservedBy(summary, taken)
      BY <2>3 DEF MainPart, SummariesAreObserved, TodayObserved
    <3>2. w \in Work /\ ObservedBy(w, taken)
      BY <3>1, WorkTypes DEF Summary, DailyWork, ObservedBy
    <3>3. QueueSdWork(w)
      BY <2>3 DEF BeginDay, PersistDailySummary
    <3> HIDE DEF w
    <3> QED BY <1>1, <2>1, <3>2, <3>3, QueueStaysObserved
  <2>4. CASE FlushEveryMinute /\ RequestSdFlush
    BY <1>1, <2>1, <2>4, WorkTypes, QueueStaysObserved DEF RequestSdFlush, FlushWork
  <2> QED BY <2>2, <2>3, <2>4 DEF BeginDay, FlushEveryMinute, AddEvent, Tick, queueVars, writerVars
<1> QED BY <1>3, <1>4, <1>5, <1>6 DEF SamplesAreTaken, SummariesAreObserved

LEMMA RecoveryIsObserved ==
  ASSUME MainPart, CardPart, EnergyIsObserved, RestoreEnergyHistory
  PROVE  SamplesAreTaken' /\ SummariesAreObserved'
<1>1. SamplesAreTaken /\ SummariesAreObserved
  BY EnergyParts
<1>2. PICK failing : LET r == Recovered(failing)
                     IN /\ daily' = r.daily /\ active' = r.active
                        /\ summary' = IF r.today # None THEN r.today ELSE summary
  BY DEF RestoreEnergyHistory
<1> DEFINE r == Recovered(failing)
<1>3. /\ r.today # None => ObservedBy(r.today, taken)
      /\ \A d \in Day : r.daily[d] # Missing => ObservedBy([day |-> d, energy |-> r.daily[d]], taken)
  BY RecoveredIsFaithful, IsObservedByTaken
<1>4. UNCHANGED <<setup, ram, sdWorkQueue, writer, rows, now, taken>> /\ previous' = None
  BY DEF RestoreEnergyHistory, ramVars, queueVars, timeVars
<1>5. SamplesAreTaken'
  BY <1>1, <1>4 DEF SamplesAreTaken, TakenBefore, RamTaken, BufferTaken, CardTaken
<1>6. daily' = r.daily /\ summary' = IF r.today # None THEN r.today ELSE summary
  BY <1>2
<1> HIDE DEF r
<1>7. QueueObserved' /\ ItemObserved'
  BY <1>1, <1>4 DEF SummariesAreObserved, QueueObserved, ItemObserved
<1>8. DailyObserved'
  BY <1>3, <1>4, <1>6 DEF DailyObserved
<1>9. TodayObserved'
  <2>1. summary' # None => ObservedBy(summary', taken)
    BY <1>1, <1>3, <1>6 DEF SummariesAreObserved, TodayObserved
  <2> QED BY <1>4, <2>1 DEF TodayObserved
<1> QED BY <1>5, <1>7, <1>8, <1>9 DEF SummariesAreObserved

LEMMA RestartIsObserved ==
  ASSUME MainPart, RingPart, CardPart, WriterPart, SamplesAreTaken, SummariesAreObserved, Restart
  PROVE  SamplesAreTaken' /\ SummariesAreObserved'
<1>1. /\ summary' = None /\ previous' = None /\ sdWorkQueue' = <<>> /\ writer' = Idle
      /\ ram' = [s \in Stream |-> EmptyRing(setup.ring)]
      /\ UNCHANGED <<setup, now, taken, daily>>
  BY DEF Restart, LoseRam
<1>2. TakenBefore' /\ BufferTaken' /\ DailyObserved' /\ QueueObserved' /\ ItemObserved'
        /\ TodayObserved'
  BY <1>1 DEF SamplesAreTaken, SummariesAreObserved, TakenBefore, BufferTaken, DailyObserved,
              QueueObserved, ItemObserved, TodayObserved, ToSet, Idle
<1>3. RamTaken'
  BY <1>1, WriterAssumption DEF RamTaken, EmptyRing, Blank
<1>4. CardTaken'
  <2>1. BufferTaken /\ CardTaken
    BY DEF SamplesAreTaken
  <2>2. CASE writer.at = "copy"
    <3>1. PICK kept \in Prefixes(writer.buffer) : AppendRows(writer.stream, kept)
      BY <2>2 DEF Restart, LoseRam
    <3>2. kept \in Seq(Row) /\ DOMAIN kept \subseteq DOMAIN writer.buffer
            /\ \A i \in DOMAIN kept : kept[i] = writer.buffer[i]
      BY <2>2, BufferIsNew, PrefixIsPart
    <3>3. boot \in Nat
      BY DEF MainPart
    <3>4. CASE writer.stream = "samples"
      <4>1. \A i \in DOMAIN rows'["samples"] :
              \/ \E j \in DOMAIN rows["samples"] : rows'["samples"][i] = rows["samples"][j]
              \/ \E j \in DOMAIN kept : rows'["samples"][i] = kept[j]
        <5>1. \A i \in DOMAIN rows'[writer.stream] :
                \/ \E j \in DOMAIN rows[writer.stream] :
                     rows'[writer.stream][i] = rows[writer.stream][j]
                \/ \E j \in DOMAIN kept : rows'[writer.stream][i] = kept[j]
          BY <2>2, <3>1, <3>2, <3>3, RowsAppended
        <5> QED BY <3>4, <5>1
      <4> QED BY ZenonT(60), <1>1, <2>1, <2>2, <3>2, <3>4, <4>1 DEF BufferTaken, CardTaken
    <3>5. CASE writer.stream # "samples"
      <4>1. rows'["samples"] = rows["samples"]
        BY <2>2, <3>1, <3>2, <3>3, <3>5, RowsAppended, WriterAssumption
      <4> QED BY <1>1, <2>1, <4>1 DEF CardTaken
    <3> QED BY <3>4, <3>5
  <2>3. CASE writer.at # "copy"
    <3>1. rows' = rows
      BY <2>3 DEF Restart, LoseRam
    <3> QED BY <1>1, <2>1, <3>1 DEF CardTaken
  <2> QED BY <2>2, <2>3
<1> QED BY <1>2, <1>3, <1>4 DEF SamplesAreTaken, SummariesAreObserved

LEMMA WriterIsObserved ==
  ASSUME MainPart, RingPart, CardPart, WriterPart, SamplesAreTaken, SummariesAreObserved, WriterStep
  PROVE  SamplesAreTaken' /\ SummariesAreObserved'
<1>1. UNCHANGED <<setup, summary, previous, taken, now, boot>>
  BY DEF WriterStep, dayVars, timeVars
<1>2. UNCHANGED ram
  BY DEF WriterStep, PersistCycleRecord, CheckSdWriterHealth, Receive, BeginStream,
         OpenFile, Look, CopyEntry, CloseFile, WriteDailySummary, WriteCycleRecord, ramVars
<1>3. TakenBefore' /\ RamTaken' /\ TodayObserved'
  <2>1. TakenBefore /\ RamTaken /\ TodayObserved
    BY DEF SamplesAreTaken, SummariesAreObserved
  <2> QED BY <1>1, <1>2, <2>1 DEF TakenBefore, RamTaken, TodayObserved
<1>4. BufferTaken /\ CardTaken /\ DailyObserved /\ QueueObserved /\ ItemObserved
  BY DEF SamplesAreTaken, SummariesAreObserved
<1>5. SUFFICES BufferTaken' /\ CardTaken' /\ DailyObserved' /\ QueueObserved' /\ ItemObserved'
  BY <1>3 DEF SamplesAreTaken, SummariesAreObserved
<1>6. ASSUME UNCHANGED <<rows, daily, sdWorkQueue>>
      PROVE  CardTaken' /\ DailyObserved' /\ QueueObserved'
  BY <1>1, <1>4, <1>6 DEF CardTaken, DailyObserved, QueueObserved
<1>7. ASSUME writer'.at \notin {"copy", "daily"}
      PROVE  BufferTaken' /\ ItemObserved'
  BY <1>7 DEF BufferTaken, ItemObserved
<1>8. ASSUME writer' = writer
      PROVE  BufferTaken' /\ ItemObserved'
  BY <1>1, <1>4, <1>8 DEF BufferTaken, ItemObserved
<1>9. CASE PersistCycleRecord
  <2>1. UNCHANGED <<rows, daily, writer>> /\ QueueSdWork(CycleWork)
    BY <1>9 DEF PersistCycleRecord, cardVars
  <2>2. QueueObserved'
    BY <1>1, <1>4, <2>1, WorkTypes, QueueStaysObserved DEF CycleWork
  <2> QED BY <1>1, <1>4, <1>8, <2>1, <2>2 DEF CardTaken, DailyObserved
<1>10. CASE CheckSdWriterHealth
  BY <1>6, <1>8, <1>10 DEF CheckSdWriterHealth, cardVars, queueVars
<1>11. CASE Receive
  <2> DEFINE q    == sdWorkQueue
             item == Head(q)
  <2>1. q \in Seq(Work) /\ q # <<>> /\ Len(q) \in Nat /\ DOMAIN q = 1 .. Len(q)
    BY <1>11, LenProperties DEF Receive, MainPart
  <2>2. /\ item = q[1] /\ Tail(q) \in Seq(Work) /\ Len(Tail(q)) = Len(q) - 1
        /\ \A i \in 1 .. Len(Tail(q)) : Tail(q)[i] = q[i + 1]
    BY <2>1, HeadTailProperties
  <2>3. item \in ToSet(q)
    <3>1. 1 \in DOMAIN q
      BY <2>1, EmptySeq
    <3> QED BY <2>2, <3>1 DEF ToSet
  <2>4. \A w \in ToSet(Tail(q)) : w \in ToSet(q)
    <3>1. DOMAIN Tail(q) = 1 .. Len(q) - 1
      BY <2>2, LenProperties
    <3> SUFFICES ASSUME NEW i \in 1 .. Len(q) - 1 PROVE Tail(q)[i] \in ToSet(q)
      BY <3>1 DEF ToSet
    <3>2. i + 1 \in DOMAIN q /\ Tail(q)[i] = q[i + 1]
      BY <2>1, <2>2
    <3> QED BY <3>2 DEF ToSet
  <2>5. /\ sdWorkQueue' = Tail(q) /\ UNCHANGED <<rows, daily>>
        /\ writer' = IF item.type = "flush" THEN Begin("samples")
                     ELSE [at |-> item.type, item |-> item]
    BY <1>11 DEF Receive, cardVars
  <2>6. QueueObserved' /\ CardTaken' /\ DailyObserved'
    BY <1>1, <1>4, <2>4, <2>5 DEF QueueObserved, CardTaken, DailyObserved
  <2>7. item.type = "daily" => ObservedBy(item, taken)
    BY <1>4, <2>3 DEF QueueObserved
  <2>8. item.type \in {"flush", "cycle", "daily"}
    <3>1. item \in Work
      BY <2>1, <2>2, HeadTailProperties
    <3> QED BY <3>1, WorkTypes
  <2> HIDE DEF item
  <2>9. BufferTaken' /\ ItemObserved'
    <3>1. CASE item.type = "daily"
      <4>1. writer' = [at |-> "daily", item |-> item]
        BY <2>5, <3>1
      <4> QED BY <1>1, <2>7, <3>1, <4>1 DEF BufferTaken, ItemObserved
    <3>2. CASE item.type # "daily"
      BY <1>7, <2>5, <2>8, <3>2 DEF Begin
    <3> QED BY <3>1, <3>2
  <2> QED BY <2>6, <2>9
<1>12. CASE BeginStream
  <2>1. UNCHANGED <<rows, daily, sdWorkQueue>>
    BY <1>12 DEF BeginStream, cardVars, queueVars
  <2>2. writer'.at \notin {"copy", "daily"}
    BY <1>12 DEF BeginStream, AfterStream, Begin, Idle
  <2> QED BY <1>6, <1>7, <2>1, <2>2
<1>13. CASE OpenFile(DayOf(now))
  <2>1. UNCHANGED <<rows, daily, sdWorkQueue>>
    BY <1>13 DEF OpenFile, cardVars, queueVars
  <2>2. writer'.at \notin {"copy", "daily"}
    BY <1>13 DEF OpenFile, AfterStream, Begin, Idle
  <2> QED BY <1>6, <1>7, <2>1, <2>2
<1>14. CASE Look
  <2>1. UNCHANGED <<rows, daily, sdWorkQueue>>
    BY <1>14 DEF Look, cardVars, queueVars
  <2>2. writer'.at = "copy" /\ writer'.buffer = <<>>
    BY <1>14 DEF Look
  <2> QED BY <1>6, <2>1, <2>2 DEF BufferTaken, ItemObserved
<1>15. CASE CopyEntry
  <2> DEFINE s == writer.stream
             place == (writer.start + writer.offset) % setup.ring
             entry == ram[s].slots[place]
             row   == RowOf(entry, writer.day)
  <2>1. UNCHANGED <<rows, daily, sdWorkQueue>>
    BY <1>15 DEF CopyEntry, cardVars, queueVars
  <2>2. /\ writer \in [at : {"copy"}, stream : Stream, start : Nat, count : Nat, day : Day,
                       offset : Nat, newest : Nat, buffer : Seq(Row)]
        /\ InFile /\ setup.ring \in Nat \ {0} /\ flushed[s] \in Nat
    BY <1>15, WriterFields, SetUpFacts DEF CopyEntry, WriterPart, InFile, MainPart, CardPart
  <2>3. CASE entry.sequence <= flushed[s]
    <3>1. writer' = [writer EXCEPT !.offset = writer.offset + 1]
      BY <1>15, <2>3 DEF CopyEntry
    <3>2. writer'.at = "copy" /\ writer'.stream = s /\ writer'.buffer = writer.buffer
            /\ writer.at = "copy"
      BY <2>2, <3>1
    <3>3. BufferTaken' /\ ItemObserved'
      BY <1>1, <1>4, <3>2 DEF BufferTaken, ItemObserved
    <3> QED BY <1>6, <2>1, <3>3
  <2>4. CASE ~(entry.sequence <= flushed[s])
    <3>1. writer'.at = "copy" /\ writer'.stream = s /\ writer'.buffer = Append(writer.buffer, row)
            /\ writer.at = "copy"
      BY <1>15, <2>2, <2>4 DEF CopyEntry
    <3>2. /\ place \in 0 .. setup.ring - 1
      <4>1. writer.start \in Nat /\ writer.offset \in Nat
        BY <2>2
      <4>2. writer.start + writer.offset \in Nat
        BY <4>1
      <4> QED BY <2>2, <4>2
    <3>3. entry \in Entry
      <4>1. ram[s] \in Ring
        BY <2>2 DEF RingPart
      <4> HIDE DEF place
      <4> QED BY <3>2, <4>1 DEF Ring
    <3>4. row \in Row /\ row.boot = entry.boot /\ row.time = entry.time
      BY <2>2, <3>3 DEF RowOf, Row, Entry
    <3>5. entry.sequence # 0
      BY <2>2, <2>4
    <3>6. s = "samples" => [boot |-> row.boot, time |-> row.time] \in taken
      <4> HIDE DEF place
      <4> QED BY <3>2, <3>4, <3>5 DEF SamplesAreTaken, RamTaken
    <3> HIDE DEF row
    <3>7. /\ DOMAIN writer'.buffer = 1 .. Len(writer.buffer) + 1
          /\ Len(writer.buffer) \in Nat /\ DOMAIN writer.buffer = 1 .. Len(writer.buffer)
          /\ \A i \in 1 .. Len(writer.buffer) : writer'.buffer[i] = writer.buffer[i]
          /\ writer'.buffer[Len(writer.buffer) + 1] = row
      <4>1. writer.buffer \in Seq(Row)
        BY <2>2
      <4>2. Append(writer.buffer, row) \in Seq(Row)
        BY <3>4, <4>1, AppendProperties
      <4> QED BY SMTT(30), <3>1, <3>4, <4>1, <4>2, AppendProperties, LenProperties
    <3>8. BufferTaken'
      <4>1. \A i \in DOMAIN writer'.buffer :
              \/ i \in DOMAIN writer.buffer /\ writer'.buffer[i] = writer.buffer[i]
              \/ writer'.buffer[i] = row
        BY <3>7
      <4> QED BY <1>1, <1>4, <3>1, <3>6, <4>1 DEF BufferTaken
    <3>9. ItemObserved'
      BY <3>1 DEF ItemObserved
    <3> QED BY <1>6, <2>1, <3>8, <3>9
  <2> QED BY <2>3, <2>4
<1>16. CASE CloseFile
  <2> DEFINE s == writer.stream
  <2>1. UNCHANGED <<daily, sdWorkQueue>> /\ writer.at = "copy" /\ boot \in Nat
    BY <1>16 DEF CloseFile, queueVars, MainPart
  <2>2. writer'.at \notin {"copy", "daily"}
    BY <1>16 DEF CloseFile, AfterStream, Begin, Idle
  <2>3. DailyObserved' /\ QueueObserved'
    BY <1>1, <1>4, <2>1 DEF DailyObserved, QueueObserved
  <2>4. writer.buffer \in Seq(Row) /\ s \in Stream
    BY <2>1, BufferIsNew
  <2>5. PICK more \in Seq(Row) : /\ DOMAIN more \subseteq DOMAIN writer.buffer
                                 /\ \A i \in DOMAIN more : more[i] = writer.buffer[i]
                                 /\ AppendRows(s, more)
    <3>1. CASE AppendRows(s, writer.buffer)
      BY <2>4, <3>1
    <3>2. CASE \E kept \in Prefixes(writer.buffer) : AppendRows(s, kept)
      BY <2>4, <3>2, PrefixIsPart
    <3> QED BY <1>16, <3>1, <3>2 DEF CloseFile
  <2>6. CardTaken'
    <3>1. CASE s = "samples"
      <4>1. \A i \in DOMAIN rows'["samples"] :
              \/ \E j \in DOMAIN rows["samples"] : rows'["samples"][i] = rows["samples"][j]
              \/ \E j \in DOMAIN more : rows'["samples"][i] = more[j]
        BY SMTT(60), <2>1, <2>5, <3>1, RowsAppended
      <4> QED BY SMTT(60), <1>1, <1>4, <2>1, <2>5, <3>1, <4>1 DEF BufferTaken, CardTaken
    <3>2. CASE s # "samples"
      <4>1. rows'["samples"] = rows["samples"]
        BY <2>1, <2>5, <3>2, RowsAppended, WriterAssumption
      <4> QED BY <1>1, <1>4, <4>1 DEF CardTaken
    <3> QED BY <3>1, <3>2
  <2> QED BY <1>7, <2>2, <2>3, <2>6
<1>17. CASE WriteDailySummary
  <2>1. UNCHANGED <<rows, sdWorkQueue>> /\ writer' = Idle /\ writer.at = "daily"
    BY <1>17 DEF WriteDailySummary, queueVars
  <2>2. CardTaken' /\ QueueObserved' /\ BufferTaken' /\ ItemObserved'
    BY <1>1, <1>4, <2>1 DEF CardTaken, QueueObserved, BufferTaken, ItemObserved, Idle
  <2>3. ObservedBy(writer.item, taken)
    BY <1>4, <2>1 DEF ItemObserved
  <2>4. ObservedBy([day |-> writer.item.day, energy |-> writer.item.energy], taken)
    BY <2>3 DEF ObservedBy
  <2>5. daily' = daily \/ daily' = [daily EXCEPT ![writer.item.day] = writer.item.energy]
    BY <1>17 DEF WriteDailySummary
  <2>6. daily \in [Day -> Energy \cup {Missing}]
    BY DEF MainPart
  <2>7. \A d \in Day : daily'[d] = daily[d] \/ (d = writer.item.day /\ daily'[d] = writer.item.energy)
    BY <2>5, <2>6
  <2>8. DailyObserved'
    BY <1>1, <1>4, <2>4, <2>7 DEF DailyObserved
  <2> QED BY <2>2, <2>8
<1>18. CASE WriteCycleRecord
  <2>1. UNCHANGED <<rows, daily, sdWorkQueue>> /\ writer' = Idle
    BY <1>18 DEF WriteCycleRecord, cardVars, queueVars
  <2> QED BY <1>6, <1>7, <2>1 DEF Idle
<1> QED BY <1>9, <1>10, <1>11, <1>12, <1>13, <1>14, <1>15, <1>16, <1>17, <1>18 DEF WriterStep

LEMMA EnergyStep ==
  ASSUME CardInvariant, EnergyIsObserved, [Next]_vars
  PROVE  EnergyIsObserved'
<1>1. /\ MainPart /\ RingPart /\ CardPart /\ WriterPart
      /\ SamplesAreTaken /\ SummariesAreObserved
  BY Parts, EnergyParts
<1>2. SUFFICES SamplesAreTaken' /\ SummariesAreObserved'
  <2>1. EnergyIsObserved' <=> SamplesAreTaken' /\ SummariesAreObserved'
    BY EnergyParts, PTL
  <2> QED BY <2>1
<1>3. CASE UNCHANGED vars
  <2>1. SamplesAreTaken'
    BY <1>1, <1>3 DEF vars, writerVars, ramVars, cardVars, timeVars, SamplesAreTaken, TakenBefore,
                      RamTaken, BufferTaken, CardTaken
  <2>2. SummariesAreObserved'
    BY <1>1, <1>3 DEF vars, writerVars, queueVars, cardVars, dayVars, timeVars,
              SummariesAreObserved, DailyObserved, QueueObserved, ItemObserved, TodayObserved
  <2> QED BY <2>1, <2>2
<1> QED BY <1>1, <1>3, SampleIsObserved, MainLoopIsObserved, RecoveryIsObserved, RestartIsObserved,
           WriterIsObserved DEF Next

LEMMA EnergyInvariantHolds == Spec => []EnergyIsObserved
<1>1. Init => EnergyIsObserved
  BY BeginsObserved
<1>2. CardInvariant /\ EnergyIsObserved /\ [Next]_vars => EnergyIsObserved'
  BY EnergyStep
<1> QED BY <1>1, <1>2, CardInvariantHolds, PTL DEF Spec

\* Energy is counted once, on its day and only where it was observed: on the card, in the queue
\* of the writer and today, after any restarts and recoveries (updateDailySummary,
\* restoreEnergyHistory).
THEOREM EnergyIsCountedOnce == Spec => []CountedAsObserved
<1>1. EnergyIsObserved => CountedAsObserved
  <2> SUFFICES ASSUME EnergyIsObserved, NEW s \in Summaries, NEW u \in Unit
               PROVE  /\ s.energy[u] <= 1
                      /\ s.energy[u] = 1 => DayOf(u) = s.day /\ u \in Observed(taken)
    BY DEF CountedAsObserved
  <2>1. DailyObserved /\ QueueObserved /\ TodayObserved
    BY EnergyParts DEF SummariesAreObserved
  <2>2. ObservedBy(s, taken)
    <3>1. CASE s \in {[day |-> d, energy |-> daily[d]] : d \in {d \in Day : daily[d] # Missing}}
      BY <2>1, <3>1 DEF DailyObserved
    <3>2. CASE s \in {[day |-> w.day, energy |-> w.energy] :
                        w \in {w \in ToSet(sdWorkQueue) : w.type = "daily"}}
      BY <2>1, <3>2 DEF QueueObserved, ObservedBy
    <3>3. CASE s \in IF summary = None THEN {} ELSE {summary}
      BY <2>1, <3>3 DEF TodayObserved
    <3> QED BY <3>1, <3>2, <3>3 DEF Summaries
  <2> QED BY <2>2 DEF ObservedBy
<1> QED BY <1>1, EnergyInvariantHolds, PTL

-----------------------------------------------------------------------------
(* A recovery leaves no day out.                                            *)

\* What holds of a recovery at its beginning, and with each row of the row after, holds at its
\* end: S[n] are the recoveries that may be under way after n rows.
LEMMA RecoveryReaches ==
  ASSUME NEW failing, rows["samples"] \in Seq(Row), daily \in [Day -> Energy \cup {Missing}],
         NEW S,
         Recovery \in S[0],
         \A n \in 1 .. Len(rows["samples"]) : \A r \in RecoveryType \cap S[n - 1] :
           IF IsRead(n) THEN RecoverDailySample(r, rows["samples"][n], failing) \in S[n]
           ELSE r \in S[n]
  PROVE  RecoveredUnfinished(failing) \in S[Len(rows["samples"])]
<1> DEFINE all == rows["samples"]
           N   == Len(all)
<1>1. N \in Nat
  BY LenProperties
<1>2. Recovery \in RecoveryType
  BY DEF Recovery, RecoveryType
<1>3. \A n \in 1 .. N : \A r \in RecoveryType : RecoverDailySample(r, all[n], failing) \in RecoveryType
  BY ElementOfSeq, RowOfRecoveryType
<1>4. PICK f \in [0 .. N -> RecoveryType] :
        /\ f[0] = Recovery
        /\ \A n \in 1 .. N : f[n] = IF IsRead(n) THEN RecoverDailySample(f[n - 1], all[n], failing)
                                    ELSE f[n - 1]
        /\ RecoveredUnfinished(failing) = f[N]
  BY <1>2, <1>3, RecoveryRuns
<1> DEFINE Bad == {n \in 0 .. N : f[n] \notin S[n]}
<1>5. Bad = {}
  <2>1. SUFFICES ASSUME Bad # {} PROVE FALSE
    OBVIOUS
  <2>2. PICK n \in Bad : \A m \in Bad : n <= m
    <3>1. Bad \in SUBSET Nat
      BY <1>1
    <3> QED BY <2>1, <3>1, LeastElement
  <2>3. n \in 1 .. N /\ f[n] \notin S[n]
    BY <1>1, <1>4, <2>2
  <2>4. n - 1 \in 0 .. N /\ n - 1 < n
    BY <1>1, <2>3
  <2>5. f[n - 1] \in RecoveryType \cap S[n - 1]
    <3>1. n - 1 \notin Bad
      BY <1>1, <2>2, <2>3, <2>4
    <3> QED BY <1>4, <2>4, <3>1
  <2>6. IF IsRead(n) THEN RecoverDailySample(f[n - 1], all[n], failing) \in S[n]
        ELSE f[n - 1] \in S[n]
    BY <2>3, <2>5
  <2> QED BY <1>4, <2>3, <2>6
<1> QED BY <1>1, <1>4, <1>5

\* Finishing a day stores it, unless it is stored, is today or the card has failed.
LEMMA FinishedStores ==
  ASSUME NEW r \in RecoveryType, NEW failing
  PROVE  /\ Finished(r, failing).summary = r.summary
         /\ Finished(r, failing).active => r.active
         /\ \A d \in Day : r.daily[d] # Missing => Finished(r, failing).daily[d] # Missing
         /\ Finished(r, failing).active /\ r.summary # None /\ r.summary.day < DayOf(now)
              /\ (r.completed => r.daily[r.summary.day] # Missing)
              => Finished(r, failing).daily[r.summary.day] # Missing
<1>1. CASE r.summary = None
  BY <1>1 DEF Finished
<1>2. CASE r.summary # None
  <2> DEFINE day == r.summary.day
  <2>1. day \in Day /\ r.summary.energy \in Energy /\ r.summary.energy # Missing
    BY <1>2, EnergyAssumption DEF RecoveryType, Summary, Energy, Unit
  <2>2. /\ r.daily \in [Day -> Energy \cup {Missing}] /\ DOMAIN r = {"summary", "completed",
           "previous", "daily", "today", "active"}
    BY DEF RecoveryType
  <2>3. CASE day = DayOf(now)
    <3>1. Finished(r, failing) = [r EXCEPT !.today = r.summary]
      BY <1>2, <2>3 DEF Finished
    <3>2. day \in Nat
      BY <2>1, WriterAssumption
    <3>3. ~(day < DayOf(now))
      <4> HIDE DEF day
      <4> QED BY <2>3, <3>2
    <3> QED BY <2>2, <3>1, <3>3
  <2>4. CASE day # DayOf(now) /\ (r.completed \/ ~r.active)
    <3>1. Finished(r, failing) = r
      BY <1>2, <2>4 DEF Finished
    <3> QED BY <2>4, <3>1
  <2>5. CASE day # DayOf(now) /\ ~(r.completed \/ ~r.active) /\ day = failing
    <3>1. Finished(r, failing) = [r EXCEPT !.active = FALSE]
      BY <1>2, <2>5 DEF Finished
    <3> QED BY <2>2, <2>5, <3>1
  <2>6. CASE day # DayOf(now) /\ ~(r.completed \/ ~r.active) /\ day # failing
    <3>1. Finished(r, failing) = [r EXCEPT !.daily[day] = r.summary.energy]
      BY <1>2, <2>6 DEF Finished
    <3>2. /\ Finished(r, failing).summary = r.summary
          /\ Finished(r, failing).active = r.active
          /\ Finished(r, failing).daily = [r.daily EXCEPT ![day] = r.summary.energy]
      BY <2>2, <3>1
    <3> QED BY <2>1, <2>2, <2>6, <3>2
  <2> QED BY <2>3, <2>4, <2>5, <2>6
<1> QED BY <1>1, <1>2

\* Adding a row changes only the energy of the summary.
LEMMA AddedRow ==
  ASSUME NEW r \in RecoveryType, r.summary \in Summary, NEW row \in Row
  PROVE  /\ AddRow(r, row).daily = r.daily /\ AddRow(r, row).completed = r.completed
         /\ AddRow(r, row).active = r.active /\ AddRow(r, row).summary.day = r.summary.day
<1>1. Accumulated(r.summary, r.previous, row).day = r.summary.day
  <2>1. r.previous \in Sample \cup {None}
    BY DEF RecoveryType
  <2> QED BY <2>1, AccumulatedType
<1> DEFINE more == Accumulated(r.summary, r.previous, row)
<1>2. AddRow(r, row) = IF r.completed THEN r ELSE [r EXCEPT !.summary = more]
  BY DEF AddRow
<1> HIDE DEF more
<1>3. [r EXCEPT !.summary = more].summary = more
  BY DEF RecoveryType
<1>4. /\ [r EXCEPT !.summary = more].daily = r.daily
      /\ [r EXCEPT !.summary = more].completed = r.completed
      /\ [r EXCEPT !.summary = more].active = r.active
  BY DEF RecoveryType
<1> QED BY <1>1, <1>2, <1>3, <1>4 DEF more

\* A row that no later row is before, of an earlier day.
IsOwed(n) ==
  /\ IsRead(n)
  /\ \A k \in 1 .. n - 1 : rows["samples"][k].time <= rows["samples"][n].time
  /\ DayOf(rows["samples"][n].time) < DayOf(now)

\* After n rows every day that is owed a summary has it, or is the one being made.
StoredOrOpen(n, r) ==
  /\ r.summary # None => r.previous # None /\ r.summary.day = DayOf(r.previous.time)
  /\ r.previous # None =>
       r.summary # None /\ \E k \in 1 .. n : r.previous.time = rows["samples"][k].time
  /\ r.summary # None /\ r.completed => r.daily[r.summary.day] # Missing
  /\ r.active => \A k \in 1 .. n : IsOwed(k) =>
       \/ r.daily[DayOf(rows["samples"][k].time)] # Missing
       \/ r.summary # None /\ r.summary.day = DayOf(rows["samples"][k].time)

LEMMA RowKeepsStoredOrOpen ==
  ASSUME NEW failing, rows["samples"] \in Seq(Row),
         NEW n \in 1 .. Len(rows["samples"]), NEW r \in RecoveryType, StoredOrOpen(n - 1, r)
  PROVE  IF IsRead(n) THEN StoredOrOpen(n, RecoverDailySample(r, rows["samples"][n], failing))
         ELSE StoredOrOpen(n, r)
<1> DEFINE all == rows["samples"]
           row == all[n]
           d   == DayOf(row.time)
<1>1. row \in Row /\ \A k \in 1 .. n : all[k] \in Row
  <2>1. Len(all) \in Nat
    BY LenProperties
  <2> QED BY <2>1, ElementOfSeq
<1>11. \A w \in Row : w.time \in Nat /\ DayOf(w.time) \in Day
  <2> SUFFICES ASSUME NEW w \in Row PROVE w.time \in Nat /\ DayOf(w.time) \in Day
    OBVIOUS
  <2>1. w.time \in Time
    BY DEF Row
  <2>2. w.time \in Nat
    BY <2>1 DEF Time
  <2> QED BY <2>1, <2>2, DayIsDay
<1>2. row.time \in Nat /\ d \in Day /\ n \in Nat
  <2>1. Len(all) \in Nat
    BY LenProperties
  <2>2. n \in Nat
    BY <2>1
  <2> QED BY <1>1, <1>11, <2>2
<1>3. \A k \in 1 .. n : k \in 1 .. n - 1 \/ k = n
  BY <1>2
<1>4. CASE ~IsRead(n)
  <2>1. ~IsOwed(n)
    BY <1>4 DEF IsOwed
  <2>2. \A k \in 1 .. n - 1 : k \in 1 .. n
    BY <1>2
  <2> QED BY <1>3, <1>4, <2>1, <2>2 DEF StoredOrOpen
<1>5. CASE IsRead(n) /\ r.previous # None /\ row.time <= r.previous.time
  <2>1. RecoverDailySample(r, row, failing) = r
    BY <1>5 DEF RecoverDailySample
  <2>2. IsOwed(n) => r.summary # None /\ r.summary.day = d
    <3>1. PICK k \in 1 .. n - 1 : r.previous.time = all[k].time
      BY <1>5 DEF StoredOrOpen
    <3>2. IsOwed(n) => all[k].time <= row.time
      BY DEF IsOwed
    <3>3. all[k].time \in Nat
      <4>1. k \in 1 .. n
        BY <1>2
      <4> QED BY <1>1, <1>11, <4>1
    <3>4. IsOwed(n) => r.previous.time = row.time
      <4> HIDE DEF all, row
      <4> QED BY <1>2, <1>5, <3>1, <3>2, <3>3
    <3> QED BY <1>5, <3>4 DEF StoredOrOpen
  <2>3. \A k \in 1 .. n - 1 : k \in 1 .. n
    BY <1>2
  <2> QED BY <1>3, <1>5, <2>1, <2>2, <2>3 DEF StoredOrOpen
<1>6. CASE IsRead(n) /\ ~(r.previous # None /\ row.time <= r.previous.time)
  <2> DEFINE other == r.summary = None \/ r.summary.day # d
             cut   == IF r.summary # None THEN AddRow(r, row) ELSE r
             done  == Finished(cut, failing)
             ready == IF other THEN Opened(done, d) ELSE r
             after == [AddRow(ready, row) EXCEPT !.previous = [boot |-> row.boot, time |-> row.time]]
  <2>1. RecoverDailySample(r, row, failing) = after
    BY <1>6 DEF RecoverDailySample
  <2>2. /\ cut \in RecoveryType /\ cut.daily = r.daily /\ cut.completed = r.completed
        /\ cut.active = r.active /\ (cut.summary = None <=> r.summary = None)
        /\ r.summary # None => cut.summary.day = r.summary.day
    <3>1. CASE r.summary = None
      BY <3>1
    <3>2. CASE r.summary # None
      <4>1. r.summary \in Summary
        BY <3>2 DEF RecoveryType
      <4>2. AddRow(r, row) \in RecoveryType /\ AddRow(r, row).summary \in Summary
        BY <1>1, <4>1, AddRowType
      <4>3. /\ AddRow(r, row).daily = r.daily /\ AddRow(r, row).completed = r.completed
            /\ AddRow(r, row).active = r.active /\ AddRow(r, row).summary.day = r.summary.day
        BY <1>1, <4>1, AddedRow
      <4>4. None \notin Summary
        BY EnergyAssumption DEF Summary, Energy, Unit
      <4> HIDE DEF row
      <4> QED BY <3>2, <4>2, <4>3, <4>4
    <3> QED BY <3>1, <3>2
  <2>3. done \in RecoveryType
    <3> HIDE DEF cut
    <3> QED BY <2>2, FinishedType
  <2>4. /\ done.active => r.active
        /\ \A e \in Day : r.daily[e] # Missing => done.daily[e] # Missing
        /\ done.active /\ r.summary # None /\ r.summary.day < DayOf(now)
             => done.daily[r.summary.day] # Missing
    <3>1. r.summary # None /\ r.completed => r.daily[r.summary.day] # Missing
      BY DEF StoredOrOpen
    <3> HIDE DEF cut
    <3> QED BY <2>2, <3>1, FinishedStores
  <2>5. other => /\ ready.summary # None /\ ready.summary.day = d /\ ready.daily = done.daily
                 /\ ready.active = done.active
                 /\ ready.completed => ready.daily[d] # Missing
    <3> HIDE DEF done
    <3> SUFFICES ASSUME other PROVE /\ Opened(done, d).summary # None
                                    /\ Opened(done, d).summary.day = d
                                    /\ Opened(done, d).daily = done.daily
                                    /\ Opened(done, d).active = done.active
                                    /\ Opened(done, d).completed => done.daily[d] # Missing
      BY Zenon
    <3>1. Opened(done, d).summary \in Summary
      BY <1>2, <2>3, OpenedType
    <3>2. None \notin Summary
      BY EnergyAssumption DEF Summary, Energy, Unit
    <3> HIDE DEF d
    <3> QED BY <2>3, <3>1, <3>2 DEF Opened, RecoveryType
  <2>6. ~other => /\ ready.summary # None /\ ready.summary.day = d /\ ready.daily = r.daily
                  /\ ready.active = r.active
                  /\ ready.completed => ready.daily[d] # Missing
    BY DEF StoredOrOpen
  <2>7. ready \in RecoveryType
    <3> HIDE DEF done
    <3> QED BY <1>2, <2>3, OpenedType
  <2>8. /\ ready.summary # None /\ ready.summary.day = d
        /\ ready.completed => ready.daily[d] # Missing
    BY <2>5, <2>6
  <2>9. ready.active => \A k \in 1 .. n : IsOwed(k) =>
          ready.daily[DayOf(all[k].time)] # Missing \/ DayOf(all[k].time) = d
    <3> SUFFICES ASSUME ready.active, NEW k \in 1 .. n - 1, IsOwed(k), DayOf(all[k].time) # d
                 PROVE  ready.daily[DayOf(all[k].time)] # Missing
      BY <1>3
    <3> DEFINE e == DayOf(all[k].time)
    <3>1. e \in Day
      <4>1. k \in 1 .. n
        BY <1>2
      <4> QED BY <1>1, <1>11, <4>1
    <3>2. e < DayOf(now)
      BY DEF IsOwed
    <3>3. r.active => r.daily[e] # Missing \/ (r.summary # None /\ r.summary.day = e)
      BY DEF StoredOrOpen
    <3>4. ready.active /\ e # d
      OBVIOUS
    <3>5. SUFFICES ready.daily[e] # Missing
      OBVIOUS
    <3>6. CASE other
      <4>1. ready.daily = done.daily /\ done.active
        BY <2>5, <3>4, <3>6
      <4> HIDE DEF ready, done, e, d
      <4> QED BY <2>4, <3>1, <3>2, <3>3, <4>1
    <3>7. CASE ~other
      <4>1. r.summary.day = d /\ ready.daily = r.daily /\ r.active
        BY <2>6, <3>4, <3>7
      <4> HIDE DEF ready, e, d
      <4> QED BY <3>3, <3>4, <4>1
    <3> QED BY <3>6, <3>7
  <2>10. /\ after.summary # None /\ after.summary.day = d /\ after.daily = ready.daily
         /\ after.completed = ready.completed /\ after.active = ready.active
         /\ after.previous = [boot |-> row.boot, time |-> row.time]
    <3> HIDE DEF ready, d
    <3>1. ready.summary \in Summary
      BY <2>7, <2>8 DEF RecoveryType
    <3>2. AddRow(ready, row) \in RecoveryType /\ AddRow(ready, row).summary \in Summary
      BY <1>1, <2>7, <3>1, AddRowType
    <3>3. None \notin Summary
      BY EnergyAssumption DEF Summary, Energy, Unit
    <3>4. /\ AddRow(ready, row).daily = ready.daily
          /\ AddRow(ready, row).completed = ready.completed
          /\ AddRow(ready, row).active = ready.active
          /\ AddRow(ready, row).summary.day = ready.summary.day
      BY <1>1, <2>7, <3>1, AddedRow
    <3> HIDE DEF row
    <3> QED BY <2>8, <3>2, <3>3, <3>4 DEF RecoveryType
  <2>11. after.previous # None /\ after.previous.time = row.time
    <3>1. None \notin [boot : Nat, time : Nat]
      BY EnergyAssumption
    <3> HIDE DEF after
    <3> QED BY <1>1, <2>10, <3>1 DEF Row, Time
  <2>12. n \in 1 .. n
    BY <1>2
  <2>13. StoredOrOpen(n, after)
    <3> HIDE DEF after, ready
    <3> QED BY <2>8, <2>9, <2>10, <2>11, <2>12 DEF StoredOrOpen
  <2> HIDE DEF after
  <2> QED BY <1>6, <2>1, <2>13
<1> QED BY <1>4, <1>5, <1>6

\* Every day of a row that a recovery reads in order has a summary once the recovery is over and
\* the card has not failed, even when the queue dropped the one the main loop made
\* (restoreEnergyHistory).
THEOREM RecoveryLeavesNoDayOut == Spec => RecoveryCompletes
<1> DEFINE all == rows["samples"]
           Stored == \A n \in DOMAIN all :
             DayOf(all[n].time) < DayOf(now) /\ ~Complete(all[n].day)
               /\ (\A k \in 1 .. n - 1 : all[k].time <= all[n].time)
             => daily'[DayOf(all[n].time)] # Missing
<1>1. ASSUME CardInvariant, [Next]_vars, ~restored, restored', active'
      PROVE  Stored
  <2>1. RestoreEnergyHistory
    <3>1. CASE UNCHANGED vars
      BY <1>1, <3>1 DEF vars, dayVars
    <3>2. CASE WriterStep
      BY <1>1, <3>2 DEF WriterStep, dayVars
    <3>3. restored' => restored
            \/ RestoreEnergyHistory \/ WriterStep \/ UNCHANGED vars
      BY <1>1 DEF Next, TakeSample, BeginDay, FlushEveryMinute, AddEvent, Tick, Restart, dayVars
    <3> QED BY <1>1, <3>1, <3>2, <3>3
  <2>2. all \in Seq(Row) /\ daily \in [Day -> Energy \cup {Missing}]
    BY <1>1, WriterAssumption DEF CardInvariant, TypeOK, WorkTypeOK
  <2>3. PICK failing : daily' = Recovered(failing).daily /\ active' = Recovered(failing).active
    BY <2>1 DEF RestoreEnergyHistory
  <2> DEFINE r == RecoveredUnfinished(failing)
             N == Len(all)
  <2>4. N \in Nat /\ DOMAIN all = 1 .. N
    BY <2>2, LenProperties
  <2>5. r \in RecoveryType
    BY <2>2, RecoveredType
  <2>6. StoredOrOpen(N, r)
    <3> DEFINE S == [n \in 0 .. N |-> {q \in RecoveryType : StoredOrOpen(n, q)}]
    <3>1. Recovery \in S[0]
      <4>1. Recovery \in RecoveryType
        BY <2>2 DEF Recovery, RecoveryType
      <4>2. Recovery.summary = None /\ Recovery.previous = None
        BY DEF Recovery
      <4>3. StoredOrOpen(0, Recovery)
        BY <4>2 DEF StoredOrOpen
      <4> QED BY <2>4, <4>1, <4>3
    <3>2. ASSUME NEW n \in 1 .. N, NEW q \in RecoveryType \cap S[n - 1]
          PROVE  IF IsRead(n) THEN RecoverDailySample(q, all[n], failing) \in S[n] ELSE q \in S[n]
      <4>1. n - 1 \in 0 .. N /\ n \in 0 .. N
        BY <2>4
      <4>2. StoredOrOpen(n - 1, q) /\ q \in RecoveryType
        BY <3>2, <4>1
      <4>3. IF IsRead(n) THEN StoredOrOpen(n, RecoverDailySample(q, all[n], failing))
            ELSE StoredOrOpen(n, q)
        BY <2>2, <4>2, RowKeepsStoredOrOpen
      <4>4. all[n] \in Row
        BY <2>2, ElementOfSeq
      <4>5. RecoverDailySample(q, all[n], failing) \in RecoveryType
        BY <4>2, <4>4, RowOfRecoveryType
      <4> QED BY <4>1, <4>2, <4>3, <4>5
    <3>3. r \in S[N]
      <4> HIDE DEF S
      <4> QED BY <2>2, <3>1, <3>2, RecoveryReaches
    <3> HIDE DEF r
    <3> QED BY <2>4, <3>3
  <2>7. Recovered(failing) = Finished(r, failing)
    BY DEF Recovered
  <2> SUFFICES ASSUME NEW n \in 1 .. N,
                      DayOf(all[n].time) < DayOf(now), ~Complete(all[n].day),
                      \A k \in 1 .. n - 1 : all[k].time <= all[n].time
               PROVE  daily'[DayOf(all[n].time)] # Missing
    BY <2>4
  <2> DEFINE d == DayOf(all[n].time)
  <2>8. d \in Day /\ d < DayOf(now)
    <3>1. all[n] \in Row
      BY <2>2, ElementOfSeq
    <3>2. all[n].time \in Time
      BY <3>1 DEF Row
    <3> QED BY <3>2, DayIsDay
  <2>9. IsOwed(n)
    BY DEF IsOwed, IsRead
  <2>10. Finished(r, failing).active /\ daily' = Finished(r, failing).daily
    BY <1>1, <2>3, <2>7
  <2>11. r.active
    <3> HIDE DEF r
    <3> QED BY <2>5, <2>10, FinishedStores
  <2>12. r.daily[d] # Missing \/ (r.summary # None /\ r.summary.day = d)
    <3> HIDE DEF r
    <3> QED BY <2>6, <2>9, <2>11 DEF StoredOrOpen
  <2>13. r.summary # None /\ r.completed => r.daily[r.summary.day] # Missing
    BY <2>6 DEF StoredOrOpen
  <2>14. daily'[d] # Missing
    <3> HIDE DEF r, d
    <3> QED BY <2>5, <2>8, <2>10, <2>12, <2>13, FinishedStores
  <2> QED BY <2>14
<1>2. CardInvariant /\ [Next]_vars =>
        [~restored /\ restored' /\ active' => Stored]_vars
  BY <1>1
<1>3. [][~restored /\ restored' /\ active' => Stored]_vars <=> RecoveryCompletes
  BY DEF RecoveryCompletes
<1> HIDE DEF Stored
<1> QED BY <1>2, <1>3, CardInvariantHolds, PTL DEF Spec

-----------------------------------------------------------------------------
(* Days that are stored are over.                                           *)

DaysOfRecovery ==
  {r \in RecoveryType :
    /\ r.summary # None => r.summary.day <= DayOf(now)
    /\ r.today # None => r.today.day = DayOf(now)
    /\ \A d \in Day : r.daily[d] # Missing => d < DayOf(now)}

LEMMA FinishedCases ==
  ASSUME NEW r \in RecoveryType, NEW failing
  PROVE  LET f == Finished(r, failing)
             s == r.summary
         IN /\ f \in RecoveryType /\ f.summary = s /\ f.previous = r.previous
            /\ f.completed = r.completed
            /\ \/ f = r
               \/ /\ s # None /\ s.day = DayOf(now) /\ f.daily = r.daily
                  /\ f.today = s /\ f.active = r.active
               \/ s # None /\ s.day # DayOf(now) /\ f.daily = r.daily /\ f.today = r.today
               \/ /\ s # None /\ s.day # DayOf(now) /\ ~r.completed /\ f.today = r.today
                  /\ f.daily = [r.daily EXCEPT ![s.day] = s.energy]
<1> DEFINE f == Finished(r, failing)
           s == r.summary
<1>1. f \in RecoveryType
  BY FinishedType
<1>2. \/ f = r
      \/ s # None /\ s.day = DayOf(now) /\ f = [r EXCEPT !.today = s]
      \/ s # None /\ s.day # DayOf(now) /\ f = [r EXCEPT !.active = FALSE]
      \/ s # None /\ s.day # DayOf(now) /\ ~r.completed /\ f = [r EXCEPT !.daily[s.day] = s.energy]
  BY DEF Finished
<1> HIDE DEF f
<1>3. f.summary = s /\ f.previous = r.previous /\ f.completed = r.completed
  BY <1>2 DEF RecoveryType
<1>4. \/ f = r
      \/ /\ s # None /\ s.day = DayOf(now) /\ f.daily = r.daily /\ f.today = s
         /\ f.active = r.active
      \/ s # None /\ s.day # DayOf(now) /\ f.daily = r.daily /\ f.today = r.today
      \/ /\ s # None /\ s.day # DayOf(now) /\ ~r.completed /\ f.today = r.today
         /\ f.daily = [r.daily EXCEPT ![s.day] = s.energy]
  BY <1>2 DEF RecoveryType
<1> QED BY <1>1, <1>3, <1>4 DEF f

LEMMA FinishedDays ==
  ASSUME NEW r \in DaysOfRecovery, NEW failing, DayOf(now) \in Day
  PROVE  Finished(r, failing) \in DaysOfRecovery
<1> DEFINE f == Finished(r, failing)
           s == r.summary
<1>1. r \in RecoveryType
  BY DEF DaysOfRecovery
<1>2. /\ f \in RecoveryType /\ f.summary = s
      /\ \/ f = r
         \/ s # None /\ s.day = DayOf(now) /\ f.daily = r.daily /\ f.today = s
         \/ s # None /\ s.day # DayOf(now) /\ f.daily = r.daily /\ f.today = r.today
         \/ /\ s # None /\ s.day # DayOf(now) /\ f.today = r.today
            /\ f.daily = [r.daily EXCEPT ![s.day] = s.energy]
  BY <1>1, FinishedCases
<1>3. s # None => s.day \in Day /\ s.day \in Nat
  BY <1>1, WriterAssumption DEF RecoveryType, Summary
<1>4. DayOf(now) \in Nat /\ r.daily \in [Day -> Energy \cup {Missing}]
  BY <1>1, WriterAssumption DEF RecoveryType
<1> HIDE DEF f
<1>5. \A d \in Day : f.daily[d] # Missing => d < DayOf(now)
  BY <1>2, <1>3, <1>4 DEF DaysOfRecovery
<1>6. f.today # None => f.today.day = DayOf(now)
  BY <1>2 DEF DaysOfRecovery
<1>7. f.summary # None => f.summary.day <= DayOf(now)
  BY <1>2 DEF DaysOfRecovery
<1> QED BY <1>2, <1>5, <1>6, <1>7 DEF DaysOfRecovery, f

\* What a row adds changes only the summary.
LEMMA RowIsAdded ==
  ASSUME NEW r \in RecoveryType, r.summary \in Summary, NEW row \in Row
  PROVE  LET a == AddRow(r, row)
         IN /\ a \in RecoveryType /\ a.summary \in Summary /\ a.summary.day = r.summary.day
            /\ a.daily = r.daily /\ a.completed = r.completed /\ a.active = r.active
            /\ a.today = r.today /\ a.previous = r.previous
            /\ r.completed => a.summary = r.summary
            /\ ~r.completed => a.summary = Accumulated(r.summary, r.previous, row)
<1> DEFINE more == Accumulated(r.summary, r.previous, row)
           a == AddRow(r, row)
<1>1. a \in RecoveryType /\ a.summary \in Summary /\ a.summary.day = r.summary.day
  BY AddRowType, AddedRow
<1>2. a = IF r.completed THEN r ELSE [r EXCEPT !.summary = more]
  BY DEF AddRow
<1> HIDE DEF more, a
<1>3. /\ a.daily = r.daily /\ a.completed = r.completed /\ a.active = r.active
      /\ a.today = r.today /\ a.previous = r.previous
      /\ r.completed => a.summary = r.summary
      /\ ~r.completed => a.summary = more
  <2>1. CASE r.completed
    BY <1>2, <2>1
  <2>2. CASE ~r.completed
    BY <1>2, <2>2 DEF RecoveryType
  <2> QED BY <2>1, <2>2
<1> QED BY <1>1, <1>3 DEF more, a

LEMMA OpenedDay ==
  ASSUME NEW r \in RecoveryType, NEW d \in Day
  PROVE  LET o == Opened(r, d)
         IN /\ o \in RecoveryType /\ o.summary \in Summary /\ o.summary.day = d
            /\ o.daily = r.daily /\ o.active = r.active /\ o.today = r.today
            /\ o.previous = r.previous
            /\ o.completed = (r.daily[d] # Missing)
<1>1. Opened(r, d) \in RecoveryType /\ Opened(r, d).summary \in Summary
  BY OpenedType
<1> QED BY <1>1 DEF Opened, RecoveryType

\* A row that comes after the last one: the open summary is finished, if it is of another day,
\* and the row is added to that of its day.
RecoversTo(r, row, failing, cut, ready) ==
  LET d == DayOf(row.time)
      q == RecoverDailySample(r, row, failing)
  IN /\ d \in Day
     /\ IF r.summary = None THEN cut = r
        ELSE /\ cut.summary \in Summary /\ cut.summary.day = r.summary.day
             /\ cut.daily = r.daily /\ cut.completed = r.completed
             /\ cut.today = r.today /\ cut.previous = r.previous
             /\ cut.active = r.active
             /\ r.completed => cut.summary = r.summary
             /\ ~r.completed => cut.summary = Accumulated(r.summary, r.previous, row)
     /\ IF r.summary = None \/ r.summary.day # d
        THEN ready = Opened(Finished(cut, failing), d) ELSE ready = r
     /\ ready.summary \in Summary /\ ready.summary.day = d
     /\ q \in RecoveryType /\ q.summary \in Summary /\ q.summary.day = d
     /\ q.daily = ready.daily /\ q.completed = ready.completed /\ q.today = ready.today
     /\ q.active = ready.active
     /\ q.previous = [boot |-> row.boot, time |-> row.time]
     /\ ready.completed => q.summary = ready.summary
     /\ ~ready.completed => q.summary = Accumulated(ready.summary, ready.previous, row)

LEMMA RowIsRecovered ==
  ASSUME NEW r \in RecoveryType, NEW row \in Row, NEW failing,
         r.previous = None \/ r.previous.time < row.time
  PROVE  \E cut \in RecoveryType, ready \in RecoveryType :
           RecoversTo(r, row, failing, cut, ready)
<1> DEFINE d     == DayOf(row.time)
           other == r.summary = None \/ r.summary.day # d
           cut   == IF r.summary # None THEN AddRow(r, row) ELSE r
           done  == Finished(cut, failing)
           ready == IF other THEN Opened(done, d) ELSE r
           last  == [boot |-> row.boot, time |-> row.time]
           added == AddRow(ready, row)
           q     == RecoverDailySample(r, row, failing)
<1>1. d \in Day /\ row.time \in Nat
  BY DayIsDay DEF Row, Time
<1>2. r.summary # None => r.summary \in Summary
  BY DEF RecoveryType
<1>3. /\ cut \in RecoveryType
      /\ IF r.summary = None THEN cut = r
         ELSE /\ cut.summary \in Summary /\ cut.summary.day = r.summary.day
              /\ cut.daily = r.daily /\ cut.completed = r.completed
              /\ cut.today = r.today /\ cut.previous = r.previous
              /\ cut.active = r.active
              /\ r.completed => cut.summary = r.summary
              /\ ~r.completed => cut.summary = Accumulated(r.summary, r.previous, row)
  <2>1. CASE r.summary = None
    BY <2>1
  <2>2. CASE r.summary # None
    <3>1. cut = AddRow(r, row)
      BY <2>2
    <3> HIDE DEF cut
    <3> QED BY <1>2, <2>2, <3>1, RowIsAdded
  <2> QED BY <2>1, <2>2
<1> HIDE DEF cut
<1>4. done \in RecoveryType
  BY <1>3, FinishedType
<1> HIDE DEF done
<1>5. ready \in RecoveryType /\ ready.summary \in Summary /\ ready.summary.day = d
  <2> HIDE DEF d
  <2>1. CASE other
    BY <1>1, <1>4, <2>1, OpenedDay
  <2>2. CASE ~other
    BY <1>2, <2>2
  <2> QED BY <2>1, <2>2
<1>6. IF other THEN ready = Opened(done, d) ELSE ready = r
  OBVIOUS
<1>7. q = [added EXCEPT !.previous = last]
  <2>1. ~(r.previous # None /\ row.time <= r.previous.time)
    <3> SUFFICES ASSUME r.previous # None PROVE ~(row.time <= r.previous.time)
      OBVIOUS
    <3>1. r.previous.time \in Nat
      BY DEF RecoveryType, Sample, Time
    <3> QED BY <1>1, <3>1
  <2> QED BY <2>1 DEF RecoverDailySample, ready, done, cut
<1> HIDE DEF ready
<1>8. /\ added \in RecoveryType /\ added.summary \in Summary /\ added.summary.day = d
      /\ added.daily = ready.daily /\ added.completed = ready.completed
      /\ added.today = ready.today /\ added.active = ready.active
      /\ ready.completed => added.summary = ready.summary
      /\ ~ready.completed => added.summary = Accumulated(ready.summary, ready.previous, row)
  BY <1>5, RowIsAdded
<1> HIDE DEF added
<1>9. last \in Sample
  BY DEF Row, Sample
<1>10. q \in RecoveryType
  BY RowOfRecoveryType
<1> HIDE DEF q, last
<1>11. /\ q.summary = added.summary /\ q.daily = added.daily /\ q.completed = added.completed
       /\ q.today = added.today /\ q.active = added.active /\ q.previous = last
  BY <1>7, <1>8 DEF RecoveryType
<1> HIDE DEF d
<1>12. done = Finished(cut, failing)
  BY DEF done
<1>13. RecoversTo(r, row, failing, cut, ready)
  BY <1>1, <1>3, <1>5, <1>6, <1>8, <1>10, <1>11, <1>12 DEF last, q, d, RecoversTo
<1> QED BY <1>3, <1>5, <1>13

LEMMA DaysFollow ==
  ASSUME NEW t \in Nat, NEW v \in Nat, t <= v
  PROVE  DayOf(t) \in Nat /\ DayOf(v) \in Nat /\ DayOf(t) <= DayOf(v)
<1>1. /\ DayOf(t) \in Nat /\ DayStart(DayOf(t)) <= t /\ t < DayStart(DayOf(t)) + DayLength
      /\ DayOf(v) \in Nat /\ DayStart(DayOf(v)) <= v /\ v < DayStart(DayOf(v)) + DayLength
  BY DayBounds
<1>2. ASSUME DayOf(v) < DayOf(t) PROVE FALSE
  <2>1. DayStart(DayOf(v)) + DayLength <= DayStart(DayOf(t)) /\ DayStart(DayOf(v)) \in Nat
          /\ DayStart(DayOf(t)) \in Nat /\ DayLength \in Nat
    BY <1>1, <1>2, DaysInOrder, EnergyAssumption
  <2> QED BY <1>1, <2>1
<1> QED BY <1>1, <1>2

LEMMA RowDays ==
  ASSUME NEW r \in DaysOfRecovery, NEW row \in Row, NEW failing,
         DayOf(now) \in Day, DayOf(row.time) <= DayOf(now)
  PROVE  RecoverDailySample(r, row, failing) \in DaysOfRecovery
<1> DEFINE d == DayOf(row.time)
           q == RecoverDailySample(r, row, failing)
<1>1. r \in RecoveryType
  BY DEF DaysOfRecovery
<1>2. CASE ~(r.previous = None \/ r.previous.time < row.time)
  <2>1. r.previous # None /\ row.time <= r.previous.time
    <3>1. row.time \in Nat /\ (r.previous # None => r.previous.time \in Nat)
      BY <1>1 DEF RecoveryType, Sample, Row, Time
    <3> QED BY <1>2, <3>1
  <2> QED BY <2>1 DEF RecoverDailySample
<1>3. CASE r.previous = None \/ r.previous.time < row.time
  <2>1. PICK cut \in RecoveryType, ready \in RecoveryType : RecoversTo(r, row, failing, cut, ready)
    BY <1>1, <1>3, RowIsRecovered
  <2> HIDE DEF d, q
  <2>2. cut \in DaysOfRecovery
    BY <2>1 DEF DaysOfRecovery, RecoversTo
  <2>3. Finished(cut, failing) \in DaysOfRecovery
    BY <2>2, FinishedDays
  <2>4. \/ ready.daily = Finished(cut, failing).daily /\ ready.today = Finished(cut, failing).today
        \/ ready = r
    <3>1. Finished(cut, failing) \in RecoveryType
      BY <2>3 DEF DaysOfRecovery
    <3>2. \A e \in Day : /\ Opened(Finished(cut, failing), e).daily = Finished(cut, failing).daily
                         /\ Opened(Finished(cut, failing), e).today = Finished(cut, failing).today
      BY <3>1, OpenedDay
    <3> QED BY <2>1, <3>2 DEF RecoversTo
  <2>5. d <= DayOf(now)
    BY DEF d
  <2>6. q \in DaysOfRecovery
    BY <2>1, <2>3, <2>4, <2>5 DEF DaysOfRecovery, RecoversTo, d, q
  <2> QED BY <2>6 DEF q
<1> QED BY <1>2, <1>3

LEMMA RecoveredDays ==
  ASSUME MainPart, CardPart, SamplesAreTaken, NEW failing,
         \A d \in Day : daily[d] # Missing => d < DayOf(now)
  PROVE  RecoveredUnfinished(failing) \in DaysOfRecovery /\ Recovered(failing) \in DaysOfRecovery
<1> DEFINE all == rows["samples"]
<1>1. /\ all \in Seq(Row) /\ daily \in [Day -> Energy \cup {Missing}]
      /\ Len(all) \in Nat /\ DOMAIN all = 1 .. Len(all)
      /\ \A n \in DOMAIN all : all[n] \in Row
  BY RowsAreRows, WriterAssumption DEF MainPart, CardPart
<1>2. DayOf(now) \in Day /\ now \in Nat
  BY ClockIsTime DEF Time
<1>3. \A n \in 1 .. Len(all) : DayOf(all[n].time) <= DayOf(now)
  <2> SUFFICES ASSUME NEW n \in 1 .. Len(all) PROVE DayOf(all[n].time) <= DayOf(now)
    OBVIOUS
  <2>1. [boot |-> all[n].boot, time |-> all[n].time] \in taken
    BY <1>1 DEF SamplesAreTaken, CardTaken
  <2>2. all[n].time <= now
    BY <2>1 DEF SamplesAreTaken, TakenBefore
  <2>3. all[n].time \in Nat
    <3>1. all[n] \in Row
      BY <1>1
    <3> HIDE DEF all
    <3> QED BY <3>1 DEF Row, Time
  <2> QED BY <1>2, <2>2, <2>3, DaysFollow
<1>4. Recovery \in DaysOfRecovery
  BY <1>1 DEF Recovery, RecoveryType, DaysOfRecovery
<1>5. \A n \in 1 .. Len(all) : \A r \in DaysOfRecovery :
        RecoverDailySample(r, all[n], failing) \in DaysOfRecovery
  BY <1>1, <1>2, <1>3, RowDays
<1>6. RecoveredUnfinished(failing) \in DaysOfRecovery
  BY <1>1, <1>4, <1>5, RecoveryKeeps
<1> QED BY <1>2, <1>6, FinishedDays DEF Recovered

-----------------------------------------------------------------------------
(* What the steps have in common.                                           *)

\* Only a sample or the beginning of a day makes a summary to be written.
LEMMA WorkComesFrom ==
  ASSUME MainPart, WriterPart, [Next]_vars, ~TakeSample, ~BeginDay
  PROVE  /\ \A w \in ToSet(sdWorkQueue') : w.type = "daily" => w \in ToSet(sdWorkQueue)
         /\ writer'.at = "daily" =>
              \/ writer' = writer
              \/ writer'.item \in ToSet(sdWorkQueue) /\ writer'.item.type = "daily"
<1>1. ASSUME QueueSdWork(FlushWork) \/ QueueSdWork(CycleWork), NEW w \in ToSet(sdWorkQueue'),
             w.type = "daily"
      PROVE  w \in ToSet(sdWorkQueue)
  <2>1. w \in ToSet(sdWorkQueue) \/ w = FlushWork \/ w = CycleWork
    BY <1>1, WorkTypes, Queued DEF MainPart
  <2> QED BY <1>1, <2>1 DEF FlushWork, CycleWork
<1>2. CASE UNCHANGED vars \/ FlushEveryMinute \/ AddEvent \/ RestoreEnergyHistory \/ Tick
  <2>1. UNCHANGED writer
    BY <1>2 DEF vars, writerVars, FlushEveryMinute, RequestSdFlush, AddEvent, RestoreEnergyHistory,
                Tick
  <2>2. UNCHANGED sdWorkQueue \/ QueueSdWork(FlushWork)
    BY <1>2 DEF vars, writerVars, queueVars, FlushEveryMinute, RequestSdFlush, AddEvent,
                RestoreEnergyHistory, Tick
  <2> QED BY <1>1, <2>1, <2>2
<1>3. CASE Restart
  <2>1. sdWorkQueue' = <<>> /\ writer' = Idle
    BY <1>3 DEF Restart, LoseRam
  <2> QED BY <2>1 DEF ToSet, Idle
<1>4. CASE WriterStep
  <2>1. CASE PersistCycleRecord
    BY <1>1, <2>1 DEF PersistCycleRecord
  <2>2. CASE CheckSdWriterHealth
    BY <2>2 DEF CheckSdWriterHealth, queueVars
  <2>3. CASE Receive
    <3> DEFINE q    == sdWorkQueue
               item == Head(q)
    <3>1. q \in Seq(Work) /\ q # <<>> /\ Len(q) \in Nat /\ DOMAIN q = 1 .. Len(q)
      BY <2>3, LenProperties DEF Receive, MainPart
    <3>2. /\ item = q[1] /\ Tail(q) \in Seq(Work) /\ Len(Tail(q)) = Len(q) - 1
          /\ \A i \in 1 .. Len(Tail(q)) : Tail(q)[i] = q[i + 1]
      BY <3>1, HeadTailProperties
    <3>3. item \in ToSet(q)
      <4>1. 1 \in DOMAIN q
        BY <3>1, EmptySeq
      <4> QED BY <3>2, <4>1 DEF ToSet
    <3>4. \A w \in ToSet(Tail(q)) : w \in ToSet(q)
      <4>1. DOMAIN Tail(q) = 1 .. Len(q) - 1
        BY <3>2, LenProperties
      <4> SUFFICES ASSUME NEW i \in 1 .. Len(q) - 1 PROVE Tail(q)[i] \in ToSet(q)
        BY <4>1 DEF ToSet
      <4>2. i + 1 \in DOMAIN q /\ Tail(q)[i] = q[i + 1]
        BY <3>1, <3>2
      <4> QED BY <4>2 DEF ToSet
    <3>5. /\ sdWorkQueue' = Tail(q)
          /\ writer' = IF item.type = "flush" THEN Begin("samples")
                       ELSE [at |-> item.type, item |-> item]
      BY <2>3 DEF Receive
    <3> HIDE DEF item
    <3>6. writer'.at = "daily" => writer'.item = item /\ item.type = "daily"
      BY <3>5 DEF Begin
    <3> QED BY <3>3, <3>4, <3>5, <3>6
  <2>4. CASE BeginStream \/ OpenFile(DayOf(now)) \/ Look \/ CopyEntry \/ CloseFile
               \/ WriteDailySummary \/ WriteCycleRecord
    <3>1. UNCHANGED sdWorkQueue
      BY <2>4 DEF BeginStream, OpenFile, Look, CopyEntry, CloseFile, WriteDailySummary,
                  WriteCycleRecord, queueVars
    <3>2. CASE CopyEntry
      <4>1. writer \in [at : {"copy"}, stream : Stream, start : Nat, count : Nat, day : Day,
                        offset : Nat, newest : Nat, buffer : Seq(Row)]
        BY <3>2, WriterFields DEF CopyEntry, WriterPart, InFile
      <4>2. writer'.at = "copy"
        BY <3>2, <4>1 DEF CopyEntry
      <4> QED BY <3>1, <4>2
    <3>3. CASE ~CopyEntry
      <4>1. writer'.at # "daily"
        BY <2>4, <3>3 DEF BeginStream, OpenFile, Look, CloseFile, WriteDailySummary,
                    WriteCycleRecord, AfterStream, Begin, Idle
      <4> QED BY <3>1, <4>1
    <3> QED BY <3>2, <3>3
  <2> QED BY <1>4, <2>1, <2>2, <2>3, <2>4 DEF WriterStep
<1> QED BY <1>2, <1>3, <1>4 DEF Next

\* Rows are only appended, from what the task has copied in this boot.
RowsAdded(all, more) ==
  /\ Len(all) \in Nat /\ Len(more) \in Nat /\ Len(all) <= Len(more)
  /\ DOMAIN all = 1 .. Len(all) /\ DOMAIN more = 1 .. Len(more)
  /\ \A n \in 1 .. Len(all) : more[n] = all[n]
  /\ \A n \in Len(all) + 1 .. Len(more) :
       /\ writer.at = "copy" /\ writer.stream = "samples"
       /\ more[n].boot = boot
       /\ \E i \in DOMAIN writer.buffer : more[n] = writer.buffer[i]

LEMMA RowsGrow ==
  ASSUME MainPart, RingPart, CardPart, WriterPart, [Next]_vars
  PROVE  RowsAdded(rows["samples"], rows'["samples"])
<1> DEFINE all == rows["samples"]
<1>1. rows \in [Stream -> Seq(Row)] /\ "samples" \in Stream /\ all \in Seq(Row)
  BY WriterAssumption DEF CardPart
<1>2. Len(all) \in Nat /\ DOMAIN all = 1 .. Len(all)
  BY <1>1, LenProperties
<1>3. CASE rows'["samples"] = rows["samples"]
  <2> HIDE DEF all
  <2>1. rows'["samples"] = all
    BY <1>3 DEF all
  <2>2. RowsAdded(all, all)
    BY <1>2 DEF RowsAdded
  <2> QED BY <2>1, <2>2 DEF all
<1>4. ASSUME writer.at = "copy",
             NEW more \in Seq(Row), DOMAIN more \subseteq DOMAIN writer.buffer,
             \A i \in DOMAIN more : more[i] = writer.buffer[i],
             AppendRows(writer.stream, more)
      PROVE  RowsAdded(rows["samples"], rows'["samples"])
  <2>1. CASE writer.stream # "samples"
    <3>1. rows'["samples"] = rows["samples"]
      BY <1>1, <1>4, <2>1 DEF AppendRows
    <3> QED BY <1>3, <3>1
  <2>2. CASE writer.stream = "samples"
    <3>1. rows'["samples"] = all \o more
      BY <1>1, <1>4, <2>2 DEF AppendRows
    <3>2. Len(more) \in Nat /\ DOMAIN more = 1 .. Len(more)
      BY <1>4, LenProperties
    <3> DEFINE rs == all \o more
               a  == Len(all)
               b  == Len(more)
    <3>3. /\ rs \in Seq(Row) /\ Len(rs) = a + b
          /\ \A i \in 1 .. a + b : rs[i] = IF i <= a THEN all[i] ELSE more[i - a]
      BY <1>1, <1>4, ConcatProperties
    <3>4. DOMAIN rs = 1 .. a + b
      BY <3>3, LenProperties
    <3>5. \A i \in DOMAIN writer.buffer : writer.buffer[i].boot = boot
      BY <1>4, BufferIsNew
    <3> HIDE DEF rs, a, b, all
    <3>6. a \in Nat /\ b \in Nat
      BY <1>2, <3>2 DEF a, b
    <3>7. \A n \in 1 .. a : rs[n] = all[n]
      BY <3>3, <3>6
    <3>8. ASSUME NEW n \in a + 1 .. a + b
          PROVE  rs[n].boot = boot /\ \E i \in DOMAIN writer.buffer : rs[n] = writer.buffer[i]
      <4>1. n - a \in DOMAIN more /\ rs[n] = more[n - a]
        BY <3>2, <3>3, <3>6 DEF b
      <4> QED BY <1>4, <3>5, <4>1
    <3>9. RowsAdded(all, rs)
      BY <1>2, <1>4, <2>2, <3>3, <3>4, <3>6, <3>7, <3>8 DEF RowsAdded, a
    <3> QED BY <3>1, <3>9 DEF rs, all
  <2> QED BY <2>1, <2>2
<1>5. ASSUME writer.at = "copy" PROVE writer.buffer \in Seq(Row)
  BY <1>5, BufferIsNew
<1>6. ASSUME writer.at = "copy", \E kept \in Prefixes(writer.buffer) : AppendRows(writer.stream, kept)
      PROVE  RowsAdded(rows["samples"], rows'["samples"])
  <2>1. PICK kept \in Prefixes(writer.buffer) : AppendRows(writer.stream, kept)
    BY <1>6
  <2>2. kept \in Seq(Row) /\ DOMAIN kept \subseteq DOMAIN writer.buffer
          /\ \A i \in DOMAIN kept : kept[i] = writer.buffer[i]
    BY <1>5, <1>6, PrefixIsPart
  <2> QED BY <1>4, <1>6, <2>1, <2>2
<1>7. CASE Restart
  <2>1. CASE writer.at = "copy"
    BY <1>6, <1>7, <2>1 DEF Restart, LoseRam
  <2>2. CASE writer.at # "copy"
    BY <1>3, <1>7, <2>2 DEF Restart, LoseRam
  <2> QED BY <2>1, <2>2
<1>8. CASE CloseFile
  <2>1. writer.at = "copy"
    BY <1>8 DEF CloseFile
  <2>2. CASE AppendRows(writer.stream, writer.buffer)
    BY <1>4, <1>5, <2>1, <2>2
  <2>3. CASE \E kept \in Prefixes(writer.buffer) : AppendRows(writer.stream, kept)
    BY <1>6, <2>1, <2>3
  <2> QED BY <1>8, <2>2, <2>3 DEF CloseFile
<1>9. CASE ~Restart /\ ~CloseFile
  <2>1. UNCHANGED rows
    BY <1>9 DEF Next, vars, writerVars, cardVars, TakeSample, BeginDay, FlushEveryMinute,
          RequestSdFlush, AddEvent, RestoreEnergyHistory, Tick, WriterStep, PersistCycleRecord,
          CheckSdWriterHealth, Receive, BeginStream, OpenFile, Look, CopyEntry, WriteDailySummary,
          WriteCycleRecord
  <2> QED BY <1>3, <2>1
<1> QED BY <1>7, <1>8, <1>9

LEMMA ElsewhereNothingIsTaken ==
  ASSUME [Next]_vars, ~TakeSample, ~RestoreEnergyHistory, ~Restart
  PROVE  UNCHANGED <<boot, taken, restored, summary, previous>> /\ (active' => active)
<1>1. UNCHANGED <<boot, taken, restored, summary, previous>>
  BY DEF Next, vars, dayVars, timeVars, BeginDay, FlushEveryMinute, AddEvent, Tick, WriterStep
<1>2. active' => active
  BY DEF Next, vars, writerVars, BeginDay, FlushEveryMinute, RequestSdFlush, AddEvent, Tick,
         WriterStep, PersistCycleRecord, CheckSdWriterHealth, Receive, BeginStream, OpenFile, Look,
         CopyEntry, CloseFile, WriteDailySummary, WriteCycleRecord, WriterError
<1> QED BY <1>1, <1>2

LEMMA ClockMoves ==
  ASSUME MainPart, [Next]_vars
  PROVE  /\ now \in Nat /\ now' \in Nat /\ now <= now' /\ boot \in Nat
         /\ DayOf(now) \in Nat /\ DayOf(now') \in Nat /\ DayOf(now) <= DayOf(now')
         /\ ~Tick => now' = now
<1>1. now \in Nat /\ boot \in Nat
  BY ClockIsTime DEF Time, MainPart
<1>2. now' = now \/ (Tick /\ now' = now + 1)
  BY DEF Next, vars, timeVars, TakeSample, BeginDay, FlushEveryMinute, AddEvent,
         RestoreEnergyHistory, Tick, Restart, WriterStep
<1>3. now' \in Nat /\ now <= now'
  BY <1>1, <1>2
<1> HIDE DEF MainPart
<1>4. DayOf(now) \in Nat /\ DayOf(now') \in Nat /\ DayOf(now) <= DayOf(now')
  <2>1. \A t \in Nat : now <= t => DayOf(now) \in Nat /\ DayOf(t) \in Nat /\ DayOf(now) <= DayOf(t)
    BY <1>1, DaysFollow
  <2>2. DayOf(now') = now' \div DayLength
    BY EnergyAssumption DEF DayOf
  <2>3. \A t \in Nat : DayOf(t) = t \div DayLength
    BY DEF DayOf
  <2> QED BY <1>3, <2>1, <2>2, <2>3
<1> QED BY <1>1, <1>2, <1>3, <1>4

LEMMA NothingKnownYet ==
  ASSUME BootIsKnown, previous = None
  PROVE  TakenNow = {}
  BY DEF BootIsKnown

\* A sample is the last of its boot; a boot begins with none.
LEMMA BootStaysKnown ==
  ASSUME MainPart, CardPart, SamplesAreTaken, TodayObserved, DaysAreOver, BootIsKnown, [Next]_vars
  PROVE  BootIsKnown'
<1>1. /\ now \in Nat /\ now' \in Nat /\ boot \in Nat /\ DayOf(now) \in Nat /\ DayOf(now') \in Nat
      /\ DayOf(now) <= DayOf(now') /\ (~Tick => now' = now)
  BY ClockMoves
<1>2. /\ \A t \in taken : t \in Sample /\ t.boot \in Nat /\ t.time \in Nat /\ t.time <= now
      /\ None \notin Sample
  BY EnergyAssumption DEF MainPart, Sample, Time, SamplesAreTaken, TakenBefore
<1>3. /\ \A t \in taken : t.boot <= boot
      /\ \A t \in taken : t.boot = boot => previous # None /\ t.time <= previous.time
      /\ previous # None => previous.boot = boot /\ summary # None
      /\ summary # None => summary.day <= DayOf(now) /\ summary.day \in Nat
      /\ active /\ ~restored => summary = None /\ previous = None
  BY WriterAssumption DEF BootIsKnown, TakenNow, MainPart, Summary
<1>4. CASE TakeSample
  <2> DEFINE sample == [boot |-> boot, time |-> now]
             over   == summary # None /\ summary.day # DayOf(now)
             base   == IF summary = None \/ over THEN Reset(DayOf(now)) ELSE summary
  <2>1. sample \in Sample /\ DayOf(now) \in Day
    BY ClockIsTime
  <2>2. /\ taken' = taken \cup {sample} /\ previous' = sample
        /\ summary' = Accumulated(base, previous, sample)
        /\ UNCHANGED <<now, boot, active, restored>> /\ (restored \/ ~active)
    BY <1>4 DEF TakeSample, SampleDue
  <2>3. base \in Summary /\ base.day = DayOf(now)
    <3>1. Reset(DayOf(now)) \in Summary /\ Reset(DayOf(now)).day = DayOf(now)
      BY <2>1, ResetType DEF Reset
    <3> QED BY <3>1 DEF MainPart
  <2>4. summary' \in Summary /\ summary'.day = DayOf(now)
    <3> HIDE DEF base, sample
    <3> QED BY <2>1, <2>2, <2>3, AccumulatedType DEF MainPart
  <2>5. summary' # None /\ previous' # None /\ previous'.boot = boot /\ previous'.time = now
    <3>1. None \notin Summary
      BY EnergyAssumption DEF Summary, Energy, Unit
    <3> QED BY <1>2, <2>1, <2>2, <2>4, <3>1
  <2>6. \A t \in taken' : t.boot <= boot /\ t.time <= now
    BY <1>1, <1>2, <1>3, <2>2
  <2>7. DayOf(now') = DayOf(now)
    BY <2>2
  <2> HIDE DEF sample, base
  <2>8. boot' = boot /\ restored' = restored /\ active' = active
    BY <2>2
  <2> QED BY <1>1, <2>2, <2>4, <2>5, <2>6, <2>7, <2>8 DEF BootIsKnown, TakenNow
<1>5. CASE Restart
  <2>1. /\ boot' = boot + 1 /\ taken' = taken /\ previous' = None /\ summary' = None
    BY <1>5 DEF Restart
  <2>2. \A t \in taken : t.boot <= boot + 1 /\ t.boot # boot + 1
    BY <1>1, <1>2, <1>3
  <2> QED BY <2>1, <2>2 DEF BootIsKnown, TakenNow
<1>6. CASE RestoreEnergyHistory
  <2>1. PICK failing : summary' = IF Recovered(failing).today # None THEN Recovered(failing).today
                                  ELSE summary
    BY <1>6 DEF RestoreEnergyHistory
  <2>2. /\ previous' = None /\ restored' /\ UNCHANGED <<boot, taken, now>>
        /\ active /\ ~restored
    BY <1>6 DEF RestoreEnergyHistory, timeVars
  <2>3. Recovered(failing) \in DaysOfRecovery
    BY RecoveredDays DEF DaysAreOver
  <2>4. summary' # None => summary'.day = DayOf(now)
    BY <1>3, <2>1, <2>2, <2>3 DEF DaysOfRecovery
  <2>5. DayOf(now') = DayOf(now)
    BY <2>2
  <2> QED BY <1>1, <1>3, <2>2, <2>4, <2>5 DEF BootIsKnown, TakenNow
<1>7. CASE ~TakeSample /\ ~RestoreEnergyHistory /\ ~Restart
  <2>1. UNCHANGED <<boot, taken, restored, summary, previous>> /\ (active' => active)
    BY <1>7, ElsewhereNothingIsTaken
  <2> QED BY <1>1, <1>3, <2>1 DEF BootIsKnown, TakenNow
<1> QED BY <1>4, <1>5, <1>6, <1>7

\* What is queued in a step is old, or the card works.
LEMMA QueuedWhileActive ==
  ASSUME MainPart, NEW item \in Work, QueueSdWork(item)
  PROVE  \A w \in ToSet(sdWorkQueue') : w \in ToSet(sdWorkQueue) \/ (w = item /\ active)
<1>1. \A w \in ToSet(sdWorkQueue') : w \in ToSet(sdWorkQueue) \/ w = item
  BY Queued DEF MainPart
<1>2. ~active => sdWorkQueue' = sdWorkQueue
  BY DEF QueueSdWork, Room
<1> QED BY <1>1, <1>2

\* A day that is over hands its summary over, the second time with the energy up to midnight.
LEMMA WorkOfSample ==
  ASSUME MainPart, BootIsKnown, TakeSample, NEW w \in ToSet(sdWorkQueue'), w.type = "daily"
  PROVE  \/ w \in ToSet(sdWorkQueue)
         \/ /\ active /\ summary \in Summary /\ w.day = summary.day /\ w.day < DayOf(now)
            /\ w.energy = Accumulated(summary, previous, [boot |-> boot, time |-> now]).energy
<1> DEFINE sample == [boot |-> boot, time |-> now]
           over   == summary # None /\ summary.day # DayOf(now)
           s      == Accumulated(summary, previous, sample)
<1>1. CASE ~over
  BY <1>1 DEF TakeSample
<1>2. CASE over
  <2>1. summary \in Summary /\ sample \in Sample /\ previous \in Sample \cup {None}
    BY <1>2, ClockIsTime DEF MainPart
  <2>2. s \in Summary /\ s.day = summary.day
    BY <2>1, AccumulatedType
  <2>3. QueueSdWork(DailyWork(s.day, s.energy))
    BY <1>2 DEF TakeSample, PersistDailySummary
  <2>4. summary.day < DayOf(now)
    <3>1. summary.day \in Nat /\ summary.day <= DayOf(now) /\ DayOf(now) \in Nat
      BY <1>2, <2>1, WriterAssumption, ClockIsTime DEF BootIsKnown, Summary
    <3> QED BY <1>2, <3>1
  <2> HIDE DEF s
  <2>5. DailyWork(s.day, s.energy) \in Work
    BY <2>2, WorkTypes DEF Summary
  <2>6. w \in ToSet(sdWorkQueue) \/ (w = DailyWork(s.day, s.energy) /\ active)
    BY <2>3, <2>5, QueuedWhileActive
  <2> QED BY <2>1, <2>2, <2>4, <2>6 DEF DailyWork, s
<1> QED BY <1>1, <1>2

LEMMA WorkOfDay ==
  ASSUME MainPart, BeginDay, NEW w \in ToSet(sdWorkQueue'), w.type = "daily"
  PROVE  \/ w \in ToSet(sdWorkQueue)
         \/ /\ active /\ summary \in Summary /\ w.day = summary.day /\ w.day < DayOf(now)
            /\ w.energy = summary.energy
<1>1. CASE summary # None /\ summary.day < DayOf(now)
  <2>1. summary \in Summary /\ DailyWork(summary.day, summary.energy) \in Work
    BY <1>1, WorkTypes DEF MainPart, Summary
  <2>2. QueueSdWork(DailyWork(summary.day, summary.energy))
    BY <1>1 DEF BeginDay, PersistDailySummary
  <2>3. w \in ToSet(sdWorkQueue) \/ (w = DailyWork(summary.day, summary.energy) /\ active)
    BY <2>1, <2>2, QueuedWhileActive
  <2> QED BY <1>1, <2>1, <2>3 DEF DailyWork
<1>2. CASE ~(summary # None /\ summary.day < DayOf(now))
  BY <1>2 DEF BeginDay
<1> QED BY <1>1, <1>2

\* Only the task and a recovery store a summary.
LEMMA StoredElsewhere ==
  ASSUME [Next]_vars, ~WriteDailySummary, ~RestoreEnergyHistory
  PROVE  UNCHANGED daily
  BY DEF Next, vars, writerVars, cardVars, TakeSample, BeginDay, FlushEveryMinute, RequestSdFlush,
         AddEvent, Tick, Restart, LoseRam, WriterStep, PersistCycleRecord, CheckSdWriterHealth,
         Receive, BeginStream, OpenFile, Look, CopyEntry, CloseFile, WriteCycleRecord

\* The task keeps to the day of the file it has opened.
LEMMA FileIsOfToday ==
  ASSUME MainPart, WriterPart, [Next]_vars, writer'.at \in {"look", "copy"}
  PROVE  \/ writer' = writer
         \/ /\ OpenFile(DayOf(now)) /\ writer'.at = "look" /\ writer'.day = DayOf(now)
            /\ writer'.stream = writer.stream
         \/ /\ Look /\ writer.at = "look" /\ writer'.at = "copy" /\ writer'.stream = writer.stream
            /\ writer'.day = writer.day /\ writer'.buffer = <<>>
         \/ /\ CopyEntry /\ writer.at = "copy" /\ writer'.at = "copy"
            /\ writer'.stream = writer.stream /\ writer'.day = writer.day
<1>1. CASE OpenFile(DayOf(now))
  <2>1. writer' = [at |-> "look", stream |-> writer.stream, start |-> writer.start,
                   count |-> writer.count, day |-> DayOf(now)]
    BY <1>1 DEF OpenFile, AfterStream, Begin, Idle
  <2> QED BY <1>1, <2>1
<1>2. CASE Look
  <2>1. writer.at = "look"
    BY <1>2 DEF Look
  <2> QED BY <1>2, <2>1 DEF Look
<1>3. CASE CopyEntry
  <2>1. writer \in [at : {"copy"}, stream : Stream, start : Nat, count : Nat, day : Day,
                    offset : Nat, newest : Nat, buffer : Seq(Row)]
    BY <1>3, WriterFields DEF CopyEntry, WriterPart
  <2>2. writer'.at = "copy" /\ writer'.stream = writer.stream /\ writer'.day = writer.day
    BY <1>3, <2>1 DEF CopyEntry
  <2> QED BY <1>3, <2>1, <2>2
<1>4. CASE Restart
  BY <1>4 DEF Restart, LoseRam, Idle
<1>5. CASE Receive
  <2>1. writer'.at # "look" /\ writer'.at # "copy"
    <3>1. CASE Head(sdWorkQueue).type = "flush"
      BY <1>5, <3>1 DEF Receive, Begin
    <3>2. CASE Head(sdWorkQueue).type # "flush"
      <4>1. Head(sdWorkQueue) \in Work
        <5>1. sdWorkQueue \in Seq(Work) /\ sdWorkQueue # <<>>
          BY <1>5 DEF Receive, MainPart
        <5> QED BY <5>1, HeadTailProperties
      <4>2. writer'.at = Head(sdWorkQueue).type
        BY <1>5, <3>2 DEF Receive
      <4>3. Head(sdWorkQueue).type \in {"flush", "cycle", "daily"}
        BY <4>1, WorkTypes
      <4> QED BY <4>2, <4>3
    <3> QED BY <3>1, <3>2
  <2> QED BY <2>1
<1>6. CASE BeginStream \/ CloseFile \/ WriteDailySummary \/ WriteCycleRecord
  BY <1>6 DEF BeginStream, CloseFile, WriteDailySummary, WriteCycleRecord, AfterStream, Begin, Idle
<1>7. CASE ~Restart /\ ~Receive /\ ~BeginStream /\ ~OpenFile(DayOf(now)) /\ ~Look /\ ~CopyEntry
           /\ ~CloseFile /\ ~WriteDailySummary /\ ~WriteCycleRecord
  BY <1>7 DEF Next, vars, writerVars, TakeSample, BeginDay, FlushEveryMinute, RequestSdFlush,
     AddEvent, RestoreEnergyHistory, Tick, WriterStep, PersistCycleRecord, CheckSdWriterHealth
<1> QED BY <1>1, <1>2, <1>3, <1>4, <1>5, <1>6, <1>7

LEMMA DaysStayOver ==
  ASSUME MainPart, CardPart, WriterPart, SamplesAreTaken, BootIsKnown, DaysAreOver, [Next]_vars
  PROVE  DaysAreOver'
<1>1. /\ DayOf(now) \in Nat /\ DayOf(now') \in Nat /\ DayOf(now) <= DayOf(now')
      /\ DayOf(now)' = DayOf(now')
  BY ClockMoves
<1>2. /\ \A d \in Day : d \in Nat
      /\ \A d \in Day : daily[d] # Missing => d < DayOf(now) /\ ~InFileOf(d)
  BY WriterAssumption DEF DaysAreOver
<1>3. \A w \in ToSet(sdWorkQueue) : w.type = "daily" => w.day \in Nat /\ w.day < DayOf(now)
  <2>1. \A w \in ToSet(sdWorkQueue) : w \in Work
    <3>1. \A i \in 1 .. Len(sdWorkQueue) : sdWorkQueue[i] \in Work
      BY ElementOfSeq DEF MainPart
    <3> QED BY <3>1, LenProperties DEF ToSet, MainPart
  <2> QED BY <1>2, <2>1, WorkTypes DEF DaysAreOver
<1>4. writer.at = "daily" => writer.item.day \in Day /\ writer.item.day < DayOf(now)
  <2>1. writer.at = "daily" => writer.item \in Work /\ writer.item.type = "daily"
    BY WriterFields DEF WriterPart
  <2> QED BY <2>1, WorkTypes DEF DaysAreOver
<1>5. \A w \in ToSet(sdWorkQueue') : w.type = "daily" => w.day \in Nat /\ w.day < DayOf(now)
  <2> SUFFICES ASSUME NEW w \in ToSet(sdWorkQueue'), w.type = "daily"
               PROVE  w.day \in Nat /\ w.day < DayOf(now)
    OBVIOUS
  <2>1. CASE TakeSample
    BY <1>2, <1>3, <2>1, WorkOfSample DEF Summary
  <2>2. CASE BeginDay
    BY <1>2, <1>3, <2>2, WorkOfDay DEF Summary
  <2>3. CASE ~TakeSample /\ ~BeginDay
    BY <1>3, <2>3, WorkComesFrom
  <2> QED BY <2>1, <2>2, <2>3
<1>6. writer'.at = "daily" => writer'.item.day \in Nat /\ writer'.item.day < DayOf(now)
  <2>1. CASE TakeSample \/ BeginDay
    BY <1>2, <1>4, <2>1 DEF TakeSample, BeginDay
  <2>2. CASE ~TakeSample /\ ~BeginDay
    BY <1>2, <1>3, <1>4, <2>2, WorkComesFrom
  <2> QED BY <2>1, <2>2
<1>7. ASSUME NEW d \in Day, daily'[d] # Missing
      PROVE  d < DayOf(now) /\ ~(writer'.at \in {"look", "copy"} /\ writer'.stream = "samples"
                                  /\ writer'.day = d)
  <2>1. CASE RestoreEnergyHistory
    <3>1. PICK failing : daily' = Recovered(failing).daily
      BY <2>1 DEF RestoreEnergyHistory
    <3>2. Recovered(failing) \in DaysOfRecovery
      BY <1>2, RecoveredDays
    <3>3. d < DayOf(now)
      BY <1>7, <3>1, <3>2 DEF DaysOfRecovery
    <3> QED BY <2>1, <3>3 DEF RestoreEnergyHistory
  <2>2. CASE WriteDailySummary
    <3>1. daily' = daily \/ daily' = [daily EXCEPT ![writer.item.day] = writer.item.energy]
      BY <2>2 DEF WriteDailySummary
    <3>2. writer' = Idle /\ writer.at = "daily"
      BY <2>2 DEF WriteDailySummary
    <3>3. daily[d] # Missing \/ d = writer.item.day
      BY <1>7, <3>1 DEF MainPart
    <3> QED BY <1>2, <1>4, <3>2, <3>3 DEF Idle
  <2>3. CASE ~RestoreEnergyHistory /\ ~WriteDailySummary
    <3>1. daily' = daily
      BY <2>3, StoredElsewhere
    <3>2. d < DayOf(now) /\ ~InFileOf(d) /\ d \in Nat
      BY <1>2, <1>7, <3>1
    <3> QED BY <1>1, <3>2, FileIsOfToday DEF InFileOf
  <2> QED BY <2>1, <2>2, <2>3
<1>8. \A k \in Nat : k < DayOf(now) => k < DayOf(now')
  BY <1>1
<1>9. \A d \in Day : daily'[d] # Missing => d < DayOf(now') /\ ~InFileOf(d)'
  BY <1>2, <1>7, <1>8 DEF InFileOf
<1>10. /\ \A w \in ToSet(sdWorkQueue') : w.type = "daily" => w.day < DayOf(now')
       /\ writer'.at = "daily" => writer'.item.day < DayOf(now')
  BY <1>5, <1>6, <1>8
<1> QED BY <1>1, <1>9, <1>10 DEF DaysAreOver, ToSet

\* The rows of a file come after those of the files before, and those of a boot after those of
\* the boots before.
LEMMA RowsStayByDay ==
  ASSUME MainPart, RingPart, CardPart, WriterPart, RowsByDay, [Next]_vars
  PROVE  RowsByDay'
<1> DEFINE all  == rows["samples"]
           more == rows'["samples"]
<1>1. /\ DayOf(now) \in Nat /\ DayOf(now') \in Nat /\ DayOf(now) <= DayOf(now')
      /\ DayOf(now)' = DayOf(now') /\ boot \in Nat
  BY ClockMoves
<1>2. RowsAdded(all, more)
  BY RowsGrow
<1>3. /\ all \in Seq(Row) /\ \A n \in DOMAIN all : all[n].day \in Nat /\ all[n].boot \in Nat
                                                  /\ all[n].boot <= boot
  <2>1. all \in Seq(Row) /\ \A n \in DOMAIN all : all[n] \in Row /\ all[n].boot <= boot
    BY RowsAreRows, WriterAssumption DEF CardPart, RowsAreFlushed
  <2> HIDE DEF all
  <2> QED BY <2>1, WriterAssumption DEF Row
<1>4. writer.at \in {"look", "copy"} => writer.day \in Nat
  BY WriterFields, WriterAssumption DEF WriterPart
<1> HIDE DEF all, more
<1>5. /\ \A n \in DOMAIN all :
           /\ all[n].day <= DayOf(now)
           /\ \A k \in 1 .. n - 1 : all[k].day <= all[n].day /\ all[k].boot <= all[n].boot
      /\ writer.at \in {"look", "copy"} /\ writer.stream = "samples" =>
           writer.day <= DayOf(now) /\ \A n \in DOMAIN all : all[n].day <= writer.day
      /\ writer.at = "copy" /\ writer.stream = "samples" =>
           \A i \in DOMAIN writer.buffer : writer.buffer[i].day = writer.day
  BY DEF RowsByDay, all
<1>6. \A n \in DOMAIN more :
        \/ n \in DOMAIN all /\ more[n] = all[n]
        \/ /\ n \notin DOMAIN all /\ writer.at = "copy" /\ writer.stream = "samples"
           /\ more[n].boot = boot /\ more[n].day = writer.day
  BY <1>2, <1>5 DEF RowsAdded
<1>7. \A n \in DOMAIN more : more[n].day <= DayOf(now)
  BY <1>5, <1>6
<1>8. ASSUME NEW n \in DOMAIN more, NEW k \in 1 .. n - 1
      PROVE  more[k].day <= more[n].day /\ more[k].boot <= more[n].boot
  <2>1. k \in DOMAIN more /\ (n \in DOMAIN all => k \in DOMAIN all)
    BY <1>2 DEF RowsAdded
  <2>2. CASE n \in DOMAIN all
    <3>1. more[n] = all[n] /\ more[k] = all[k]
      BY <1>6, <2>1, <2>2
    <3> QED BY <1>5, <2>2, <3>1
  <2>3. CASE n \notin DOMAIN all
    <3>1. /\ writer.at = "copy" /\ writer.stream = "samples"
          /\ more[n].boot = boot /\ more[n].day = writer.day
      BY <1>6, <2>3
    <3>2. \/ k \in DOMAIN all /\ more[k] = all[k]
          \/ more[k].boot = boot /\ more[k].day = writer.day
      BY <1>6, <2>1
    <3> QED BY <1>1, <1>3, <1>4, <1>5, <3>1, <3>2
  <2> QED BY <2>2, <2>3
<1>9. ASSUME writer'.at \in {"look", "copy"}, writer'.stream = "samples"
      PROVE  writer'.day <= DayOf(now) /\ \A n \in DOMAIN more : more[n].day <= writer'.day
  <2>1. CASE writer' = writer
    <3>1. \A n \in DOMAIN more : more[n].day <= writer.day
      BY <1>4, <1>5, <1>6, <1>9, <2>1
    <3> QED BY <1>5, <1>9, <2>1, <3>1
  <2>2. CASE writer' # writer
    <3>1. \/ OpenFile(DayOf(now)) /\ writer'.at = "look" /\ writer'.day = DayOf(now)
          \/ /\ Look \/ CopyEntry
             /\ writer.at \in {"look", "copy"} /\ writer'.stream = writer.stream
             /\ writer'.day = writer.day
      BY <1>9, <2>2, FileIsOfToday
    <3>2. rows' = rows
      BY <3>1 DEF OpenFile, Look, CopyEntry, cardVars
    <3>3. more = all
      BY <3>2 DEF more, all
    <3> QED BY <1>1, <1>5, <1>9, <3>1, <3>3
  <2> QED BY <2>1, <2>2
<1>10. ASSUME writer'.at = "copy", writer'.stream = "samples"
       PROVE  \A i \in DOMAIN writer'.buffer : writer'.buffer[i].day = writer'.day
  <2>1. CASE writer' = writer
    BY <1>5, <1>10, <2>1
  <2>2. CASE Look /\ writer'.buffer = <<>>
    BY <2>2
  <2>3. CASE CopyEntry
    <3> DEFINE entry == ram[writer.stream].slots[(writer.start + writer.offset) % setup.ring]
               next  == [writer EXCEPT !.offset = @ + 1]
               row   == RowOf(entry, writer.day)
    <3>1. writer \in [at : {"copy"}, stream : Stream, start : Nat, count : Nat, day : Day,
                      offset : Nat, newest : Nat, buffer : Seq(Row)]
      BY <2>3, WriterFields DEF CopyEntry, WriterPart
    <3>2. \/ writer' = next
          \/ writer' = [next EXCEPT !.buffer = Append(@, row),
                          !.newest = IF entry.sequence > @ THEN entry.sequence ELSE @]
      BY <2>3 DEF CopyEntry
    <3>3. row.day = writer.day
      BY DEF RowOf
    <3> HIDE DEF entry, row
    <3> DEFINE a == Append(writer.buffer, row)
               m == Len(writer.buffer)
               T == Row \cup {row}
    <3>4. /\ writer'.stream = writer.stream /\ writer'.day = writer.day
          /\ writer'.buffer = writer.buffer \/ writer'.buffer = a
      BY <3>1, <3>2
    <3>5. m \in Nat /\ DOMAIN writer.buffer = 1 .. m /\ DOMAIN a = 1 .. m + 1
            /\ (\A i \in 1 .. m : a[i] = writer.buffer[i]) /\ a[m + 1] = row
      <4>1. m \in Nat /\ DOMAIN writer.buffer = 1 .. m /\ writer.buffer \in [1 .. m -> Row]
        BY <3>1, LenProperties
      <4>2. writer.buffer \in Seq(T) /\ row \in T
        BY <4>1
      <4> HIDE DEF T
      <4>3. /\ a \in Seq(T) /\ Len(a) = m + 1
            /\ \A i \in 1 .. m : a[i] = writer.buffer[i]
            /\ a[m + 1] = row
        BY <4>2, AppendProperties
      <4>4. DOMAIN a = 1 .. m + 1
        BY <4>3, LenProperties
      <4> QED BY <4>1, <4>3, <4>4
    <3> HIDE DEF a, m
    <3> QED BY <1>5, <1>10, <3>1, <3>3, <3>4, <3>5
  <2> QED BY <1>10, <2>1, <2>2, <2>3, FileIsOfToday
<1>11. \A n \in DOMAIN more : more[n].day \in Nat
  BY <1>3, <1>4, <1>6
<1>12. /\ \A n \in DOMAIN more : more[n].day <= DayOf(now')
       /\ writer'.at \in {"look", "copy"} /\ writer'.stream = "samples" =>
            writer'.day <= DayOf(now')
  <2>1. writer'.at \in {"look", "copy"} /\ writer'.stream = "samples" => writer'.day \in Nat
    BY <1>1, <1>4, FileIsOfToday
  <2> QED BY <1>1, <1>7, <1>9, <1>11, <2>1
<1> QED BY <1>1, <1>8, <1>9, <1>10, <1>12 DEF RowsByDay, more

-----------------------------------------------------------------------------
(* What a summary counts.                                                   *)

LEMMA MoreIsObserved ==
  ASSUME NEW known, NEW more, known \subseteq more
  PROVE  Observed(known) \subseteq Observed(more)
  BY DEF Observed

LEMMA CountsMore ==
  ASSUME NEW s, NEW t, NEW samples, t.day = s.day, CountsAll(s, samples),
         s.energy \in Energy, t.energy \in Energy, \A u \in Unit : t.energy[u] >= s.energy[u]
  PROVE  CountsAll(t, samples)
<1> SUFFICES ASSUME NEW u \in Observed(samples), DayOf(u) = t.day PROVE t.energy[u] >= 1
  BY DEF CountsAll
<1>1. u \in Unit /\ s.energy[u] >= 1
  BY DEF CountsAll, Observed
<1>2. s.energy[u] \in Nat /\ t.energy[u] \in Nat /\ t.energy[u] >= s.energy[u]
  BY <1>1 DEF Energy
<1> QED BY <1>1, <1>2

LEMMA CountsAllCountsMost ==
  ASSUME NEW s, NEW samples, CountsAll(s, samples)
  PROVE  CountsMost(s, samples)
  BY DEF CountsAll, CountsMost

\* Every unit between two connected samples that is of the day of the summary is added.
LEMMA AccumulatedAdds ==
  ASSUME NEW s \in Summary, NEW a \in Sample \cup {None}, NEW row \in Row \cup Sample
  PROVE  LET r == Accumulated(s, a, row)
         IN /\ r \in Summary /\ r.day = s.day /\ r.energy \in Energy
            /\ \A u \in Unit : r.energy[u] >= s.energy[u]
            /\ a # None /\ a.boot = row.boot /\ row.time - a.time <= MaxGap =>
                 \A u \in Unit : a.time <= u /\ u < row.time /\ DayOf(u) = s.day => r.energy[u] >= 1
<1> DEFINE day   == DayOf(row.time)
           upper == IF day > s.day THEN DayStart(day) ELSE row.time
           lower == DayStart(s.day)
           r     == Accumulated(s, a, row)
           more(u) == u \in a.time .. row.time - 1 /\ u \in lower .. upper - 1
<1>1. r \in Summary /\ r.day = s.day /\ r.energy \in Energy
  <2>1. r \in Summary /\ r.day = s.day
    BY AccumulatedType
  <2> HIDE DEF r
  <2> QED BY <2>1 DEF Summary
<1>2. row.time \in Nat /\ s.day \in Nat /\ s.energy \in [Unit -> Nat] /\ (a # None => a.time \in Nat)
        /\ DayLength \in Nat
  <2>1. row.time \in Nat /\ (a # None => a.time \in Nat)
    BY DEF Row, Sample, Time
  <2>2. s.day \in Nat /\ s.energy \in [Unit -> Nat]
    BY WriterAssumption DEF Summary, Energy
  <2> QED BY <2>1, <2>2, EnergyAssumption
<1>3. CASE a = None \/ ~Connected(a, row)
  <2>1. r = s \/ r = [s EXCEPT !.energy = s.energy]
    BY <1>3 DEF Accumulated, AddEnergyPair
  <2>2. r.energy = s.energy
    BY <2>1 DEF Summary
  <2>3. \A u \in Unit : r.energy[u] >= s.energy[u]
    BY <1>2, <2>2
  <2>4. ASSUME a # None, a.boot = row.boot, row.time - a.time <= MaxGap, NEW u \in Unit,
               a.time <= u, u < row.time
        PROVE  FALSE
    <3>1. u \in Nat
      BY EnergyAssumption DEF Unit
    <3> QED BY <1>2, <1>3, <2>4, <3>1 DEF Connected
  <2> HIDE DEF r
  <2>5. a # None /\ a.boot = row.boot /\ row.time - a.time <= MaxGap =>
          \A u \in Unit : a.time <= u /\ u < row.time /\ DayOf(u) = s.day => r.energy[u] >= 1
    BY <2>4
  <2> QED BY <1>1, <2>3, <2>5 DEF r
<1>4. CASE a # None /\ Connected(a, row)
  <2>1. r = [s EXCEPT !.energy = [u \in Unit |-> IF more(u) THEN s.energy[u] + 1 ELSE s.energy[u]]]
    BY <1>4 DEF Accumulated, AddEnergyPair
  <2>2. \A u \in Unit : r.energy[u] = IF more(u) THEN s.energy[u] + 1 ELSE s.energy[u]
    <3> HIDE DEF more
    <3> QED BY <2>1 DEF Summary
  <2>3. ASSUME NEW u \in Unit, a.time <= u, u < row.time, DayOf(u) = s.day
        PROVE  more(u)
    <3>1. u \in Nat
      BY EnergyAssumption DEF Unit
    <3>2. lower <= u /\ u < lower + DayLength /\ lower \in Nat
      <4>1. lower \in Nat
        BY <1>2 DEF DayStart
      <4> QED BY <2>3, <3>1, <4>1, <1>2, DayBounds
    <3>3. day \in Nat /\ DayStart(day) \in Nat
      <4>1. day \in Nat
        BY <1>2, DayBounds
      <4> QED BY <1>2, <4>1 DEF DayStart
    <3>4. day > s.day => lower + DayLength <= DayStart(day)
      BY <1>2, <3>3, DaysInOrder
    <3> HIDE DEF lower, day
    <3>5. u < upper /\ upper \in Nat
      BY <1>2, <2>3, <3>1, <3>2, <3>3, <3>4
    <3> HIDE DEF upper
    <3> QED BY <1>2, <1>4, <2>3, <3>1, <3>2, <3>5
  <2> HIDE DEF more, r
  <2>4. \A u \in Unit : r.energy[u] >= s.energy[u] /\ (more(u) => r.energy[u] >= 1)
    BY <1>2, <2>2
  <2>5. \A u \in Unit : a.time <= u /\ u < row.time /\ DayOf(u) = s.day => r.energy[u] >= 1
    BY <2>3, <2>4
  <2> QED BY <1>1, <2>4, <2>5 DEF r
<1> QED BY <1>3, <1>4

\* A sample later than all others shows only what lies before it.
LEMMA NewlyObserved ==
  ASSUME NEW known \in SUBSET Sample, NEW s \in Sample, \A t \in known : t.time <= s.time,
         NEW u \in Observed(known \cup {s}), u \notin Observed(known)
  PROVE  \E a \in known : /\ a.boot = s.boot /\ s.time - a.time <= MaxGap
                          /\ a.time <= u /\ u < s.time
<1>1. PICK a \in known \cup {s}, b \in known \cup {s} :
        a.boot = b.boot /\ b.time - a.time <= MaxGap /\ u \in a.time .. b.time - 1
  BY DEF Observed
<1>2. \A t \in known \cup {s} : t.time \in Nat /\ t.time <= s.time
  BY DEF Sample, Time
<1>3. u \in Unit /\ u \in Nat
  BY EnergyAssumption DEF Observed, Unit
<1>4. a.time <= u /\ u < b.time
  BY <1>1, <1>2, <1>3
<1>5. a # s
  BY <1>2, <1>3, <1>4
<1>6. b = s
  <2>1. ASSUME b \in known PROVE u \in Observed(known)
    BY <1>1, <1>3, <1>5, <2>1 DEF Observed
  <2> QED BY <2>1
<1> QED BY <1>1, <1>4, <1>5, <1>6

\* What lies before a sample, and after the midnight before, is not of the days before.
LEMMA LateIsExcepted ==
  ASSUME NEW t \in Nat, NEW d \in Nat, d < DayOf(t), NEW u \in Nat, t - u <= MaxGap
  PROVE  ~(u < DayStart(d + 1) - MaxGap)
<1>1. DayOf(t) \in Nat /\ DayStart(DayOf(t)) <= t /\ MaxGap \in Nat /\ DayLength \in Nat
  BY DayBounds, EnergyAssumption
<1>2. DayStart(d + 1) <= DayStart(DayOf(t)) /\ DayStart(d + 1) \in Nat /\ DayStart(DayOf(t)) \in Nat
  <2>1. CASE d + 1 = DayOf(t)
    BY <1>1, <2>1 DEF DayStart
  <2>2. CASE d + 1 < DayOf(t)
    BY <1>1, <2>2, DaysInOrder
  <2> QED BY <1>1, <2>1, <2>2
<1> QED BY <1>1, <1>2

-----------------------------------------------------------------------------
(* Every step misses nothing.                                               *)

NothingMissed == StoredDaysCount /\ QueueCounts /\ ItemCounts /\ TodayCounts /\ OldDaysAreRecovered

LEMMA SampleMissesNothing ==
  ASSUME MainPart, WriterPart, SamplesAreTaken, TodayObserved, BootIsKnown, DaysAreOver, TakeSample,
         NothingMissed
  PROVE  NothingMissed'
<1> DEFINE sample == [boot |-> boot, time |-> now]
           over   == summary # None /\ summary.day # DayOf(now)
           base   == IF summary = None \/ over THEN Reset(DayOf(now)) ELSE summary
<1>1. /\ sample \in Sample /\ sample.boot = boot /\ sample.time = now
      /\ DayOf(now) \in Day /\ DayOf(now) \in Nat /\ now \in Nat
  <2>1. now \in Nat /\ DayOf(now) \in Day
    BY ClockIsTime DEF Time
  <2>3. DayOf(now) \in Nat
    BY <2>1, WriterAssumption
  <2>2. sample \in Sample
    BY ClockIsTime
  <2> QED BY <2>1, <2>2, <2>3
<1>2. /\ taken' = taken \cup {sample}
      /\ summary' = Accumulated(base, previous, sample)
      /\ UNCHANGED <<writer, rows, daily, now, boot, active, restored>>
      /\ restored \/ ~active
  BY DEF TakeSample, SampleDue, cardVars
<1>3. base \in Summary /\ base.day = DayOf(now)
  <2>1. Reset(DayOf(now)) \in Summary /\ Reset(DayOf(now)).day = DayOf(now)
    BY <1>1, ResetType DEF Reset
  <2> QED BY <2>1 DEF MainPart
<1>4. previous \in Sample \cup {None} /\ (summary # None => summary \in Summary)
  BY DEF MainPart
<1> HIDE DEF sample, base
<1>5. /\ summary' \in Summary /\ summary'.day = DayOf(now) /\ summary'.energy \in Energy
      /\ \A u \in Unit : summary'.energy[u] >= base.energy[u]
      /\ previous # None /\ previous.boot = boot /\ now - previous.time <= MaxGap =>
           \A u \in Unit : previous.time <= u /\ u < now /\ DayOf(u) = DayOf(now)
                             => summary'.energy[u] >= 1
  BY <1>1, <1>2, <1>3, <1>4, AccumulatedAdds
<1>6. /\ TakenNow \in SUBSET Sample /\ TakenNow' = TakenNow \cup {sample}
      /\ \A t \in TakenNow : t \in Sample /\ t.boot = boot /\ t.time \in Nat /\ t.time <= now
                             /\ previous # None /\ t.time <= previous.time
  <2>1. taken \subseteq Sample
    BY DEF MainPart
  <2>2. \A t \in taken : t \in Sample /\ t.time \in Nat /\ t.time <= now
    BY <2>1 DEF Sample, Time, SamplesAreTaken, TakenBefore
  <2>3. TakenNow' = {t \in taken \cup {sample} : t.boot = boot}
    BY <1>2 DEF TakenNow
  <2> QED BY <1>1, <2>2, <2>3 DEF TakenNow, BootIsKnown
<1>7. \A u \in Observed(TakenNow') : u \in Observed(TakenNow)
        \/ (u \in Unit /\ u \in Nat /\ u < now
              /\ \E a \in TakenNow : now - a.time <= MaxGap /\ a.time <= u)
  <2> SUFFICES ASSUME NEW u \in Observed(TakenNow'), u \notin Observed(TakenNow)
               PROVE  u \in Unit /\ u \in Nat /\ u < now
                        /\ \E a \in TakenNow : now - a.time <= MaxGap /\ a.time <= u
    OBVIOUS
  <2>1. u \in Unit /\ u \in Nat
    BY EnergyAssumption DEF Observed, Unit
  <2>2. \E a \in TakenNow : /\ a.boot = sample.boot /\ sample.time - a.time <= MaxGap
                            /\ a.time <= u /\ u < sample.time
    BY <1>1, <1>6, NewlyObserved
  <2> QED BY <1>1, <2>1, <2>2
<1>8. ASSUME NEW w, w.day \in Nat, w.day < DayOf(now), CountsMost(w, TakenNow)
      PROVE  CountsMost(w, TakenNow')
  <2> SUFFICES ASSUME NEW u \in Observed(TakenNow'), DayOf(u) = w.day,
                      u < DayStart(w.day + 1) - MaxGap, u \notin Observed(TakenNow)
               PROVE  FALSE
    BY <1>8 DEF CountsMost
  <2>1. PICK a \in TakenNow : now - a.time <= MaxGap /\ a.time <= u /\ u \in Nat
    BY <1>7
  <2>2. now - u <= MaxGap
    <3>1. a.time \in Nat /\ MaxGap \in Nat
      BY <1>6, EnergyAssumption
    <3> QED BY <1>1, <2>1, <3>1
  <2> QED BY <1>1, <1>8, <2>1, <2>2, LateIsExcepted
<1>9. ASSUME NEW u \in Observed(TakenNow'), DayOf(u) = DayOf(now), u \notin Observed(TakenNow)
      PROVE  summary'.energy[u] >= 1
  <2>1. PICK a \in TakenNow : now - a.time <= MaxGap /\ a.time <= u
    BY <1>7, <1>9
  <2>2. u \in Unit /\ u \in Nat /\ u < now
    BY <1>7, <1>9
  <2>3. /\ a.time \in Nat /\ a.boot = boot /\ previous # None /\ a.time <= previous.time
        /\ previous.boot = boot /\ previous \in TakenNow /\ previous.time \in Nat
        /\ previous.time <= now /\ MaxGap \in Nat
    <3>1. previous # None => previous.boot = boot /\ previous \in taken
      BY DEF BootIsKnown, TodayObserved
    <3>2. previous # None => previous \in TakenNow
      BY <3>1 DEF TakenNow
    <3> QED BY <1>6, <3>1, <3>2, EnergyAssumption
  <2>4. CASE u < previous.time
    <3>1. u \in a.time .. previous.time - 1 /\ previous.time - a.time <= MaxGap
      BY <1>1, <2>1, <2>2, <2>3, <2>4
    <3>2. u \in Observed(TakenNow)
      BY <2>2, <2>3, <3>1 DEF Observed
    <3> QED BY <1>9, <3>2
  <2>5. CASE previous.time <= u
    <3>1. now - previous.time <= MaxGap
      BY <1>1, <2>1, <2>3
    <3> QED BY <1>5, <1>9, <2>2, <2>3, <2>5, <3>1
  <2> QED BY <2>2, <2>3, <2>4, <2>5
<1>10. \A d : OldRows(d)' = OldRows(d) /\ FileOf(d)' = FileOf(d)
  BY <1>2 DEF OldRows, FileOf, ToSet
<1>11. StoredDaysCount'
  BY <1>2, <1>10 DEF NothingMissed, StoredDaysCount
<1>12. \A w \in ToSet(sdWorkQueue) : w.type = "daily" =>
         w.day \in Nat /\ w.day < DayOf(now) /\ WorkCounts(w)
  <2>1. \A w \in ToSet(sdWorkQueue) : w \in Work
    <3>1. \A i \in 1 .. Len(sdWorkQueue) : sdWorkQueue[i] \in Work
      BY ElementOfSeq DEF MainPart
    <3> QED BY <3>1, LenProperties DEF ToSet, MainPart
  <2> QED BY <2>1, WorkTypes, WriterAssumption DEF DaysAreOver, NothingMissed, QueueCounts
<1>13. ASSUME NEW w, w.day \in Nat, w.day < DayOf(now), WorkCounts(w)
       PROVE  CountsMost(w, OldRows(w.day)') /\ CountsMost(w, TakenNow')
  <2>1. CountsMost(w, OldRows(w.day)) /\ CountsMost(w, TakenNow)
    BY <1>13 DEF WorkCounts
  <2>2. OldRows(w.day)' = OldRows(w.day)
    BY <1>10
  <2> QED BY <1>8, <1>13, <2>1, <2>2
<1>14. QueueCounts'
  <2>1. ASSUME NEW w \in ToSet(sdWorkQueue'), w.type = "daily"
        PROVE  CountsMost(w, OldRows(w.day)') /\ CountsMost(w, TakenNow')
    <3>1. CASE w \in ToSet(sdWorkQueue)
      BY <1>12, <1>13, <2>1, <3>1
    <3>2. CASE w \notin ToSet(sdWorkQueue)
      <4>1. /\ active /\ summary \in Summary /\ w.day = summary.day /\ w.day < DayOf(now)
            /\ w.energy = Accumulated(summary, previous, sample).energy
        BY <2>1, <3>2, WorkOfSample DEF sample
      <4>2. /\ w.energy \in Energy /\ \A u \in Unit : w.energy[u] >= summary.energy[u]
        BY <1>1, <1>4, <4>1, AccumulatedAdds
      <4>3. CountsAll(summary, OldRows(w.day)) /\ CountsAll(summary, TakenNow)
        <5>1. summary # None
          BY <4>1, EnergyAssumption DEF Summary, Energy, Unit
        <5> QED BY <4>1, <5>1 DEF NothingMissed, TodayCounts
      <4>4. summary.energy \in Energy /\ w.day \in Nat
        BY <4>1, WriterAssumption DEF Summary
      <4>5. CountsAll(w, OldRows(w.day)) /\ CountsAll(w, TakenNow)
        BY <4>1, <4>2, <4>3, <4>4, CountsMore
      <4>6. WorkCounts(w)
        BY <4>5, CountsAllCountsMost DEF WorkCounts
      <4> QED BY <1>13, <4>1, <4>4, <4>6
    <3> QED BY <3>1, <3>2
  <2> QED BY <2>1 DEF QueueCounts, WorkCounts, ToSet
<1>15. ItemCounts'
  <2>1. ASSUME NEW w, w = writer.item, writer.at = "daily"
        PROVE  CountsMost(w, OldRows(w.day)') /\ CountsMost(w, TakenNow')
    <3>1. w \in Work /\ w.type = "daily"
      BY <2>1, WriterFields DEF WriterPart
    <3>2. w.day \in Nat /\ w.day < DayOf(now) /\ WorkCounts(w)
      BY <2>1, <3>1, WorkTypes, WriterAssumption DEF DaysAreOver, NothingMissed, ItemCounts
    <3> QED BY <1>13, <3>2
  <2> QED BY <1>2, <2>1 DEF ItemCounts, WorkCounts
<1>16. TodayCounts'
  <2> SUFFICES ASSUME active
               PROVE  CountsAll(summary', OldRows(DayOf(now))) /\ CountsAll(summary', TakenNow')
    <3>1. OldRows(DayOf(now))' = OldRows(DayOf(now)) /\ summary'.day = DayOf(now)
      BY <1>2, <1>5, <1>10
    <3> QED BY <1>2, <1>5, <1>10 DEF TodayCounts
  <2>1. CountsAll(summary', OldRows(DayOf(now))) /\ CountsAll(summary', TakenNow)
    <3>1. CASE summary # None /\ ~over
      <4>1. base = summary /\ summary.day = DayOf(now)
        BY <3>1 DEF base
      <4>2. CountsAll(base, OldRows(DayOf(now))) /\ CountsAll(base, TakenNow)
        BY <3>1, <4>1 DEF NothingMissed, TodayCounts
      <4>3. base.energy \in Energy
        BY <1>3 DEF Summary
      <4> QED BY <1>3, <1>5, <4>2, <4>3, CountsMore
    <3>2. CASE summary = None \/ over
      <4>1. ASSUME NEW u \in Observed(OldRows(DayOf(now))), DayOf(u) = DayOf(now) PROVE FALSE
        <5>1. u \in Unit /\ DayOf(u) >= DayOf(now)
          BY <1>1, <4>1 DEF Observed
        <5> QED BY <1>2, <3>2, <4>1, <5>1 DEF NothingMissed, OldDaysAreRecovered
      <4>2. ASSUME NEW u \in Observed(TakenNow), DayOf(u) = DayOf(now) PROVE FALSE
        <5>1. PICK a \in TakenNow, b \in TakenNow : u \in a.time .. b.time - 1
          BY DEF Observed
        <5>2. a.time \in Nat /\ b.time \in Nat /\ previous # None /\ b.time <= previous.time
          BY <1>6
        <5>3. previous.time \in Nat
          BY <1>4, <5>2 DEF Sample, Time
        <5>4. u \in Nat /\ u <= previous.time
          BY <5>1, <5>2, <5>3
        <5>5. DayOf(u) <= DayOf(previous.time)
          BY <5>3, <5>4, DaysFollow
        <5>6. summary # None /\ summary.day = DayOf(previous.time) /\ summary.day <= DayOf(now)
          BY <5>2 DEF BootIsKnown, TodayObserved
        <5>7. summary.day \in Nat
          BY <1>4, <5>6, WriterAssumption DEF Summary
        <5> QED BY <1>1, <3>2, <4>2, <5>5, <5>6, <5>7
      <4> QED BY <1>5, <4>1, <4>2 DEF CountsAll
    <3> QED BY <3>1, <3>2
  <2>2. CountsAll(summary', TakenNow')
    BY <1>5, <1>9, <2>1 DEF CountsAll
  <2> QED BY <2>1, <2>2
<1>17. OldDaysAreRecovered'
  <2> SUFFICES ASSUME active, restored,
                      NEW u \in Unit, DayOf(u) >= DayOf(now), u \in Observed(OldRows(DayOf(u)))
               PROVE  summary' # None /\ summary'.day = DayOf(u)
    BY <1>2, <1>10 DEF OldDaysAreRecovered
  <2>1. summary # None /\ summary.day = DayOf(u)
    BY DEF NothingMissed, OldDaysAreRecovered
  <2>2. DayOf(u) <= DayOf(now) /\ DayOf(u) \in Nat
    BY <1>4, <2>1, WriterAssumption DEF BootIsKnown, Summary
  <2>3. None \notin Summary
    BY EnergyAssumption DEF Summary, Energy, Unit
  <2> QED BY <1>1, <1>5, <2>1, <2>2, <2>3
<1> QED BY <1>11, <1>14, <1>15, <1>16, <1>17 DEF NothingMissed

\* What a file shows is of a boot before, or was taken in this one.
LEMMA FileShowsOldAndNew ==
  ASSUME MainPart, CardPart, SamplesAreTaken, NEW d, NEW u \in Observed(FileOf(d))
  PROVE  u \in Observed(OldRows(d)) \/ u \in Observed(TakenNow)
<1> DEFINE all == rows["samples"]
<1>1. PICK a \in FileOf(d), b \in FileOf(d) :
        a.boot = b.boot /\ b.time - a.time <= MaxGap /\ u \in a.time .. b.time - 1
  BY DEF Observed
<1>2. u \in Unit
  BY DEF Observed
<1>3. \A r \in FileOf(d) : /\ r.boot \in Nat /\ r.boot <= boot
                           /\ [boot |-> r.boot, time |-> r.time] \in taken
  <2>1. \A n \in DOMAIN all : all[n] \in Row /\ all[n].boot <= boot
    BY RowsAreRows, WriterAssumption DEF CardPart, RowsAreFlushed
  <2>2. \A n \in DOMAIN all : [boot |-> all[n].boot, time |-> all[n].time] \in taken
    BY DEF SamplesAreTaken, CardTaken
  <2>3. \A r \in FileOf(d) : \E n \in DOMAIN all : r = all[n]
    BY DEF FileOf, ToSet
  <2> HIDE DEF all
  <2> QED BY <2>1, <2>2, <2>3 DEF Row
<1>4. CASE a.boot < boot
  <2>1. a \in OldRows(d) /\ b \in OldRows(d)
    BY <1>1, <1>4 DEF OldRows
  <2> QED BY <1>1, <1>2, <2>1 DEF Observed
<1>5. CASE a.boot = boot
  <2> DEFINE s == [boot |-> a.boot, time |-> a.time]
             t == [boot |-> b.boot, time |-> b.time]
  <2>1. s \in TakenNow /\ t \in TakenNow
    BY <1>1, <1>3, <1>5 DEF TakenNow
  <2>2. s.boot = t.boot /\ t.time - s.time <= MaxGap /\ u \in s.time .. t.time - 1
    BY <1>1
  <2> HIDE DEF s, t
  <2> QED BY <1>2, <2>1, <2>2 DEF Observed
<1>6. a.boot \in Nat /\ boot \in Nat /\ a.boot <= boot
  BY <1>3 DEF MainPart
<1> QED BY <1>4, <1>5, <1>6

\* Rows written in a step are of this boot and of a day that is not stored.
LEMMA FilesOfStoredDaysStay ==
  ASSUME MainPart, RingPart, CardPart, WriterPart, RowsByDay, DaysAreOver, [Next]_vars
  PROVE  /\ InOrder(rows'["samples"]) => InOrder(rows["samples"])
         /\ \A d \in Day : daily[d] # Missing => FileOf(d)' = FileOf(d)
         /\ boot' = boot => \A d : OldRows(d)' = OldRows(d)
<1> DEFINE all  == rows["samples"]
           more == rows'["samples"]
<1>1. RowsAdded(all, more)
  BY RowsGrow
<1>2. writer.at = "copy" /\ writer.stream = "samples" =>
        \A i \in DOMAIN writer.buffer : writer.buffer[i].day = writer.day
  BY DEF RowsByDay
<1>3. boot \in Nat
  BY DEF MainPart
<1>4. \A d : FileOf(d) = {all[n] : n \in {n \in DOMAIN all : all[n].day = d}}
  BY DEF FileOf, ToSet
<1>5. \A d : FileOf(d)' = {more[n] : n \in {n \in DOMAIN more : more[n].day = d}}
  BY DEF FileOf, ToSet
<1> HIDE DEF all, more
<1>6. /\ \A n \in DOMAIN all : n \in DOMAIN more /\ more[n] = all[n]
      /\ \A n \in DOMAIN more :
           \/ n \in DOMAIN all
           \/ /\ writer.at = "copy" /\ writer.stream = "samples"
              /\ more[n].boot = boot /\ more[n].day = writer.day
  BY <1>1, <1>2 DEF RowsAdded
<1>7. InOrder(more) => InOrder(all)
  <2> SUFFICES ASSUME InOrder(more), NEW n \in DOMAIN all, NEW k \in 1 .. n - 1
               PROVE  all[k].time < all[n].time
    BY DEF InOrder
  <2>1. k \in DOMAIN all
    BY <1>1 DEF RowsAdded
  <2> QED BY <1>6, <2>1 DEF InOrder
<1>8. ASSUME NEW d \in Day, daily[d] # Missing PROVE FileOf(d)' = FileOf(d)
  <2>1. ~(writer.at = "copy" /\ writer.stream = "samples" /\ writer.day = d)
    BY <1>8 DEF DaysAreOver, InFileOf
  <2>2. \A n \in DOMAIN more : more[n].day = d => n \in DOMAIN all /\ more[n] = all[n]
    BY <1>6, <2>1
  <2>3. \A n \in DOMAIN all : all[n].day = d => n \in DOMAIN more /\ more[n] = all[n]
    BY <1>6
  <2> QED BY <1>4, <1>5, <2>2, <2>3
<1>9. ASSUME boot' = boot, NEW d PROVE OldRows(d)' = OldRows(d)
  <2>1. OldRows(d)' = {r \in FileOf(d)' : r.boot < boot}
    BY <1>9 DEF OldRows
  <2>2. \A n \in DOMAIN more : more[n].boot < boot => n \in DOMAIN all /\ more[n] = all[n]
    BY <1>3, <1>6
  <2>3. \A r : r \in OldRows(d)' <=> r \in OldRows(d)
    <3>1. ASSUME NEW r \in OldRows(d)' PROVE r \in OldRows(d)
      <4>1. r \in FileOf(d)' /\ r.boot < boot
        BY <2>1, <3>1
      <4>2. PICK n \in DOMAIN more : more[n].day = d /\ r = more[n]
        BY <1>5, <4>1
      <4>3. n \in DOMAIN all /\ r = all[n] /\ all[n].day = d
        BY <2>2, <4>1, <4>2
      <4> QED BY <1>4, <4>1, <4>3 DEF OldRows
    <3>2. ASSUME NEW r \in OldRows(d) PROVE r \in OldRows(d)'
      <4>1. r \in FileOf(d) /\ r.boot < boot
        BY <3>2 DEF OldRows
      <4>2. PICK n \in DOMAIN all : all[n].day = d /\ r = all[n]
        BY <1>4, <4>1
      <4>3. n \in DOMAIN more /\ r = more[n] /\ more[n].day = d
        BY <1>6, <4>2
      <4> QED BY <1>5, <2>1, <4>1, <4>3
    <3> QED BY <3>1, <3>2
  <2> QED BY <2>3
<1> QED BY <1>7, <1>8, <1>9 DEF all, more

LEMMA OtherStepsMissNothing ==
  ASSUME MainPart, RingPart, CardPart, WriterPart, SamplesAreTaken, BootIsKnown, DaysAreOver, RowsByDay,
         [Next]_vars, ~TakeSample, ~RestoreEnergyHistory, NothingMissed
  PROVE  NothingMissed'
<1>1. /\ \A d \in Day : daily[d] # Missing => FileOf(d)' = FileOf(d)
      /\ boot' = boot => \A d : OldRows(d)' = OldRows(d)
  BY FilesOfStoredDaysStay
<1>2. ~Restart => /\ UNCHANGED <<boot, taken, restored, summary, previous>> /\ (active' => active)
                  /\ TakenNow' = TakenNow
  BY ElsewhereNothingIsTaken DEF TakenNow
<1>3. Restart => /\ summary' = None /\ restored' = FALSE /\ sdWorkQueue' = <<>> /\ writer' = Idle
  BY DEF Restart, LoseRam
<1>4. StoredDaysCount'
  <2>1. StoredDaysCount
    BY DEF NothingMissed
  <2>2. CASE ~WriteDailySummary
    <3>1. daily' = daily
      BY <2>2, StoredElsewhere
    <3> QED BY <1>1, <2>1, <3>1 DEF StoredDaysCount
  <2>3. CASE WriteDailySummary
    <3>1. /\ daily' = daily \/ daily' = [daily EXCEPT ![writer.item.day] = writer.item.energy]
          /\ writer.at = "daily" /\ rows' = rows
      BY <2>3 DEF WriteDailySummary
    <3>2. writer.item \in Work /\ writer.item.type = "daily" /\ writer.item.day \in Day
      BY <3>1, WriterFields, WorkTypes DEF WriterPart
    <3>3. \A d : FileOf(d)' = FileOf(d)
      BY <3>1 DEF FileOf, ToSet
    <3>4. WorkCounts(writer.item)
      BY <3>1 DEF NothingMissed, ItemCounts
    <3>5. ASSUME NEW d \in Day, daily'[d] # Missing
          PROVE  CountsMost([day |-> d, energy |-> daily'[d]], FileOf(d)')
      <4>1. FileOf(d)' = FileOf(d)
        BY <3>3
      <4>2. CASE d = writer.item.day /\ daily'[d] = writer.item.energy
        <5>1. ASSUME NEW u \in Observed(FileOf(d)), DayOf(u) = d, u < DayStart(d + 1) - MaxGap
              PROVE  writer.item.energy[u] >= 1
          <6>1. u \in Observed(OldRows(d)) \/ u \in Observed(TakenNow)
            BY FileShowsOldAndNew
          <6> QED BY <3>4, <4>2, <5>1, <6>1 DEF WorkCounts, CountsMost
        <5> QED BY <4>1, <4>2, <5>1 DEF CountsMost
      <4>3. CASE daily'[d] = daily[d]
        BY <2>1, <3>5, <4>1, <4>3 DEF StoredDaysCount
      <4> QED BY <3>1, <3>2, <4>2, <4>3 DEF MainPart
    <3> QED BY <3>5 DEF StoredDaysCount
  <2> QED BY <2>2, <2>3
<1>5. QueueCounts'
  <2>1. CASE Restart
    BY <1>3, <2>1 DEF QueueCounts, ToSet
  <2>2. CASE ~Restart
    <3> SUFFICES ASSUME NEW w \in ToSet(sdWorkQueue'), w.type = "daily"
                 PROVE  CountsMost(w, OldRows(w.day)') /\ CountsMost(w, TakenNow')
      BY DEF QueueCounts, WorkCounts, ToSet
    <3>1. CountsMost(w, OldRows(w.day)) /\ CountsMost(w, TakenNow)
      <4>1. CASE w \in ToSet(sdWorkQueue)
        BY <4>1 DEF NothingMissed, QueueCounts, WorkCounts
      <4>2. CASE w \notin ToSet(sdWorkQueue)
        <5>1. BeginDay
          BY <4>2, WorkComesFrom
        <5>2. active /\ summary \in Summary /\ w.day = summary.day /\ w.energy = summary.energy
          BY <4>2, <5>1, WorkOfDay
        <5>3. summary # None
          BY <5>2, EnergyAssumption DEF Summary, Energy, Unit
        <5>4. CountsAll(summary, OldRows(w.day)) /\ CountsAll(summary, TakenNow)
          BY <5>2, <5>3 DEF NothingMissed, TodayCounts
        <5>5. CountsAll(w, OldRows(w.day)) /\ CountsAll(w, TakenNow)
          BY <5>2, <5>4 DEF CountsAll
        <5> QED BY <5>5, CountsAllCountsMost
      <4> QED BY <4>1, <4>2
    <3> QED BY <1>1, <1>2, <2>2, <3>1
  <2> QED BY <2>1, <2>2
<1>6. ItemCounts'
  <2>1. CASE Restart
    BY <1>3, <2>1 DEF ItemCounts, Idle
  <2>2. CASE ~Restart
    <3> SUFFICES ASSUME writer'.at = "daily", NEW w, w = writer'.item
                 PROVE  CountsMost(w, OldRows(w.day)') /\ CountsMost(w, TakenNow')
      BY DEF ItemCounts, WorkCounts
    <3>1. \/ writer' = writer
          \/ w \in ToSet(sdWorkQueue) /\ w.type = "daily"
      <4>1. CASE BeginDay
        BY <4>1 DEF BeginDay
      <4>2. CASE ~BeginDay
        BY <4>2, WorkComesFrom
      <4> QED BY <4>1, <4>2
    <3>2. CountsMost(w, OldRows(w.day)) /\ CountsMost(w, TakenNow)
      BY <3>1 DEF NothingMissed, QueueCounts, ItemCounts, WorkCounts
    <3> QED BY <1>1, <1>2, <2>2, <3>2
  <2> QED BY <2>1, <2>2
<1>7. TodayCounts'
  <2>1. CASE Restart
    BY <1>3, <2>1 DEF TodayCounts
  <2>2. CASE ~Restart
    BY <1>1, <1>2, <2>2 DEF NothingMissed, TodayCounts
  <2> QED BY <2>1, <2>2
<1>8. OldDaysAreRecovered'
  <2>1. CASE Restart
    BY <1>3, <2>1 DEF OldDaysAreRecovered
  <2>2. CASE ~Restart
    <3> SUFFICES ASSUME active', restored',
                        NEW u \in Unit, DayOf(u) >= DayOf(now'), u \in Observed(OldRows(DayOf(u)))
                 PROVE  summary # None /\ summary.day = DayOf(u)
      BY <1>1, <1>2, <2>2 DEF OldDaysAreRecovered
    <3>1. DayOf(u) >= DayOf(now)
      <4>1. u \in Nat
        BY EnergyAssumption DEF Unit
      <4>2. DayOf(u) \in Nat
        BY <4>1, DaysFollow
      <4> QED BY <4>2, ClockMoves
    <3> QED BY <1>2, <2>2, <3>1 DEF NothingMissed, OldDaysAreRecovered
  <2> QED BY <2>1, <2>2
<1> QED BY <1>4, <1>5, <1>6, <1>7, <1>8 DEF NothingMissed

-----------------------------------------------------------------------------
(* A recovery misses nothing of what the rows show.                         *)

PointOf(row) == [boot |-> row.boot, time |-> row.time]

\* Row k and the one before, both read, show the unit u of a day that has no summary yet.
Shown(k, u) ==
  LET all == rows["samples"]
  IN /\ IsRead(k - 1) /\ IsRead(k)
     /\ all[k - 1].boot = all[k].boot /\ all[k].time - all[k - 1].time <= MaxGap
     /\ all[k - 1].time <= u /\ u < all[k].time
     /\ daily[DayOf(u)] = Missing

\* After n rows the open summary is of the day of the last row read, and the days from there on
\* are as they were on the card.
Follows(n, r) ==
  LET all == rows["samples"]
  IN /\ r.today = None
     /\ r.previous = None <=> r.summary = None
     /\ r.previous # None => \E k \in 1 .. n : r.previous = PointOf(all[k])
     /\ n # 0 /\ IsRead(n) => r.previous = PointOf(all[n])
     /\ r.summary # None => /\ r.summary.day = DayOf(r.previous.time)
                            /\ r.completed = (daily[r.summary.day] # Missing)
     /\ \A d \in Day : r.summary = None \/ d >= r.summary.day \/ daily[d] # Missing
                         => r.daily[d] = daily[d]

\* What n rows show is counted in the open summary, or in that of its day once it is finished.
CountsRows(n, r) ==
  \A k \in 2 .. n : \A u \in Unit : Shown(k, u) =>
    /\ r.summary # None /\ DayOf(u) <= r.summary.day
    /\ DayOf(u) = r.summary.day => r.summary.energy[u] >= 1
    /\ r.daily[DayOf(u)] # Missing => r.daily[DayOf(u)][u] >= 1

LEMMA NextDay ==
  ASSUME NEW t \in Nat, NEW v \in Nat, v - t <= MaxGap
  PROVE  DayOf(v) <= DayOf(t) + 1
<1>1. /\ DayOf(t) \in Nat /\ t < DayStart(DayOf(t)) + DayLength
      /\ DayOf(v) \in Nat /\ DayStart(DayOf(v)) <= v
  BY DayBounds
<1>2. MaxGap \in Nat /\ MaxGap <= DayLength /\ DayLength \in Nat
  BY EnergyAssumption
<1>3. ASSUME DayOf(t) + 1 < DayOf(v) PROVE FALSE
  <2>1. DayStart(DayOf(t) + 1) + DayLength <= DayStart(DayOf(v))
          /\ DayStart(DayOf(t) + 1) \in Nat /\ DayStart(DayOf(v)) \in Nat
    BY <1>1, <1>3, DaysInOrder
  <2>2. DayStart(DayOf(t) + 1) = DayStart(DayOf(t)) + DayLength /\ DayStart(DayOf(t)) \in Nat
    BY <1>1, <1>2 DEF DayStart
  <2> QED BY <1>1, <1>2, <2>1, <2>2
<1> QED BY <1>1, <1>3

LEMMA UnitDays ==
  ASSUME NEW u \in Unit
  PROVE  u \in Nat /\ DayOf(u) \in Day /\ DayOf(u) \in Nat
<1>1. u \in Nat /\ u \in Time
  BY EnergyAssumption DEF Unit, Time
<1>2. DayOf(u) \in Day
  BY <1>1, DayIsDay
<1> QED BY <1>1, <1>2, WriterAssumption

\* What a row that comes after all others makes of a recovery.
Advances(r, row, q, cut) ==
  LET d == DayOf(row.time)
  IN /\ q \in RecoveryType /\ q.summary \in Summary /\ q.summary.day = d /\ q.today = None
     /\ q.previous = PointOf(row)
     /\ q.completed = (daily[d] # Missing)
     /\ r.summary = None => q.daily = r.daily
     /\ r.summary # None =>
          /\ r.summary.day <= d
          /\ cut \in Summary /\ cut.day = r.summary.day
          /\ r.completed => cut = r.summary
          /\ ~r.completed => cut = Accumulated(r.summary, r.previous, row)
          /\ r.summary.day = d => q.summary = cut /\ q.daily = r.daily
          /\ r.summary.day # d =>
               /\ \/ q.daily = r.daily
                  \/ ~r.completed /\ q.daily = [r.daily EXCEPT ![r.summary.day] = cut.energy]
               /\ daily[d] = Missing =>
                    \E s \in Summary : s.day = d /\ q.summary = Accumulated(s, r.previous, row)

LEMMA RowAdvances ==
  ASSUME NEW r \in RecoveryType, NEW row \in Row, NEW failing, NEW n, Follows(n, r),
         daily \in [Day -> Energy \cup {Missing}],
         DayOf(row.time) <= DayOf(now), DayOf(now) \in Day,
         r.previous # None => r.previous.time < row.time
  PROVE  \E cut : Advances(r, row, RecoverDailySample(r, row, failing), cut)
<1> DEFINE d == DayOf(row.time)
           q == RecoverDailySample(r, row, failing)
           p == r.summary.day
<1>1. PICK cut \in RecoveryType, ready \in RecoveryType : RecoversTo(r, row, failing, cut, ready)
  BY RowIsRecovered
<1> DEFINE done == Finished(cut, failing)
<1>2. d \in Day /\ d \in Nat /\ DayOf(now) \in Nat /\ d <= DayOf(now)
  BY <1>1, WriterAssumption DEF RecoversTo
<1>3. /\ r.summary # None => /\ r.summary \in Summary /\ p \in Day /\ p \in Nat /\ p <= d
                             /\ r.completed = (daily[p] # Missing)
                             /\ r.daily[p] = daily[p]
      /\ r.today = None
      /\ \A e \in Day : r.summary = None \/ e >= p \/ daily[e] # Missing => r.daily[e] = daily[e]
  <2>1. r.summary # None => r.summary \in Summary /\ p \in Day /\ p \in Nat
    BY WriterAssumption DEF RecoveryType, Summary
  <2>2. r.summary # None => p <= d
    <3> SUFFICES ASSUME r.summary # None PROVE p <= d
      OBVIOUS
    <3>1. r.previous # None /\ p = DayOf(r.previous.time)
      BY DEF Follows
    <3>2. r.previous.time \in Nat /\ row.time \in Nat /\ r.previous.time < row.time
      BY <3>1 DEF RecoveryType, Sample, Row, Time
    <3>3. DayOf(r.previous.time) <= DayOf(row.time)
      BY <3>2, DaysFollow
    <3> HIDE DEF p, d
    <3> QED BY <3>1, <3>3 DEF d
  <2> QED BY <2>1, <2>2 DEF Follows
<1> HIDE DEF d, q, p, done
<1>4. /\ done \in RecoveryType /\ done.summary = cut.summary /\ done.previous = cut.previous
      /\ \/ done = cut
         \/ cut.summary # None /\ cut.summary.day = DayOf(now)
         \/ cut.summary # None /\ done.daily = cut.daily /\ done.today = cut.today
         \/ /\ cut.summary # None /\ ~cut.completed /\ done.today = cut.today
            /\ done.daily = [cut.daily EXCEPT ![cut.summary.day] = cut.summary.energy]
  BY FinishedCases DEF done
<1>5. /\ q \in RecoveryType /\ q.summary \in Summary /\ q.summary.day = d /\ q.previous = PointOf(row)
      /\ q.daily = ready.daily /\ q.completed = ready.completed /\ q.today = ready.today
      /\ ready.summary \in Summary /\ ready.summary.day = d
      /\ ready.completed => q.summary = ready.summary
      /\ ~ready.completed => q.summary = Accumulated(ready.summary, ready.previous, row)
  BY <1>1 DEF RecoversTo, PointOf, q, d
<1>6. CASE r.summary = None
  <2>1. done = r /\ ready = Opened(r, d)
    <3>1. cut = r /\ ready = Opened(done, d)
      BY <1>1, <1>6 DEF RecoversTo, d, done
    <3>2. done = r
      BY <1>6, <3>1 DEF done, Finished
    <3> QED BY <3>1, <3>2
  <2>2. ready.daily = r.daily /\ ready.today = r.today /\ ready.completed = (r.daily[d] # Missing)
    BY <1>2, <2>1, OpenedDay
  <2>3. r.daily[d] = daily[d]
    BY <1>2, <1>3, <1>6
  <2>4. Advances(r, row, q, cut)
    BY <1>3, <1>5, <1>6, <2>2, <2>3 DEF Advances, d
  <2> QED BY <2>4 DEF q
<1>7. ASSUME r.summary # None
      PROVE  /\ cut.summary \in Summary /\ cut.summary.day = p
             /\ cut.daily = r.daily /\ cut.completed = r.completed
             /\ cut.today = r.today /\ cut.previous = r.previous
             /\ r.completed => cut.summary = r.summary
             /\ ~r.completed => cut.summary = Accumulated(r.summary, r.previous, row)
  BY <1>1, <1>7 DEF RecoversTo, p
<1>8. CASE r.summary # None /\ p = d
  <2>1. ready = r
    BY <1>1, <1>8 DEF RecoversTo, d, p
  <2>2. q.summary = cut.summary
    BY <1>5, <1>7, <1>8, <2>1
  <2>3. Advances(r, row, q, cut.summary)
    BY <1>2, <1>3, <1>5, <1>7, <1>8, <2>1, <2>2 DEF Advances, d, p
  <2> QED BY <2>3 DEF q
<1>9. CASE r.summary # None /\ p # d
  <2>1. ready = Opened(done, d) /\ p < d
    <3>1. ready = Opened(done, d)
      BY <1>1, <1>9 DEF RecoversTo, d, p, done
    <3> QED BY <1>2, <1>3, <1>9, <3>1
  <2>2. /\ ready.daily = done.daily /\ ready.today = done.today /\ ready.previous = done.previous
        /\ ready.completed = (done.daily[d] # Missing)
    BY <1>2, <1>4, <2>1, OpenedDay
  <2>3. p # DayOf(now)
    BY <1>2, <1>3, <1>9, <2>1
  <2>4. /\ done.today = None /\ done.previous = r.previous
        /\ \/ done.daily = r.daily
           \/ ~r.completed /\ done.daily = [r.daily EXCEPT ![p] = cut.summary.energy]
    BY <1>3, <1>4, <1>7, <1>9, <2>3
  <2>5. done.daily[d] = daily[d]
    <3>1. r.daily[d] = daily[d]
      BY <1>2, <1>3, <1>9
    <3>2. r.daily \in [Day -> Energy \cup {Missing}]
      BY DEF RecoveryType
    <3> QED BY <1>2, <1>9, <2>4, <3>1, <3>2
  <2>6. daily[d] = Missing => q.summary = Accumulated(ready.summary, r.previous, row)
    BY <1>5, <2>2, <2>4, <2>5
  <2>7. Advances(r, row, q, cut.summary)
    BY <1>2, <1>3, <1>5, <1>7, <1>9, <2>2, <2>4, <2>5, <2>6 DEF Advances, d, p
  <2> QED BY <2>7 DEF q
<1> QED BY <1>6, <1>8, <1>9

LEMMA AdvancedFollows ==
  ASSUME rows["samples"] \in Seq(Row), NEW n \in 1 .. Len(rows["samples"]),
         NEW r \in RecoveryType, NEW q, NEW cut, Follows(n - 1, r),
         daily \in [Day -> Energy \cup {Missing}],
         Advances(r, rows["samples"][n], q, cut)
  PROVE  Follows(n, q)
<1> DEFINE row == rows["samples"][n]
           d   == DayOf(row.time)
<1>1. row \in Row /\ n \in Nat /\ n # 0 /\ n \in 1 .. n
  <2>1. row \in Row /\ Len(rows["samples"]) \in Nat
    BY ElementOfSeq, LenProperties
  <2> QED BY <2>1
<1>2. d \in Day /\ d \in Nat /\ row.time \in Nat
  <2>1. row.time \in Time /\ row.time \in Nat
    BY <1>1 DEF Row, Time
  <2> QED BY <2>1, DayIsDay, WriterAssumption
<1>3. /\ q \in RecoveryType /\ q.summary \in Summary /\ q.summary.day = d /\ q.today = None
      /\ q.previous = PointOf(row) /\ q.completed = (daily[d] # Missing)
  BY DEF Advances
<1>4. q.summary # None /\ q.previous # None /\ q.previous.time = row.time
  <2>1. None \notin Summary /\ None \notin [boot : Nat, time : Nat]
    BY EnergyAssumption DEF Summary, Energy, Unit
  <2>2. PointOf(row) \in [boot : Nat, time : Nat] /\ PointOf(row).time = row.time
    BY <1>1, <1>2 DEF PointOf, Row
  <2> HIDE DEF row
  <2> QED BY <1>3, <2>1, <2>2
<1>5. ASSUME NEW e \in Day, e >= d \/ daily[e] # Missing
      PROVE  q.daily[e] = daily[e]
  <2>1. e \in Nat
    BY WriterAssumption
  <2>2. CASE r.summary = None
    BY <2>2 DEF Advances, Follows
  <2>3. CASE r.summary # None
    <3>1. r.summary.day \in Nat /\ r.summary.day \in Day /\ r.summary.day <= d
      BY <2>3, WriterAssumption DEF RecoveryType, Summary, Advances
    <3>2. r.daily[e] = daily[e]
      BY <1>2, <1>5, <2>1, <2>3, <3>1 DEF Follows
    <3>3. CASE q.daily = r.daily
      BY <3>2, <3>3
    <3>4. CASE q.daily # r.daily
      <4>1. /\ r.summary.day # d /\ ~r.completed
            /\ q.daily = [r.daily EXCEPT ![r.summary.day] = cut.energy]
        BY <2>3, <3>4 DEF Advances
      <4>2. daily[r.summary.day] = Missing
        BY <2>3, <4>1 DEF Follows
      <4>3. e # r.summary.day
        BY <1>2, <1>5, <2>1, <3>1, <4>1, <4>2
      <4>4. r.daily \in [Day -> Energy \cup {Missing}]
        BY DEF RecoveryType
      <4> QED BY <3>2, <4>1, <4>3, <4>4
    <3> QED BY <3>3, <3>4
  <2> QED BY <2>2, <2>3
<1> HIDE DEF row, d
<1>6. q.summary.day = DayOf(q.previous.time)
  BY <1>3, <1>4 DEF d
<1>7. \A e \in Day : q.summary = None \/ e >= q.summary.day \/ daily[e] # Missing
                       => q.daily[e] = daily[e]
  BY <1>3, <1>4, <1>5
<1>8. q.previous = PointOf(rows["samples"][n])
  BY <1>3 DEF row
<1> QED BY <1>1, <1>3, <1>4, <1>6, <1>7, <1>8 DEF Follows

LEMMA AdvancedCounts ==
  ASSUME rows["samples"] \in Seq(Row), NEW n \in 1 .. Len(rows["samples"]),
         NEW r \in RecoveryType, NEW q, NEW cut, Follows(n - 1, r), CountsRows(n - 1, r),
         daily \in [Day -> Energy \cup {Missing}],
         Advances(r, rows["samples"][n], q, cut)
  PROVE  CountsRows(n, q)
<1> DEFINE all == rows["samples"]
           row == all[n]
           d   == DayOf(row.time)
           p   == r.summary.day
<1>1. row \in Row /\ n \in Nat /\ (n # 1 => all[n - 1] \in Row)
  <2>1. Len(all) \in Nat
    BY LenProperties
  <2>2. n # 1 => n - 1 \in 1 .. Len(all)
    BY <2>1
  <2> QED BY <2>1, <2>2, ElementOfSeq
<1>2. d \in Day /\ d \in Nat /\ row.time \in Nat
  <2>1. row.time \in Time /\ row.time \in Nat
    BY <1>1 DEF Row, Time
  <2> QED BY <2>1, DayIsDay, WriterAssumption
<1>3. /\ q \in RecoveryType /\ q.summary \in Summary /\ q.summary # None /\ q.summary.day = d
      /\ q.summary.energy \in Energy
  <2>1. None \notin Summary
    BY EnergyAssumption DEF Summary, Energy, Unit
  <2>2. q \in RecoveryType /\ q.summary \in Summary /\ q.summary.day = d
    BY DEF Advances
  <2> QED BY <2>1, <2>2 DEF Summary
<1>4. r.summary # None =>
        /\ r.summary \in Summary /\ r.summary.energy \in Energy /\ p \in Day /\ p \in Nat /\ p <= d
        /\ cut \in Summary /\ cut.day = p /\ cut.energy \in Energy
        /\ r.completed = (daily[p] # Missing)
        /\ r.completed => cut = r.summary
        /\ ~r.completed => cut = Accumulated(r.summary, r.previous, row)
        /\ p = d => q.summary = cut /\ q.daily = r.daily
        /\ p # d => /\ \/ q.daily = r.daily
                       \/ ~r.completed /\ q.daily = [r.daily EXCEPT ![p] = cut.energy]
                    /\ daily[d] = Missing =>
                         \E s \in Summary : s.day = d /\ q.summary = Accumulated(s, r.previous, row)
  <2> SUFFICES ASSUME r.summary # None
               PROVE  /\ r.summary \in Summary /\ r.summary.energy \in Energy /\ p \in Day /\ p \in Nat
                      /\ cut \in Summary /\ cut.energy \in Energy
                      /\ r.completed = (daily[p] # Missing)
    BY DEF Advances
  <2>1. r.summary \in Summary /\ cut \in Summary
    BY DEF RecoveryType, Advances
  <2> QED BY <2>1, WriterAssumption DEF Summary, Follows
<1>5. r.previous \in Sample \cup {None} /\ r.daily \in [Day -> Energy \cup {Missing}]
  BY DEF RecoveryType
<1> HIDE DEF d, p
<1>6. ASSUME r.summary # None, ~r.completed
      PROVE  /\ \A u \in Unit : cut.energy[u] >= r.summary.energy[u]
             /\ r.previous # None /\ r.previous.boot = row.boot /\ row.time - r.previous.time <= MaxGap =>
                  \A u \in Unit : r.previous.time <= u /\ u < row.time /\ DayOf(u) = p
                    => cut.energy[u] >= 1
  <2>1. r.summary \in Summary /\ cut = Accumulated(r.summary, r.previous, row) /\ r.summary.day = p
    BY <1>4, <1>6 DEF p
  <2> HIDE DEF row
  <2> QED BY <1>1, <1>5, <2>1, AccumulatedAdds
\* What was counted is counted still.
<1>7. ASSUME NEW k \in 2 .. n - 1, NEW u \in Unit, Shown(k, u)
      PROVE  /\ DayOf(u) <= d
             /\ DayOf(u) = d => q.summary.energy[u] >= 1
             /\ q.daily[DayOf(u)] # Missing => q.daily[DayOf(u)][u] >= 1
  <2>1. DayOf(u) \in Day /\ DayOf(u) \in Nat
    BY UnitDays
  <2>2. /\ r.summary # None /\ DayOf(u) <= p
        /\ DayOf(u) = p => r.summary.energy[u] >= 1
        /\ r.daily[DayOf(u)] # Missing => r.daily[DayOf(u)][u] >= 1
    BY <1>7 DEF CountsRows, p
  <2>3. DayOf(u) = p => cut.energy[u] >= 1
    <3> SUFFICES ASSUME DayOf(u) = p PROVE cut.energy[u] >= 1
      OBVIOUS
    <3>1. CASE r.completed
      BY <1>4, <2>2, <3>1
    <3>2. CASE ~r.completed
      <4>1. cut.energy[u] \in Nat /\ r.summary.energy[u] \in Nat
        BY <1>4, <2>2 DEF Energy
      <4> QED BY <1>6, <2>2, <3>2, <4>1
    <3> QED BY <3>1, <3>2
  <2>4. CASE p = d
    BY <1>2, <1>4, <2>1, <2>2, <2>3, <2>4
  <2>5. CASE p # d
    <3>1. DayOf(u) <= d /\ DayOf(u) # d
      BY <1>2, <1>4, <2>1, <2>2, <2>5
    <3>2. q.daily[DayOf(u)] = r.daily[DayOf(u)] \/ (DayOf(u) = p /\ q.daily[DayOf(u)] = cut.energy)
      BY <1>4, <1>5, <2>1, <2>2, <2>5
    <3> QED BY <2>2, <2>3, <3>1, <3>2
  <2> QED BY <2>4, <2>5
\* What the row shows is counted now.
<1>8. ASSUME n # 1, NEW u \in Unit, Shown(n, u)
      PROVE  /\ DayOf(u) <= d
             /\ DayOf(u) = d => q.summary.energy[u] >= 1
             /\ q.daily[DayOf(u)] # Missing => q.daily[DayOf(u)][u] >= 1
  <2>1. u \in Nat /\ DayOf(u) \in Day /\ DayOf(u) \in Nat
    BY UnitDays
  <2>2. /\ IsRead(n - 1) /\ all[n - 1].boot = row.boot /\ row.time - all[n - 1].time <= MaxGap
        /\ all[n - 1].time <= u /\ u < row.time /\ daily[DayOf(u)] = Missing
    BY <1>8 DEF Shown
  <2>3. /\ r.previous = PointOf(all[n - 1]) /\ n - 1 # 0
        /\ r.previous.boot = row.boot /\ r.previous.time = all[n - 1].time
    <3>1. n - 1 # 0
      BY <1>1, <1>8
    <3>2. r.previous = PointOf(all[n - 1])
      BY <2>2, <3>1 DEF Follows
    <3> QED BY <2>2, <3>1, <3>2 DEF PointOf
  <2>4. r.previous # None /\ r.summary # None /\ r.previous.time \in Nat
    <3>1. all[n - 1] \in Row
      BY <1>1, <1>8
    <3>2. PointOf(all[n - 1]) \in [boot : Nat, time : Nat] /\ all[n - 1].time \in Nat
      <4>1. \A w \in Row : PointOf(w) \in [boot : Nat, time : Nat] /\ w.time \in Nat
        BY DEF PointOf, Row, Time
      <4> QED BY <3>1, <4>1
    <3>3. r.previous # None
      BY <2>3, <3>2, EnergyAssumption
    <3> QED BY <2>3, <3>2, <3>3 DEF Follows
  <2>5. p = DayOf(r.previous.time)
    BY <2>4 DEF Follows, p
  <2>6. p <= DayOf(u) /\ DayOf(u) <= d /\ d <= p + 1 /\ p \in Nat
    <3>1. DayOf(r.previous.time) <= DayOf(u)
      BY <2>1, <2>2, <2>3, <2>4, DaysFollow
    <3>2. DayOf(u) <= DayOf(row.time)
      <4>1. u <= row.time
        BY <1>2, <2>1, <2>2
      <4> HIDE DEF row
      <4> QED BY <1>2, <2>1, <4>1, DaysFollow
    <3>3. DayOf(row.time) <= DayOf(r.previous.time) + 1
      BY <1>2, <2>2, <2>3, <2>4, NextDay
    <3> QED BY <1>4, <2>4, <2>5, <3>1, <3>2, <3>3 DEF d
  <2>7. r.daily[DayOf(u)] = Missing
    BY <2>1, <2>2, <2>4, <2>6 DEF Follows, p
  <2>8. DayOf(u) = p => ~r.completed /\ cut.energy[u] >= 1
    <3> SUFFICES ASSUME DayOf(u) = p PROVE ~r.completed /\ cut.energy[u] >= 1
      OBVIOUS
    <3>1. ~r.completed
      BY <1>4, <2>2, <2>4
    <3>2. row.time - r.previous.time <= MaxGap /\ r.previous.time <= u
      BY <2>2, <2>3
    <3> QED BY <1>6, <2>2, <2>3, <2>4, <3>1, <3>2
  <2>9. CASE p = d
    <3>1. DayOf(u) = p
      BY <1>2, <2>1, <2>6, <2>9
    <3> QED BY <1>4, <2>4, <2>6, <2>7, <2>8, <2>9, <3>1
  <2>10. CASE p # d
    <3>1. DayOf(u) = p \/ DayOf(u) = d
      BY <1>2, <2>1, <2>6, <2>10
    <3>2. CASE DayOf(u) = p
      BY <1>4, <1>5, <2>1, <2>4, <2>6, <2>7, <2>8, <2>10, <3>2
    <3>3. CASE DayOf(u) = d
      <4>1. PICK s \in Summary : s.day = d /\ q.summary = Accumulated(s, r.previous, row)
        BY <1>4, <2>2, <2>4, <2>10, <3>3
      <4>2. q.summary.energy[u] >= 1
        <5>1. row.time - r.previous.time <= MaxGap /\ r.previous.time <= u
          BY <2>2, <2>3
        <5>2. \A v \in Unit : r.previous.time <= v /\ v < row.time /\ DayOf(v) = s.day
                                => Accumulated(s, r.previous, row).energy[v] >= 1
          <6> HIDE DEF row
          <6> QED BY <1>1, <1>5, <2>3, <2>4, <5>1, AccumulatedAdds
        <5> QED BY <2>2, <3>3, <4>1, <5>1, <5>2
      <4>3. q.daily[DayOf(u)] = Missing
        BY <1>4, <1>5, <2>1, <2>4, <2>7, <2>10, <3>3
      <4> QED BY <2>6, <4>2, <4>3
    <3> QED BY <3>1, <3>2, <3>3
  <2> QED BY <2>9, <2>10
<1>9. \A k \in 2 .. n : k \in 2 .. n - 1 \/ (k = n /\ n # 1)
  BY <1>1
<1> QED BY <1>3, <1>7, <1>8, <1>9 DEF CountsRows

\* A unit between two connected rows of a file lies between two that follow each other.
LEMMA NeighboursShow ==
  ASSUME rows["samples"] \in Seq(Row), InOrder(rows["samples"]), RowsByDay,
         NEW d \in Day, daily[d] = Missing, NEW u \in Observed(FileOf(d)), DayOf(u) = d
  PROVE  \E k \in 2 .. Len(rows["samples"]) : Shown(k, u)
<1> DEFINE all == rows["samples"]
           N   == Len(all)
<1>1. /\ N \in Nat /\ DOMAIN all = 1 .. N
      /\ \A n \in 1 .. N : all[n] \in Row
  BY LenProperties, ElementOfSeq
<1>2. \A n \in 1 .. N : all[n].time \in Nat /\ all[n].day \in Nat /\ all[n].boot \in Nat
  <2>1. \A w \in Row : w.time \in Nat /\ w.day \in Nat /\ w.boot \in Nat
    <3>1. \A w \in Row : w.time \in Nat /\ w.day \in Day /\ w.boot \in Nat
      BY DEF Row, Time
    <3> QED BY <3>1, WriterAssumption
  <2> QED BY <1>1, <2>1
<1>3. \A n \in 1 .. N : \A k \in 1 .. n - 1 : /\ all[k].time < all[n].time
                                              /\ all[k].day <= all[n].day /\ all[k].boot <= all[n].boot
  BY <1>1 DEF InOrder, RowsByDay
<1>4. u \in Unit /\ u \in Nat
  BY EnergyAssumption DEF Observed, Unit
<1>5. PICK a \in FileOf(d), b \in FileOf(d) :
        a.boot = b.boot /\ b.time - a.time <= MaxGap /\ u \in a.time .. b.time - 1
  BY DEF Observed
<1>6. PICK i \in 1 .. N, j \in 1 .. N : a = all[i] /\ b = all[j] /\ all[i].day = d /\ all[j].day = d
  BY <1>1 DEF FileOf, ToSet
<1> HIDE DEF all, N
<1>7. all[i].time <= u /\ u < all[j].time
  BY <1>2, <1>4, <1>5, <1>6
<1>8. i < j
  <2>1. ASSUME j <= i PROVE FALSE
    <3>1. j = i \/ j \in 1 .. i - 1
      BY <1>1, <2>1
    <3> QED BY <1>2, <1>3, <1>4, <1>7, <3>1
  <2> QED BY <1>1, <2>1
<1> DEFINE Later == {n \in i + 1 .. j : u < all[n].time}
<1>9. PICK k \in Later : \A m \in Later : k <= m
  <2>1. j \in Later
    BY <1>1, <1>7, <1>8
  <2>2. Later \in SUBSET Nat
    BY <1>1
  <2> HIDE DEF Later
  <2> QED BY <2>1, <2>2, LeastElement
<1>10. /\ k \in 2 .. N /\ k \in i + 1 .. j /\ u < all[k].time /\ k - 1 \in i .. j /\ k - 1 \in 1 .. N
       /\ k - 1 \in 1 .. k - 1
  BY <1>1, <1>9
<1>11. all[k - 1].time <= u
  <2>1. CASE k - 1 = i
    BY <1>7, <2>1
  <2>2. CASE k - 1 # i
    <3>1. k - 1 \in i + 1 .. j /\ ~(k <= k - 1)
      BY <1>1, <1>10, <2>2
    <3>2. k - 1 \notin Later
      BY <1>9, <3>1
    <3> QED BY <1>2, <1>4, <1>10, <3>1, <3>2
  <2> QED BY <2>1, <2>2
<1>12. \A n \in i .. j : /\ n \in 1 .. N
                         /\ all[i].day <= all[n].day /\ all[n].day <= all[j].day
                         /\ all[i].boot <= all[n].boot /\ all[n].boot <= all[j].boot
                         /\ all[i].time <= all[n].time /\ all[n].time <= all[j].time
  <2> SUFFICES ASSUME NEW n \in i .. j
               PROVE  /\ n \in 1 .. N
                      /\ all[i].day <= all[n].day /\ all[n].day <= all[j].day
                      /\ all[i].boot <= all[n].boot /\ all[n].boot <= all[j].boot
                      /\ all[i].time <= all[n].time /\ all[n].time <= all[j].time
    OBVIOUS
  <2>1. n \in 1 .. N /\ (n = i \/ i \in 1 .. n - 1) /\ (n = j \/ n \in 1 .. j - 1)
    BY <1>1
  <2> QED BY <1>2, <1>3, <2>1
<1>13. \A n \in i .. j : all[n].day = d /\ all[n].boot = all[i].boot
  <2>1. all[i].boot = all[j].boot /\ all[i].day = d /\ all[j].day = d
    BY <1>5, <1>6
  <2> QED BY <1>2, <1>12, <2>1
<1>14. k \in i .. j /\ all[k].time - all[k - 1].time <= MaxGap
  <2>1. k \in i .. j /\ all[j].time - all[i].time <= MaxGap
    BY <1>1, <1>5, <1>6, <1>10
  <2>2. MaxGap \in Nat
    BY EnergyAssumption
  <2>3. all[i].time <= all[k - 1].time /\ all[k].time <= all[j].time
    BY <1>10, <1>12, <2>1
  <2>4. /\ all[i].time \in Nat /\ all[j].time \in Nat /\ all[k].time \in Nat
        /\ all[k - 1].time \in Nat
    BY <1>2, <1>10
  <2> QED BY SMTT(30), <2>1, <2>2, <2>3, <2>4
<1>15. IsRead(k - 1) /\ IsRead(k)
  <2>1. ~Complete(all[k].day) /\ ~Complete(all[k - 1].day)
    BY <1>10, <1>13, <1>14 DEF Complete
  <2> QED BY <2>1 DEF IsRead, all
<1>16. Shown(k, u)
  BY <1>10, <1>11, <1>13, <1>14, <1>15 DEF Shown, all
<1> QED BY <1>10, <1>16 DEF N, all

LEMMA RecoveryCounts ==
  ASSUME MainPart, CardPart, SamplesAreTaken, NEW failing,
         \A d \in Day : daily[d] # Missing => d < DayOf(now),
         InOrder(rows["samples"])
  PROVE  LET r == RecoveredUnfinished(failing)
             N == Len(rows["samples"])
         IN r \in DaysOfRecovery /\ Follows(N, r) /\ CountsRows(N, r)
<1> DEFINE all == rows["samples"]
           N   == Len(all)
           S   == [n \in 0 .. N |-> {r \in RecoveryType : Follows(n, r) /\ CountsRows(n, r)}]
<1>1. /\ all \in Seq(Row) /\ daily \in [Day -> Energy \cup {Missing}]
      /\ N \in Nat /\ DOMAIN all = 1 .. N
      /\ \A n \in 1 .. N : all[n] \in Row
  BY RowsAreRows, WriterAssumption DEF MainPart, CardPart
<1>2. DayOf(now) \in Day /\ now \in Nat
  BY ClockIsTime DEF Time
<1>3. \A n \in 1 .. N : DayOf(all[n].time) <= DayOf(now)
  <2> SUFFICES ASSUME NEW n \in 1 .. N PROVE DayOf(all[n].time) <= DayOf(now)
    OBVIOUS
  <2>1. [boot |-> all[n].boot, time |-> all[n].time] \in taken
    BY <1>1 DEF SamplesAreTaken, CardTaken
  <2>2. all[n].time <= now
    BY <2>1 DEF SamplesAreTaken, TakenBefore
  <2>3. all[n].time \in Nat
    <3>1. all[n] \in Row
      BY <1>1
    <3> HIDE DEF all
    <3> QED BY <3>1 DEF Row, Time
  <2> QED BY <1>2, <2>2, <2>3, DaysFollow
<1>4. Recovery \in S[0]
  <2>1. Recovery \in RecoveryType
    BY <1>1 DEF Recovery, RecoveryType
  <2>2. /\ Recovery.summary = None /\ Recovery.previous = None /\ Recovery.today = None
        /\ Recovery.daily = daily
    BY DEF Recovery
  <2>3. Follows(0, Recovery)
    BY <2>2 DEF Follows
  <2>4. CountsRows(0, Recovery)
    BY DEF CountsRows
  <2> QED BY <1>1, <2>1, <2>3, <2>4
<1>5. ASSUME NEW n \in 1 .. N, NEW r \in RecoveryType \cap S[n - 1]
      PROVE  IF IsRead(n) THEN RecoverDailySample(r, all[n], failing) \in S[n] ELSE r \in S[n]
  <2>1. n - 1 \in 0 .. N /\ n \in 0 .. N /\ n \in Nat /\ all[n] \in Row
    BY <1>1
  <2>2. Follows(n - 1, r) /\ CountsRows(n - 1, r) /\ r \in RecoveryType
    BY <2>1
  <2>3. CASE IsRead(n)
    <3> DEFINE q == RecoverDailySample(r, all[n], failing)
    <3>1. r.previous # None => r.previous.time < all[n].time
      <4> SUFFICES ASSUME r.previous # None PROVE r.previous.time < all[n].time
        OBVIOUS
      <4>1. PICK k \in 1 .. n - 1 : r.previous = PointOf(all[k])
        BY <2>2 DEF Follows
      <4>2. all[k].time < all[n].time
        BY <1>1 DEF InOrder
      <4> QED BY <4>1, <4>2 DEF PointOf
    <3>2. PICK cut : Advances(r, all[n], q, cut)
      <4>1. DayOf(all[n].time) <= DayOf(now)
        BY <1>3
      <4> HIDE DEF all
      <4> QED BY <1>1, <1>2, <2>1, <2>2, <3>1, <4>1, RowAdvances
    <3>3. q \in RecoveryType
      BY <3>2 DEF Advances
    <3> HIDE DEF q
    <3>4. Follows(n, q)
      BY <1>1, <2>2, <3>2, AdvancedFollows
    <3>5. CountsRows(n, q)
      BY <1>1, <2>2, <3>2, AdvancedCounts
    <3> QED BY <2>1, <2>3, <3>3, <3>4, <3>5 DEF q
  <2>4. CASE ~IsRead(n)
    <3>1. Follows(n, r)
      <4>1. \A k \in 1 .. n - 1 : k \in 1 .. n
        BY <2>1
      <4> QED BY <2>2, <2>4, <4>1 DEF Follows
    <3>2. CountsRows(n, r)
      <4>1. \A k \in 2 .. n : k \in 2 .. n - 1 \/ k = n
        BY <2>1
      <4>2. \A u : ~Shown(n, u)
        BY <2>4 DEF Shown
      <4> QED BY <2>2, <4>1, <4>2 DEF CountsRows
    <3> QED BY <2>1, <2>2, <2>4, <3>1, <3>2
  <2> QED BY <2>3, <2>4
<1>6. RecoveredUnfinished(failing) \in S[N]
  <2> HIDE DEF S
  <2> QED BY <1>1, <1>4, <1>5, RecoveryReaches
<1>7. RecoveredUnfinished(failing) \in DaysOfRecovery
  BY RecoveredDays
<1> DEFINE r == RecoveredUnfinished(failing)
<1> HIDE DEF r
<1>8. r \in S[N] /\ r \in DaysOfRecovery
  BY <1>6, <1>7 DEF r
<1>9. r \in DaysOfRecovery /\ Follows(N, r) /\ CountsRows(N, r)
  BY <1>1, <1>8
<1> QED BY <1>9 DEF r

LEMMA RecoveryMissesNothing ==
  ASSUME MainPart, CardPart, WriterPart, SamplesAreTaken, BootIsKnown, DaysAreOver, RowsByDay,
         InOrder(rows["samples"]), RestoreEnergyHistory, NothingMissed
  PROVE  NothingMissed'
<1> DEFINE all == rows["samples"]
           N   == Len(all)
<1>1. PICK failing : /\ daily' = Recovered(failing).daily
                     /\ summary' = IF Recovered(failing).today # None
                                   THEN Recovered(failing).today ELSE summary
  BY DEF RestoreEnergyHistory
<1>2. /\ UNCHANGED <<sdWorkQueue, writer, rows, now, boot, taken>> /\ previous' = None /\ restored'
      /\ active /\ ~restored
  BY DEF RestoreEnergyHistory, queueVars, timeVars
<1>3. summary = None /\ TakenNow = {} /\ TakenNow' = {}
  <2>1. summary = None /\ previous = None
    BY <1>2 DEF BootIsKnown
  <2>2. TakenNow' = TakenNow
    BY <1>2 DEF TakenNow
  <2> QED BY <2>1, <2>2, NothingKnownYet
<1>4. \A d : OldRows(d)' = OldRows(d) /\ FileOf(d)' = FileOf(d)
  BY <1>2 DEF OldRows, FileOf, ToSet
<1>5. all \in Seq(Row) /\ daily \in [Day -> Energy \cup {Missing}]
  BY WriterAssumption DEF MainPart, CardPart
<1>6. DayOf(now) \in Day /\ DayOf(now) \in Nat
  BY ClockIsTime, WriterAssumption
<1>7. \A d \in Day : daily[d] # Missing => d < DayOf(now)
  BY DEF DaysAreOver
<1> DEFINE r == RecoveredUnfinished(failing)
           f == Finished(r, failing)
           p == r.summary.day
<1>8. r \in DaysOfRecovery /\ Follows(N, r) /\ CountsRows(N, r)
  BY <1>7, RecoveryCounts
<1> HIDE DEF r
<1>9. /\ r \in RecoveryType /\ r.today = None /\ r.daily \in [Day -> Energy \cup {Missing}]
      /\ r.summary # None => /\ r.summary \in Summary /\ p \in Day /\ p \in Nat /\ p <= DayOf(now)
                             /\ r.completed = (daily[p] # Missing)
      /\ \A d \in Day : daily[d] # Missing => r.daily[d] = daily[d]
  <2>1. r \in RecoveryType
    BY <1>8 DEF DaysOfRecovery
  <2>2. r.summary # None => r.summary \in Summary /\ p \in Day /\ p \in Nat
    BY <2>1, WriterAssumption DEF RecoveryType, Summary
  <2>3. r.summary # None => p <= DayOf(now)
    BY <1>8 DEF DaysOfRecovery
  <2>4. r.daily \in [Day -> Energy \cup {Missing}]
    BY <2>1 DEF RecoveryType
  <2> QED BY <1>8, <2>1, <2>2, <2>3, <2>4 DEF Follows
<1>10. /\ \/ f = r
          \/ r.summary # None /\ f.daily = r.daily /\ (p = DayOf(now) \/ f.today = r.today)
          \/ /\ r.summary # None /\ ~r.completed /\ f.today = r.today
             /\ f.daily = [r.daily EXCEPT ![p] = r.summary.energy]
       /\ r.summary # None /\ p = DayOf(now) => f.today = r.summary
  <2>1. r.summary # None /\ p = DayOf(now) => f = [r EXCEPT !.today = r.summary]
    BY DEF Finished
  <2>2. r.summary # None /\ p = DayOf(now) => f.today = r.summary
    BY <1>9, <2>1 DEF RecoveryType
  <2>3. r \in RecoveryType
    BY <1>9
  <2>4. \/ f = r
        \/ /\ r.summary # None /\ r.summary.day = DayOf(now) /\ f.daily = r.daily
           /\ f.today = r.summary /\ f.active = r.active
        \/ /\ r.summary # None /\ r.summary.day # DayOf(now) /\ f.daily = r.daily
           /\ f.today = r.today
        \/ /\ r.summary # None /\ r.summary.day # DayOf(now) /\ ~r.completed
           /\ f.today = r.today
           /\ f.daily = [r.daily EXCEPT ![r.summary.day] = r.summary.energy]
    <3> QED BY <2>3, FinishedCases
  <2> HIDE DEF f
  <2> QED BY <2>2, <2>4
<1>11. daily' = f.daily /\ summary' = (IF f.today # None THEN f.today ELSE None)
  <2>1. Recovered(failing) = f
    BY DEF Recovered, r
  <2> HIDE DEF f
  <2> QED BY <1>1, <1>3, <2>1
<1> HIDE DEF f
<1>12. ASSUME NEW d \in Day, daily[d] = Missing, NEW u \in Observed(FileOf(d)), DayOf(u) = d
       PROVE  /\ u \in Unit
              /\ r.summary # None /\ d <= p
              /\ d = p => r.summary.energy[u] >= 1
              /\ r.daily[d] # Missing => r.daily[d][u] >= 1
  <2>1. u \in Unit
    BY DEF Observed
  <2>2. PICK k \in 2 .. N : Shown(k, u)
    BY <1>5, <1>12, NeighboursShow
  <2> QED BY <1>8, <1>12, <2>1, <2>2 DEF CountsRows
<1>13. StoredDaysCount'
  <2> SUFFICES ASSUME NEW d \in Day, daily'[d] # Missing
               PROVE  CountsMost([day |-> d, energy |-> daily'[d]], FileOf(d))
    BY <1>4 DEF StoredDaysCount
  <2>1. daily'[d] = r.daily[d] \/ (d = p /\ r.summary # None /\ ~r.completed /\ daily'[d] = r.summary.energy)
    BY <1>9, <1>10, <1>11
  <2>2. CASE daily[d] # Missing
    <3>1. daily'[d] = daily[d]
      BY <1>9, <2>1, <2>2
    <3> QED BY <2>2, <3>1 DEF NothingMissed, StoredDaysCount
  <2>3. CASE daily[d] = Missing
    <3>1. ASSUME NEW u \in Observed(FileOf(d)), DayOf(u) = d PROVE daily'[d][u] >= 1
      BY <1>12, <2>1, <2>3, <3>1
    <3> QED BY <3>1 DEF CountsMost
  <2> QED BY <2>2, <2>3
<1>14. TodayCounts'
  <2> SUFFICES ASSUME summary' # None
               PROVE  CountsAll(summary', OldRows(summary'.day)) /\ CountsAll(summary', {})
    BY <1>3, <1>4 DEF TodayCounts
  <2>1. summary' = r.summary /\ r.summary # None /\ p = DayOf(now)
    BY <1>9, <1>10, <1>11
  <2>2. daily[p] = Missing
    BY <1>6, <1>7, <2>1
  <2>3. OldRows(p) \subseteq FileOf(p)
    BY DEF OldRows
  <2>4. ASSUME NEW u \in Observed(OldRows(p)), DayOf(u) = p PROVE r.summary.energy[u] >= 1
    <3>1. u \in Observed(FileOf(p))
      BY <2>3, MoreIsObserved
    <3> QED BY <1>9, <1>12, <2>1, <2>2, <2>4, <3>1
  <2>5. CountsAll(r.summary, OldRows(p)) /\ CountsAll(r.summary, {})
    BY <2>4 DEF CountsAll, Observed
  <2> QED BY <2>1, <2>5
<1>15. OldDaysAreRecovered'
  <2> SUFFICES ASSUME NEW u \in Unit, DayOf(u) >= DayOf(now), u \in Observed(OldRows(DayOf(u)))
               PROVE  summary' # None /\ summary'.day = DayOf(u)
    BY <1>2, <1>4 DEF OldDaysAreRecovered
  <2> DEFINE d == DayOf(u)
  <2>1. d \in Day /\ d \in Nat
    BY UnitDays
  <2>2. daily[d] = Missing
    BY <1>6, <1>7, <2>1
  <2>3. u \in Observed(FileOf(d))
    <3>1. OldRows(d) \subseteq FileOf(d)
      BY DEF OldRows
    <3> QED BY <3>1, MoreIsObserved
  <2>4. r.summary # None /\ d <= p
    <3> HIDE DEF d
    <3>1. DayOf(u) = d
      BY DEF d
    <3> QED BY <1>12, <2>1, <2>2, <2>3, <3>1
  <2>5. p = d /\ p = DayOf(now)
    BY <1>6, <1>9, <2>1, <2>4
  <2> QED BY <1>10, <1>11, <2>4, <2>5
<1>16. QueueCounts' /\ ItemCounts'
  <2>1. QueueCounts /\ ItemCounts
    BY DEF NothingMissed
  <2>2. \A w : WorkCounts(w) => CountsMost(w, OldRows(w.day)') /\ CountsMost(w, TakenNow')
    BY <1>3, <1>4 DEF WorkCounts
  <2>3. QueueCounts'
    BY <1>2, <2>1, <2>2 DEF QueueCounts, WorkCounts
  <2>4. ItemCounts'
    <3> SUFFICES ASSUME writer'.at = "daily", NEW w, w = writer'.item
                 PROVE  CountsMost(w, OldRows(w.day)') /\ CountsMost(w, TakenNow')
      BY DEF ItemCounts, WorkCounts
    <3> QED BY <1>2, <2>1, <2>2 DEF ItemCounts
  <2> QED BY <2>3, <2>4
<1> QED BY <1>13, <1>14, <1>15, <1>16 DEF NothingMissed

-----------------------------------------------------------------------------
(* The loss is bounded.                                                     *)

LossInvariant == DaysAreOver /\ RowsByDay /\ BootIsKnown /\ NothingIsMissed

LEMMA NothingIsMissedParts == NothingIsMissed <=> (InOrder(rows["samples"]) => NothingMissed)
  BY DEF NothingIsMissed, NothingMissed

LEMMA BeginsMissingNothing ==
  ASSUME Init PROVE LossInvariant
<1>1. /\ taken = {} /\ rows["samples"] = <<>> /\ sdWorkQueue = <<>> /\ writer = Idle
      /\ summary = None /\ previous = None /\ daily = [d \in Day |-> Missing] /\ restored = FALSE
  BY WriterAssumption DEF Init, InitWriter, InitRam
<1>2. DaysAreOver
  BY <1>1 DEF DaysAreOver, ToSet, Idle
<1>3. RowsByDay
  BY <1>1 DEF RowsByDay, Idle
<1>4. BootIsKnown
  BY <1>1 DEF BootIsKnown, TakenNow
<1>5. NothingMissed
  BY <1>1 DEF NothingMissed, StoredDaysCount, QueueCounts, ItemCounts, TodayCounts,
              OldDaysAreRecovered, ToSet, Idle
<1> QED BY <1>2, <1>3, <1>4, <1>5, NothingIsMissedParts DEF LossInvariant

LEMMA LossStep ==
  ASSUME CardInvariant, EnergyIsObserved, LossInvariant, [Next]_vars
  PROVE  LossInvariant'
<1>1. /\ MainPart /\ RingPart /\ CardPart /\ WriterPart
      /\ SamplesAreTaken /\ TodayObserved
      /\ DaysAreOver /\ RowsByDay /\ BootIsKnown
  BY Parts, EnergyParts DEF LossInvariant, SummariesAreObserved
<1>2. DaysAreOver' /\ RowsByDay' /\ BootIsKnown'
  BY <1>1, DaysStayOver, RowsStayByDay, BootStaysKnown
<1>3. InOrder(rows'["samples"]) => InOrder(rows["samples"])
  BY <1>1, FilesOfStoredDaysStay
<1>4. InOrder(rows["samples"]) => NothingMissed
  BY NothingIsMissedParts DEF LossInvariant
<1>5. InOrder(rows["samples"]) => NothingMissed'
  <2> SUFFICES ASSUME InOrder(rows["samples"]), NothingMissed PROVE NothingMissed'
    BY <1>4
  <2>1. CASE TakeSample
    BY <1>1, <2>1, SampleMissesNothing
  <2>2. CASE RestoreEnergyHistory
    BY <1>1, <2>2, RecoveryMissesNothing
  <2>3. CASE ~TakeSample /\ ~RestoreEnergyHistory
    BY <1>1, <2>3, OtherStepsMissNothing
  <2> QED BY <2>1, <2>2, <2>3
<1>6. NothingIsMissed'
  BY <1>3, <1>5 DEF NothingIsMissed, NothingMissed
<1> QED BY <1>2, <1>6 DEF LossInvariant

\* The summary of a day on the card counts every unit that the rows of its file show, but those of
\* the last interval before midnight, whatever restarts, full queues and failures of the card there
\* were (updateDailySummary, writeSdDailySummary, restoreEnergyHistory).
THEOREM LossStaysBounded == Spec => []LossIsBounded
<1>1. LossInvariant /\ EnergyIsObserved /\ CardInvariant => LossIsBounded
  <2> SUFFICES ASSUME LossInvariant, EnergyIsObserved, CardInvariant, InOrder(rows["samples"]),
                      NEW d \in Day, daily[d] # Missing,
                      NEW u \in Observed(FileOf(d)), DayOf(u) = d, u < DayStart(d + 1) - MaxGap
               PROVE  daily[d][u] = 1
    BY DEF LossIsBounded
  <2>1. u \in Unit
    BY DEF Observed
  <2>2. daily[d][u] >= 1
    BY NothingIsMissedParts DEF LossInvariant, NothingMissed, StoredDaysCount, CountsMost
  <2>3. daily[d][u] <= 1
    BY <2>1 DEF EnergyIsObserved, IsObserved
  <2>4. daily[d][u] \in Nat
    <3>1. daily[d] \in Energy
      BY DEF CardInvariant, TypeOK
    <3> QED BY <2>1, <3>1 DEF Energy
  <2> QED BY <2>2, <2>3, <2>4
<1>2. Init => LossInvariant
  BY BeginsMissingNothing
<1>3. CardInvariant /\ EnergyIsObserved /\ LossInvariant /\ [Next]_vars => LossInvariant'
  BY LossStep
<1> QED BY <1>1, <1>2, <1>3, CardInvariantHolds, EnergyInvariantHolds, PTL DEF Spec
==============================================================================
