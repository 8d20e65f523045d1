---------------------------- MODULE SchedulerProofs ----------------------------
(***************************************************************************)
(* Proofs about the Scheduler, for any schedules, any number of places in   *)
(* the ring, any minutes and any saves that fail: the configuration stays   *)
(* consistent, a schedule is taken up once in its minute, and the ring is a *)
(* first-in first-out queue of action groups.                               *)
(***************************************************************************)
EXTENDS MCScheduler, FiniteSetTheorems, SequenceTheorems, WellFoundedInduction, TLAPS

-----------------------------------------------------------------------------
(* Numbers.                                                                *)

\* A non-empty set of natural numbers has a least element.
LEMMA LeastElement ==
  ASSUME NEW S \in SUBSET Nat, S # {}
  PROVE  \E x \in S : \A y \in S : x <= y
<1> DEFINE R == OpToRel(<, Nat)
<1>1. \A a, b \in Nat : a < b => <<a, b>> \in R
  BY Zenon DEF OpToRel
<1>2. IsWellFoundedOn(R, Nat)
  BY NatLessThanWellFounded, Zenon
<1> HIDE DEF R
<1>3. PICK x \in S : \A y \in S : ~(<<y, x>> \in R)
  BY <1>2, WFMin
<1>4. \A y \in S : ~(y < x)
  BY <1>1, <1>3, Zenon
<1> QED BY <1>3, <1>4

\* Two numbers that are congruent are equal or a cycle apart.
LEMMA CongruentIsApart ==
  ASSUME NEW N \in Nat \ {0}, NEW x \in Nat, NEW y \in Nat, x % N = y % N, x < y
  PROVE  y - x >= N
OBVIOUS

\* The rest of a number that is less than twice the divisor.
LEMMA RestOfSmall ==
  ASSUME NEW N \in Nat \ {0}, NEW x \in 0 .. 2 * N - 1
  PROVE  x % N = IF x < N THEN x ELSE x - N
OBVIOUS

LEMMA RestInRange ==
  ASSUME NEW N \in Nat \ {0}, NEW x \in Nat
  PROVE  x % N \in 0 .. N - 1
OBVIOUS

-----------------------------------------------------------------------------
(* The schedules.                                                          *)

\* What the code takes care of in a configuration.
Wellformed(es) ==
  /\ es \in Seq(Entry) /\ Len(es) <= SCHEDULER_MAX_ENTRIES
  /\ \A i, j \in DOMAIN es : es[i].id = es[j].id => i = j

\* A sequence without one of its elements.
Without(s, i) == SubSeq(s, 1, i - 1) \o SubSeq(s, i + 1, Len(s))

LEMMA WithoutProperties ==
  ASSUME NEW S, NEW s \in Seq(S), NEW i \in DOMAIN s
  PROVE  /\ Without(s, i) \in Seq(S) /\ Len(Without(s, i)) = Len(s) - 1
         /\ \A k \in DOMAIN Without(s, i) : Without(s, i)[k] = s[IF k < i THEN k ELSE k + 1]
<1>1. Len(s) \in Nat /\ i \in 1 .. Len(s) /\ DOMAIN s = 1 .. Len(s)
  BY LenProperties
<1> DEFINE a == SubSeq(s, 1, i - 1)
           b == SubSeq(s, i + 1, Len(s))
           t == Without(s, i)
<1>2. a \in Seq(S) /\ Len(a) = i - 1 /\ \A k \in 1 .. i - 1 : a[k] = s[k]
  BY <1>1, SubSeqProperties
<1>3. b \in Seq(S) /\ Len(b) = Len(s) - i /\ \A k \in 1 .. Len(s) - i : b[k] = s[i + k]
  <2>1. i + 1 \in 1 .. Len(s) + 1 /\ Len(s) \in (i + 1) - 1 .. Len(s)
        /\ Len(s) - (i + 1) + 1 = Len(s) - i
    BY <1>1
  <2>2. \A k \in 1 .. Len(s) - i : (i + 1) + k - 1 = i + k
    BY <1>1
  <2> QED BY <2>1, <2>2, SubSeqProperties
<1> HIDE DEF a, b
<1>4. t = a \o b
  BY DEF a, b, Without
<1> HIDE DEF t
<1>5. /\ t \in Seq(S) /\ Len(t) = Len(a) + Len(b)
      /\ \A k \in 1 .. Len(a) + Len(b) : t[k] = IF k <= Len(a) THEN a[k] ELSE b[k - Len(a)]
  <2>1. /\ a \o b \in Seq(S) /\ Len(a \o b) = Len(a) + Len(b)
        /\ \A k \in 1 .. Len(a) + Len(b) :
             (a \o b)[k] = IF k <= Len(a) THEN a[k] ELSE b[k - Len(a)]
    BY <1>2, <1>3, ConcatProperties
  <2> QED BY <2>1, <1>4, Zenon
<1>6. Len(a) + Len(b) = Len(s) - 1
  <2>1. Len(a) = i - 1 /\ Len(b) = Len(s) - i
    BY <1>2, <1>3
  <2>2. (i - 1) + (Len(s) - i) = Len(s) - 1
    BY <1>1
  <2> QED BY <2>1, <2>2
<1>7. ASSUME NEW k \in 1 .. Len(s) - 1
      PROVE  t[k] = s[IF k < i THEN k ELSE k + 1]
  <2>1. t[k] = IF k <= Len(a) THEN a[k] ELSE b[k - Len(a)]
    BY <1>5, <1>6
  <2>2. CASE k < i
    <3>1. k <= Len(a) /\ k \in 1 .. i - 1
      BY <2>2, <1>1, <1>2
    <3> QED BY <3>1, <2>1, <2>2, <1>2
  <2>3. CASE ~(k < i)
    <3>1. Len(a) = i - 1
      BY <1>2
    <3>2. ~(k <= Len(a)) /\ k - Len(a) \in 1 .. Len(s) - i /\ i + (k - Len(a)) = k + 1
      BY <2>3, <3>1, <1>1
    <3> QED BY <3>2, <2>1, <2>3, <1>3
  <2> QED BY <2>2, <2>3
<1>8. DOMAIN t = 1 .. Len(s) - 1
  BY <1>5, <1>6, LenProperties
<1> QED BY <1>5, <1>6, <1>7, <1>8 DEF t

\* A new schedule gets an ID that no other has.
LEMMA NextIdIsFree ==
  ASSUME TypeOK, UsedIds # Id
  PROVE  NextId \in Id \ UsedIds
<1>1. UsedIds \subseteq Id
  <2>1. \A i \in DOMAIN entries : entries[i] \in Entry
    BY ElementOfSeq, LenProperties DEF TypeOK
  <2> QED BY <2>1 DEF UsedIds, Entry
<1>2. Id \ UsedIds \in SUBSET Nat /\ Id \ UsedIds # {}
  BY <1>1, SchedulerAssumption
<1>3. \E id \in Id \ UsedIds : \A other \in Id \ UsedIds : id <= other
  BY <1>2, LeastElement
<1> QED BY <1>3, Zenon DEF NextId

\* An unset last minute makes a schedule as good as new.
LEMMA ConfigIsWellformed ==
  ASSUME NEW es, Wellformed(es), NEW en
  PROVE  Wellformed(Config(es, en).entries) /\ Config(Config(es, en).entries, en) = Config(es, en)
<1> DEFINE cs == [i \in DOMAIN es |-> [es[i] EXCEPT !.lastExecutionKey = None]]
<1>1. Len(es) \in Nat /\ DOMAIN es = 1 .. Len(es) /\ \A i \in DOMAIN es : es[i] \in Entry
  BY ElementOfSeq, LenProperties DEF Wellformed
<1>2. \A i \in DOMAIN es : cs[i] \in Entry /\ cs[i].id = es[i].id /\ cs[i].lastExecutionKey = None
  BY <1>1 DEF Entry
<1>3. cs \in Seq(Entry) /\ Len(cs) = Len(es) /\ DOMAIN cs = DOMAIN es
  BY <1>1, <1>2
<1>4. Wellformed(cs)
  BY <1>2, <1>3 DEF Wellformed
<1>5. \A i \in DOMAIN es : [cs[i] EXCEPT !.lastExecutionKey = None] = cs[i]
  BY <1>1, <1>2 DEF Entry
<1>6. [i \in DOMAIN cs |-> [cs[i] EXCEPT !.lastExecutionKey = None]] = cs
  BY <1>3, <1>5
<1>7. Config(es, en).entries = cs
  BY DEF Config
<1> HIDE DEF cs
<1>8. Config(cs, en) = [enabled |-> en, entries |-> cs]
  BY <1>6 DEF Config
<1>9. Config(es, en) = [enabled |-> en, entries |-> cs]
  BY DEF cs, Config
<1> QED BY <1>4, <1>7, <1>8, <1>9

-----------------------------------------------------------------------------
(* The configuration stays consistent.                                     *)

RingType == [slot : [Place -> GroupType], start : Place, count : 0 .. SCHEDULER_MAX_ENTRIES]

LEMMA EntriesAreWellformed ==
  ASSUME TypeOK, UniqueIds
  PROVE  /\ Wellformed(entries)
         /\ Len(entries) \in Nat /\ DOMAIN entries = 1 .. Len(entries)
         /\ \A i \in DOMAIN entries : entries[i] \in Entry
  BY ElementOfSeq, LenProperties DEF TypeOK, UniqueIds, Wellformed

\* A change of the configuration leaves a consistent one, whatever becomes of its save.
LEMMA CommitKeepsConfiguration ==
  ASSUME ConfigurationHolds, NEW es, Wellformed(es), NEW en \in BOOLEAN, CommitChange(es, en)
  PROVE  ConfigurationHolds'
<1> USE DEF ConfigurationHolds
<1>1. PICK outcome \in SaveOutcome :
        /\ stored' = CASE outcome = "ok" -> Config(es, en)
                       [] outcome = "failed" -> stored
                       [] OTHER -> Torn
        /\ entries' = IF outcome \in {"ok", "short"} THEN es ELSE entries
        /\ enabled' = IF outcome \in {"ok", "short"} THEN en ELSE enabled
  BY DEF CommitChange
<1>2. /\ ran' = Relevant(entries')
      /\ edits < MaxEdit /\ edits' = edits + 1
      /\ UNCHANGED <<queueVars, lastChecked, clockVars, reboots, reran>>
  BY DEF CommitChange
<1>3. Wellformed(entries') /\ enabled' \in BOOLEAN
  BY <1>1, EntriesAreWellformed DEF TypeOK
<1>4. TypeOK'
  <2>1. ran' \subseteq ran
    BY <1>2 DEF Relevant
  <2>2. edits' \in 0 .. MaxEdit
    BY <1>2, SchedulerAssumption DEF TypeOK
  <2> QED BY <1>2, <1>3, <2>1, <2>2 DEF TypeOK, Wellformed, queueVars, clockVars
<1>5. UniqueIds'
  BY <1>3 DEF UniqueIds, Wellformed
<1>6. StoredIsCurrent'
  <2>1. CASE outcome = "ok"
    BY <1>1, <2>1 DEF StoredIsCurrent
  <2>2. CASE outcome = "failed"
    <3>1. entries' = entries /\ enabled' = enabled /\ stored' = stored
      BY <1>1, <2>2
    <3> QED BY <3>1 DEF StoredIsCurrent
  <2>3. CASE outcome \notin {"ok", "failed"}
    BY <1>1, <2>3 DEF StoredIsCurrent
  <2> QED BY <2>1, <2>2, <2>3
<1> QED BY <1>4, <1>5, <1>6

LEMMA AddKeepsConfiguration ==
  ASSUME ConfigurationHolds, NEW settings \in Settings, Add(settings)
  PROVE  ConfigurationHolds'
<1> DEFINE e == NewEntry(NextId, settings)
           es == Append(entries, e)
<1>1. NextId \in Id \ UsedIds
  BY NextIdIsFree DEF Add, ConfigurationHolds
<1>2. e \in Entry /\ e.id = NextId
  BY <1>1 DEF NewEntry, Entry
<1>3. /\ entries \in Seq(Entry) /\ Len(entries) \in Nat /\ DOMAIN entries = 1 .. Len(entries)
      /\ Len(entries) + 1 <= SCHEDULER_MAX_ENTRIES
  BY EntriesAreWellformed, SchedulerAssumption DEF Add, ConfigurationHolds, TypeOK
<1> HIDE DEF e
<1>4. /\ es \in Seq(Entry) /\ Len(es) = Len(entries) + 1
      /\ \A i \in 1 .. Len(entries) : es[i] = entries[i]
      /\ es[Len(entries) + 1] = e
  BY <1>2, <1>3, AppendProperties
<1>5. \A i \in 1 .. Len(entries) : entries[i].id # e.id
  BY <1>1, <1>2, <1>3 DEF UsedIds
<1>6. DOMAIN es = 1 .. Len(entries) + 1
  BY <1>4, LenProperties
<1> HIDE DEF es
<1>7. ASSUME NEW i \in DOMAIN es, NEW j \in DOMAIN es, es[i].id = es[j].id
      PROVE  i = j
  <2>1. CASE i \in 1 .. Len(entries) /\ j \in 1 .. Len(entries)
    BY <1>3, <1>4, <1>7, <2>1 DEF ConfigurationHolds, UniqueIds
  <2>2. CASE i = Len(entries) + 1 \/ j = Len(entries) + 1
    BY <1>3, <1>4, <1>5, <1>6, <1>7, <2>2
  <2> QED BY <1>3, <1>6, <2>1, <2>2
<1>8. Wellformed(es)
  BY <1>3, <1>4, <1>7 DEF Wellformed
<1>9. CommitChange(es, enabled) /\ enabled \in BOOLEAN
  BY DEF Add, es, e, ConfigurationHolds, TypeOK
<1> QED BY <1>8, <1>9, CommitKeepsConfiguration

LEMMA UpdateKeepsConfiguration ==
  ASSUME ConfigurationHolds, NEW settings \in Settings, NEW i \in DOMAIN entries,
         Update(i, settings)
  PROVE  ConfigurationHolds'
<1> DEFINE es == [entries EXCEPT ![i].settings = settings]
<1>1. /\ entries \in Seq(Entry) /\ Len(entries) <= SCHEDULER_MAX_ENTRIES
      /\ Len(entries) \in Nat /\ DOMAIN entries = 1 .. Len(entries)
      /\ \A j \in DOMAIN entries : entries[j] \in Entry
  BY EntriesAreWellformed DEF ConfigurationHolds, TypeOK
<1>2. \A j \in DOMAIN entries : es[j] \in Entry /\ es[j].id = entries[j].id
  BY <1>1 DEF Entry
<1>3. es \in Seq(Entry) /\ Len(es) = Len(entries) /\ DOMAIN es = DOMAIN entries
  BY <1>1, <1>2
<1> HIDE DEF es
<1>4. Wellformed(es)
  BY <1>1, <1>2, <1>3 DEF Wellformed, ConfigurationHolds, UniqueIds
<1>5. CommitChange(es, enabled) /\ enabled \in BOOLEAN
  BY DEF Update, es, ConfigurationHolds, TypeOK
<1> QED BY <1>4, <1>5, CommitKeepsConfiguration

LEMMA RemoveKeepsConfiguration ==
  ASSUME ConfigurationHolds, NEW i \in DOMAIN entries, Remove(i)
  PROVE  ConfigurationHolds'
<1> DEFINE es == Without(entries, i)
<1>1. /\ entries \in Seq(Entry) /\ Len(entries) <= SCHEDULER_MAX_ENTRIES
      /\ Len(entries) \in Nat /\ DOMAIN entries = 1 .. Len(entries)
  BY EntriesAreWellformed DEF ConfigurationHolds, TypeOK
<1>2. /\ es \in Seq(Entry) /\ Len(es) = Len(entries) - 1
      /\ \A k \in DOMAIN es : es[k] = entries[IF k < i THEN k ELSE k + 1]
  BY <1>1, WithoutProperties
<1>3. DOMAIN es = 1 .. Len(entries) - 1
  BY <1>2, LenProperties
<1>4. CommitChange(es, enabled) /\ enabled \in BOOLEAN
  BY DEF Remove, Without, ConfigurationHolds, TypeOK
<1> HIDE DEF es
<1>5. ASSUME NEW j \in DOMAIN es, NEW k \in DOMAIN es, es[j].id = es[k].id
      PROVE  j = k
  <2> DEFINE a == IF j < i THEN j ELSE j + 1
             b == IF k < i THEN k ELSE k + 1
  <2>1. a \in DOMAIN entries /\ b \in DOMAIN entries
    BY <1>1, <1>3
  <2>2. entries[a].id = entries[b].id
    BY <1>2, <1>5
  <2>3. a = b
    BY <2>1, <2>2 DEF ConfigurationHolds, UniqueIds
  <2> QED BY <2>3, <1>1, <1>3
<1>6. Len(es) <= SCHEDULER_MAX_ENTRIES
  BY <1>1, <1>2, SchedulerAssumption
<1>7. Wellformed(es)
  BY <1>2, <1>5, <1>6 DEF Wellformed
<1> QED BY <1>4, <1>7, CommitKeepsConfiguration

\* The ring after groups have been added, and after an action.
LEMMA EnqueuedType ==
  ASSUME NEW q \in RingType, NEW n \in Nat, NEW gs \in [1 .. n -> GroupType]
  PROVE  Enqueued(q, gs) \in RingType
<1> DEFINE room == SCHEDULER_MAX_ENTRIES - q.count
           m    == IF Len(gs) <= room THEN Len(gs) ELSE room
           slot == [p \in Place |->
                      IF \E k \in 1 .. m : WriteIndex(q, k) = p
                      THEN gs[CHOOSE k \in 1 .. m : WriteIndex(q, k) = p]
                      ELSE q.slot[p]]
<1>1. /\ q = [slot |-> q.slot, start |-> q.start, count |-> q.count]
      /\ q.slot \in [Place -> GroupType] /\ q.start \in Place
      /\ q.count \in 0 .. SCHEDULER_MAX_ENTRIES
  BY DEF RingType
<1>2. Len(gs) = n
  OBVIOUS
<1>3. m \in 0 .. n /\ q.count + m \in 0 .. SCHEDULER_MAX_ENTRIES
  BY <1>1, <1>2, SchedulerAssumption
<1>4. slot \in [Place -> GroupType]
  <2> SUFFICES ASSUME NEW p \in Place PROVE slot[p] \in GroupType
    OBVIOUS
  <2> HIDE DEF m
  <2>1. CASE \E k \in 1 .. m : WriteIndex(q, k) = p
    <3> DEFINE k == CHOOSE k \in 1 .. m : WriteIndex(q, k) = p
    <3>1. k \in 1 .. m
      BY <2>1
    <3>2. slot[p] = gs[k]
      BY <2>1
    <3> HIDE DEF k, slot
    <3> QED BY <3>1, <3>2, <1>3
  <2>2. CASE ~ \E k \in 1 .. m : WriteIndex(q, k) = p
    BY <2>2, <1>1
  <2> QED BY <2>1, <2>2
<1>5. Enqueued(q, gs) = [q EXCEPT !.slot = slot, !.count = q.count + m]
  BY DEF Enqueued
<1> HIDE DEF slot, m
<1> QED BY <1>1, <1>3, <1>4, <1>5 DEF RingType

LEMMA PoppedType ==
  ASSUME NEW q \in RingType, q.count > 0
  PROVE  Popped(q) \in RingType
<1>1. (q.start + 1) % SCHEDULER_MAX_ENTRIES \in Place
  <2>1. q.start + 1 \in Nat
    BY SchedulerAssumption DEF RingType, Place
  <2> QED BY <2>1, RestInRange, SchedulerAssumption DEF Place
<1>2. q.count - 1 \in 0 .. SCHEDULER_MAX_ENTRIES
  BY SchedulerAssumption DEF RingType
<1>3. NoGroup \in GroupType
  BY SchedulerAssumption DEF NoGroup, GroupType
<1>4. [q.slot EXCEPT ![q.start] = NoGroup] \in [Place -> GroupType]
  BY <1>3 DEF RingType
<1> QED BY <1>1, <1>2, <1>4 DEF Popped, RingType

LEMMA DispatchedType ==
  ASSUME NEW q \in RingType, q.count > 0, NEW result
  PROVE  Dispatched(q, result) \in RingType
<1> DEFINE g == q.slot[q.start]
<1>1. g \in GroupType /\ q.start \in Place
  BY DEF RingType
<1>2. CASE SequenceContinues(result) /\ g.nextActionIndex + 1 < g.actionCount
  <2>1. g.nextActionIndex + 1 \in 0 .. SCHEDULER_MAX_ACTIONS - 1
    BY <1>1, <1>2, SchedulerAssumption DEF GroupType
  <2>2. [g EXCEPT !.nextActionIndex = g.nextActionIndex + 1] \in GroupType
    BY <1>1, <2>1 DEF GroupType
  <2>3. Dispatched(q, result) =
          [q EXCEPT !.slot = [q.slot EXCEPT ![q.start] =
                                [g EXCEPT !.nextActionIndex = g.nextActionIndex + 1]]]
    BY <1>2, <1>1 DEF Dispatched, RingType
  <2> QED BY <1>1, <2>2, <2>3 DEF RingType
<1>3. CASE ~(SequenceContinues(result) /\ g.nextActionIndex + 1 < g.actionCount)
  BY <1>3, PoppedType DEF Dispatched
<1> QED BY <1>2, <1>3

\* Numbers up to n can be put in order.
LEMMA InOrderType ==
  ASSUME NEW n \in Nat, NEW S \in SUBSET (1 .. n)
  PROVE  Cardinality(S) \in Nat /\ InOrder(S) \in [1 .. Cardinality(S) -> S]
<1> DEFINE Part(m) == S \cap (1 .. m)
           Ordered(s) == \A j, k \in DOMAIN s : j < k => s[j] < s[k]
           Good(m) == \E s \in [1 .. Cardinality(Part(m)) -> Part(m)] : Ordered(s)
           Bad == {m \in 0 .. n : ~Good(m)}
<1>1. \A m \in 0 .. n : IsFiniteSet(Part(m)) /\ Cardinality(Part(m)) \in Nat
  <2>1. \A m \in 0 .. n : IsFiniteSet(1 .. m)
    BY FS_Interval
  <2> QED BY <2>1, FS_Subset, FS_CardinalityType
<1>2. Bad = {}
  <2> SUFFICES ASSUME Bad # {} PROVE FALSE
    OBVIOUS
  <2> HIDE DEF Good
  <2> HIDE DEF Bad
  <2>0. Bad \in SUBSET Nat /\ \A m \in Bad : m \in 0 .. n /\ ~Good(m)
    BY DEF Bad
  <2>1. PICK m \in Bad : \A l \in Bad : m <= l
    BY <2>0, LeastElement
  <2>2. m \in 0 .. n /\ ~Good(m)
    BY <2>0
  <2>3. CASE m = 0
    <3>1. Part(m) = {}
      BY <2>3
    <3>2. Cardinality(Part(m)) = 0
      BY <3>1, FS_EmptySet
    <3>3. [k \in 1 .. 0 |-> 0] \in [1 .. 0 -> Part(m)] /\ Ordered([k \in 1 .. 0 |-> 0])
      BY <3>1
    <3> QED BY <3>2, <3>3, <2>2 DEF Good
  <2>4. CASE m # 0
    <3>1. m - 1 \in 0 .. n /\ Good(m - 1)
      BY <2>1, <2>2, <2>4 DEF Bad
    <3> DEFINE c == Cardinality(Part(m - 1))
    <3>2. PICK s \in [1 .. c -> Part(m - 1)] : Ordered(s)
      BY <3>1 DEF Good
    <3>3. c \in Nat /\ IsFiniteSet(Part(m - 1))
      BY <1>1, <3>1
    <3>4. CASE m \notin S
      <4>1. Part(m) = Part(m - 1)
        BY <2>2, <3>4
      <4> QED BY <4>1, <3>2, <2>2 DEF Good
    <3>5. CASE m \in S
      <4> DEFINE t == [k \in 1 .. c + 1 |-> IF k = c + 1 THEN m ELSE s[k]]
      <4>1. Part(m) = Part(m - 1) \cup {m} /\ m \notin Part(m - 1)
        BY <2>2, <2>4, <3>5
      <4>2. Cardinality(Part(m)) = c + 1
        BY <4>1, <3>3, FS_AddElement
      <4> HIDE DEF c
      <4>3. \A k \in 1 .. c : s[k] \in Part(m - 1) /\ s[k] < m
        <5>1. \A k \in 1 .. c : s[k] \in Part(m - 1)
          BY <3>2
        <5>2. \A x \in Part(m - 1) : x < m
          BY <2>2
        <5> QED BY <5>1, <5>2
      <4>4. t \in [1 .. c + 1 -> Part(m)]
        BY <4>1, <4>3, <3>3
      <4>5. ASSUME NEW j \in 1 .. c + 1, NEW k \in 1 .. c + 1, j < k
            PROVE  t[j] < t[k]
        <5>1. j \in 1 .. c /\ t[j] = s[j]
          BY <4>5, <3>3
        <5>2. CASE k = c + 1
          BY <5>1, <5>2, <4>3
        <5>3. CASE k # c + 1
          <6>1. k \in 1 .. c /\ t[k] = s[k]
            BY <5>3, <3>3
          <6>2. j \in DOMAIN s /\ k \in DOMAIN s
            BY <5>1, <6>1, <3>2 DEF c
          <6> QED BY <5>1, <6>1, <6>2, <4>5, <3>2
        <5> QED BY <5>2, <5>3
      <4>6. Ordered(t)
        BY <4>5
      <4> QED BY <4>2, <4>4, <4>6, <2>2 DEF Good
    <3> QED BY <3>4, <3>5
  <2> QED BY <2>3, <2>4
<1>3. Part(n) = S
  OBVIOUS
<1>4. \E s \in [1 .. Cardinality(S) -> S] : Ordered(s)
  <2> HIDE DEF Good
  <2>1. Good(n)
    BY <1>2
  <2> QED BY <2>1, <1>3 DEF Good
<1>5. InOrder(S) \in [1 .. Cardinality(S) -> S]
  BY <1>4 DEF InOrder
<1> QED BY <1>1, <1>3, <1>5

\* The groups a check of this minute adds to the ring.
Added(passed) == [k \in DOMAIN ToRun(passed) |-> Group(entries[ToRun(passed)[k]])]

LEMMA AddedType ==
  ASSUME TypeOK, UniqueIds, NEW passed
  PROVE  \E n \in Nat : /\ Added(passed) \in [1 .. n -> GroupType]
                        /\ \A k \in 1 .. n : \E i \in DOMAIN entries : Added(passed)[k] = Group(entries[i])
<1> DEFINE n == Cardinality(Chosen(passed))
<1>1. Len(entries) \in Nat /\ Chosen(passed) \in SUBSET (1 .. Len(entries))
  BY EntriesAreWellformed DEF Chosen
<1>2. n \in Nat /\ ToRun(passed) \in [1 .. n -> Chosen(passed)]
  BY <1>1, InOrderType DEF ToRun
<1>3. \A i \in DOMAIN entries : Group(entries[i]) \in GroupType
  BY EntriesAreWellformed, SchedulerAssumption DEF Entry, Settings, Group, GroupType
<1> HIDE DEF n
<1>4. DOMAIN ToRun(passed) = 1 .. n
  BY <1>2
<1>5. \A k \in 1 .. n : ToRun(passed)[k] \in DOMAIN entries
  BY <1>2 DEF Chosen
<1> QED BY <1>2, <1>3, <1>4, <1>5 DEF Added

\* The schedules after a check of this minute: all but the minutes they ran in stays.
LEMMA MarkedKeepsSchedules ==
  ASSUME TypeOK, UniqueIds
  PROVE  /\ Wellformed(Marked) /\ DOMAIN Marked = DOMAIN entries
         /\ \A i \in DOMAIN entries :
              /\ Marked[i] \in Entry
              /\ Marked[i].id = entries[i].id /\ Marked[i].settings = entries[i].settings
              /\ Marked[i].lastExecutionKey =
                   IF DueNow(i) THEN minute ELSE entries[i].lastExecutionKey
         /\ \A en : Config(Marked, en) = Config(entries, en)
<1>1. /\ entries \in Seq(Entry) /\ Len(entries) <= SCHEDULER_MAX_ENTRIES
      /\ Len(entries) \in Nat /\ DOMAIN entries = 1 .. Len(entries)
      /\ \A i \in DOMAIN entries : entries[i] \in Entry
      /\ minute \in Minute
  BY EntriesAreWellformed DEF TypeOK
<1>2. ASSUME NEW i \in DOMAIN entries
      PROVE  /\ Marked[i] \in Entry
             /\ Marked[i].id = entries[i].id /\ Marked[i].settings = entries[i].settings
             /\ Marked[i].lastExecutionKey =
                  IF DueNow(i) THEN minute ELSE entries[i].lastExecutionKey
             /\ [Marked[i] EXCEPT !.lastExecutionKey = None] =
                  [entries[i] EXCEPT !.lastExecutionKey = None]
  <2>1. CASE DueNow(i)
    <3>1. Marked[i] = [entries[i] EXCEPT !.lastExecutionKey = minute]
      BY <2>1 DEF Marked
    <3> QED BY <3>1, <2>1, <1>1 DEF Entry
  <2>2. CASE ~DueNow(i)
    <3>1. Marked[i] = entries[i]
      BY <2>2 DEF Marked
    <3> QED BY <3>1, <2>2, <1>1
  <2> QED BY <2>1, <2>2
<1>3. DOMAIN Marked = DOMAIN entries
  BY DEF Marked
<1>4. Marked \in Seq(Entry) /\ Len(Marked) = Len(entries)
  <2>1. Marked \in [1 .. Len(entries) -> Entry]
    <3>1. Marked = [i \in DOMAIN entries |-> Marked[i]]
      BY DEF Marked
    <3> QED BY <3>1, <1>1, <1>2, Zenon
  <2> QED BY <2>1, <1>1
<1>5. Wellformed(Marked)
  BY <1>1, <1>2, <1>3, <1>4 DEF Wellformed, UniqueIds
<1>6. [i \in DOMAIN Marked |-> [Marked[i] EXCEPT !.lastExecutionKey = None]]
        = [i \in DOMAIN entries |-> [entries[i] EXCEPT !.lastExecutionKey = None]]
  BY <1>2, <1>3
<1> QED BY <1>2, <1>3, <1>5, <1>6 DEF Config

\* One pass of the main loop.
LEMMA LoopKeepsConfiguration ==
  ASSUME ConfigurationHolds, NEW passed, NEW result, Loop(passed, result)
  PROVE  ConfigurationHolds'
<1> USE DEF ConfigurationHolds
<1>1. Checked(passed) \in RingType
  <2>1. pending \in RingType
    BY DEF TypeOK, RingType
  <2>2. Checked(passed) = IF lastChecked = minute THEN pending ELSE Enqueued(pending, Added(passed))
    BY DEF Checked, Added
  <2> QED BY <2>1, <2>2, AddedType, EnqueuedType
<1>2. pending' \in RingType /\ sinceDispatch' \in 0 .. SCHEDULER_DISPATCH_INTERVAL
  <2>1. CASE DispatchReady(Checked(passed))
    BY <2>1, <1>1, DispatchedType, SchedulerAssumption DEF Loop, DispatchNext, DispatchReady
  <2>2. CASE ~DispatchReady(Checked(passed))
    BY <2>2, <1>1 DEF Loop, DispatchNext, TypeOK
  <2> QED BY <2>1, <2>2
<1>3. UNCHANGED <<enabled, stored, clockVars, reboots, edits>>
  BY DEF Loop
<1>4. CASE lastChecked = minute
  <2>1. UNCHANGED <<lastChecked, entries, history>>
    BY <1>4 DEF Loop
  <2> QED BY <2>1, <1>2, <1>3 DEF TypeOK, UniqueIds, StoredIsCurrent, clockVars, history, RingType
<1>5. CASE lastChecked # minute
  <2> DEFINE runs == {<<entries[i].id, minute, reboots>> : i \in Chosen(passed)}
  <2>1. /\ lastChecked' = minute /\ entries' = Marked
        /\ ran' = ran \cup runs /\ reran' = reran \cup (runs \cap ran)
    BY <1>5 DEF Loop, CheckSchedules
  <2>2. runs \subseteq Id \X Minute \X (0 .. MaxReboot)
    <3>1. \A i \in Chosen(passed) : entries[i].id \in Id
      BY EntriesAreWellformed DEF Chosen, Entry
    <3> QED BY <3>1 DEF TypeOK
  <2> HIDE DEF runs
  <2>3. Wellformed(entries')
    BY <2>1, MarkedKeepsSchedules
  <2>4. TypeOK'
    <3>1. /\ enabled' \in BOOLEAN /\ clockValid' \in BOOLEAN /\ minute' \in Minute
          /\ backs' \in 0 .. MaxBack /\ reboots' \in 0 .. MaxReboot /\ edits' \in 0 .. MaxEdit
      BY <1>3 DEF TypeOK, clockVars
    <3>2. lastChecked' \in Minute \cup {None}
      BY <2>1 DEF TypeOK
    <3>3. \A h \in {ran', reran'} : h \subseteq Id \X Minute \X (0 .. MaxReboot)
      BY <2>1, <2>2 DEF TypeOK
    <3> QED BY <1>2, <2>3, <3>1, <3>2, <3>3 DEF TypeOK, Wellformed, RingType
  <2>5. UniqueIds'
    BY <2>3 DEF UniqueIds, Wellformed
  <2>6. StoredIsCurrent'
    BY <1>3, <2>1, MarkedKeepsSchedules DEF StoredIsCurrent
  <2> QED BY <2>4, <2>5, <2>6
<1> QED BY <1>4, <1>5

\* A restart takes up what is in the file.
LEMMA RebootKeepsConfiguration ==
  ASSUME ConfigurationHolds, NEW clockKept \in BOOLEAN, Reboot(clockKept)
  PROVE  ConfigurationHolds'
<1> USE DEF ConfigurationHolds
<1>1. Wellformed(entries') /\ enabled' \in BOOLEAN /\ StoredIsCurrent'
  <2>1. stored' = stored
    BY DEF Reboot
  <2>2. CASE stored = Torn
    <3>1. entries' = <<>> /\ enabled' = FALSE
      BY <2>2 DEF Reboot
    <3>2. Wellformed(<<>>)
      BY SchedulerAssumption DEF Wellformed
    <3> QED BY <2>1, <2>2, <3>1, <3>2 DEF StoredIsCurrent
  <2>3. CASE stored # Torn
    <3>1. stored = Config(entries, enabled)
      BY <2>3 DEF StoredIsCurrent
    <3>2. entries' = Config(entries, enabled).entries /\ enabled' = enabled
      BY <2>3, <3>1 DEF Reboot, Config
    <3>3. Wellformed(entries)
      BY EntriesAreWellformed
    <3> QED BY <2>1, <3>1, <3>2, <3>3, ConfigIsWellformed DEF StoredIsCurrent, TypeOK
  <2> QED BY <2>2, <2>3
<1>2. /\ pending' = EmptyRing /\ lastChecked' = None
      /\ sinceDispatch' = SCHEDULER_DISPATCH_INTERVAL
      /\ clockValid' \in BOOLEAN /\ ran' \subseteq ran
      /\ reboots < MaxReboot /\ reboots' = reboots + 1
      /\ UNCHANGED <<minute, backs, edits, reran>>
  BY DEF Reboot, Relevant, TypeOK
<1>3. EmptyRing \in RingType
  BY SchedulerAssumption DEF EmptyRing, RingType, NoGroup, GroupType, Place
<1>4. reboots' \in 0 .. MaxReboot /\ sinceDispatch' \in 0 .. SCHEDULER_DISPATCH_INTERVAL
  BY <1>2, SchedulerAssumption DEF TypeOK
<1>5. TypeOK'
  BY <1>1, <1>2, <1>3, <1>4 DEF TypeOK, Wellformed, RingType
<1> QED BY <1>1, <1>5 DEF UniqueIds, Wellformed
\* The device starts with schedules the editor accepted.
LEMMA InitialConfiguration ==
  ASSUME Init
  PROVE  ConfigurationHolds
<1> DEFINE New == [id : Id, settings : Settings, lastExecutionKey : {None}]
<1>1. /\ entries \in Seq(New) /\ Len(entries) <= SCHEDULER_MAX_ENTRIES
      /\ UniqueIds
  BY InitialAssumption DEF Init, UniqueIds
<1>2. entries \in Seq(Entry)
  <2>1. New \subseteq Entry
    BY DEF Entry
  <2> QED BY <1>1, <2>1, SeqMonotonic
<1>3. EmptyRing \in RingType
  BY SchedulerAssumption DEF EmptyRing, RingType, NoGroup, GroupType, Place
<1>4. TypeOK
  <2>1. enabled \in BOOLEAN /\ clockValid \in BOOLEAN /\ pending \in RingType /\ ran = {} /\ reran = {}
    BY <1>3 DEF Init
  <2>2. lastChecked \in Minute \cup {None} /\ minute \in Minute
    BY SchedulerAssumption DEF Init, Minute
  <2>3. /\ sinceDispatch \in 0 .. SCHEDULER_DISPATCH_INTERVAL /\ backs \in 0 .. MaxBack
        /\ reboots \in 0 .. MaxReboot /\ edits \in 0 .. MaxEdit
    BY SchedulerAssumption DEF Init
  <2> QED BY <1>1, <1>2, <2>1, <2>2, <2>3 DEF TypeOK, RingType
<1> QED BY <1>1, <1>4 DEF Init, ConfigurationHolds, StoredIsCurrent

\* A group that is queued by hand.
LEMMA RunNowKeepsConfiguration ==
  ASSUME ConfigurationHolds, NEW i \in DOMAIN entries, RunNow(i)
  PROVE  ConfigurationHolds'
<1> USE DEF ConfigurationHolds
<1>1. Group(entries[i]) \in GroupType
  BY EntriesAreWellformed, SchedulerAssumption DEF Entry, Settings, Group, GroupType
<1>2. pending' \in RingType
  <2>1. <<Group(entries[i])>> \in [1 .. 1 -> GroupType]
    BY <1>1
  <2>2. pending \in RingType
    BY DEF TypeOK, RingType
  <2> QED BY <2>1, <2>2, EnqueuedType DEF RunNow
<1>3. edits' \in 0 .. MaxEdit
  BY SchedulerAssumption DEF RunNow, TypeOK
<1>4. UNCHANGED <<entries, enabled, sinceDispatch, lastChecked, stored, clockVars, reboots, history>>
  BY DEF RunNow
<1> QED BY <1>2, <1>3, <1>4 DEF TypeOK, UniqueIds, StoredIsCurrent, clockVars, history, RingType

\* Every step keeps the configuration consistent.
LEMMA NextKeepsConfiguration ==
  ASSUME ConfigurationHolds, [Next]_vars
  PROVE  ConfigurationHolds'
<1> USE DEF ConfigurationHolds
<1>1. ASSUME NEW passed, NEW result, Loop(passed, result)
      PROVE  ConfigurationHolds'
  BY <1>1, LoopKeepsConfiguration
<1>2. CASE LoopWithoutTime
  <2>1. EmptyRing \in RingType
    BY SchedulerAssumption DEF EmptyRing, RingType, NoGroup, GroupType, Place
  <2> QED BY <1>2, <2>1
       DEF LoopWithoutTime, TypeOK, UniqueIds, StoredIsCurrent, clockVars, history, RingType
<1>3. ASSUME NEW settings \in Settings, Add(settings)
      PROVE  ConfigurationHolds'
  BY <1>3, AddKeepsConfiguration
<1>4. ASSUME NEW settings \in Settings, NEW i \in DOMAIN entries, Update(i, settings)
      PROVE  ConfigurationHolds'
  BY <1>4, UpdateKeepsConfiguration
<1>5. ASSUME NEW i \in DOMAIN entries, Remove(i)
      PROVE  ConfigurationHolds'
  BY <1>5, RemoveKeepsConfiguration
<1>6. ASSUME NEW i \in DOMAIN entries, RunNow(i)
      PROVE  ConfigurationHolds'
  BY <1>6, RunNowKeepsConfiguration
<1>7. ASSUME NEW en \in BOOLEAN, SetEnabled(en)
      PROVE  ConfigurationHolds'
  BY <1>7, EntriesAreWellformed, CommitKeepsConfiguration DEF SetEnabled
<1>8. CASE TimePasses
  <2>1. sinceDispatch' \in 0 .. SCHEDULER_DISPATCH_INTERVAL
    BY <1>8, SchedulerAssumption DEF TimePasses, TypeOK
  <2> QED BY <1>8, <2>1
       DEF TimePasses, TypeOK, UniqueIds, StoredIsCurrent, clockVars, history
<1>9. CASE NextMinute
  <2>1. minute' \in Minute
    BY <1>9, SchedulerAssumption DEF NextMinute, TypeOK, Minute
  <2> QED BY <1>9, <2>1
       DEF NextMinute, TypeOK, UniqueIds, StoredIsCurrent, queueVars, history
<1>10. ASSUME NEW m \in Minute, SetClock(m)
       PROVE  ConfigurationHolds'
  <2>1. backs' \in 0 .. MaxBack
    BY <1>10, SchedulerAssumption DEF SetClock, TypeOK, Minute
  <2> QED BY <1>10, <2>1
       DEF SetClock, TypeOK, UniqueIds, StoredIsCurrent, queueVars, history
<1>11. ASSUME NEW clockKept \in BOOLEAN, Reboot(clockKept)
       PROVE  ConfigurationHolds'
  BY <1>11, RebootKeepsConfiguration
<1>12. CASE UNCHANGED vars
  BY <1>12 DEF vars, queueVars, clockVars, history, TypeOK, UniqueIds, StoredIsCurrent
<1> HIDE DEF ConfigurationHolds
<1> QED
  BY <1>1, <1>2, <1>3, <1>4, <1>5, <1>6, <1>7, <1>8, <1>9, <1>10, <1>11, <1>12
  DEF Next, MainLoop, UserRequest

\* Whatever is added, changed, deleted, paused or cannot be saved, and whenever the device
\* restarts: the state is well formed, no two schedules have the same ID, and what is in
\* effect is what the file holds, unless the file cannot be read (upsert, remove,
\* setEnabled, load).
THEOREM ConfigurationIsConsistent ==
  Spec => []ConfigurationHolds
<1>1. Init => ConfigurationHolds
  BY InitialConfiguration
<1>2. ConfigurationHolds /\ [Next]_vars => ConfigurationHolds'
  BY NextKeepsConfiguration
<1> QED BY <1>1, <1>2, PTL DEF Spec

-----------------------------------------------------------------------------
(* A schedule is taken up once in its minute.                              *)

\* A run that counts is one of a schedule that exists, in a minute it is due in.
LEMMA RunsAreDue ==
  ASSUME TypeOK, UniqueIds, RunsAreMarked,
         NEW r \in ran, NEW i \in DOMAIN entries, entries[i].id = r[1]
  PROVE  r[2] \in Nat /\ entries[i].settings.at = r[2] % Cycle
<1>1. r \in Relevant(entries)
  BY DEF RunsAreMarked
<1>2. PICK j \in DOMAIN entries : entries[j].id = r[1] /\ Due(entries[j].settings, r[2])
  BY <1>1 DEF Relevant
<1>3. j = i
  BY <1>2 DEF UniqueIds
<1>4. r[2] \in Minute
  BY DEF TypeOK
<1> QED BY <1>2, <1>3, <1>4, SchedulerAssumption DEF Due, Minute

\* The minute a schedule ran in last, if it is not this one, lies no more than the clock
\* was set back in the future.
LEMMA KeyIsMinute ==
  ASSUME TypeOK, UniqueIds, RunsAreMarked, NEW i \in DOMAIN entries,
         entries[i].lastExecutionKey # None
  PROVE  entries[i].lastExecutionKey \in Nat /\ minute \in Nat
         /\ entries[i].lastExecutionKey - minute < Cycle
<1>1. entries[i].lastExecutionKey \in Minute
  BY EntriesAreWellformed DEF Entry
<1>2. /\ minute \in Nat /\ backs \in 0 .. MaxBack /\ Cycle \in Nat /\ MaxBack \in Nat /\ MaxBack < Cycle
      /\ entries[i].lastExecutionKey \in Nat
  BY <1>1, SchedulerAssumption DEF TypeOK, Minute
<1>3. entries[i].lastExecutionKey <= minute + backs
  BY DEF RunsAreMarked
<1> QED BY <1>2, <1>3

\* A change of the configuration keeps what the runs have left, when each schedule is one
\* that was there, with its last minute, or has an ID that was free.
LEMMA ChangeKeepsMarks ==
  ASSUME ConfigurationHolds, RunsAreMarked, ConfigurationHolds',
         UNCHANGED <<minute, backs, reboots>>, ran' = Relevant(entries'),
         \A i \in DOMAIN entries' :
           \/ \E j \in DOMAIN entries : /\ entries[j].id = entries'[i].id
                                        /\ entries[j].lastExecutionKey = entries'[i].lastExecutionKey
           \/ entries'[i].id \notin UsedIds /\ entries'[i].lastExecutionKey = None
  PROVE  RunsAreMarked'
<1> USE DEF ConfigurationHolds
<1>1. ran' \subseteq ran
  BY DEF Relevant
<1>2. ASSUME NEW i \in DOMAIN entries', entries'[i].lastExecutionKey # None
      PROVE  entries'[i].lastExecutionKey <= minute' + backs'
  BY <1>2 DEF RunsAreMarked
<1>3. ASSUME NEW i \in DOMAIN entries', NEW r \in ran', entries'[i].id = r[1], r[3] = reboots'
      PROVE  /\ entries'[i].lastExecutionKey # None /\ r[2] <= entries'[i].lastExecutionKey
             /\ Due(entries'[i].settings, entries'[i].lastExecutionKey)
  <2>1. PICK k \in DOMAIN entries : entries[k].id = r[1]
    BY <1>1 DEF RunsAreMarked, Relevant
  <2>2. PICK j \in DOMAIN entries : /\ entries[j].id = entries'[i].id
                                    /\ entries[j].lastExecutionKey = entries'[i].lastExecutionKey
    BY <2>1, <1>3 DEF UsedIds
  <2>3. /\ entries[j].lastExecutionKey # None /\ r[2] <= entries[j].lastExecutionKey
        /\ Due(entries[j].settings, entries[j].lastExecutionKey)
    BY <1>1, <1>3, <2>2 DEF RunsAreMarked
  <2>4. entries[j].settings.at = r[2] % Cycle
    BY <1>1, <1>3, <2>2, RunsAreDue
  <2>5. PICK l \in DOMAIN entries' : entries'[l].id = r[1] /\ Due(entries'[l].settings, r[2])
    BY <1>3 DEF Relevant
  <2>6. l = i
    BY <1>3, <2>5 DEF UniqueIds
  <2> QED BY <2>2, <2>3, <2>4, <2>5, <2>6 DEF Due
<1>4. ran' = Relevant(entries)'
  BY DEF Relevant
<1>5. \A r \in ran' : r[3] <= reboots'
  BY <1>1 DEF RunsAreMarked
<1> QED BY <1>2, <1>3, <1>4, <1>5 DEF RunsAreMarked

\* A pass of the main loop leaves the minute in what it runs, and repeats no run.
LEMMA LoopKeepsMarks ==
  ASSUME ConfigurationHolds, RunsAreMarked, OnceBetweenRestarts, NEW passed, NEW result,
         Loop(passed, result)
  PROVE  RunsAreMarked' /\ OnceBetweenRestarts'
<1> USE DEF ConfigurationHolds
<1>1. minute' = minute /\ backs' = backs /\ reboots' = reboots
  BY DEF Loop, clockVars
<1>2. CASE lastChecked = minute
  <2>1. entries' = entries /\ ran' = ran /\ reran' = reran
    BY <1>2 DEF Loop, history
  <2> QED BY <1>1, <2>1 DEF RunsAreMarked, Relevant, OnceBetweenRestarts
<1>3. CASE lastChecked # minute
  <2> DEFINE runs == {<<entries[i].id, minute, reboots>> : i \in Chosen(passed)}
  <2>1. entries' = Marked /\ ran' = ran \cup runs /\ reran' = reran \cup (runs \cap ran)
    BY <1>3 DEF Loop, CheckSchedules
  <2>2. \A r \in runs : /\ r[2] = minute /\ r[3] = reboots
                        /\ \E i \in DOMAIN entries : r[1] = entries[i].id /\ DueNow(i)
    BY DEF Chosen
  <2> HIDE DEF runs
  <2>3. /\ DOMAIN entries' = DOMAIN entries
        /\ \A i \in DOMAIN entries :
             /\ entries'[i].id = entries[i].id /\ entries'[i].settings = entries[i].settings
             /\ entries'[i].lastExecutionKey =
                  IF DueNow(i) THEN minute ELSE entries[i].lastExecutionKey
    BY <2>1, MarkedKeepsSchedules
  <2>4. minute \in Nat /\ backs \in Nat /\ Cycle \in Nat \ {0} /\ minute # None
    BY SchedulerAssumption DEF TypeOK, Minute
  <2>5. ASSUME NEW r \in ran, NEW i \in DOMAIN entries, entries[i].id = r[1], r[3] = reboots, DueNow(i)
        PROVE  r[2] \in Nat /\ r[2] <= minute /\ r[2] # minute
    <3> DEFINE key == entries[i].lastExecutionKey
    <3>1. key # None /\ r[2] <= key /\ Due(entries[i].settings, key)
      BY <2>5 DEF RunsAreMarked
    <3>2. key \in Nat /\ key - minute < Cycle /\ key # minute
      BY <3>1, <2>5, KeyIsMinute DEF DueNow
    <3>3. r[2] \in Nat /\ r[2] % Cycle = minute % Cycle /\ key % Cycle = minute % Cycle
      BY <3>1, <2>5, RunsAreDue DEF DueNow, Due
    <3> HIDE DEF key
    <3>4. ~(minute < key)
      <4> SUFFICES ASSUME minute < key PROVE FALSE
        OBVIOUS
      <4>1. minute % Cycle = key % Cycle
        BY <3>3
      <4>2. key - minute >= Cycle
        BY <4>1, <2>4, <3>2, CongruentIsApart
      <4> QED BY <4>2, <2>4, <3>2
    <3> QED BY <2>4, <3>1, <3>2, <3>3, <3>4
  <2>6. runs \cap ran = {}
    BY <2>2, <2>5
  <2>7. ASSUME NEW i \in DOMAIN entries, entries'[i].lastExecutionKey # None
        PROVE  entries'[i].lastExecutionKey <= minute' + backs'
    <3>1. CASE DueNow(i)
      BY <3>1, <1>1, <2>3, <2>4
    <3>2. CASE ~DueNow(i)
      BY <3>2, <1>1, <2>3, <2>7 DEF RunsAreMarked
    <3> QED BY <3>1, <3>2
  <2>8. ASSUME NEW i \in DOMAIN entries, NEW r \in ran', entries'[i].id = r[1], r[3] = reboots'
        PROVE  /\ entries'[i].lastExecutionKey # None /\ r[2] <= entries'[i].lastExecutionKey
               /\ Due(entries'[i].settings, entries'[i].lastExecutionKey)
    <3>1. CASE DueNow(i)
      <4>1. entries'[i].lastExecutionKey = minute /\ Due(entries'[i].settings, minute)
        BY <3>1, <2>3 DEF DueNow
      <4>2. r[2] <= minute
        BY <3>1, <1>1, <2>1, <2>2, <2>3, <2>4, <2>5, <2>8
      <4> QED BY <4>1, <4>2, <2>4
    <3>2. CASE ~DueNow(i)
      <4>1. r \in ran
        BY <3>2, <2>1, <2>2, <2>3, <2>8 DEF UniqueIds
      <4> QED BY <4>1, <3>2, <1>1, <2>3, <2>8 DEF RunsAreMarked
    <3> QED BY <3>1, <3>2
  <2>9. ran' = Relevant(entries)'
    <3>1. ASSUME NEW r \in ran'
          PROVE  \E i \in DOMAIN entries' : entries'[i].id = r[1] /\ Due(entries'[i].settings, r[2])
      <4>1. \E i \in DOMAIN entries : entries[i].id = r[1] /\ Due(entries[i].settings, r[2])
        BY <2>1, <2>2 DEF RunsAreMarked, Relevant, DueNow
      <4> QED BY <4>1, <2>3
    <3> QED BY <3>1 DEF Relevant
  <2>10. \A r \in ran' : r[3] <= reboots'
    BY <1>1, <2>1, <2>2 DEF RunsAreMarked, TypeOK
  <2> QED BY <2>1, <2>3, <2>6, <2>7, <2>8, <2>9, <2>10 DEF RunsAreMarked, OnceBetweenRestarts
<1> QED BY <1>2, <1>3

LEMMA CommitKeepsMarks ==
  ASSUME ConfigurationHolds, ConfigurationHolds', RunsAreMarked, OnceBetweenRestarts,
         NEW es, NEW en, CommitChange(es, en),
         \A i \in DOMAIN es :
           \/ \E j \in DOMAIN entries : /\ entries[j].id = es[i].id
                                        /\ entries[j].lastExecutionKey = es[i].lastExecutionKey
           \/ es[i].id \notin UsedIds /\ es[i].lastExecutionKey = None
  PROVE  RunsAreMarked' /\ OnceBetweenRestarts'
<1>1. /\ entries' = es \/ entries' = entries
      /\ ran' = Relevant(entries')
      /\ UNCHANGED <<minute, backs, reboots, reran>>
  BY DEF CommitChange, clockVars
<1>2. \A i \in DOMAIN entries' :
        \/ \E j \in DOMAIN entries : /\ entries[j].id = entries'[i].id
                                     /\ entries[j].lastExecutionKey = entries'[i].lastExecutionKey
        \/ entries'[i].id \notin UsedIds /\ entries'[i].lastExecutionKey = None
  BY <1>1
<1> QED BY <1>1, <1>2, ChangeKeepsMarks DEF OnceBetweenRestarts

LEMMA AddKeepsMarks ==
  ASSUME ConfigurationHolds, ConfigurationHolds', RunsAreMarked, OnceBetweenRestarts,
         NEW settings \in Settings, Add(settings)
  PROVE  RunsAreMarked' /\ OnceBetweenRestarts'
<1> DEFINE e == NewEntry(NextId, settings)
           es == Append(entries, e)
<1>1. e.id \notin UsedIds /\ e.lastExecutionKey = None
  BY NextIdIsFree DEF Add, ConfigurationHolds, NewEntry
<1>2. e \in Entry
  BY NextIdIsFree DEF Add, ConfigurationHolds, NewEntry, Entry
<1>3. entries \in Seq(Entry) /\ Len(entries) \in Nat /\ DOMAIN entries = 1 .. Len(entries)
  BY EntriesAreWellformed DEF ConfigurationHolds, TypeOK
<1>4. CommitChange(es, enabled)
  BY DEF Add
<1> HIDE DEF e
<1>5. /\ es \in Seq(Entry) /\ Len(es) = Len(entries) + 1
      /\ \A i \in 1 .. Len(entries) : es[i] = entries[i]
      /\ es[Len(entries) + 1] = e
  BY <1>2, <1>3, AppendProperties
<1>6. DOMAIN es = 1 .. Len(entries) + 1
  BY <1>5, LenProperties
<1> HIDE DEF es
<1>7. \A i \in DOMAIN es : es[i] = e \/ \E j \in DOMAIN entries : es[i] = entries[j]
  BY <1>3, <1>5, <1>6
<1> QED BY <1>1, <1>4, <1>7, CommitKeepsMarks

LEMMA UpdateKeepsMarks ==
  ASSUME ConfigurationHolds, ConfigurationHolds', RunsAreMarked, OnceBetweenRestarts,
         NEW settings \in Settings, NEW i \in DOMAIN entries, Update(i, settings)
  PROVE  RunsAreMarked' /\ OnceBetweenRestarts'
<1> DEFINE es == [entries EXCEPT ![i].settings = settings]
<1>1. \A j \in DOMAIN entries : entries[j] \in Entry
  BY EntriesAreWellformed DEF ConfigurationHolds
<1>2. DOMAIN es = DOMAIN entries
  OBVIOUS
<1>3. \A j \in DOMAIN entries :
        es[j].id = entries[j].id /\ es[j].lastExecutionKey = entries[j].lastExecutionKey
  BY <1>1 DEF Entry
<1>4. CommitChange(es, enabled)
  BY DEF Update
<1> HIDE DEF es
<1> QED BY <1>2, <1>3, <1>4, CommitKeepsMarks

LEMMA RemoveKeepsMarks ==
  ASSUME ConfigurationHolds, ConfigurationHolds', RunsAreMarked, OnceBetweenRestarts,
         NEW i \in DOMAIN entries, Remove(i)
  PROVE  RunsAreMarked' /\ OnceBetweenRestarts'
<1> DEFINE es == Without(entries, i)
<1>1. /\ entries \in Seq(Entry)
      /\ Len(entries) \in Nat /\ DOMAIN entries = 1 .. Len(entries)
  BY EntriesAreWellformed DEF ConfigurationHolds, TypeOK
<1>2. /\ es \in Seq(Entry) /\ Len(es) = Len(entries) - 1
      /\ \A k \in DOMAIN es : es[k] = entries[IF k < i THEN k ELSE k + 1]
  BY <1>1, WithoutProperties
<1>3. DOMAIN es = 1 .. Len(entries) - 1
  BY <1>2, LenProperties
<1>4. CommitChange(es, enabled)
  BY DEF Remove, Without
<1> HIDE DEF es
<1>5. \A k \in DOMAIN es : \E j \in DOMAIN entries : es[k] = entries[j]
  BY <1>1, <1>2, <1>3
<1> QED BY <1>4, <1>5, CommitKeepsMarks

\* A restart forgets the runs of before, and the minutes with them.
LEMMA RebootKeepsMarks ==
  ASSUME ConfigurationHolds, RunsAreMarked, OnceBetweenRestarts,
         NEW clockKept \in BOOLEAN, Reboot(clockKept)
  PROVE  RunsAreMarked' /\ OnceBetweenRestarts'
<1>1. ran' = Relevant(entries') /\ reboots' = reboots + 1 /\ reran' = reran
  BY DEF Reboot
<1>2. \A r \in ran' : r \in ran /\ r[3] <= reboots /\ r[3] \in Nat
  BY <1>1 DEF Relevant, RunsAreMarked, ConfigurationHolds, TypeOK
<1>3. \A r \in ran' : r[3] < reboots'
  BY <1>1, <1>2 DEF ConfigurationHolds, TypeOK
<1>4. ran' = Relevant(entries)'
  BY <1>1 DEF Relevant
<1>5. ASSUME NEW i \in DOMAIN entries'
      PROVE  entries'[i].lastExecutionKey = None
  <2>1. CASE stored = Torn
    <3>1. entries' = <<>>
      BY <2>1 DEF Reboot
    <3> QED BY <3>1
  <2>2. CASE stored # Torn
    <3>1. entries' = [j \in DOMAIN entries |-> [entries[j] EXCEPT !.lastExecutionKey = None]]
      BY <2>2 DEF Reboot, ConfigurationHolds, StoredIsCurrent, Config
    <3>2. i \in DOMAIN entries /\ entries[i] \in Entry
      BY <3>1, EntriesAreWellformed DEF ConfigurationHolds
    <3> QED BY <3>1, <3>2 DEF Entry
  <2> QED BY <2>1, <2>2
<1>6. \A r \in ran' : r[3] # reboots' /\ r[3] <= reboots'
  BY <1>1, <1>2, <1>3 DEF ConfigurationHolds, TypeOK
<1> QED BY <1>1, <1>4, <1>5, <1>6 DEF RunsAreMarked, OnceBetweenRestarts

\* The clock moves on, or the backs say by how much it did not.
LEMMA ClockKeepsMarks ==
  ASSUME ConfigurationHolds, RunsAreMarked, OnceBetweenRestarts,
         NextMinute \/ (\E m \in Minute : SetClock(m))
  PROVE  RunsAreMarked' /\ OnceBetweenRestarts'
<1>1. entries' = entries /\ ran' = ran /\ reran' = reran /\ reboots' = reboots
  BY DEF NextMinute, SetClock, history
<1>2. minute \in Nat /\ backs \in Nat
  BY SchedulerAssumption DEF ConfigurationHolds, TypeOK, Minute
<1>3. minute' + backs' \in Nat /\ minute + backs <= minute' + backs'
  <2>1. CASE NextMinute
    BY <2>1, <1>2 DEF NextMinute
  <2>2. ASSUME NEW m \in Minute, SetClock(m)
        PROVE  minute' + backs' \in Nat /\ minute + backs <= minute' + backs'
    <3>1. m \in Nat
      BY DEF Minute
    <3> QED BY <2>2, <3>1, <1>2 DEF SetClock
  <2> QED BY <2>1, <2>2
<1>4. ASSUME NEW i \in DOMAIN entries, entries[i].lastExecutionKey # None
      PROVE  entries[i].lastExecutionKey <= minute' + backs'
  <2>1. entries[i].lastExecutionKey \in Nat
    BY <1>4, KeyIsMinute DEF ConfigurationHolds
  <2>2. entries[i].lastExecutionKey <= minute + backs
    BY <1>4 DEF RunsAreMarked
  <2> QED BY <2>1, <2>2, <1>2, <1>3
<1> QED BY <1>1, <1>4 DEF RunsAreMarked, Relevant, OnceBetweenRestarts

\* From one restart to the next no schedule is taken up twice in its minute, whether the
\* clock is set back into it, or the schedule or the whole Scheduler is changed in it
\* (checkSchedules, upsert, setEnabled).
THEOREM ScheduleRunsOnce ==
  Spec => []OnceBetweenRestarts
<1> DEFINE IInv == ConfigurationHolds /\ RunsAreMarked /\ OnceBetweenRestarts
<1>1. Init => IInv
  <2> SUFFICES ASSUME Init PROVE IInv
    OBVIOUS
  <2>1. ConfigurationHolds
    BY InitialConfiguration
  <2>2. \A i \in DOMAIN entries : entries[i].lastExecutionKey = None
    <3>1. entries \in Seq([id : Id, settings : Settings, lastExecutionKey : {None}])
      BY InitialAssumption DEF Init
    <3>2. \A i \in DOMAIN entries :
            entries[i] \in [id : Id, settings : Settings, lastExecutionKey : {None}]
      BY <3>1, ElementOfSeq, LenProperties
    <3> QED BY <3>2
  <2>3. ran = {} /\ reran = {}
    BY DEF Init
  <2> QED BY <2>1, <2>2, <2>3 DEF RunsAreMarked, Relevant, OnceBetweenRestarts
<1>2. IInv /\ [Next]_vars => IInv'
  <2> SUFFICES ASSUME ConfigurationHolds, RunsAreMarked, OnceBetweenRestarts, [Next]_vars
               PROVE  RunsAreMarked' /\ OnceBetweenRestarts' /\ ConfigurationHolds'
    OBVIOUS
  <2>1. ConfigurationHolds'
    BY NextKeepsConfiguration
  <2>2. CASE UNCHANGED <<entries, minute, backs, reboots, ran, reran>>
    <3>1. /\ entries' = entries /\ minute' = minute /\ backs' = backs /\ reboots' = reboots
          /\ ran' = ran /\ reran' = reran
      BY <2>2
    <3>2. ran' = Relevant(entries)' /\ OnceBetweenRestarts'
      BY <3>1 DEF RunsAreMarked, Relevant, OnceBetweenRestarts
    <3>3. \A i \in DOMAIN entries :
            /\ entries[i].lastExecutionKey # None => entries[i].lastExecutionKey <= minute + backs
            /\ \A r \in ran : entries[i].id = r[1] /\ r[3] = reboots =>
                 /\ entries[i].lastExecutionKey # None /\ r[2] <= entries[i].lastExecutionKey
                 /\ Due(entries[i].settings, entries[i].lastExecutionKey)
      BY DEF RunsAreMarked
    <3>4. RunsAreMarked'
      BY <3>1, <3>2, <3>3 DEF RunsAreMarked, Due
    <3> QED BY <2>1, <3>2, <3>4
  <2>3. ASSUME NEW passed, NEW result, Loop(passed, result)
        PROVE  RunsAreMarked' /\ OnceBetweenRestarts'
    BY <2>3, LoopKeepsMarks
  <2>4. CASE LoopWithoutTime \/ TimePasses \/ UNCHANGED vars \/ \E i \in DOMAIN entries : RunNow(i)
    BY <2>2, <2>4 DEF LoopWithoutTime, TimePasses, RunNow, vars, clockVars, history
  <2>5. ASSUME NEW settings \in Settings, Add(settings)
        PROVE  RunsAreMarked' /\ OnceBetweenRestarts'
    BY <2>1, <2>5, AddKeepsMarks
  <2>6. ASSUME NEW settings \in Settings, NEW i \in DOMAIN entries, Update(i, settings)
        PROVE  RunsAreMarked' /\ OnceBetweenRestarts'
    BY <2>1, <2>6, UpdateKeepsMarks
  <2>7. ASSUME NEW i \in DOMAIN entries, Remove(i)
        PROVE  RunsAreMarked' /\ OnceBetweenRestarts'
    BY <2>1, <2>7, RemoveKeepsMarks
  <2>8. ASSUME NEW en \in BOOLEAN, SetEnabled(en)
        PROVE  RunsAreMarked' /\ OnceBetweenRestarts'
    BY <2>1, <2>8, CommitKeepsMarks DEF SetEnabled
  <2>9. ASSUME NextMinute \/ \E m \in Minute : SetClock(m)
        PROVE  RunsAreMarked' /\ OnceBetweenRestarts'
    BY <2>9, ClockKeepsMarks, Zenon
  <2>10. ASSUME NEW clockKept \in BOOLEAN, Reboot(clockKept)
         PROVE  RunsAreMarked' /\ OnceBetweenRestarts'
    BY <2>10, RebootKeepsMarks
  <2> QED
    BY <2>1, <2>3, <2>4, <2>5, <2>6, <2>7, <2>8, <2>9, <2>10 DEF Next, MainLoop, UserRequest
<1>3. IInv => OnceBetweenRestarts
  OBVIOUS
<1> QED BY <1>1, <1>2, <1>3, PTL DEF Spec

-----------------------------------------------------------------------------
(* The ring is a queue of action groups.                                   *)

OpenGroup == [id : Id, left : 1 .. SCHEDULER_MAX_ACTIONS]

\* Places less than a turn of the ring apart differ.
LEMMA PlacesDiffer ==
  ASSUME NEW N \in Nat \ {0}, NEW x \in Nat, NEW y \in Nat, x < y, y - x < N
  PROVE  x % N # y % N
<1> SUFFICES ASSUME x % N = y % N PROVE FALSE
  OBVIOUS
<1>1. y - x >= N
  BY CongruentIsApart
<1> QED BY <1>1

LEMMA RingFacts ==
  ASSUME NEW q \in RingType
  PROVE  /\ q.start \in Nat /\ q.start < SCHEDULER_MAX_ENTRIES
         /\ q.count \in Nat /\ q.count <= SCHEDULER_MAX_ENTRIES
         /\ SCHEDULER_MAX_ENTRIES \in Nat \ {0} /\ SCHEDULER_MAX_ACTIONS \in Nat \ {0}
         /\ \A k \in Nat \ {0} : PlaceOf(q, k) \in Place /\ WriteIndex(q, k) \in Place
         /\ PlaceOf(q, 1) = q.start
<1>1. /\ q.start \in Nat /\ q.start < SCHEDULER_MAX_ENTRIES
      /\ q.count \in Nat /\ q.count <= SCHEDULER_MAX_ENTRIES
      /\ SCHEDULER_MAX_ENTRIES \in Nat \ {0} /\ SCHEDULER_MAX_ACTIONS \in Nat \ {0}
  BY SchedulerAssumption DEF RingType, Place
<1>2. ASSUME NEW k \in Nat \ {0}
      PROVE  PlaceOf(q, k) \in Place /\ WriteIndex(q, k) \in Place
  <2>1. q.start + k - 1 \in Nat /\ q.start + q.count + k - 1 \in Nat
    BY <1>1
  <2> QED BY <2>1, <1>1, RestInRange DEF PlaceOf, WriteIndex, Place
<1>3. q.start + 1 - 1 = q.start /\ q.start \in 0 .. 2 * SCHEDULER_MAX_ENTRIES - 1
  BY <1>1
<1>4. PlaceOf(q, 1) = q.start
  BY <1>1, <1>3, RestOfSmall DEF PlaceOf
<1> QED BY <1>1, <1>2, <1>4

\* The places of a ring are different ones, those in use from one another and from those
\* that are written next.
LEMMA PlacesInUseDiffer ==
  ASSUME NEW q \in RingType, NEW j \in 1 .. SCHEDULER_MAX_ENTRIES,
         NEW k \in 1 .. SCHEDULER_MAX_ENTRIES, PlaceOf(q, j) = PlaceOf(q, k)
  PROVE  j = k
<1>1. /\ q.start + j - 1 \in Nat /\ q.start + k - 1 \in Nat /\ SCHEDULER_MAX_ENTRIES \in Nat \ {0}
      /\ j \in Nat /\ k \in Nat /\ q.start \in Nat
  BY RingFacts
<1>2. ~(j < k)
  <2> SUFFICES ASSUME j < k PROVE FALSE
    OBVIOUS
  <2>1. /\ q.start + j - 1 < q.start + k - 1
        /\ (q.start + k - 1) - (q.start + j - 1) < SCHEDULER_MAX_ENTRIES
    BY <1>1
  <2> QED BY <1>1, <2>1, PlacesDiffer DEF PlaceOf
<1>3. ~(k < j)
  <2> SUFFICES ASSUME k < j PROVE FALSE
    OBVIOUS
  <2>1. /\ q.start + k - 1 < q.start + j - 1
        /\ (q.start + j - 1) - (q.start + k - 1) < SCHEDULER_MAX_ENTRIES
    BY <1>1
  <2> QED BY <1>1, <2>1, PlacesDiffer DEF PlaceOf
<1> QED BY <1>1, <1>2, <1>3

\* The groups of the ring with what is left of them.
RestType == {Rest(g) : g \in GroupType}

LEMMA QueueType ==
  ASSUME NEW q \in RingType
  PROVE  QueueOf(q) \in Seq(RestType) /\ Len(QueueOf(q)) = q.count
<1>1. q.count \in Nat /\ \A k \in 1 .. q.count : PlaceOf(q, k) \in Place
  BY RingFacts
<1>2. \A k \in 1 .. q.count : Rest(q.slot[PlaceOf(q, k)]) \in RestType
  BY <1>1 DEF RestType, RingType
<1> QED BY <1>1, <1>2 DEF QueueOf

LEMMA WriteIndexIsPlace ==
  ASSUME NEW q \in RingType, NEW k \in Nat
  PROVE  WriteIndex(q, k) = PlaceOf(q, q.count + k)
<1>1. q.start + q.count + k - 1 = q.start + (q.count + k) - 1
  BY RingFacts
<1> QED BY <1>1 DEF WriteIndex, PlaceOf

\* What is added comes after what was there, as far as there is room.
LEMMA EnqueuedIsAppended ==
  ASSUME NEW q \in RingType, NEW n \in Nat, NEW gs \in [1 .. n -> GroupType]
  PROVE  \E m \in 0 .. n :
           /\ q.count + m <= SCHEDULER_MAX_ENTRIES
           /\ Enqueued(q, gs).count = q.count + m
           /\ QueueOf(Enqueued(q, gs)) = QueueOf(q) \o [k \in 1 .. m |-> Rest(gs[k])]
<1> DEFINE room == SCHEDULER_MAX_ENTRIES - q.count
           m    == IF Len(gs) <= room THEN Len(gs) ELSE room
           slot == [p \in Place |->
                      IF \E k \in 1 .. m : WriteIndex(q, k) = p
                      THEN gs[CHOOSE k \in 1 .. m : WriteIndex(q, k) = p]
                      ELSE q.slot[p]]
           e    == Enqueued(q, gs)
           added == [k \in 1 .. m |-> Rest(gs[k])]
<1>1. /\ q = [slot |-> q.slot, start |-> q.start, count |-> q.count]
      /\ q.slot \in [Place -> GroupType] /\ q.start \in Place
      /\ q.count \in Nat /\ q.count <= SCHEDULER_MAX_ENTRIES
      /\ SCHEDULER_MAX_ENTRIES \in Nat \ {0}
  BY RingFacts DEF RingType
<1>2. Len(gs) = n
  OBVIOUS
<1>3. m \in 0 .. n /\ m \in Nat /\ q.count + m <= SCHEDULER_MAX_ENTRIES
  BY <1>1, <1>2
<1>4. e = [q EXCEPT !.slot = slot, !.count = q.count + m]
  BY DEF Enqueued
<1>5. \A p \in Place : slot[p] = IF \E k \in 1 .. m : WriteIndex(q, k) = p
                                 THEN gs[CHOOSE k \in 1 .. m : WriteIndex(q, k) = p]
                                 ELSE q.slot[p]
  OBVIOUS
<1> HIDE DEF slot, m, e
<1>6. e.slot = slot /\ e.start = q.start /\ e.count = q.count + m
  BY <1>1, <1>4
<1>7. \A k : PlaceOf(e, k) = PlaceOf(q, k)
  BY <1>6 DEF PlaceOf
<1>8. ASSUME NEW k \in 1 .. q.count
      PROVE  QueueOf(e)[k] = QueueOf(q)[k]
  <2>1. k \in 1 .. q.count + m /\ k \in 1 .. SCHEDULER_MAX_ENTRIES /\ k \in Nat \ {0}
    BY <1>1, <1>3
  <2>2. \A j \in 1 .. m : WriteIndex(q, j) # PlaceOf(q, k)
    <3> SUFFICES ASSUME NEW j \in 1 .. m, WriteIndex(q, j) = PlaceOf(q, k) PROVE FALSE
      OBVIOUS
    <3>1. q.count + j \in 1 .. SCHEDULER_MAX_ENTRIES /\ j \in Nat /\ q.count + j # k
      BY <1>1, <1>3
    <3> QED BY <2>1, <3>1, WriteIndexIsPlace, PlacesInUseDiffer
  <2>3. PlaceOf(q, k) \in Place
    BY <2>1, RingFacts
  <2>4. slot[PlaceOf(q, k)] = q.slot[PlaceOf(q, k)]
    BY <1>5, <2>2, <2>3
  <2> QED BY <2>1, <2>4, <1>6, <1>7 DEF QueueOf
<1>9. ASSUME NEW k \in 1 .. m
      PROVE  QueueOf(e)[q.count + k] = added[k]
  <2>1. q.count + k \in 1 .. q.count + m /\ k \in Nat \ {0}
    BY <1>1, <1>3
  <2>2. \A j \in 1 .. m : WriteIndex(q, j) = WriteIndex(q, k) => j = k
    <3> SUFFICES ASSUME NEW j \in 1 .. m, WriteIndex(q, j) = WriteIndex(q, k) PROVE j = k
      OBVIOUS
    <3>1. /\ q.count + j \in 1 .. SCHEDULER_MAX_ENTRIES /\ j \in Nat
          /\ q.count + k \in 1 .. SCHEDULER_MAX_ENTRIES
      BY <1>1, <1>3
    <3>2. q.count + j = q.count + k
      BY <2>1, <3>1, WriteIndexIsPlace, PlacesInUseDiffer
    <3> QED BY <3>1, <3>2, <2>1, <1>1
  <2>3. (CHOOSE j \in 1 .. m : WriteIndex(q, j) = WriteIndex(q, k)) = k
    BY <2>2
  <2>4. WriteIndex(q, k) \in Place
    BY <2>1, RingFacts
  <2>5. slot[WriteIndex(q, k)] = gs[k]
    BY <1>5, <2>3, <2>4
  <2>6. e.slot[PlaceOf(e, q.count + k)] = gs[k]
    BY <2>1, <2>5, <1>6, <1>7, WriteIndexIsPlace
  <2> QED BY <2>1, <2>6, <1>6 DEF QueueOf
<1>10. QueueOf(e) = QueueOf(q) \o added
  <2> DEFINE a == QueueOf(q)
  <2>1. a \in Seq(RestType) /\ Len(a) = q.count
    BY QueueType
  <2>2. added \in Seq(RestType) /\ Len(added) = m
    BY <1>3 DEF RestType
  <2>3. QueueOf(e) \in Seq(RestType) /\ Len(QueueOf(e)) = q.count + m
    BY <1>6, EnqueuedType, QueueType DEF e
  <2> HIDE DEF a, added
  <2>4. /\ a \o added \in Seq(RestType) /\ Len(a \o added) = Len(a) + Len(added)
        /\ \A k \in 1 .. Len(a) + Len(added) :
             (a \o added)[k] = IF k <= Len(a) THEN a[k] ELSE added[k - Len(a)]
    BY <2>1, <2>2, ConcatProperties
  <2>5. ASSUME NEW k \in 1 .. q.count + m
        PROVE  QueueOf(e)[k] = (a \o added)[k]
    <3>1. (a \o added)[k] = IF k <= q.count THEN a[k] ELSE added[k - q.count]
      BY <2>1, <2>2, <2>4
    <3>2. CASE k <= q.count
      <4>1. k \in 1 .. q.count
        BY <3>2
      <4> QED BY <4>1, <3>1, <3>2, <1>8 DEF a
    <3>3. CASE ~(k <= q.count)
      <4>1. k - q.count \in 1 .. m /\ q.count + (k - q.count) = k
        BY <3>3, <1>1, <1>3
      <4>2. QueueOf(e)[k] = added[k - q.count]
        BY <4>1, <1>9 DEF added
      <4> QED BY <4>2, <3>1, <3>3
    <3> QED BY <3>2, <3>3
  <2>6. Len(a \o added) = q.count + m
    BY <2>1, <2>2, <2>4
  <2>7. QueueOf(e) = a \o added
    BY <2>3, <2>4, <2>5, <2>6, SeqEqual
  <2> QED BY <2>7 DEF a
<1> QED BY <1>3, <1>6, <1>10 DEF e

\* Taking the first group away turns the ring by one place.
LEMMA PoppedIsTail ==
  ASSUME NEW q \in RingType, q.count > 0
  PROVE  QueueOf(Popped(q)) = Tail(QueueOf(q))
<1> DEFINE e == Popped(q)
           a == QueueOf(q)
<1>1. /\ q.start \in Nat /\ q.start < SCHEDULER_MAX_ENTRIES
      /\ q.count \in Nat /\ q.count <= SCHEDULER_MAX_ENTRIES
      /\ SCHEDULER_MAX_ENTRIES \in Nat \ {0} /\ PlaceOf(q, 1) = q.start
      /\ q.slot \in [Place -> GroupType] /\ q.start \in Place
  BY RingFacts DEF RingType
<1>2. /\ e.slot = [q.slot EXCEPT ![q.start] = NoGroup] /\ e.count = q.count - 1
      /\ e.start = (q.start + 1) % SCHEDULER_MAX_ENTRIES
  BY DEF Popped
<1>3. e \in RingType
  BY PoppedType
<1>4. e.start = IF q.start + 1 < SCHEDULER_MAX_ENTRIES THEN q.start + 1 ELSE 0
  <2>1. q.start + 1 \in 0 .. 2 * SCHEDULER_MAX_ENTRIES - 1
    BY <1>1
  <2>2. (q.start + 1) % SCHEDULER_MAX_ENTRIES =
          IF q.start + 1 < SCHEDULER_MAX_ENTRIES THEN q.start + 1
          ELSE q.start + 1 - SCHEDULER_MAX_ENTRIES
    BY <1>1, <2>1, RestOfSmall
  <2> QED BY <1>1, <1>2, <2>2
<1>5. a \in Seq(RestType) /\ Len(a) = q.count /\ a # <<>>
  BY <1>1, QueueType
<1> HIDE DEF e
<1>6. ASSUME NEW k \in 1 .. q.count - 1
      PROVE  QueueOf(e)[k] = a[k + 1]
  <2>1. k + 1 \in 1 .. q.count /\ k \in 1 .. SCHEDULER_MAX_ENTRIES /\ k + 1 \in 1 .. SCHEDULER_MAX_ENTRIES
        /\ k + 1 \in Nat \ {0} /\ 1 \in 1 .. SCHEDULER_MAX_ENTRIES /\ k + 1 # 1
    BY <1>1
  <2>2. PlaceOf(e, k) = PlaceOf(q, k + 1)
    <3>1. CASE q.start + 1 < SCHEDULER_MAX_ENTRIES
      <4>1. e.start + k - 1 = q.start + (k + 1) - 1
        BY <3>1, <1>1, <1>4
      <4> QED BY <4>1 DEF PlaceOf
    <3>2. CASE ~(q.start + 1 < SCHEDULER_MAX_ENTRIES)
      <4>1. e.start + k - 1 = k - 1 /\ k - 1 \in 0 .. 2 * SCHEDULER_MAX_ENTRIES - 1
            /\ k - 1 < SCHEDULER_MAX_ENTRIES
        BY <3>2, <1>1, <1>4
      <4>2. /\ q.start + (k + 1) - 1 = SCHEDULER_MAX_ENTRIES + (k - 1)
            /\ SCHEDULER_MAX_ENTRIES + (k - 1) \in 0 .. 2 * SCHEDULER_MAX_ENTRIES - 1
            /\ ~(SCHEDULER_MAX_ENTRIES + (k - 1) < SCHEDULER_MAX_ENTRIES)
            /\ SCHEDULER_MAX_ENTRIES + (k - 1) - SCHEDULER_MAX_ENTRIES = k - 1
        BY <3>2, <1>1
      <4>3. (k - 1) % SCHEDULER_MAX_ENTRIES = k - 1
        BY <4>1, <1>1, RestOfSmall
      <4>4. (SCHEDULER_MAX_ENTRIES + (k - 1)) % SCHEDULER_MAX_ENTRIES = k - 1
        <5> DEFINE x == SCHEDULER_MAX_ENTRIES + (k - 1)
        <5>1. x \in 0 .. 2 * SCHEDULER_MAX_ENTRIES - 1 /\ ~(x < SCHEDULER_MAX_ENTRIES)
              /\ x - SCHEDULER_MAX_ENTRIES = k - 1
          BY <1>1, <2>1
        <5> HIDE DEF x
        <5>2. x % SCHEDULER_MAX_ENTRIES = k - 1
          BY <5>1, <1>1, RestOfSmall
        <5> QED BY <5>2 DEF x
      <4> QED BY <4>1, <4>2, <4>3, <4>4 DEF PlaceOf
    <3> QED BY <3>1, <3>2
  <2>3. PlaceOf(q, k + 1) # q.start
    BY <1>1, <2>1, PlacesInUseDiffer
  <2>4. PlaceOf(q, k + 1) \in Place
    BY <2>1, RingFacts
  <2>5. e.slot[PlaceOf(q, k + 1)] = q.slot[PlaceOf(q, k + 1)]
    BY <1>1, <1>2, <2>3, <2>4
  <2> QED BY <1>2, <2>1, <2>2, <2>5 DEF QueueOf
<1>7. QueueOf(e) \in Seq(RestType) /\ Len(QueueOf(e)) = q.count - 1
  BY <1>2, <1>3, QueueType
<1> HIDE DEF a
<1>8. /\ Tail(a) \in Seq(RestType) /\ Len(Tail(a)) = q.count - 1
      /\ \A k \in 1 .. q.count - 1 : Tail(a)[k] = a[k + 1]
  BY <1>5, HeadTailProperties
<1>9. QueueOf(e) = Tail(a)
  BY <1>6, <1>7, <1>8, SeqEqual
<1> QED BY <1>9 DEF a, e

\* An action is one of the first group.
LEMMA DispatchedIsAfter ==
  ASSUME NEW q \in RingType, q.count > 0, NEW result
  PROVE  QueueOf(Dispatched(q, result)) = Abstract!After(QueueOf(q), SequenceContinues(result))
<1> DEFINE g == q.slot[q.start]
           a == QueueOf(q)
<1>1. /\ q.start \in Nat /\ q.start < SCHEDULER_MAX_ENTRIES
      /\ q.count \in Nat /\ q.count <= SCHEDULER_MAX_ENTRIES
      /\ SCHEDULER_MAX_ENTRIES \in Nat \ {0} /\ SCHEDULER_MAX_ACTIONS \in Nat \ {0}
      /\ PlaceOf(q, 1) = q.start
  BY RingFacts
<1>2. g \in GroupType /\ q.start \in Place /\ q.slot \in [Place -> GroupType]
  BY DEF RingType
<1>3. a \in Seq(RestType) /\ Len(a) = q.count /\ DOMAIN a = 1 .. q.count /\ 1 \in 1 .. q.count
  BY <1>1, QueueType, LenProperties
<1>4. a[1] = Rest(g) /\ Head(a) = Rest(g)
  <2>1. a[1] = Rest(g)
    BY <1>1 DEF QueueOf
  <2> HIDE DEF a
  <2>2. Head(a) = a[1]
    BY <1>3, HeadTailProperties
  <2> QED BY <2>1, <2>2
<1>5. g.nextActionIndex + 1 < g.actionCount <=> Head(a).left > 1
  BY <1>1, <1>2, <1>4 DEF Rest, GroupType
<1>6. CASE SequenceContinues(result) /\ g.nextActionIndex + 1 < g.actionCount
  <2> DEFINE h == [g EXCEPT !.nextActionIndex = g.nextActionIndex + 1]
             e == Dispatched(q, result)
  <2>1. e = [q EXCEPT !.slot = [q.slot EXCEPT ![q.start] = h]]
    BY <1>6, <1>2 DEF Dispatched, RingType
  <2>2. /\ e.slot = [q.slot EXCEPT ![q.start] = h] /\ e.start = q.start /\ e.count = q.count
    BY <2>1 DEF RingType
  <2>3. Rest(h) = [Rest(g) EXCEPT !.left = Rest(g).left - 1]
    BY <1>1, <1>2 DEF Rest, GroupType
  <2> HIDE DEF h, e
  <2>4. \A k : PlaceOf(e, k) = PlaceOf(q, k)
    BY <2>2 DEF PlaceOf
  <2>5. ASSUME NEW k \in 1 .. q.count
        PROVE  Rest(e.slot[PlaceOf(e, k)]) =
                 IF k = 1 THEN [Rest(g) EXCEPT !.left = Rest(g).left - 1] ELSE a[k]
    <3>1. CASE k = 1
      BY <3>1, <1>1, <1>2, <2>2, <2>3, <2>4
    <3>2. CASE k # 1
      <4>1. k \in 1 .. SCHEDULER_MAX_ENTRIES /\ 1 \in 1 .. SCHEDULER_MAX_ENTRIES /\ k \in Nat \ {0}
        BY <1>1
      <4>2. PlaceOf(q, k) # q.start /\ PlaceOf(q, k) \in Place
        BY <3>2, <4>1, <1>1, PlacesInUseDiffer, RingFacts
      <4>3. e.slot[PlaceOf(e, k)] = q.slot[PlaceOf(q, k)]
        BY <4>2, <1>2, <2>2, <2>4
      <4> QED BY <3>2, <4>3 DEF QueueOf
    <3> QED BY <3>1, <3>2
  <2>6. QueueOf(e) = [k \in 1 .. q.count |->
                        IF k = 1 THEN [Rest(g) EXCEPT !.left = Rest(g).left - 1] ELSE a[k]]
    BY <2>2, <2>5 DEF QueueOf
  <2> HIDE DEF a
  <2>7. [a EXCEPT ![1].left = @ - 1] =
          [k \in 1 .. q.count |->
             IF k = 1 THEN [Rest(g) EXCEPT !.left = Rest(g).left - 1] ELSE a[k]]
    BY <1>3, <1>4
  <2>8. Abstract!After(a, SequenceContinues(result)) = [a EXCEPT ![1].left = @ - 1]
    BY <1>5, <1>6 DEF Abstract!After
  <2> QED BY <2>6, <2>7, <2>8 DEF a, e
<1>7. CASE ~(SequenceContinues(result) /\ g.nextActionIndex + 1 < g.actionCount)
  <2>1. Dispatched(q, result) = Popped(q)
    BY <1>7 DEF Dispatched
  <2>2. Abstract!After(a, SequenceContinues(result)) = Tail(a)
    BY <1>5, <1>7 DEF Abstract!After
  <2> QED BY <2>1, <2>2, PoppedIsTail
<1> QED BY <1>6, <1>7

-----------------------------------------------------------------------------
(* Every step of the Scheduler is a step of the queue of action groups.    *)

\* Groups that arrive leave the groups open.
LEMMA OpenAfterEnqueued ==
  ASSUME NEW q \in RingType, QueueOf(q) \in Seq(OpenGroup),
         NEW n \in Nat, NEW gs \in [1 .. n -> GroupType],
         \A k \in 1 .. n : Rest(gs[k]) \in OpenGroup
  PROVE  /\ QueueOf(Enqueued(q, gs)) \in Seq(OpenGroup)
         /\ \E groups \in Abstract!Arrivals :
              /\ Len(QueueOf(q)) + Len(groups) = Enqueued(q, gs).count
              /\ QueueOf(Enqueued(q, gs)) = QueueOf(q) \o groups
<1>1. PICK m \in 0 .. n :
        /\ q.count + m <= SCHEDULER_MAX_ENTRIES
        /\ Enqueued(q, gs).count = q.count + m
        /\ QueueOf(Enqueued(q, gs)) = QueueOf(q) \o [k \in 1 .. m |-> Rest(gs[k])]
  BY EnqueuedIsAppended
<1> DEFINE groups == [k \in 1 .. m |-> Rest(gs[k])]
<1>2. m \in Nat /\ m \in 0 .. SCHEDULER_MAX_ENTRIES /\ groups \in [1 .. m -> OpenGroup]
  BY <1>1, RingFacts
<1>3. groups \in Seq(OpenGroup) /\ Len(groups) = m
  BY <1>2
<1>4. OpenGroup = Abstract!NewGroup
  BY DEF OpenGroup, Abstract!NewGroup
<1>5. groups \in Abstract!Arrivals
  BY <1>2, <1>4 DEF Abstract!Arrivals
<1>6. Len(QueueOf(q)) = q.count
  BY QueueType
<1> HIDE DEF groups
<1>7. QueueOf(q) \o groups \in Seq(OpenGroup)
  BY <1>3, ConcatProperties
<1> QED BY <1>1, <1>3, <1>5, <1>6, <1>7 DEF groups

\* So does an action.
LEMMA OpenAfterDispatched ==
  ASSUME NEW q \in RingType, QueueOf(q) \in Seq(OpenGroup), q.count > 0, NEW result
  PROVE  QueueOf(Dispatched(q, result)) \in Seq(OpenGroup)
<1> DEFINE a == QueueOf(q)
<1>1. /\ a \in Seq(OpenGroup) /\ a # <<>> /\ Len(a) \in Nat /\ DOMAIN a = 1 .. Len(a)
      /\ 1 \in 1 .. Len(a) /\ SCHEDULER_MAX_ACTIONS \in Nat
  BY QueueType, RingFacts, LenProperties
<1> HIDE DEF a
<1>2. Head(a) = a[1] /\ a[1] \in OpenGroup /\ Tail(a) \in Seq(OpenGroup)
  BY <1>1, HeadTailProperties
<1>3. CASE SequenceContinues(result) /\ Head(a).left > 1
  <2> DEFINE h == [a[1] EXCEPT !.left = a[1].left - 1]
  <2>1. h \in OpenGroup
    <3>1. a[1].left > 1 /\ a[1].left \in 1 .. SCHEDULER_MAX_ACTIONS
      BY <1>2, <1>3 DEF OpenGroup
    <3>2. a[1].left - 1 \in 1 .. SCHEDULER_MAX_ACTIONS
      BY <3>1, <1>1
    <3> QED BY <3>2, <1>2 DEF OpenGroup
  <2>2. Abstract!After(a, SequenceContinues(result)) = [a EXCEPT ![1] = h]
    BY <1>1, <1>3 DEF Abstract!After
  <2> HIDE DEF h
  <2>3. [a EXCEPT ![1] = h] \in Seq(OpenGroup)
    BY <1>1, <2>1, ExceptSeq
  <2> QED BY <2>2, <2>3, DispatchedIsAfter DEF a
<1>4. CASE ~(SequenceContinues(result) /\ Head(a).left > 1)
  BY <1>2, <1>4, DispatchedIsAfter DEF a, Abstract!After
<1> QED BY <1>3, <1>4

\* An empty ring is an empty queue.
LEMMA EmptyRingIsEmpty ==
  QueueOf(EmptyRing) = <<>>
  BY DEF QueueOf, EmptyRing

\* A pass takes the groups of the due schedules on, and then may try one action.
LEMMA LoopIsTake ==
  ASSUME ConfigurationHolds, GroupsAreOpen, NEW passed, NEW result \in Result, Loop(passed, result)
  PROVE  Abstract!Next /\ GroupsAreOpen'
<1> DEFINE q == Checked(passed)
<1>1. /\ pending \in RingType /\ QueueOf(pending) \in Seq(OpenGroup)
      /\ sinceDispatch \in 0 .. SCHEDULER_DISPATCH_INTERVAL
      /\ SCHEDULER_DISPATCH_INTERVAL \in Nat
  BY SchedulerAssumption DEF ConfigurationHolds, TypeOK, RingType, GroupsAreOpen, OpenGroup
<1>2. /\ q \in RingType /\ QueueOf(q) \in Seq(OpenGroup)
      /\ \E groups \in Abstract!Arrivals :
           /\ Len(QueueOf(pending)) + Len(groups) = q.count
           /\ QueueOf(q) = QueueOf(pending) \o groups
  <2>1. CASE lastChecked = minute
    <3>1. q = pending
      BY <2>1 DEF Checked
    <3>2. <<>> \in [1 .. 0 -> Abstract!NewGroup] /\ 0 \in 0 .. SCHEDULER_MAX_ENTRIES
      BY RingFacts, <1>1
    <3>3. <<>> \in Abstract!Arrivals
      BY <3>2 DEF Abstract!Arrivals
    <3>4. QueueOf(pending) = QueueOf(pending) \o <<>> /\ Len(<<>>) = 0
      BY <1>1, ConcatEmptySeq
    <3>5. Len(QueueOf(pending)) = pending.count /\ pending.count \in Nat
      BY <1>1, QueueType, RingFacts
    <3> QED BY <1>1, <3>1, <3>3, <3>4, <3>5
  <2>2. CASE lastChecked # minute
    <3>1. q = Enqueued(pending, Added(passed))
      BY <2>2 DEF Checked, Added
    <3>2. PICK n \in Nat : /\ Added(passed) \in [1 .. n -> GroupType]
                           /\ \A k \in 1 .. n : \E i \in DOMAIN entries : Added(passed)[k] = Group(entries[i])
      BY AddedType DEF ConfigurationHolds
    <3>3. \A i \in DOMAIN entries : Rest(Group(entries[i])) \in OpenGroup
      BY EntriesAreWellformed, SchedulerAssumption
      DEF ConfigurationHolds, Entry, Settings, Group, Rest, OpenGroup
    <3>4. \A k \in 1 .. n : Rest(Added(passed)[k]) \in OpenGroup
      BY <3>2, <3>3
    <3> QED BY <1>1, <3>1, <3>2, <3>4, EnqueuedType, OpenAfterEnqueued
  <2> QED BY <2>1, <2>2
<1>3. PICK groups \in Abstract!Arrivals :
        /\ Len(QueueOf(pending)) + Len(groups) = q.count
        /\ QueueOf(q) = QueueOf(pending) \o groups
  BY <1>2
<1>4. q.count \in Nat /\ q.count <= SCHEDULER_MAX_ENTRIES
  BY <1>2, RingFacts
<1>5. DispatchNext(q, result)
  BY DEF Loop
<1> HIDE DEF q
<1>6. CASE DispatchReady(q)
  <2>1. /\ pending' = Dispatched(q, result) /\ sinceDispatch' = 0
        /\ q.count > 0 /\ sinceDispatch = SCHEDULER_DISPATCH_INTERVAL
    BY <1>5, <1>6 DEF DispatchNext, DispatchReady
  <2>2. QueueOf(pending)' = Abstract!After(QueueOf(pending) \o groups, SequenceContinues(result))
    <3>1. QueueOf(pending)' = QueueOf(Dispatched(q, result))
      BY <2>1 DEF QueueOf, PlaceOf
    <3> QED BY <3>1, <2>1, <1>2, <1>3, DispatchedIsAfter
  <2>3. Abstract!TakeAndTry(groups, SequenceContinues(result))
    <3>1. SCHEDULER_DISPATCH_INTERVAL - sinceDispatch = 0
          /\ (SCHEDULER_DISPATCH_INTERVAL - sinceDispatch)' = SCHEDULER_DISPATCH_INTERVAL
      BY <1>1, <2>1
    <3>2. Len(QueueOf(pending)) + Len(groups) \in 1 .. SCHEDULER_MAX_ENTRIES
      BY <1>3, <1>4, <2>1
    <3> QED BY <2>2, <3>1, <3>2 DEF Abstract!TakeAndTry
  <2>4. SequenceContinues(result) \in BOOLEAN
    BY DEF SequenceContinues
  <2>5. GroupsAreOpen'
    <3>1. QueueOf(Dispatched(q, result)) \in Seq(OpenGroup)
      BY <1>2, <2>1, OpenAfterDispatched
    <3> QED BY <2>1, <3>1 DEF GroupsAreOpen, OpenGroup, QueueOf, PlaceOf
  <2> QED BY <2>3, <2>4, <2>5 DEF Abstract!Next
<1>7. CASE ~DispatchReady(q)
  <2>1. pending' = q /\ sinceDispatch' = sinceDispatch
    BY <1>5, <1>7 DEF DispatchNext
  <2>2. QueueOf(pending)' = QueueOf(q)
    BY <2>1 DEF QueueOf, PlaceOf
  <2>3. Len(QueueOf(pending)) + Len(groups) <= SCHEDULER_MAX_ENTRIES
    BY <1>3, <1>4
  <2>4. Abstract!Take(groups)
    BY <1>3, <2>1, <2>2, <2>3 DEF Abstract!Take
  <2>5. GroupsAreOpen'
    BY <1>2, <2>2 DEF GroupsAreOpen, OpenGroup
  <2> QED BY <2>4, <2>5 DEF Abstract!Next
<1> QED BY <1>6, <1>7

\* A group that is run by hand is one that arrives.
LEMMA RunNowIsTake ==
  ASSUME ConfigurationHolds, GroupsAreOpen, NEW i \in DOMAIN entries, RunNow(i)
  PROVE  Abstract!Next /\ GroupsAreOpen'
<1> DEFINE gs == <<Group(entries[i])>>
<1>1. /\ pending \in RingType /\ QueueOf(pending) \in Seq(OpenGroup)
  BY DEF ConfigurationHolds, TypeOK, RingType, GroupsAreOpen, OpenGroup
<1>2. Group(entries[i]) \in GroupType /\ Rest(Group(entries[i])) \in OpenGroup
  BY EntriesAreWellformed, SchedulerAssumption
  DEF ConfigurationHolds, Entry, Settings, Group, GroupType, Rest, OpenGroup
<1>3. gs \in [1 .. 1 -> GroupType] /\ \A k \in 1 .. 1 : Rest(gs[k]) \in OpenGroup
  BY <1>2
<1> HIDE DEF gs
<1>4. /\ QueueOf(Enqueued(pending, gs)) \in Seq(OpenGroup)
      /\ \E groups \in Abstract!Arrivals :
           /\ Len(QueueOf(pending)) + Len(groups) = Enqueued(pending, gs).count
           /\ QueueOf(Enqueued(pending, gs)) = QueueOf(pending) \o groups
  BY <1>1, <1>3, OpenAfterEnqueued
<1>5. PICK groups \in Abstract!Arrivals :
        /\ Len(QueueOf(pending)) + Len(groups) = Enqueued(pending, gs).count
        /\ QueueOf(Enqueued(pending, gs)) = QueueOf(pending) \o groups
  BY <1>4
<1>6. Enqueued(pending, gs) \in RingType
  BY <1>1, <1>3, EnqueuedType
<1>7. Enqueued(pending, gs).count <= SCHEDULER_MAX_ENTRIES
  BY <1>6, RingFacts
<1>8. pending' = Enqueued(pending, gs) /\ sinceDispatch' = sinceDispatch
  BY DEF RunNow, gs
<1>9. QueueOf(pending)' = QueueOf(Enqueued(pending, gs))
  BY <1>8 DEF QueueOf, PlaceOf
<1>10. Abstract!Take(groups)
  BY <1>5, <1>7, <1>8, <1>9 DEF Abstract!Take
<1> QED BY <1>4, <1>9, <1>10 DEF Abstract!Next, GroupsAreOpen, OpenGroup

\* What empties the ring cancels the groups.
LEMMA EmptiedIsOpen ==
  ASSUME pending' = EmptyRing
  PROVE  QueueOf(pending)' = <<>> /\ GroupsAreOpen'
<1>1. QueueOf(pending)' = QueueOf(EmptyRing)
  BY DEF QueueOf, PlaceOf
<1> QED BY <1>1, EmptyRingIsEmpty, EmptySeq DEF GroupsAreOpen

\* The ring with its places, its start and its count is a first-in first-out queue of
\* action groups: they are worked off one after the other, the actions of each in order
\* and once, none after one that failed, two actions at least the interval apart
\* (enqueue, dispatchNext, cancelPending).
THEOREM RingIsQueueOfGroups ==
  Spec => ImplementsGroups
<1> DEFINE IInv == ConfigurationHolds /\ GroupsAreOpen
           Step == Abstract!Next \/ UNCHANGED Abstract!vars
<1>1. Init => IInv /\ Abstract!Init
  <2> SUFFICES ASSUME Init PROVE IInv /\ Abstract!Init
    OBVIOUS
  <2>1. ConfigurationHolds
    BY InitialConfiguration
  <2>2. QueueOf(pending) = <<>>
    BY EmptyRingIsEmpty DEF Init
  <2>3. SCHEDULER_DISPATCH_INTERVAL - sinceDispatch = 0
    BY SchedulerAssumption DEF Init
  <2> QED BY <2>1, <2>2, <2>3, EmptySeq DEF GroupsAreOpen, Abstract!Init
<1>2. IInv /\ [Next]_vars => IInv' /\ [Abstract!Next]_Abstract!vars
  <2> SUFFICES ASSUME ConfigurationHolds, GroupsAreOpen, [Next]_vars
               PROVE  ConfigurationHolds' /\ GroupsAreOpen' /\ Step
    OBVIOUS
  <2>1. ConfigurationHolds'
    BY NextKeepsConfiguration
  <2>2. ASSUME NEW passed, NEW result \in Result, Loop(passed, result)
        PROVE  GroupsAreOpen' /\ Step
    BY <2>2, LoopIsTake
  <2>3. CASE LoopWithoutTime
    <3>1. pending' = EmptyRing /\ sinceDispatch' = sinceDispatch
      BY <2>3 DEF LoopWithoutTime
    <3>2. Abstract!Cancel
      BY <3>1, EmptiedIsOpen DEF Abstract!Cancel
    <3>3. GroupsAreOpen'
      BY <3>1, EmptiedIsOpen
    <3> QED BY <2>1, <3>2, <3>3 DEF Abstract!Next
  <2>4. ASSUME NEW i \in DOMAIN entries, RunNow(i)
        PROVE  GroupsAreOpen' /\ Step
    BY <2>4, RunNowIsTake
  <2>5. CASE TimePasses
    <3>1. /\ pending' = pending /\ sinceDispatch' = sinceDispatch + 1
          /\ sinceDispatch < SCHEDULER_DISPATCH_INTERVAL
          /\ sinceDispatch \in Nat /\ SCHEDULER_DISPATCH_INTERVAL \in Nat
      BY <2>5, SchedulerAssumption DEF TimePasses, ConfigurationHolds, TypeOK
    <3>2. QueueOf(pending)' = QueueOf(pending)
      BY <3>1 DEF QueueOf, PlaceOf
    <3>3. Abstract!Wait
      BY <3>1, <3>2 DEF Abstract!Wait
    <3>4. GroupsAreOpen'
      BY <3>2 DEF GroupsAreOpen
    <3> QED BY <2>1, <3>3, <3>4 DEF Abstract!Next
  <2>6. ASSUME NEW clockKept \in BOOLEAN, Reboot(clockKept)
        PROVE  GroupsAreOpen' /\ Step
    <3>1. pending' = EmptyRing /\ sinceDispatch' = SCHEDULER_DISPATCH_INTERVAL
      BY <2>6 DEF Reboot
    <3>2. (SCHEDULER_DISPATCH_INTERVAL - sinceDispatch)' = 0
      BY <3>1, SchedulerAssumption
    <3>3. Abstract!Restart
      BY <3>1, <3>2, EmptiedIsOpen DEF Abstract!Restart
    <3> QED BY <3>1, <3>3, EmptiedIsOpen DEF Abstract!Next
  <2>7. CASE UNCHANGED queueVars
    <3>1. pending' = pending /\ sinceDispatch' = sinceDispatch
      BY <2>7 DEF queueVars
    <3>2. QueueOf(pending)' = QueueOf(pending)
      BY <3>1 DEF QueueOf, PlaceOf
    <3>3. GroupsAreOpen'
      BY <3>2 DEF GroupsAreOpen
    <3>4. UNCHANGED Abstract!vars
      BY <3>1, <3>2 DEF Abstract!vars
    <3> QED BY <2>1, <3>3, <3>4
  <2>8. (\E es, en : CommitChange(es, en)) => UNCHANGED queueVars
    BY DEF CommitChange
  <2>9. ASSUME UserRequest, \A i \in DOMAIN entries : ~RunNow(i)
        PROVE  UNCHANGED queueVars
    BY <2>8, <2>9 DEF UserRequest, Add, Update, Remove, SetEnabled
  <2>10. NextMinute \/ (\E m \in Minute : SetClock(m)) \/ UNCHANGED vars => UNCHANGED queueVars
    BY DEF NextMinute, SetClock, vars
  <2> QED BY <2>1, <2>2, <2>3, <2>4, <2>5, <2>6, <2>7, <2>9, <2>10 DEF Next, MainLoop
<1> QED BY <1>1, <1>2, PTL DEF Spec, ImplementsGroups, Abstract!Spec

==============================================================================
