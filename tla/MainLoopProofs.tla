---------------------------- MODULE MainLoopProofs ----------------------------
(***************************************************************************)
(* Proofs about the timer queue: the state is well formed, no timer stays   *)
(* due after a pass, and none is called before its time, for any set of     *)
(* timers, any delays and any stall of the main loop.                       *)
(***************************************************************************)
EXTENDS MCMainLoop, FiniteSetTheorems, SequenceTheorems, WellFoundedInduction, TLAPS

\* A non-empty set of natural numbers has a least element.
LEMMA LeastElement ==
  ASSUME NEW S \in SUBSET Nat, S # {}
  PROVE  \E x \in S : \A y \in S : x <= y
<1> DEFINE R == OpToRel(<, Nat)
<1>1. IsWellFoundedOn(R, Nat)
  BY NatLessThanWellFounded, Zenon
<1>2. \A a, b \in Nat : a < b => <<a, b>> \in R
  BY Zenon DEF OpToRel
<1> HIDE DEF R
<1>3. PICK x \in S : \A y \in S : ~(<<y, x>> \in R)
  BY <1>1, WFMin
<1>4. \A y \in S : ~(y < x)
  BY <1>2, <1>3, Zenon
<1>5. \A y \in S : x <= y
  BY <1>4
<1> QED BY <1>5

\* If some timer is due, a pass pops one: the queue has a front.
LEMMA SomeoneIsPopped ==
  ASSUME TypeOK, Due # {}
  PROVE  Popped # {}
<1> DEFINE S == {Now(t) + sinceUpdate : t \in queued}
<1>1. \A t \in queued : Now(t) + sinceUpdate = left[t] /\ left[t] \in Nat
  BY TimerAssumption DEF TypeOK, Now
<1>2. S \in SUBSET Nat /\ S # {}
  BY <1>1 DEF Due
<1>3. PICK x \in S : \A y \in S : x <= y
  BY <1>2, LeastElement
<1>4. PICK t \in queued : x = Now(t) + sinceUpdate
  OBVIOUS
<1>5. \A u \in queued : left[t] <= left[u]
  BY <1>1, <1>3, <1>4
<1>6. \A u \in queued : Now(t) <= Now(u)
  <2> TAKE u \in queued
  <2>1. left[t] \in Nat /\ left[u] \in Nat /\ sinceUpdate \in Int
    BY <1>1, TimerAssumption DEF TypeOK
  <2> QED BY <2>1, <1>5 DEF Now
<1>7. PICK d \in queued : Now(d) <= 0
  BY DEF Due
<1>8. Now(t) \in Int /\ Now(d) \in Int
  BY <1>1, TimerAssumption DEF TypeOK, Now
<1>9. Now(t) <= 0
  BY <1>6, <1>7, <1>8
<1> QED BY <1>6, <1>9 DEF Popped, Due, First

\* What a pass leaves in the queue lies in the future, and no nearer than it was.
LEMMA RemainsInFuture ==
  ASSUME TypeOK, NEW t \in queued \ Popped
  PROVE  Remains(t) \in Nat /\ Remains(t) > 0 /\ Now(t) \in Int /\ Now(t) <= Remains(t)
<1>1. \A u \in queued : Now(u) \in Int
  BY TimerAssumption DEF TypeOK, Now
<1>2. CASE Popped = {}
  <2>1. t \notin Due
    BY <1>2, SomeoneIsPopped
  <2>2. ~(Now(t) <= 0)
    BY <2>1 DEF Due
  <2> QED BY <1>1, <1>2, <2>2 DEF Remains
<1>3. CASE Popped # {}
  <2> DEFINE u == CHOOSE v \in Popped : TRUE
  <2>1. u \in Popped
    BY <1>3
  <2>2. u \in queued /\ Now(u) <= 0 /\ \A v \in queued : Now(u) <= Now(v)
    BY <2>1 DEF Popped, Due, First
  <2>3. Now(u) # Now(t)
    BY <2>2 DEF Popped, Due, First
  <2>4. Remains(t) = Now(t) - Now(u)
    BY <1>3 DEF Remains
  <2> HIDE DEF u
  <2> QED BY <1>1, <2>2, <2>3, <2>4
<1> QED BY <1>2, <1>3

\* The callbacks of a pass are those of the timers that are due.
LEMMA CallsOfAPass ==
  ASSUME TypeOK, NEW s \in CallOrders
  PROVE  s \in Seq(Timer) /\ \A i \in 1 .. Len(s) : s[i] \in Due
<1>1. Due \subseteq Timer /\ IsFiniteSet(Due)
  BY TimerAssumption, FS_Subset DEF TypeOK, Due
<1>2. Cardinality(Due) \in Nat
  BY <1>1, FS_CardinalityType
<1>3. s \in [1 .. Cardinality(Due) -> Due]
  BY DEF CallOrders
<1>4. s \in Seq(Due)
  BY <1>2, <1>3
<1>5. s \in Seq(Timer)
  BY <1>1, <1>4, SeqMonotonic
<1>6. \A i \in 1 .. Len(s) : s[i] \in Due
  BY <1>4, ElementOfSeq
<1> QED BY <1>5, <1>6

\* Cancelling takes calls away, it adds none.
LEMMA UncalledType ==
  ASSUME TypeOK, NEW t \in Timer
  PROVE  /\ Uncalled(t) \in Seq(Timer)
         /\ \A i \in 1 .. Len(Uncalled(t)) : Uncalled(t)[i] \in Called
<1>1. calls \in Seq(Called)
  <2>1. \A i \in 1 .. Len(calls) : calls[i] \in Called
    BY DEF Called
  <2>2. Len(calls) \in Nat /\ DOMAIN calls = 1 .. Len(calls) /\ calls \in [1 .. Len(calls) -> Timer]
    BY LenProperties DEF TypeOK
  <2>3. calls \in [1 .. Len(calls) -> Called]
    BY <2>1, <2>2
  <2> QED BY <2>2, <2>3
<1>2. Called \subseteq Timer
  BY ElementOfSeq DEF TypeOK, Called
<1>3. Uncalled(t) \in Seq(Called)
  <2>1. CASE t \notin Called
    BY <1>1, <2>1 DEF Uncalled
  <2>2. CASE t \in Called
    <3> DEFINE i == CHOOSE j \in 1 .. Len(calls) :
                      calls[j] = t /\ \A k \in 1 .. j - 1 : calls[k] # t
    <3>1. \E j \in 1 .. Len(calls) : calls[j] = t /\ \A k \in 1 .. j - 1 : calls[k] # t
      <4> DEFINE S == {j \in 1 .. Len(calls) : calls[j] = t}
      <4>1. S \in SUBSET Nat /\ S # {}
        BY <2>2 DEF Called
      <4>2. PICK j \in S : \A k \in S : j <= k
        BY <4>1, LeastElement
      <4>3. Len(calls) \in Nat
        BY LenProperties DEF TypeOK
      <4>4. \A k \in 1 .. j - 1 : k \in 1 .. Len(calls) /\ k < j
        BY <4>2, <4>3
      <4> QED BY <4>2, <4>4
    <3>2. i \in 1 .. Len(calls)
      BY <3>1
    <3>3. Uncalled(t) = SubSeq(calls, 1, i - 1) \o SubSeq(calls, i + 1, Len(calls))
      BY <2>2 DEF Uncalled
    <3> HIDE DEF i
    <3>4. Len(calls) \in Nat /\ i \in Int
      BY <3>2, LenProperties DEF TypeOK
    <3>5. SubSeq(calls, 1, i - 1) \in Seq(Called)
      <4>1. \A k \in 1 .. i - 1 : calls[k] \in Called
        BY <3>2, <3>4, <1>1, ElementOfSeq
      <4> QED BY <3>4, <4>1, SubSeqProperties
    <3>6. SubSeq(calls, i + 1, Len(calls)) \in Seq(Called)
      <4>1. \A k \in i + 1 .. Len(calls) : calls[k] \in Called
        BY <3>2, <3>4, <1>1, ElementOfSeq
      <4> QED BY <3>4, <4>1, SubSeqProperties
    <3> QED BY <3>3, <3>5, <3>6, ConcatProperties
  <2> QED BY <2>1, <2>2
<1> QED BY <1>2, <1>3, SeqMonotonic, ElementOfSeq

-----------------------------------------------------------------------------
(* Type correctness.                                                       *)

\* Setting or cancelling a timer keeps the state well formed.
LEMMA InsertType ==
  ASSUME TypeOK, NEW t \in Timer, NEW d \in Nat, Insert(t, d)
  PROVE  /\ queued' \subseteq Timer /\ left' \in [Timer -> Nat] /\ calls' \in Seq(Timer)
         /\ status' \in [Timer -> {"idle", "armed", "cancelled"}]
         /\ promised' \in [Timer -> Int]
<1>1. CASE Arm(t, d)
  BY <1>1, TimerAssumption DEF Arm, TypeOK
<1>2. CASE Cancel(t, d)
  BY <1>2, UncalledType DEF Cancel, Disarm, TypeOK
<1> QED BY <1>1, <1>2 DEF Insert

\* Every step keeps the state well formed.
LEMMA TypeOKStep == TypeOK /\ [Next]_vars => TypeOK'
<1> SUFFICES ASSUME TypeOK, [Next]_vars
             PROVE  TypeOK'
  OBVIOUS
<1>1. ASSUME NEW t \in Timer, NEW d \in Delay, SetTimerOutside(t, d)
      PROVE  TypeOK'
  <2>1. d \in Nat
    BY TimerAssumption
  <2> QED BY <1>1, <2>1, InsertType DEF SetTimerOutside, TypeOK
<1>2. ASSUME NEW t \in Timer, NEW d \in CallbackDelay, SetTimerInCallback(t, d)
      PROVE  TypeOK'
  <2>1. d \in Nat /\ setTimers' \in 0 .. MaxSetTimer
    BY <1>2, TimerAssumption DEF SetTimerInCallback, TypeOK
  <2> QED BY <1>2, <2>1, InsertType DEF SetTimerInCallback, TypeOK
<1>3. CASE Update
  <2>1. calls' \in Seq(Timer)
    BY <1>3, CallsOfAPass DEF Update
  <2>2. left' \in [Timer -> Nat]
    BY <1>3, RemainsInFuture DEF Update
  <2>3. sinceUpdate' \in 0 .. MaxStall
    BY <1>3, TimerAssumption DEF Update
  <2> QED BY <1>3, <2>1, <2>2, <2>3 DEF Update, TypeOK
<1>4. CASE StartCallback
  <2>1. Head(calls) \in Timer
    BY <1>4, HeadTailProperties DEF StartCallback, TypeOK
  <2>2. setTimers' \in 0 .. MaxSetTimer
    BY <1>4, TimerAssumption DEF StartCallback
  <2> QED BY <1>4, <2>1, <2>2 DEF StartCallback, TypeOK, queueVars
<1>5. CASE EndCallback
  <2>1. calls' \in Seq(Timer)
    BY <1>5, HeadTailProperties DEF EndCallback, TypeOK
  <2> QED BY <1>5, <2>1 DEF EndCallback, TypeOK, queueVars
<1>6. CASE Tick
  BY <1>6, TimerAssumption DEF Tick, TypeOK, queueVars
<1>7. CASE UNCHANGED vars
  BY <1>7 DEF vars, queueVars, TypeOK
<1> QED BY <1>1, <1>2, <1>3, <1>4, <1>5, <1>6, <1>7 DEF Next

\* Every reachable state is well formed; in particular no timer is left with a
\* negative time when a pass has ended.
THEOREM TypeCorrect == Spec => []TypeOK
<1>1. Init => TypeOK
  BY TimerAssumption DEF Init, TypeOK
<1> QED BY <1>1, TypeOKStep, PTL DEF Spec

-----------------------------------------------------------------------------
(* Nothing stays due, nothing is early.                                     *)

\* A pass pops, or pushes into the future, everything that is due.
LEMMA QueueInFutureStep == TypeOK /\ QueueInFuture /\ [Next]_vars => QueueInFuture'
<1> SUFFICES ASSUME TypeOK, QueueInFuture, [Next]_vars
             PROVE  QueueInFuture'
  OBVIOUS
<1>1. ASSUME NEW t \in Timer, NEW d \in Nat, Insert(t, d)
      PROVE  QueueInFuture'
  BY <1>1 DEF Insert, Arm, Cancel, Disarm, QueueInFuture, TypeOK
<1>2. CASE Update
  <2>1. \A t \in queued' : t \in queued \ Popped /\ left'[t] = Remains(t)
    BY <1>2 DEF Update, TypeOK
  <2> QED BY <2>1, RemainsInFuture DEF QueueInFuture
<1>3. CASE UNCHANGED queueVars
  BY <1>3 DEF queueVars, QueueInFuture
<1> QED BY <1>1, <1>2, <1>3, TimerAssumption
        DEF Next, SetTimerOutside, SetTimerInCallback, StartCallback, EndCallback, Tick, vars

\* After every pass each timer in the queue lies in the future, whatever is armed
\* and however long the main loop was held up.
THEOREM QueueInFutureHolds == Spec => []QueueInFuture
<1>1. Init => TypeOK /\ QueueInFuture
  BY TimerAssumption DEF Init, TypeOK, QueueInFuture
<1>2. TypeOK /\ QueueInFuture /\ [Next]_vars => (TypeOK /\ QueueInFuture)'
  BY TypeOKStep, QueueInFutureStep
<1> QED BY <1>1, <1>2, PTL DEF Spec

\* Setting or cancelling one timer makes neither it nor another early.
LEMMA InsertNotEarly ==
  ASSUME TypeOK, NeverEarly, NEW t \in Timer, NEW d \in Nat, Insert(t, d),
         sinceUpdate' = sinceUpdate
  PROVE  NeverEarly'
<1>1. \A i \in 1 .. Len(calls') : calls'[i] \in Called
  BY UncalledType DEF Insert, Arm, Cancel, Called
<1>2. Called' \subseteq Called
  BY <1>1 DEF Called
<1>3. CASE Arm(t, d)
  <2>1. promised'[t] = d - sinceUpdate /\ left'[t] = d /\ t \in queued'
    BY <1>3 DEF Arm, TypeOK
  <2>2. \A u \in Timer \ {t} : /\ promised'[u] = promised[u] /\ left'[u] = left[u]
                               /\ status'[u] = status[u] /\ (u \in queued' <=> u \in queued)
    BY <1>3 DEF Arm, TypeOK
  <2>3. sinceUpdate \in Int
    BY TimerAssumption DEF TypeOK
  <2> QED BY <1>2, <2>1, <2>2, <2>3 DEF NeverEarly, Armed
<1>4. CASE Cancel(t, d)
  <2>1. status'[t] # "armed"
    BY <1>4 DEF Cancel, Disarm, TypeOK
  <2>2. \A u \in Timer \ {t} : /\ promised'[u] = promised[u] /\ left'[u] = left[u]
                               /\ status'[u] = status[u] /\ (u \in queued' <=> u \in queued)
    BY <1>4 DEF Cancel, Disarm, TypeOK
  <2> QED BY <1>2, <2>1, <2>2 DEF NeverEarly, Armed
<1> QED BY <1>3, <1>4 DEF Insert

\* No step makes a timer early: a pass subtracts what elapsed and adds the delay
\* of the popped timer, the clock only moves on.
LEMMA NeverEarlyStep == TypeOK /\ NeverEarly /\ [Next]_vars => NeverEarly'
<1> SUFFICES ASSUME TypeOK, NeverEarly, [Next]_vars
             PROVE  NeverEarly'
  OBVIOUS
<1>1. ASSUME NEW t \in Timer, NEW d \in Delay, SetTimerOutside(t, d)
      PROVE  NeverEarly'
  BY <1>1, InsertNotEarly, TimerAssumption DEF SetTimerOutside
<1>2. ASSUME NEW t \in Timer, NEW d \in CallbackDelay, SetTimerInCallback(t, d)
      PROVE  NeverEarly'
  BY <1>2, InsertNotEarly, TimerAssumption DEF SetTimerInCallback
<1>3. CASE Update
  <2>1. \A t \in queued' : t \in queued \ Popped /\ left'[t] = Remains(t)
    BY <1>3 DEF Update, TypeOK
  <2>2. \A t \in Called' : t \in Due
    BY <1>3, CallsOfAPass DEF Update, Called
  <2>3. ASSUME NEW t \in Armed', t \in queued'
        PROVE  promised'[t] <= left'[t] - sinceUpdate'
    <3>1. t \in Armed /\ t \in queued \ Popped
      BY <1>3, <2>1, <2>3 DEF Update, Armed
    <3>2. promised[t] <= Now(t)
      BY <3>1 DEF NeverEarly, Now
    <3>3. Now(t) <= Remains(t) /\ Now(t) \in Int /\ Remains(t) \in Int
      BY <3>1, RemainsInFuture
    <3>4. promised[t] \in Int
      BY <3>1 DEF TypeOK, Armed
    <3>5. promised'[t] = promised[t] /\ left'[t] = Remains(t) /\ sinceUpdate' = 0
      BY <1>3, <2>1, <2>3 DEF Update
    <3> QED BY <3>2, <3>3, <3>4, <3>5
  <2>4. ASSUME NEW t \in Armed', t \in Called'
        PROVE  promised'[t] <= 0
    <3>1. t \in Armed /\ t \in queued /\ Now(t) <= 0 /\ promised'[t] = promised[t]
      BY <1>3, <2>2, <2>4 DEF Update, Armed, Due
    <3>2. promised[t] <= Now(t)
      BY <3>1 DEF NeverEarly, Now
    <3>3. promised[t] \in Int /\ Now(t) \in Int
      BY <3>1, TimerAssumption DEF TypeOK, Now, Armed
    <3> QED BY <3>1, <3>2, <3>3
  <2> QED BY <2>3, <2>4 DEF NeverEarly
<1>4. CASE StartCallback
  <2>1. Head(calls) \in Timer
    BY <1>4, HeadTailProperties DEF StartCallback, TypeOK
  <2>2. status'[Head(calls)] # "armed"
    BY <1>4, <2>1 DEF StartCallback, TypeOK
  <2>3. \A u \in Timer \ {Head(calls)} : promised'[u] = promised[u] /\ status'[u] = status[u]
    BY <1>4, <2>1 DEF StartCallback, TypeOK
  <2> QED BY <1>4, <2>2, <2>3 DEF StartCallback, NeverEarly, Armed, Called, queueVars
<1>5. CASE EndCallback
  <2>1. \A i \in 1 .. Len(calls') : calls'[i] \in Called
    <3>1. CASE calls = <<>>
      BY <1>5, <3>1 DEF EndCallback, Called
    <3>2. CASE calls # <<>>
      <4>1. /\ calls' = Tail(calls) /\ Len(calls) \in Nat /\ Len(calls') = Len(calls) - 1
            /\ \A i \in 1 .. Len(calls') : calls'[i] = calls[i + 1]
        BY <1>5, <3>2, HeadTailProperties, LenProperties DEF EndCallback, TypeOK
      <4> QED BY <4>1 DEF Called
    <3> QED BY <3>1, <3>2
  <2>2. Called' \subseteq Called
    BY <2>1 DEF Called
  <2> QED BY <1>5, <2>2 DEF EndCallback, NeverEarly, Armed, queueVars
<1>6. CASE Tick
  <2>1. \A t \in Timer : left[t] \in Nat /\ promised[t] \in Int
    BY DEF TypeOK
  <2>2. sinceUpdate \in Int /\ sinceUpdate' = sinceUpdate + 1 /\ sinceUpdate' <= MaxStall
    BY <1>6, TimerAssumption DEF Tick, TypeOK
  <2>3. /\ queued' = queued /\ left' = left /\ Called' = Called /\ Armed' = Armed
    BY <1>6 DEF Tick, queueVars, Called, Armed
  <2>4. \A t \in Armed : promised'[t] = IF promised[t] > -MaxStall THEN promised[t] - 1
                                         ELSE promised[t]
    BY <1>6 DEF Tick, Armed
  <2>5. Armed \subseteq Timer
    BY DEF Armed
  <2> QED BY <2>1, <2>2, <2>3, <2>4, <2>5, TimerAssumption DEF NeverEarly
<1>7. CASE UNCHANGED vars
  BY <1>7 DEF vars, queueVars, NeverEarly, Called, Armed
<1> QED BY <1>1, <1>2, <1>3, <1>4, <1>5, <1>6, <1>7 DEF Next

\* No timer is called before the time it was set to, whatever other timers are
\* set, cancelled, popped late or called twice meanwhile.
THEOREM NeverEarlyHolds == Spec => []NeverEarly
<1>1. Init => TypeOK /\ NeverEarly
  BY TimerAssumption DEF Init, TypeOK, NeverEarly, Armed
<1>2. TypeOK /\ NeverEarly /\ [Next]_vars => (TypeOK /\ NeverEarly)'
  BY TypeOKStep, NeverEarlyStep
<1> QED BY <1>1, <1>2, PTL DEF Spec

-----------------------------------------------------------------------------
(* The forced sterilization.                                                *)

\* What the proof needs of the times: a restore waits longer than a command and the next data
\* take; a cycle is given up no sooner; data that was read as often as it should is fresh; and
\* the queue has room for the command that forces the cycle.
InTime ==
  /\ CommandDelay + ReadPeriod < LateRestore /\ CommandDelay + ReadPeriod <= ConfirmTime
  /\ ReadPeriod <= FreshTime
  /\ "force" \notin Refusable

LEMMA Times ==
  /\ {ForceDelay, ModeDelay, SoonRestore, LateRestore, RetryDelay, ConfirmTime, FreshTime,
      ReadPeriod, CommandDelay} \subseteq Nat
  /\ Dashboard!Setting \subseteq 0 .. 6 /\ Dashboard!Delays \subseteq Nat
  BY WorkflowAssumption DEF Dashboard!Setting, Dashboard!DhwOnly, Dashboard!Delays

\* Whatever auto is shown as, the setting is recognized.
LEMMA SettingIsRecognized ==
  ASSUME NEW mode \in 0 .. 6, NEW shown \in Dashboard!ShownAs(mode)
  PROVE  Dashboard!SettingOf(shown) = mode /\ shown \in Int /\ shown >= 0
<1>1. CASE mode = 2
  BY <1>1 DEF Dashboard!ShownAs, Dashboard!SettingOf
<1>2. CASE mode = 6
  BY <1>2 DEF Dashboard!ShownAs, Dashboard!SettingOf
<1>3. CASE mode \notin {2, 6}
  BY <1>3 DEF Dashboard!ShownAs, Dashboard!SettingOf
<1> QED BY <1>1, <1>2, <1>3

\* Commands that are given, taken and wait.
LEMMA CommandIsGiven ==
  ASSUME inFlight \in Seq(Dashboard!Command), NEW topic \in {"mode", "force"},
         NEW value \in Dashboard!Setting \cup {0, 1},
         inFlight' = Dashboard!Accepted(topic, value)
  PROVE  /\ inFlight' \in Seq(Dashboard!Command)
         /\ Dashboard!UnderWay(topic)'
         /\ ~Dashboard!UnderWay(topic) => Dashboard!OneCommand(topic)'
         /\ topic = "mode" /\ ~Dashboard!UnderWay(topic) => Dashboard!ModeUnderWay(value)'
         /\ \A other \in {"mode", "force"} \ {topic} :
              /\ Dashboard!UnderWay(other)' <=> Dashboard!UnderWay(other)
              /\ Dashboard!OneCommand(other) => Dashboard!OneCommand(other)'
              /\ \A time \in Int : Dashboard!OlderThan(other, time)
                                     => Dashboard!OlderThan(other, time)'
         /\ topic = "force" => \A mode : Dashboard!ModeUnderWay(mode)
                                           => Dashboard!ModeUnderWay(mode)'
         /\ \A any \in {"mode", "force"}, time \in Int :
              time <= 0 => Dashboard!OlderThan(any, time)'
<1> DEFINE new == [topic |-> topic, value |-> value, age |-> 0]
           last == Len(inFlight) + 1
<1>1. new \in Dashboard!Command /\ new.topic = topic /\ new.value = value /\ new.age = 0
  BY Times DEF Dashboard!Command
<1>2. inFlight' = Append(inFlight, new)
  BY DEF Dashboard!Accepted
<1> HIDE DEF new
<1>3. /\ inFlight' \in Seq(Dashboard!Command) /\ DOMAIN inFlight' = 1 .. last
      /\ DOMAIN inFlight = 1 .. Len(inFlight) /\ Len(inFlight) \in Nat
      /\ \A i \in 1 .. Len(inFlight) : inFlight'[i] = inFlight[i]
      /\ inFlight'[last] = new
  BY <1>1, <1>2
<1>4. /\ last \in DOMAIN inFlight' /\ last \notin DOMAIN inFlight
      /\ \A i \in DOMAIN inFlight' : i = last \/ i \in DOMAIN inFlight
      /\ \A i \in DOMAIN inFlight : i \in DOMAIN inFlight' /\ inFlight'[i] = inFlight[i]
      /\ \A i \in DOMAIN inFlight' : inFlight'[i] \in Dashboard!Command
  BY <1>3
<1>5. inFlight'[last] = new
  BY <1>3
<1> HIDE DEF last
<1>6. \A i \in DOMAIN inFlight' : inFlight'[i].age \in Nat
  BY <1>4, Times DEF Dashboard!Command
<1>7. Dashboard!UnderWay(topic)'
  BY <1>1, <1>4, <1>5 DEF Dashboard!UnderWay
<1>8. ~Dashboard!UnderWay(topic) => Dashboard!OneCommand(topic)'
  BY <1>4 DEF Dashboard!UnderWay, Dashboard!OneCommand
<1>9. topic = "mode" /\ ~Dashboard!UnderWay(topic) => Dashboard!ModeUnderWay(value)'
  BY <1>1, <1>4, <1>5 DEF Dashboard!UnderWay, Dashboard!ModeUnderWay
<1>10. ASSUME NEW other \in {"mode", "force"} \ {topic}
       PROVE  /\ Dashboard!UnderWay(other)' <=> Dashboard!UnderWay(other)
              /\ Dashboard!OneCommand(other) => Dashboard!OneCommand(other)'
              /\ \A time \in Int : Dashboard!OlderThan(other, time)
                                     => Dashboard!OlderThan(other, time)'
  BY <1>1, <1>4, <1>5, <1>10
     DEF Dashboard!UnderWay, Dashboard!OneCommand, Dashboard!OlderThan
<1>11. topic = "force" => \A mode : Dashboard!ModeUnderWay(mode) => Dashboard!ModeUnderWay(mode)'
  BY <1>1, <1>4, <1>5 DEF Dashboard!ModeUnderWay
<1>12. ASSUME NEW any \in {"mode", "force"}, NEW time \in Int, time <= 0
       PROVE  Dashboard!OlderThan(any, time)'
  BY <1>6, <1>12 DEF Dashboard!OlderThan
<1> QED BY <1>3, <1>7, <1>8, <1>9, <1>10, <1>11, <1>12

LEMMA CommandIsTaken ==
  ASSUME inFlight \in Seq(Dashboard!Command), inFlight # <<>>, inFlight' = Tail(inFlight),
         NEW head, head = Head(inFlight)
  PROVE  /\ inFlight' \in Seq(Dashboard!Command) /\ head \in Dashboard!Command
         /\ Dashboard!UnderWay(head.topic)
         /\ Dashboard!OneCommand(head.topic)
              => ~Dashboard!UnderWay(head.topic)'
         /\ \A time \in Int : Dashboard!OlderThan(head.topic, time)
                                => time <= CommandDelay
         /\ \A mode : head.topic = "mode" /\ Dashboard!ModeUnderWay(mode)
                        => head.value = mode
         /\ \A any \in {"mode", "force"} :
              /\ Dashboard!UnderWay(any)' => Dashboard!UnderWay(any)
              /\ any # head.topic /\ Dashboard!UnderWay(any) => Dashboard!UnderWay(any)'
              /\ Dashboard!OneCommand(any) => Dashboard!OneCommand(any)'
              /\ \A time \in Int : Dashboard!OlderThan(any, time) => Dashboard!OlderThan(any, time)'
         /\ \A mode : Dashboard!ModeUnderWay(mode) => Dashboard!ModeUnderWay(mode)'
<1>1. /\ inFlight' \in Seq(Dashboard!Command) /\ head = inFlight[1]
      /\ 1 \in DOMAIN inFlight /\ head \in Dashboard!Command
      /\ \A i \in DOMAIN inFlight' : i \in Nat /\ i >= 1 /\ i + 1 \in DOMAIN inFlight
                                     /\ inFlight'[i] = inFlight[i + 1]
      /\ \A i \in DOMAIN inFlight : i \in Nat /\ (i # 1 => i - 1 \in DOMAIN inFlight')
  BY HeadTailProperties
<1>2. \A i \in DOMAIN inFlight : i # 1 => i - 1 \in DOMAIN inFlight' /\ inFlight'[i - 1] = inFlight[i]
  BY <1>1
<1>3. head.age <= CommandDelay
  BY <1>1, Times DEF Dashboard!Command
<1>4. Dashboard!UnderWay(head.topic)
  BY <1>1 DEF Dashboard!UnderWay
<1>5. Dashboard!OneCommand(head.topic) => ~Dashboard!UnderWay(head.topic)'
  <2> SUFFICES ASSUME Dashboard!OneCommand(head.topic), Dashboard!UnderWay(head.topic)'
               PROVE  FALSE
    OBVIOUS
  <2>0. PICK i \in DOMAIN inFlight' : inFlight'[i].topic = head.topic
    BY DEF Dashboard!UnderWay
  <2>1. i + 1 \in DOMAIN inFlight /\ inFlight[i + 1].topic = head.topic /\ i + 1 # 1
    BY <1>1, <2>0
  <2> QED BY <1>1, <2>1 DEF Dashboard!OneCommand
<1>6. \A time \in Int : Dashboard!OlderThan(head.topic, time) => time <= CommandDelay
  <2> SUFFICES ASSUME NEW time \in Int, Dashboard!OlderThan(head.topic, time)
               PROVE  time <= CommandDelay
    OBVIOUS
  <2>1. time <= inFlight[1].age
    BY <1>1 DEF Dashboard!OlderThan
  <2>2. inFlight[1].age \in 0 .. CommandDelay
    BY <1>1 DEF Dashboard!Command
  <2>3. CommandDelay \in Nat
    BY Times
  <2> QED BY <2>1, <2>2, <2>3
<1>7. \A mode : head.topic = "mode" /\ Dashboard!ModeUnderWay(mode) => head.value = mode
  BY <1>1 DEF Dashboard!ModeUnderWay
<1>8. ASSUME NEW any \in {"mode", "force"}
      PROVE  /\ Dashboard!UnderWay(any)' => Dashboard!UnderWay(any)
             /\ any # head.topic /\ Dashboard!UnderWay(any) => Dashboard!UnderWay(any)'
             /\ Dashboard!OneCommand(any) => Dashboard!OneCommand(any)'
             /\ \A time \in Int : Dashboard!OlderThan(any, time) => Dashboard!OlderThan(any, time)'
  <2>1. Dashboard!UnderWay(any)' => Dashboard!UnderWay(any)
    BY <1>1 DEF Dashboard!UnderWay
  <2>2. any # head.topic /\ Dashboard!UnderWay(any) => Dashboard!UnderWay(any)'
    BY <1>2 DEF Dashboard!UnderWay
  <2>3. Dashboard!OneCommand(any) => Dashboard!OneCommand(any)'
    <3> SUFFICES ASSUME Dashboard!OneCommand(any), NEW i \in DOMAIN inFlight',
                        NEW j \in DOMAIN inFlight',
                        inFlight'[i].topic = any, inFlight'[j].topic = any
                 PROVE  i = j
      BY DEF Dashboard!OneCommand
    <3>1. i + 1 = j + 1
      BY <1>1 DEF Dashboard!OneCommand
    <3> QED BY <1>1, <3>1
  <2>4. \A time \in Int : Dashboard!OlderThan(any, time) => Dashboard!OlderThan(any, time)'
    BY <1>1 DEF Dashboard!OlderThan
  <2> QED BY <2>1, <2>2, <2>3, <2>4
<1>9. \A mode : Dashboard!ModeUnderWay(mode) => Dashboard!ModeUnderWay(mode)'
  BY <1>1 DEF Dashboard!ModeUnderWay
<1> QED BY <1>1, <1>4, <1>5, <1>6, <1>7, <1>8, <1>9

LEMMA CommandsWait ==
  ASSUME inFlight \in Seq(Dashboard!Command),
         \A i \in DOMAIN inFlight : inFlight[i].age < CommandDelay,
         inFlight' = [i \in DOMAIN inFlight |-> [inFlight[i] EXCEPT !.age = @ + 1]]
  PROVE  /\ inFlight' \in Seq(Dashboard!Command)
         /\ \A any \in {"mode", "force"} :
              /\ Dashboard!UnderWay(any)' <=> Dashboard!UnderWay(any)
              /\ Dashboard!OneCommand(any) => Dashboard!OneCommand(any)'
              /\ \A time \in Int : Dashboard!OlderThan(any, time)
                                     => Dashboard!OlderThan(any, time + 1)'
         /\ \A mode : Dashboard!ModeUnderWay(mode) => Dashboard!ModeUnderWay(mode)'
<1>1. /\ DOMAIN inFlight' = DOMAIN inFlight /\ DOMAIN inFlight = 1 .. Len(inFlight)
      /\ Len(inFlight) \in Nat
  OBVIOUS
<1>2. ASSUME NEW i \in DOMAIN inFlight
      PROVE  /\ inFlight'[i] \in Dashboard!Command /\ inFlight'[i].topic = inFlight[i].topic
             /\ inFlight'[i].value = inFlight[i].value
             /\ inFlight'[i].age = inFlight[i].age + 1 /\ inFlight[i].age \in Int
  <2>1. inFlight[i] \in Dashboard!Command /\ inFlight'[i] = [inFlight[i] EXCEPT !.age = @ + 1]
    OBVIOUS
  <2>2. inFlight[i].age \in 0 .. CommandDelay /\ inFlight[i].age < CommandDelay
    BY <2>1 DEF Dashboard!Command
  <2>3. inFlight[i].age + 1 \in 0 .. CommandDelay /\ inFlight[i].age \in Int
    BY <2>2, Times
  <2> QED BY <2>1, <2>3 DEF Dashboard!Command
<1>3. inFlight' \in Seq(Dashboard!Command)
  <2> DEFINE F == [i \in DOMAIN inFlight |-> [inFlight[i] EXCEPT !.age = @ + 1]]
  <2>1. F \in [1 .. Len(inFlight) -> Dashboard!Command]
    BY <1>1, <1>2
  <2> QED BY <1>1, <2>1
<1>4. \A any \in {"mode", "force"} :
        /\ Dashboard!UnderWay(any)' <=> Dashboard!UnderWay(any)
        /\ Dashboard!OneCommand(any) => Dashboard!OneCommand(any)'
  <2>1. \A any \in {"mode", "force"} : Dashboard!UnderWay(any)' <=> Dashboard!UnderWay(any)
    BY <1>1, <1>2 DEF Dashboard!UnderWay
  <2>2. \A any \in {"mode", "force"} : Dashboard!OneCommand(any) => Dashboard!OneCommand(any)'
    <3> SUFFICES ASSUME NEW any \in {"mode", "force"}, Dashboard!OneCommand(any)
                 PROVE  Dashboard!OneCommand(any)'
      OBVIOUS
    <3> SUFFICES ASSUME NEW i \in DOMAIN inFlight', NEW j \in DOMAIN inFlight',
                        inFlight'[i].topic = any, inFlight'[j].topic = any
                 PROVE  i = j
      BY DEF Dashboard!OneCommand
    <3>0. i \in DOMAIN inFlight /\ j \in DOMAIN inFlight
      BY <1>1
    <3>1. inFlight[i].topic = any /\ inFlight[j].topic = any
      <4>1. inFlight'[i].topic = inFlight[i].topic /\ inFlight'[j].topic = inFlight[j].topic
        BY <1>2, <3>0
      <4> QED BY <4>1, Zenon
    <3> QED BY <3>0, <3>1 DEF Dashboard!OneCommand
  <2> QED BY <2>1, <2>2
<1>5. \A any \in {"mode", "force"} : \A time \in Int :
        Dashboard!OlderThan(any, time) => Dashboard!OlderThan(any, time + 1)'
  BY <1>1, <1>2 DEF Dashboard!OlderThan
<1>6. \A mode : Dashboard!ModeUnderWay(mode) => Dashboard!ModeUnderWay(mode)'
  BY <1>1, <1>2 DEF Dashboard!ModeUnderWay
<1> QED BY <1>3, <1>4, <1>5, <1>6

LEMMA CommandsStay ==
  ASSUME inFlight' = inFlight
  PROVE  /\ \A any \in {"mode", "force"} :
              /\ Dashboard!UnderWay(any)' <=> Dashboard!UnderWay(any)
              /\ Dashboard!OneCommand(any) <=> Dashboard!OneCommand(any)'
              /\ \A time \in Int : Dashboard!OlderThan(any, time)
                                     => Dashboard!OlderThan(any, time)'
         /\ \A mode : Dashboard!ModeUnderWay(mode) => Dashboard!ModeUnderWay(mode)'
  BY DEF Dashboard!UnderWay, Dashboard!OneCommand, Dashboard!OlderThan, Dashboard!ModeUnderWay

\* How long a command has had, said with a number.
LEMMA TimeTaken ==
  ASSUME NEW topic \in {"mode", "force"}, NEW time \in Int
  PROVE  /\ Dashboard!Elapsed = time =>
              (Dashboard!TakesItsTime(topic)
                 <=> time <= CommandDelay + dataAge /\ Dashboard!OlderThan(topic, time))
         /\ Dashboard!Elapsed' = time =>
              (Dashboard!TakesItsTime(topic)'
                 <=> time <= CommandDelay + dataAge' /\ Dashboard!OlderThan(topic, time)')
  BY DEF Dashboard!TakesItsTime, Dashboard!OlderThan

\* What is known of a state.
LEMMA Knowledge ==
  ASSUME Dashboard!WorkflowIsKnown
  PROVE  /\ Dashboard!TypeOK /\ Dashboard!ModeIsKnown /\ Dashboard!ForceIsKnown
         /\ workflow \in Dashboard!Workflow /\ wait \in Nat /\ forceAge \in Nat
         /\ forceAge <= ConfirmTime + 1
         /\ dataAge \in Nat /\ dataAge <= ReadPeriod
         /\ inFlight \in Seq(Dashboard!Command) /\ pump \in Dashboard!HeatPump
         /\ userMode \in 0 .. 6 /\ Dashboard!Elapsed \in Int
         /\ actData.force \in {0, 1} /\ Dashboard!DhwOnly \in Dashboard!Setting
         /\ userMode \in Dashboard!Setting
<1>1. Dashboard!TypeOK /\ Dashboard!ModeIsKnown /\ Dashboard!ForceIsKnown
  BY DEF Dashboard!WorkflowIsKnown
<1>2. /\ workflow \in Dashboard!Workflow /\ wait \in Nat /\ forceAge \in Nat
      /\ forceAge <= ConfirmTime + 1
      /\ dataAge \in Nat /\ dataAge <= ReadPeriod
      /\ inFlight \in Seq(Dashboard!Command) /\ pump \in Dashboard!HeatPump
      /\ userMode \in 0 .. 6
  <2>1. /\ workflow \in Dashboard!Workflow /\ wait \in Nat
        /\ forceAge \in 0 .. ConfirmTime + 1 /\ dataAge \in 0 .. ReadPeriod
        /\ inFlight \in Seq(Dashboard!Command) /\ pump \in Dashboard!HeatPump
        /\ userMode \in Mode
    BY <1>1 DEF Dashboard!TypeOK
  <2>2. ConfirmTime \in Nat /\ ReadPeriod \in Nat
    BY Times
  <2>3. Mode \subseteq 0 .. 6
    BY WorkflowAssumption
  <2> QED BY <2>1, <2>2, <2>3
<1>3. Dashboard!Elapsed \in Int
  BY <1>2, Times DEF Dashboard!Elapsed
<1>4. actData.force \in {0, 1}
  BY <1>1 DEF Dashboard!TypeOK, Dashboard!Reported, Dashboard!NoData
<1>5. Dashboard!DhwOnly \in Dashboard!Setting /\ userMode \in Dashboard!Setting
  BY <1>1 DEF Dashboard!Setting, Dashboard!TypeOK
<1> QED BY <1>1, <1>2, <1>3, <1>4, <1>5

\* The heat pump and its tank.
LEMMA HeatPumpKeepsKnown ==
  ASSUME Dashboard!WorkflowIsKnown,
         Dashboard!FinishCycle \/ Dashboard!TankCools \/ Dashboard!TankHeats
  PROVE  Dashboard!WorkflowIsKnown'
<1>1. /\ UNCHANGED <<workflow, wait, forceAge, actData, dataAge, inFlight, userMode, ended>>
      /\ pump'.mode = pump.mode /\ (~pump.forced => ~pump'.forced)
      /\ pump' \in Dashboard!HeatPump
  BY Knowledge DEF Dashboard!FinishCycle, Dashboard!TankCools, Dashboard!TankHeats,
                   Dashboard!HeatPump
<1>2. Dashboard!TypeOK'
  BY <1>1, Knowledge DEF Dashboard!TypeOK
<1>3. Dashboard!Elapsed' = Dashboard!Elapsed /\ Dashboard!Elapsed \in Int
  BY <1>1, Knowledge DEF Dashboard!Elapsed
<1>4. \A topic \in {"mode", "force"} :
        Dashboard!TakesItsTime(topic) => Dashboard!TakesItsTime(topic)'
  BY <1>1, <1>3, CommandsStay, TimeTaken
<1>5. Dashboard!ForceSettled => Dashboard!ForceSettled'
  BY <1>1, CommandsStay DEF Dashboard!ForceSettled
<1>6. Dashboard!ModeSettled => Dashboard!ModeSettled'
  BY <1>1, CommandsStay DEF Dashboard!ModeSettled, Dashboard!HasData, Dashboard!SeenMode
<1>7. Dashboard!ModeIsKnown'
  BY <1>1, <1>4, <1>6, CommandsStay, Knowledge
     DEF Dashboard!ModeIsKnown, Dashboard!HasData, Dashboard!SeenMode, Dashboard!Running
<1>8. Dashboard!ForceIsKnown'
  BY <1>1, <1>4, <1>5, CommandsStay, Knowledge DEF Dashboard!ForceIsKnown
<1> QED BY <1>1, <1>2, <1>7, <1>8
        DEF Dashboard!WorkflowIsKnown, Dashboard!HasData, Dashboard!Running

\* A data block is read: what has arrived is seen, what is under way is not old.
LEMMA ReadingKeepsKnown ==
  ASSUME Dashboard!WorkflowIsKnown, Dashboard!ReadData
  PROVE  Dashboard!WorkflowIsKnown'
<1>1. /\ UNCHANGED <<workflow, wait, forceAge, inFlight, pump, userMode, ended>>
      /\ dataAge' = 0
  BY DEF Dashboard!ReadData
<1>2. PICK shown \in Dashboard!ShownAs(pump.mode) :
        actData' = [mode |-> shown, force |-> IF pump.forced THEN 1 ELSE 0, warm |-> pump.warm]
  BY DEF Dashboard!ReadData
<1>3. pump.mode \in Dashboard!Setting /\ pump.forced \in BOOLEAN /\ pump.warm \in BOOLEAN
  BY Knowledge DEF Dashboard!HeatPump
<1>4. Dashboard!SettingOf(shown) = pump.mode /\ shown \in Int /\ shown >= 0
  BY <1>3, SettingIsRecognized, Times
<1>5. actData'.mode = shown /\ actData'.force = (IF pump.forced THEN 1 ELSE 0)
      /\ actData'.warm = pump.warm
  BY <1>2
<1>6. Dashboard!HasData' /\ Dashboard!SeenMode' = pump.mode
  BY <1>4, <1>5 DEF Dashboard!HasData, Dashboard!SeenMode, Dashboard!NoData, Dashboard!SettingOf
<1>7. actData' \in Dashboard!Reported
  <2>1. shown \in Dashboard!Shown
    BY <1>3 DEF Dashboard!Shown
  <2> QED BY <1>2, <1>3, <2>1 DEF Dashboard!Reported
<1>8. Dashboard!TypeOK'
  BY <1>1, <1>7, Knowledge, Times DEF Dashboard!TypeOK
<1>9. Dashboard!Elapsed' = Dashboard!Elapsed /\ Dashboard!Elapsed \in Int
  BY <1>1, Knowledge DEF Dashboard!Elapsed
<1>10. ASSUME NEW topic \in {"mode", "force"}, Dashboard!TakesItsTime(topic),
              Dashboard!UnderWay(topic)
       PROVE  Dashboard!TakesItsTime(topic)'
  <2>1. Dashboard!OlderThan(topic, Dashboard!Elapsed)
    BY <1>10 DEF Dashboard!TakesItsTime
  <2>2. PICK i \in DOMAIN inFlight : inFlight[i].topic = topic
    BY <1>10 DEF Dashboard!UnderWay
  <2>3. Dashboard!Elapsed <= inFlight[i].age /\ inFlight[i].age \in 0 .. CommandDelay
    <3>1. inFlight[i] \in Dashboard!Command
      BY Knowledge
    <3> QED BY <2>1, <2>2, <3>1 DEF Dashboard!OlderThan, Dashboard!Command
  <2>4. Dashboard!Elapsed <= CommandDelay + 0
    BY <1>9, <2>3, Times
  <2>5. PICK time \in Int : time = Dashboard!Elapsed
    BY <1>9
  <2>6. Dashboard!OlderThan(topic, time)'
    BY <1>1, <2>1, <2>5, CommandsStay
  <2>7. time <= CommandDelay + dataAge'
    BY <1>1, <2>4, <2>5
  <2> QED BY <1>9, <2>5, <2>6, <2>7, TimeTaken
<1>11. ~Dashboard!UnderWay("force") => Dashboard!ForceSettled'
  BY <1>1, <1>3, <1>5, CommandsStay DEF Dashboard!ForceSettled
<1>12. Dashboard!ForceSettled => Dashboard!ForceSettled'
  BY <1>11 DEF Dashboard!ForceSettled
<1>13. ~Dashboard!UnderWay("mode") /\ pump.mode = Dashboard!DhwOnly => Dashboard!ModeSettled'
  BY <1>1, <1>6, CommandsStay DEF Dashboard!ModeSettled
<1>14. Dashboard!ModeIsKnown'
  <2>1. pump'.mode \in {userMode', Dashboard!DhwOnly} /\ Dashboard!OneCommand("mode")'
        /\ Dashboard!SeenMode' \in {userMode', Dashboard!DhwOnly}
    BY <1>1, <1>6, CommandsStay, Knowledge DEF Dashboard!ModeIsKnown
  <2>2. CASE workflow.modeChanged
    <3>1. /\ Dashboard!Running' /\ workflow'.previousMode = userMode' /\ userMode' # Dashboard!DhwOnly
          /\ Dashboard!ModeUnderWay(Dashboard!DhwOnly)'
          /\ ~Dashboard!UnderWay("mode")' => pump'.mode = Dashboard!DhwOnly
      BY <1>1, <2>2, CommandsStay, Knowledge
         DEF Dashboard!ModeIsKnown, Dashboard!Running, Dashboard!ModeUnderWay
    <3>2. Dashboard!ModeSettled' \/ Dashboard!TakesItsTime("mode")'
      <4>1. Dashboard!ModeSettled \/ Dashboard!TakesItsTime("mode")
        BY <2>2, Knowledge DEF Dashboard!ModeIsKnown
      <4>2. ~Dashboard!UnderWay("mode") => pump.mode = Dashboard!DhwOnly
        BY <2>2, Knowledge DEF Dashboard!ModeIsKnown
      <4> QED BY <1>10, <1>13, <4>1, <4>2 DEF Dashboard!ModeSettled
    <3> QED BY <1>1, <2>1, <2>2, <3>1, <3>2 DEF Dashboard!ModeIsKnown
  <2>3. CASE ~workflow.modeChanged
    <3>1. /\ Dashboard!ModeUnderWay(userMode)
          /\ ~Dashboard!UnderWay("mode") => pump.mode = userMode
          /\ Dashboard!UnderWay("mode") => pump.mode = Dashboard!DhwOnly
      BY <2>3, Knowledge DEF Dashboard!ModeIsKnown
    <3>2. Dashboard!ModeUnderWay(userMode)'
      BY <1>1, <3>1 DEF Dashboard!ModeUnderWay
    <3> QED BY <1>1, <1>6, <2>1, <2>3, <3>1, <3>2, CommandsStay DEF Dashboard!ModeIsKnown
  <2> QED BY <2>2, <2>3
<1>15. Dashboard!ForceIsKnown'
  <2>1. CASE workflow.stage = "active"
    <3>1. Dashboard!ForceSettled' \/ Dashboard!TakesItsTime("force")'
      BY <1>10, <1>11, <1>12, <2>1, Knowledge DEF Dashboard!ForceIsKnown
    <3>2. actData'.force = 1 \/ workflow.observedActive => Dashboard!ForceSettled'
      <4>1. CASE actData'.force = 1
        <5>1. pump.forced
          BY <1>3, <1>5, <4>1
        <5>2. ~Dashboard!UnderWay("force")
          BY <2>1, <5>1, Knowledge DEF Dashboard!ForceIsKnown
        <5> QED BY <1>11, <5>2
      <4>2. CASE workflow.observedActive
        BY <1>12, <2>1, <4>2, Knowledge DEF Dashboard!ForceIsKnown
      <4> QED BY <4>1, <4>2
    <3>3. Dashboard!OneCommand("force")' /\ (Dashboard!UnderWay("force")' => ~pump'.forced)
      BY <1>1, <2>1, CommandsStay, Knowledge DEF Dashboard!ForceIsKnown
    <3> QED BY <1>1, <2>1, <3>1, <3>2, <3>3 DEF Dashboard!ForceIsKnown
  <2>2. CASE workflow.stage = "restore" /\ ended = "cancelled"
    BY <1>1, <1>10, <1>11, <1>12, <2>2, Knowledge DEF Dashboard!ForceIsKnown
  <2>3. CASE workflow.stage # "active" /\ ~(workflow.stage = "restore" /\ ended = "cancelled")
    BY <1>1, <1>12, <2>3, Knowledge DEF Dashboard!ForceIsKnown
  <2> QED BY <2>1, <2>2, <2>3
<1> QED BY <1>1, <1>6, <1>8, <1>14, <1>15
        DEF Dashboard!WorkflowIsKnown, Dashboard!HasData, Dashboard!Running

LEMMA NotAfter ==
  ASSUME NEW a \in Int, NEW b \in Int, NEW c \in Int, a <= b + 1, b + 1 <= c
  PROVE  a <= c
  OBVIOUS

LEMMA WhatIsLeft ==
  ASSUME NEW whole \in Nat, NEW before \in Nat, NEW after \in Nat, before <= after + 1
  PROVE  whole - after \in Int /\ whole - after <= (whole - before) + 1
  OBVIOUS

\* Time passes for the commands and for the workflow alike.
LEMMA WaitingKeepsKnown ==
  ASSUME Dashboard!WorkflowIsKnown, Dashboard!Tick
  PROVE  Dashboard!WorkflowIsKnown'
<1>1. /\ UNCHANGED <<workflow, actData, pump, userMode, ended>>
      /\ dataAge < ReadPeriod /\ dataAge' = dataAge + 1
      /\ \A i \in DOMAIN inFlight : inFlight[i].age < CommandDelay
      /\ inFlight' = [i \in DOMAIN inFlight |-> [inFlight[i] EXCEPT !.age = @ + 1]]
      /\ wait' = Dashboard!Less(wait)
      /\ forceAge' = IF workflow.stage = "active" THEN Dashboard!More(forceAge, ConfirmTime + 1)
                                                  ELSE forceAge
  BY DEF Dashboard!Tick
<1>2. /\ wait \in Nat /\ forceAge \in Nat /\ dataAge \in Nat /\ forceAge <= ConfirmTime + 1
      /\ Dashboard!Elapsed \in Int /\ inFlight \in Seq(Dashboard!Command)
      /\ ConfirmTime \in Nat /\ LateRestore \in Nat /\ ReadPeriod \in Nat /\ CommandDelay \in Nat
  BY Knowledge, Times
<1>3. wait' \in Nat /\ wait' <= wait /\ wait <= wait' + 1
  BY <1>1, <1>2 DEF Dashboard!Less
<1>4. forceAge' \in Nat /\ forceAge' <= ConfirmTime + 1 /\ forceAge' <= forceAge + 1
  BY <1>1, <1>2 DEF Dashboard!More
<1>5. Dashboard!Elapsed' \in Int /\ Dashboard!Elapsed' <= Dashboard!Elapsed + 1
  <2>1. CASE workflow.stage = "active"
    <3>1. Dashboard!Elapsed = forceAge /\ Dashboard!Elapsed' = forceAge'
      BY <1>1, <2>1 DEF Dashboard!Elapsed
    <3> QED BY <1>2, <1>4, <3>1
  <2>2. CASE workflow.stage = "restore"
    <3>1. Dashboard!Elapsed = LateRestore - wait /\ Dashboard!Elapsed' = LateRestore - wait'
      BY <1>1, <2>2 DEF Dashboard!Elapsed
    <3>2. LateRestore - wait' \in Int /\ LateRestore - wait' <= (LateRestore - wait) + 1
      BY <1>2, <1>3, WhatIsLeft
    <3> QED BY <3>1, <3>2
  <2>3. CASE workflow.stage \notin {"active", "restore"}
    BY <1>1, <2>3 DEF Dashboard!Elapsed
  <2> QED BY <2>1, <2>2, <2>3
<1>6. inFlight' \in Seq(Dashboard!Command)
  BY <1>1, <1>2, CommandsWait
<1>7. \A any \in {"mode", "force"} :
        /\ Dashboard!UnderWay(any)' <=> Dashboard!UnderWay(any)
        /\ Dashboard!OneCommand(any) => Dashboard!OneCommand(any)'
        /\ \A time \in Int : Dashboard!OlderThan(any, time) => Dashboard!OlderThan(any, time + 1)'
  BY <1>1, <1>2, CommandsWait
<1>8. \A mode : Dashboard!ModeUnderWay(mode) => Dashboard!ModeUnderWay(mode)'
  BY <1>1, <1>2, CommandsWait
<1>9. Dashboard!TypeOK'
  <2>1. \E delay \in Dashboard!Delays : wait <= delay
    BY Knowledge DEF Dashboard!TypeOK
  <2>2. \E delay \in Dashboard!Delays : wait' <= delay
    <3>1. PICK delay \in Dashboard!Delays : wait <= delay
      BY <2>1
    <3>2. delay \in Nat
      BY Times
    <3> QED BY <1>2, <1>3, <3>1, <3>2
  <2>3. forceAge' \in 0 .. ConfirmTime + 1 /\ dataAge' \in 0 .. ReadPeriod
    BY <1>1, <1>2, <1>4
  <2>4. Dashboard!TypeOK
    BY Knowledge
  <2> QED BY <1>1, <1>3, <1>6, <2>2, <2>3, <2>4 DEF Dashboard!TypeOK
<1>10. ASSUME NEW topic \in {"mode", "force"}, Dashboard!TakesItsTime(topic)
       PROVE  Dashboard!TakesItsTime(topic)'
  <2>1. PICK time \in Int : time = Dashboard!Elapsed
    BY <1>2
  <2>2. PICK later \in Int : later = Dashboard!Elapsed'
    BY <1>5
  <2>3. time <= CommandDelay + dataAge /\ Dashboard!OlderThan(topic, time)
    BY <1>10, <2>1, TimeTaken
  <2>4. Dashboard!OlderThan(topic, time + 1)'
    BY <1>7, <2>3
  <2>5. later <= time + 1
    BY <1>5, <2>1, <2>2
  <2>6. Dashboard!OlderThan(topic, later)'
    <3> SUFFICES ASSUME NEW i \in DOMAIN inFlight', inFlight'[i].topic = topic
                 PROVE  later <= inFlight'[i].age
      BY DEF Dashboard!OlderThan
    <3>1. inFlight'[i] \in Dashboard!Command
      BY <1>6
    <3>2. inFlight'[i].age \in Int
      BY <3>1 DEF Dashboard!Command
    <3>3. time + 1 <= inFlight'[i].age
      BY <2>4 DEF Dashboard!OlderThan
    <3> QED BY <2>5, <3>2, <3>3, NotAfter
  <2>7. later <= CommandDelay + dataAge'
    BY <1>1, <1>2, <2>3, <2>5
  <2> QED BY <2>2, <2>6, <2>7, TimeTaken
<1>11. Dashboard!ForceSettled => Dashboard!ForceSettled'
  BY <1>1, <1>7 DEF Dashboard!ForceSettled
<1>12. Dashboard!ModeSettled => Dashboard!ModeSettled'
  BY <1>1, <1>7 DEF Dashboard!ModeSettled, Dashboard!HasData, Dashboard!SeenMode
<1>13. Dashboard!ModeIsKnown'
  BY <1>1, <1>7, <1>8, <1>10, <1>12, Knowledge
     DEF Dashboard!ModeIsKnown, Dashboard!HasData, Dashboard!SeenMode, Dashboard!Running
<1>14. Dashboard!ForceIsKnown'
  BY <1>1, <1>7, <1>10, <1>11, Knowledge DEF Dashboard!ForceIsKnown
<1> QED BY <1>1, <1>9, <1>13, <1>14
        DEF Dashboard!WorkflowIsKnown, Dashboard!HasData, Dashboard!Running

\* A command arrives: what it changes was announced.
LEMMA ArrivalKeepsKnown ==
  ASSUME Dashboard!WorkflowIsKnown, Dashboard!TakeCommand
  PROVE  Dashboard!WorkflowIsKnown'
<1>1. /\ UNCHANGED <<workflow, wait, forceAge, actData, dataAge, userMode, ended>>
      /\ inFlight # <<>> /\ inFlight' = Tail(inFlight)
  BY DEF Dashboard!TakeCommand
<1>2. PICK head : head = Head(inFlight)
  OBVIOUS
<1>3. \/ head.topic = "mode" /\ pump' = [pump EXCEPT !.mode = head.value]
      \/ head.topic # "mode" /\ \E forced \in BOOLEAN : pump' = [pump EXCEPT !.forced = forced]
  <2>1. pump.forced \in BOOLEAN
    BY Knowledge DEF Dashboard!HeatPump
  <2> QED BY <1>2, <2>1 DEF Dashboard!TakeCommand
<1>4. inFlight \in Seq(Dashboard!Command)
  BY Knowledge
<1>5. /\ inFlight' \in Seq(Dashboard!Command) /\ head \in Dashboard!Command
      /\ Dashboard!UnderWay(head.topic)
      /\ Dashboard!OneCommand(head.topic) => ~Dashboard!UnderWay(head.topic)'
  BY <1>1, <1>2, <1>4, CommandIsTaken
<1>6. \A mode : head.topic = "mode" /\ Dashboard!ModeUnderWay(mode) => head.value = mode
  BY <1>1, <1>2, <1>4, CommandIsTaken
<1>7. \A any \in {"mode", "force"} :
        /\ Dashboard!UnderWay(any)' => Dashboard!UnderWay(any)
        /\ any # head.topic /\ Dashboard!UnderWay(any) => Dashboard!UnderWay(any)'
        /\ Dashboard!OneCommand(any) => Dashboard!OneCommand(any)'
        /\ \A time \in Int : Dashboard!OlderThan(any, time) => Dashboard!OlderThan(any, time)'
  BY <1>1, <1>2, <1>4, CommandIsTaken
<1>8. \A mode : Dashboard!ModeUnderWay(mode) => Dashboard!ModeUnderWay(mode)'
  BY <1>1, <1>2, <1>4, CommandIsTaken
<1>9. Dashboard!Elapsed' = Dashboard!Elapsed /\ Dashboard!Elapsed \in Int
  BY <1>1, Knowledge DEF Dashboard!Elapsed
<1>10. \A topic \in {"mode", "force"} :
         Dashboard!TakesItsTime(topic) => Dashboard!TakesItsTime(topic)'
  BY <1>1, <1>7, <1>9, TimeTaken
<1>11. head.topic \in {"mode", "force"}
  BY <1>5 DEF Dashboard!Command
<1>12. Dashboard!ModeIsKnown /\ Dashboard!ForceIsKnown /\ pump \in Dashboard!HeatPump
  BY Knowledge
<1>13. CASE head.topic = "mode"
  <2>1. /\ pump'.mode = head.value /\ pump'.forced = pump.forced /\ pump'.warm = pump.warm
        /\ ~Dashboard!UnderWay("mode")' /\ Dashboard!UnderWay("mode")
        /\ pump' = [pump EXCEPT !.mode = head.value]
    BY <1>3, <1>5, <1>12, <1>13 DEF Dashboard!HeatPump, Dashboard!ModeIsKnown
  <2>2. head.value = IF workflow.modeChanged THEN Dashboard!DhwOnly ELSE userMode
    BY <1>6, <1>12, <1>13 DEF Dashboard!ModeIsKnown
  <2>3. pump' \in Dashboard!HeatPump
    <3>1. head.value \in Dashboard!Setting
      BY <2>2, Knowledge
    <3> QED BY <1>12, <2>1, <3>1 DEF Dashboard!HeatPump
  <2>4. Dashboard!TypeOK'
    BY <1>1, <1>5, <2>3, Knowledge DEF Dashboard!TypeOK
  <2>5. Dashboard!ModeIsKnown'
    BY <1>1, <1>7, <1>8, <1>10, <1>12, <2>1, <2>2
       DEF Dashboard!ModeIsKnown, Dashboard!ModeSettled, Dashboard!HasData, Dashboard!SeenMode,
           Dashboard!Running
  <2>6. Dashboard!ForceSettled => Dashboard!ForceSettled'
    BY <1>1, <1>7, <2>1 DEF Dashboard!ForceSettled
  <2>7. Dashboard!ForceIsKnown'
    BY <1>1, <1>7, <1>10, <1>12, <2>1, <2>6 DEF Dashboard!ForceIsKnown
  <2> QED BY <1>1, <2>1, <2>4, <2>5, <2>7
          DEF Dashboard!WorkflowIsKnown, Dashboard!HasData, Dashboard!Running
<1>14. CASE head.topic = "force"
  <2>1. PICK forced \in BOOLEAN : pump' = [pump EXCEPT !.forced = forced]
    BY <1>3, <1>14
  <2>2. pump' \in Dashboard!HeatPump /\ pump'.mode = pump.mode
    BY <1>12, <2>1 DEF Dashboard!HeatPump
  <2>3. Dashboard!TypeOK'
    BY <1>1, <1>5, <2>2, Knowledge DEF Dashboard!TypeOK
  <2>4. Dashboard!UnderWay("mode")' <=> Dashboard!UnderWay("mode")
    BY <1>7, <1>14
  <2>5. Dashboard!ModeIsKnown'
    BY <1>1, <1>7, <1>8, <1>10, <1>12, <2>2, <2>4
       DEF Dashboard!ModeIsKnown, Dashboard!ModeSettled, Dashboard!HasData, Dashboard!SeenMode,
           Dashboard!Running
  <2>6. ~Dashboard!ForceSettled
    BY <1>5, <1>14 DEF Dashboard!ForceSettled
  <2>7. CASE workflow.stage = "active"
    <3>1. Dashboard!ForceIsKnown'
      BY <1>1, <1>5, <1>7, <1>10, <1>12, <1>14, <2>6, <2>7 DEF Dashboard!ForceIsKnown
    <3> QED BY <1>1, <2>3, <2>5, <2>7, <3>1
            DEF Dashboard!WorkflowIsKnown, Dashboard!HasData, Dashboard!Running
  <2>8. CASE workflow.stage = "restore" /\ ended = "cancelled"
    <3>1. Dashboard!ForceIsKnown'
      BY <1>1, <1>10, <1>12, <2>6, <2>8 DEF Dashboard!ForceIsKnown
    <3> QED BY <1>1, <2>3, <2>5, <2>8, <3>1
            DEF Dashboard!WorkflowIsKnown, Dashboard!HasData, Dashboard!Running
  <2>9. workflow.stage = "active" \/ (workflow.stage = "restore" /\ ended = "cancelled")
    BY <1>12, <2>6 DEF Dashboard!ForceIsKnown
  <2> QED BY <2>7, <2>8, <2>9
<1> QED BY <1>11, <1>13, <1>14

\* States that a workflow goes to, and times it waits.
LEMMA WorkflowStates ==
  ASSUME NEW stage \in {"idle", "force", "active", "restore"}, NEW mode \in 0 .. 6 \cup {-1},
         NEW changed \in BOOLEAN, NEW observed \in BOOLEAN
  PROVE  [stage |-> stage, previousMode |-> mode, modeChanged |-> changed,
          observedActive |-> observed] \in Dashboard!Workflow
  BY DEF Dashboard!Workflow

LEMMA WaitingTimes ==
  /\ \A delay \in Dashboard!Delays : delay \in Nat /\ \E d \in Dashboard!Delays : delay <= d
  /\ \E d \in Dashboard!Delays : 0 <= d
<1>1. ForceDelay \in Dashboard!Delays /\ ForceDelay \in Nat
  BY Times DEF Dashboard!Delays
<1>2. \A delay \in Dashboard!Delays : delay \in Nat
  BY Times
<1> QED BY <1>1, <1>2

\* The start: the mode that is remembered is the one the user has chosen.
LEMMA StartKeepsKnown ==
  ASSUME Dashboard!WorkflowIsKnown, Dashboard!StartSterilization
  PROVE  Dashboard!WorkflowIsKnown'
<1> DEFINE mode == Dashboard!SettingOf(actData.mode)
<1>1. /\ Dashboard!HasData /\ workflow.stage = "idle" /\ actData.force = 0
      /\ UNCHANGED <<actData, dataAge, pump, userMode>>
  BY DEF Dashboard!StartSterilization, Dashboard!Running
<1>2. /\ workflow \in Dashboard!Workflow /\ inFlight \in Seq(Dashboard!Command)
      /\ dataAge \in Nat /\ CommandDelay \in Nat
  BY Knowledge, Times
<1>3. /\ ~workflow.modeChanged /\ mode \in {userMode, Dashboard!DhwOnly}
      /\ Dashboard!ModeUnderWay(userMode)
      /\ ~Dashboard!UnderWay("mode") => pump.mode = userMode
      /\ Dashboard!UnderWay("mode") => pump.mode = Dashboard!DhwOnly /\ mode = Dashboard!DhwOnly
      /\ pump.mode \in {userMode, Dashboard!DhwOnly} /\ Dashboard!OneCommand("mode")
  BY <1>1, Knowledge DEF Dashboard!ModeIsKnown, Dashboard!Running, Dashboard!SeenMode
<1>4. Dashboard!ForceSettled
  BY <1>1, Knowledge DEF Dashboard!ForceIsKnown
<1>5. Dashboard!HasData' /\ Dashboard!SeenMode' = mode
  BY <1>1 DEF Dashboard!HasData, Dashboard!SeenMode
<1>6. mode \in 0 .. 6
  BY <1>3, Knowledge, Times
<1>7. ASSUME NEW changed \in BOOLEAN, NEW stage \in {"idle", "force"}, NEW before \in 0 .. 6 \cup {-1},
             workflow' = [stage |-> stage, previousMode |-> before, modeChanged |-> changed,
                          observedActive |-> FALSE],
             wait' \in Dashboard!Delays \/ wait' = 0, forceAge' = 0,
             ended' \in {"no", ended}, inFlight' \in Seq(Dashboard!Command)
      PROVE  /\ workflow'.stage = stage /\ (workflow'.modeChanged <=> changed)
             /\ workflow'.previousMode = before /\ ~workflow'.observedActive
             /\ Dashboard!TypeOK' /\ Dashboard!Elapsed' = 0 /\ ended' # "unsent"
  <2>1. /\ workflow'.stage = stage /\ (workflow'.modeChanged <=> changed)
        /\ workflow'.previousMode = before /\ ~workflow'.observedActive
        /\ workflow' \in Dashboard!Workflow
    BY <1>7, WorkflowStates
  <2>2. wait' \in Nat /\ \E d \in Dashboard!Delays : wait' <= d
    BY <1>7, WaitingTimes
  <2>3. forceAge' \in 0 .. ConfirmTime + 1
    BY <1>7, Times
  <2>4. Dashboard!TypeOK /\ ended # "unsent"
    BY Knowledge DEF Dashboard!WorkflowIsKnown
  <2>5. Dashboard!TypeOK'
    BY <1>1, <1>7, <2>1, <2>2, <2>3, <2>4 DEF Dashboard!TypeOK
  <2>6. Dashboard!Elapsed' = 0
    BY <1>7, <2>1 DEF Dashboard!Elapsed
  <2> QED BY <1>7, <2>1, <2>4, <2>5, <2>6
<1>8. CASE /\ inFlight' = inFlight /\ forceAge' = 0
           /\ \/ /\ mode = Dashboard!DhwOnly /\ workflow' = Dashboard!Started(mode)
                 /\ wait' = ForceDelay /\ ended' = "no"
              \/ workflow' = Dashboard!Idle /\ wait' = 0 /\ ended' = ended
  <2>1. /\ wait' \in Dashboard!Delays \/ wait' = 0
        /\ ended' \in {"no", ended} /\ inFlight' \in Seq(Dashboard!Command)
    BY <1>2, <1>8 DEF Dashboard!Delays
  <2>2. PICK stage \in {"idle", "force"}, before \in 0 .. 6 \cup {-1} :
          workflow' = [stage |-> stage, previousMode |-> before, modeChanged |-> FALSE,
                       observedActive |-> FALSE]
    BY <1>6, <1>8 DEF Dashboard!Started, Dashboard!Idle
  <2>3. /\ workflow'.stage = stage /\ ~workflow'.modeChanged /\ ~workflow'.observedActive
        /\ Dashboard!TypeOK' /\ ended' # "unsent"
    BY <1>7, <1>8, <2>1, <2>2
  <2>4. Dashboard!ModeIsKnown'
    BY <1>1, <1>3, <1>5, <1>8, <2>3, CommandsStay DEF Dashboard!ModeIsKnown
  <2>5. Dashboard!ForceIsKnown'
    BY <1>1, <1>4, <1>8, <2>3, CommandsStay DEF Dashboard!ForceIsKnown, Dashboard!ForceSettled
  <2> QED BY <1>5, <2>3, <2>4, <2>5 DEF Dashboard!WorkflowIsKnown
<1>9. CASE /\ mode # Dashboard!DhwOnly /\ inFlight' = Dashboard!Accepted("mode", Dashboard!DhwOnly)
           /\ workflow' = Dashboard!Started(mode) /\ wait' = ModeDelay /\ forceAge' = 0
           /\ ended' = "no"
  <2>1. mode = userMode /\ ~Dashboard!UnderWay("mode")
    BY <1>3, <1>9
  <2>2. Dashboard!DhwOnly \in Dashboard!Setting
    BY Knowledge
  <2>3. /\ inFlight' \in Seq(Dashboard!Command) /\ Dashboard!UnderWay("mode")'
        /\ Dashboard!OneCommand("mode")' /\ Dashboard!ModeUnderWay(Dashboard!DhwOnly)'
        /\ Dashboard!OlderThan("mode", 0)'
        /\ Dashboard!UnderWay("force")' <=> Dashboard!UnderWay("force")
    BY <1>2, <1>9, <2>1, <2>2, CommandIsGiven
  <2>4. /\ wait' \in Dashboard!Delays /\ ended' \in {"no", ended}
        /\ workflow' = [stage |-> "force", previousMode |-> mode, modeChanged |-> TRUE,
                        observedActive |-> FALSE]
    BY <1>9 DEF Dashboard!Delays, Dashboard!Started
  <2> HIDE DEF mode
  <2>5. /\ workflow'.stage = "force" /\ workflow'.modeChanged /\ ~workflow'.observedActive
        /\ workflow'.previousMode = mode
        /\ Dashboard!TypeOK' /\ Dashboard!Elapsed' = 0 /\ ended' # "unsent"
    BY <1>6, <1>7, <1>9, <2>3, <2>4
  <2>6. Dashboard!TakesItsTime("mode")'
    BY <1>1, <1>2, <2>3, <2>5, TimeTaken
  <2>7. Dashboard!ModeIsKnown'
    BY <1>1, <1>3, <1>5, <1>9, <2>1, <2>3, <2>5, <2>6 DEF Dashboard!ModeIsKnown, Dashboard!Running
  <2>8. Dashboard!ForceIsKnown'
    BY <1>1, <1>4, <2>3, <2>5 DEF Dashboard!ForceIsKnown, Dashboard!ForceSettled
  <2> QED BY <1>5, <2>5, <2>7, <2>8 DEF Dashboard!WorkflowIsKnown
<1>10. mode # Dashboard!DhwOnly => ~Dashboard!NoChanges("mode", Dashboard!DhwOnly)
  BY DEF Dashboard!NoChanges
<1> QED BY <1>8, <1>9, <1>10 DEF Dashboard!StartSterilization, Dashboard!Send, Dashboard!Refused,
                                 Dashboard!Reset

\* A command that was just given has had no time yet.
LEMMA NoTimeYet ==
  ASSUME inFlight' \in Seq(Dashboard!Command), NEW topic \in {"mode", "force"}
  PROVE  Dashboard!OlderThan(topic, 0)'
<1>1. \A i \in DOMAIN inFlight' : inFlight'[i] \in Dashboard!Command
  OBVIOUS
<1>2. \A i \in DOMAIN inFlight' : inFlight'[i].age \in Nat
  BY <1>1, Times DEF Dashboard!Command
<1> QED BY <1>2 DEF Dashboard!OlderThan

\* What stays known of the mode while the workflow goes on.
LEMMA ModeStaysKnown ==
  ASSUME Dashboard!WorkflowIsKnown, UNCHANGED <<actData, dataAge, pump, userMode>>,
         Dashboard!Running, Dashboard!Running',
         workflow'.modeChanged = workflow.modeChanged,
         workflow'.previousMode = workflow.previousMode,
         Dashboard!UnderWay("mode")' <=> Dashboard!UnderWay("mode"),
         Dashboard!OneCommand("mode") => Dashboard!OneCommand("mode")',
         \A mode : Dashboard!ModeUnderWay(mode) => Dashboard!ModeUnderWay(mode)',
         workflow.modeChanged => Dashboard!ModeSettled \/ Dashboard!TakesItsTime("mode")'
  PROVE  Dashboard!ModeIsKnown'
<1>1. Dashboard!ModeSettled => Dashboard!ModeSettled'
  BY DEF Dashboard!ModeSettled, Dashboard!HasData, Dashboard!SeenMode
<1>2. Dashboard!ModeIsKnown
  BY Knowledge
<1> QED BY <1>1, <1>2 DEF Dashboard!ModeIsKnown, Dashboard!HasData, Dashboard!SeenMode

\* The cancellation begins to wait anew.
LEMMA CancelKeepsKnown ==
  ASSUME Dashboard!WorkflowIsKnown, Dashboard!CancelSterilization
  PROVE  Dashboard!WorkflowIsKnown'
<1>1. /\ workflow.stage \in {"force", "active"}
      /\ workflow' = [workflow EXCEPT !.stage = "restore"] /\ wait' = LateRestore
      /\ ended' = "cancelled"
      /\ UNCHANGED <<forceAge, actData, dataAge, pump, userMode>>
      /\ inFlight' = inFlight \/ inFlight' = Dashboard!Accepted("force", 0)
  BY DEF Dashboard!CancelSterilization, Dashboard!ScheduleRestore, Dashboard!Send, Dashboard!Refused
<1>2. /\ workflow \in Dashboard!Workflow /\ inFlight \in Seq(Dashboard!Command)
      /\ dataAge \in Nat /\ CommandDelay \in Nat /\ LateRestore \in Nat
  BY Knowledge, Times
<1>3. /\ workflow' \in Dashboard!Workflow /\ workflow'.stage = "restore"
      /\ workflow'.modeChanged = workflow.modeChanged
      /\ workflow'.previousMode = workflow.previousMode
  BY <1>1, <1>2 DEF Dashboard!Workflow
<1>4. /\ inFlight' \in Seq(Dashboard!Command)
      /\ Dashboard!UnderWay("mode")' <=> Dashboard!UnderWay("mode")
      /\ Dashboard!OneCommand("mode") => Dashboard!OneCommand("mode")'
      /\ \A mode : Dashboard!ModeUnderWay(mode) => Dashboard!ModeUnderWay(mode)'
  <2>1. CASE inFlight' = inFlight
    BY <1>2, <2>1, CommandsStay
  <2>2. CASE inFlight' = Dashboard!Accepted("force", 0)
    BY <1>2, <2>2, CommandIsGiven
  <2> QED BY <1>1, <2>1, <2>2
<1>5. Dashboard!TypeOK'
  <2>1. wait' \in Nat /\ \E d \in Dashboard!Delays : wait' <= d
    BY <1>1, WaitingTimes DEF Dashboard!Delays
  <2> QED BY <1>1, <1>3, <1>4, <2>1, Knowledge DEF Dashboard!TypeOK
<1>6. Dashboard!Elapsed' = 0
  BY <1>1, <1>2, <1>3 DEF Dashboard!Elapsed
<1>7. Dashboard!TakesItsTime("mode")' /\ Dashboard!TakesItsTime("force")'
  BY <1>1, <1>2, <1>4, <1>6, NoTimeYet, TimeTaken
<1>8. Dashboard!Running /\ Dashboard!Running'
  BY <1>1, <1>3 DEF Dashboard!Running
<1>9. Dashboard!ModeIsKnown'
  BY <1>1, <1>3, <1>4, <1>7, <1>8, ModeStaysKnown
<1>10. Dashboard!ForceIsKnown'
  BY <1>1, <1>3, <1>7 DEF Dashboard!ForceIsKnown
<1> QED BY <1>1, <1>3, <1>5, <1>8, <1>9, <1>10 DEF Dashboard!WorkflowIsKnown, Dashboard!HasData

\* The cycle is forced when nothing is under way that forces it.
LEMMA ForcingKeepsKnown ==
  ASSUME InTime, Dashboard!WorkflowIsKnown, Dashboard!SendForce
  PROVE  Dashboard!WorkflowIsKnown'
<1>1. /\ workflow.stage = "force" /\ wait = 0 /\ Dashboard!Send("force", 1)
      /\ workflow' = [workflow EXCEPT !.stage = "active"] /\ forceAge' = 0
      /\ UNCHANGED <<wait, ended, actData, dataAge, pump, userMode>>
  BY DEF Dashboard!SendForce, Dashboard!Refused, InTime
<1>2. /\ workflow \in Dashboard!Workflow /\ inFlight \in Seq(Dashboard!Command)
      /\ dataAge \in Nat /\ dataAge <= ReadPeriod /\ CommandDelay \in Nat
      /\ ReadPeriod \in Nat /\ FreshTime \in Nat
      /\ actData.force \in {0, 1}
  BY Knowledge, Times
<1>3. /\ workflow' \in Dashboard!Workflow /\ workflow'.stage = "active"
      /\ workflow'.modeChanged = workflow.modeChanged
      /\ workflow'.previousMode = workflow.previousMode
      /\ workflow'.observedActive = workflow.observedActive
  BY <1>1, <1>2 DEF Dashboard!Workflow
<1>4. /\ Dashboard!HasData /\ ~workflow.observedActive /\ Dashboard!ForceSettled
      /\ ended # "unsent"
  BY <1>1, Knowledge DEF Dashboard!WorkflowIsKnown, Dashboard!ForceIsKnown, Dashboard!Running
<1>5. Dashboard!NoChanges("force", 1) <=> actData.force = 1
  BY <1>2, <1>4 DEF Dashboard!NoChanges, InTime
<1>6. Dashboard!Elapsed' = 0
  BY <1>1, <1>3 DEF Dashboard!Elapsed
<1>7. Dashboard!Running /\ Dashboard!Running'
  BY <1>1, <1>3 DEF Dashboard!Running
<1>8. ASSUME inFlight' \in Seq(Dashboard!Command),
             Dashboard!UnderWay("mode")' <=> Dashboard!UnderWay("mode"),
             Dashboard!OneCommand("mode") => Dashboard!OneCommand("mode")',
             \A mode : Dashboard!ModeUnderWay(mode) => Dashboard!ModeUnderWay(mode)'
      PROVE  Dashboard!TypeOK' /\ Dashboard!ModeIsKnown' /\ Dashboard!TakesItsTime("force")'
  <2>1. forceAge' \in 0 .. ConfirmTime + 1
    BY <1>1, Times
  <2>2. Dashboard!TypeOK'
    BY <1>1, <1>3, <1>8, <2>1, Knowledge DEF Dashboard!TypeOK
  <2>3. Dashboard!TakesItsTime("mode")' /\ Dashboard!TakesItsTime("force")'
    BY <1>1, <1>2, <1>6, <1>8, NoTimeYet, TimeTaken
  <2> QED BY <1>1, <1>3, <1>7, <1>8, <2>2, <2>3, ModeStaysKnown
<1>9. CASE inFlight' = inFlight /\ actData.force = 1
  <2>1. Dashboard!TypeOK' /\ Dashboard!ModeIsKnown' /\ Dashboard!TakesItsTime("force")'
    BY <1>2, <1>8, <1>9, CommandsStay
  <2>2. Dashboard!ForceSettled' /\ ~Dashboard!UnderWay("force")'
    BY <1>1, <1>4, <1>9, CommandsStay DEF Dashboard!ForceSettled
  <2>3. Dashboard!OneCommand("force")'
    BY <2>2 DEF Dashboard!UnderWay, Dashboard!OneCommand
  <2>4. Dashboard!ForceIsKnown'
    BY <1>3, <2>2, <2>3 DEF Dashboard!ForceIsKnown
  <2> QED BY <1>1, <1>3, <1>4, <2>1, <2>4 DEF Dashboard!WorkflowIsKnown, Dashboard!HasData
<1>10. CASE inFlight' = Dashboard!Accepted("force", 1) /\ actData.force = 0
  <2>1. ~Dashboard!UnderWay("force") /\ ~pump.forced
    BY <1>4, <1>10 DEF Dashboard!ForceSettled
  <2>2. /\ inFlight' \in Seq(Dashboard!Command)
        /\ Dashboard!UnderWay("mode")' <=> Dashboard!UnderWay("mode")
        /\ Dashboard!OneCommand("mode") => Dashboard!OneCommand("mode")'
        /\ \A mode : Dashboard!ModeUnderWay(mode) => Dashboard!ModeUnderWay(mode)'
        /\ Dashboard!OneCommand("force")'
    BY <1>2, <1>10, <2>1, CommandIsGiven
  <2>3. Dashboard!TypeOK' /\ Dashboard!ModeIsKnown' /\ Dashboard!TakesItsTime("force")'
    BY <1>8, <2>2
  <2>4. Dashboard!ForceIsKnown'
    BY <1>1, <1>3, <1>4, <1>10, <2>1, <2>2, <2>3 DEF Dashboard!ForceIsKnown
  <2> QED BY <1>1, <1>3, <1>4, <2>3, <2>4 DEF Dashboard!WorkflowIsKnown, Dashboard!HasData
<1> QED BY <1>1, <1>2, <1>5, <1>9, <1>10 DEF Dashboard!Send

\* What is known when a command has had its time.
LEMMA TimeIsOver ==
  ASSUME InTime, Dashboard!WorkflowIsKnown, NEW topic \in {"mode", "force"},
         Dashboard!Elapsed >= LateRestore \/ Dashboard!Elapsed > ConfirmTime
  PROVE  ~Dashboard!TakesItsTime(topic)
<1>1. /\ dataAge <= ReadPeriod /\ dataAge \in Nat /\ Dashboard!Elapsed \in Int
      /\ {CommandDelay, ReadPeriod, LateRestore, ConfirmTime} \subseteq Nat
  BY Knowledge, Times
<1>2. CommandDelay + dataAge < Dashboard!Elapsed
  BY <1>1 DEF InTime
<1> QED BY <1>1, <1>2 DEF Dashboard!TakesItsTime

\* The data is looked at: a cycle that was not seen in time is given up, one that was seen ends.
LEMMA WatchingKeepsKnown ==
  ASSUME InTime, Dashboard!WorkflowIsKnown, Dashboard!WatchCycle
  PROVE  Dashboard!WorkflowIsKnown'
<1>1. /\ workflow.stage = "active" /\ Dashboard!HasData
      /\ UNCHANGED <<forceAge, actData, dataAge, inFlight, pump, userMode>>
  BY DEF Dashboard!WatchCycle
<1>2. /\ workflow \in Dashboard!Workflow /\ inFlight \in Seq(Dashboard!Command)
      /\ dataAge \in Nat /\ forceAge \in Nat /\ actData.force \in {0, 1}
      /\ {CommandDelay, LateRestore, ConfirmTime} \subseteq Nat /\ ended # "unsent"
  BY Knowledge, Times DEF Dashboard!WorkflowIsKnown
<1>3. /\ Dashboard!ForceSettled \/ Dashboard!TakesItsTime("force")
      /\ workflow.observedActive \/ actData.force = 1 => Dashboard!ForceSettled
      /\ Dashboard!OneCommand("force") /\ (Dashboard!UnderWay("force") => ~pump.forced)
  BY <1>1, Knowledge DEF Dashboard!ForceIsKnown
<1>4. Dashboard!Observed \in BOOLEAN
  BY <1>2 DEF Dashboard!Observed, Dashboard!Workflow
<1>5. ASSUME NEW stage \in {"active", "restore"}, NEW seen \in BOOLEAN,
             workflow' = [[workflow EXCEPT !.observedActive = seen] EXCEPT !.stage = stage],
             wait' \in Dashboard!Delays \/ wait' = wait,
             ended' \in {"complete", "unconfirmed", ended},
             workflow.modeChanged => Dashboard!ModeSettled \/ Dashboard!TakesItsTime("mode")'
      PROVE  /\ Dashboard!TypeOK' /\ Dashboard!ModeIsKnown' /\ workflow'.stage = stage
             /\ (workflow'.observedActive <=> seen)
             /\ Dashboard!HasData'
  <2>1. /\ workflow' \in Dashboard!Workflow /\ workflow'.stage = stage
        /\ workflow'.modeChanged = workflow.modeChanged
        /\ workflow'.previousMode = workflow.previousMode
        /\ (workflow'.observedActive <=> seen)
    BY <1>2, <1>5 DEF Dashboard!Workflow
  <2>2. Dashboard!TypeOK'
    <3>1. Dashboard!TypeOK
      BY Knowledge
    <3>2. wait' \in Nat /\ \E d \in Dashboard!Delays : wait' <= d
      BY <1>5, <3>1, WaitingTimes DEF Dashboard!TypeOK
    <3> QED BY <1>1, <1>5, <2>1, <3>1, <3>2 DEF Dashboard!TypeOK
  <2>3. Dashboard!Running /\ Dashboard!Running'
    BY <1>1, <2>1 DEF Dashboard!Running
  <2>4. Dashboard!ModeIsKnown'
    BY <1>1, <1>5, <2>1, <2>3, CommandsStay, ModeStaysKnown
  <2> QED BY <1>1, <2>1, <2>2, <2>4 DEF Dashboard!HasData
<1>6. workflow.modeChanged => Dashboard!ModeSettled \/ Dashboard!TakesItsTime("mode")
  BY Knowledge DEF Dashboard!ModeIsKnown
<1>7. Dashboard!Elapsed = forceAge
  BY <1>1 DEF Dashboard!Elapsed
<1>8. Dashboard!ForceSettled => Dashboard!ForceSettled'
  BY <1>1, CommandsStay DEF Dashboard!ForceSettled
<1>9. CASE /\ ~Dashboard!Observed /\ forceAge > ConfirmTime
           /\ Dashboard!ScheduleRestore(SoonRestore, "unconfirmed",
                [workflow EXCEPT !.observedActive = Dashboard!Observed])
  <2>1. Dashboard!ForceSettled /\ (workflow.modeChanged => Dashboard!ModeSettled)
    BY <1>3, <1>6, <1>7, <1>9, TimeIsOver
  <2>2. /\ workflow' = [[workflow EXCEPT !.observedActive = Dashboard!Observed] EXCEPT !.stage = "restore"]
        /\ wait' \in Dashboard!Delays /\ ended' = "unconfirmed"
    BY <1>9 DEF Dashboard!ScheduleRestore, Dashboard!Delays
  <2>3. /\ Dashboard!TypeOK' /\ Dashboard!ModeIsKnown' /\ workflow'.stage = "restore"
        /\ Dashboard!HasData'
    BY <1>4, <1>5, <2>1, <2>2
  <2>4. Dashboard!ForceIsKnown'
    BY <1>8, <2>1, <2>2, <2>3 DEF Dashboard!ForceIsKnown
  <2> QED BY <2>2, <2>3, <2>4 DEF Dashboard!WorkflowIsKnown
<1>10. CASE /\ Dashboard!Observed /\ actData.force = 0
            /\ Dashboard!ScheduleRestore(LateRestore, "complete",
                 [workflow EXCEPT !.observedActive = Dashboard!Observed])
  <2>1. Dashboard!ForceSettled /\ ~pump.forced
    BY <1>3, <1>10 DEF Dashboard!Observed, Dashboard!ForceSettled
  <2>2. /\ workflow' = [[workflow EXCEPT !.observedActive = Dashboard!Observed] EXCEPT !.stage = "restore"]
        /\ wait' \in Dashboard!Delays /\ wait' = LateRestore /\ ended' = "complete"
    BY <1>10 DEF Dashboard!ScheduleRestore, Dashboard!Delays
  <2>3. workflow'.stage = "restore"
    BY <1>2, <2>2 DEF Dashboard!Workflow
  <2>4. Dashboard!Elapsed' = 0
    BY <1>2, <2>2, <2>3 DEF Dashboard!Elapsed
  <2>5. Dashboard!TakesItsTime("mode")'
    BY <1>1, <1>2, <2>4, NoTimeYet, TimeTaken
  <2>6. /\ Dashboard!TypeOK' /\ Dashboard!ModeIsKnown' /\ Dashboard!HasData'
    BY <1>4, <1>5, <2>2, <2>5
  <2>7. Dashboard!ForceIsKnown'
    BY <1>8, <2>1, <2>2, <2>3 DEF Dashboard!ForceIsKnown
  <2> QED BY <1>1, <2>1, <2>2, <2>3, <2>6, <2>7 DEF Dashboard!WorkflowIsKnown
<1>11. CASE /\ workflow' = [workflow EXCEPT !.observedActive = Dashboard!Observed]
            /\ UNCHANGED <<wait, ended>>
  <2>1. /\ workflow' = [[workflow EXCEPT !.observedActive = Dashboard!Observed] EXCEPT !.stage = "active"]
        /\ workflow'.stage = "active"
    BY <1>1, <1>2, <1>11 DEF Dashboard!Workflow
  <2>2. Dashboard!Elapsed' = Dashboard!Elapsed /\ Dashboard!Elapsed \in Int
    BY <1>1, <1>2, <1>7, <2>1 DEF Dashboard!Elapsed
  <2>3. \A topic \in {"mode", "force"} :
          Dashboard!TakesItsTime(topic) => Dashboard!TakesItsTime(topic)'
    BY <1>1, <2>2, CommandsStay, TimeTaken
  <2>4. /\ Dashboard!TypeOK' /\ Dashboard!ModeIsKnown' /\ Dashboard!HasData'
        /\ (workflow'.observedActive <=> Dashboard!Observed)
    BY <1>4, <1>5, <1>6, <1>11, <2>1, <2>3
  <2>5. workflow'.observedActive \/ actData'.force = 1 => Dashboard!ForceSettled'
    BY <1>1, <1>3, <1>8, <2>4 DEF Dashboard!Observed
  <2>6. Dashboard!ForceIsKnown'
    BY <1>1, <1>3, <1>8, <2>1, <2>3, <2>5, CommandsStay DEF Dashboard!ForceIsKnown
  <2> QED BY <1>2, <1>11, <2>1, <2>4, <2>6 DEF Dashboard!WorkflowIsKnown
<1> QED BY <1>9, <1>10, <1>11 DEF Dashboard!WatchCycle

\* The mode is restored: actData shows the one it is restored from, so that the command is sent.
LEMMA RestoringKeepsKnown ==
  ASSUME InTime, Dashboard!WorkflowIsKnown, Dashboard!RestoreMode
  PROVE  Dashboard!WorkflowIsKnown'
<1>1. /\ workflow.stage = "restore" /\ wait = 0
      /\ UNCHANGED <<actData, dataAge, pump, userMode, ended>>
  BY DEF Dashboard!RestoreMode
<1>2. /\ workflow \in Dashboard!Workflow /\ inFlight \in Seq(Dashboard!Command)
      /\ {CommandDelay, LateRestore, RetryDelay} \subseteq Nat /\ userMode \in Dashboard!Setting
  BY Knowledge, Times
<1>3. Dashboard!HasData /\ Dashboard!TypeOK /\ ended # "unsent"
      /\ (ended = "complete" => ~pump.forced)
  BY <1>1, Knowledge DEF Dashboard!WorkflowIsKnown, Dashboard!Running
<1>4. Dashboard!Elapsed = LateRestore
  BY <1>1, <1>2 DEF Dashboard!Elapsed
<1>5. ~Dashboard!TakesItsTime("mode") /\ ~Dashboard!TakesItsTime("force")
  BY <1>2, <1>4, TimeIsOver
<1>6. Dashboard!ForceSettled
  BY <1>1, <1>5, Knowledge DEF Dashboard!ForceIsKnown
<1>7. workflow.modeChanged =>
        /\ Dashboard!ModeSettled /\ workflow.previousMode = userMode
        /\ userMode # Dashboard!DhwOnly
  BY <1>5, Knowledge DEF Dashboard!ModeIsKnown
<1>8. Dashboard!HasData' /\ Dashboard!SeenMode' = Dashboard!SeenMode
  BY <1>1, <1>3 DEF Dashboard!HasData, Dashboard!SeenMode
<1>9. ASSUME Dashboard!Reset, inFlight' \in Seq(Dashboard!Command)
      PROVE  /\ Dashboard!TypeOK' /\ workflow'.stage = "idle" /\ ~workflow'.modeChanged
  <2>1. workflow' \in Dashboard!Workflow /\ workflow'.stage = "idle" /\ ~workflow'.modeChanged
    BY <1>9, WorkflowStates DEF Dashboard!Reset, Dashboard!Idle
  <2>2. wait' \in Nat /\ \E d \in Dashboard!Delays : wait' <= d
    BY <1>9, WaitingTimes DEF Dashboard!Reset
  <2>3. forceAge' \in 0 .. ConfirmTime + 1
    BY <1>9, Times DEF Dashboard!Reset
  <2> QED BY <1>1, <1>3, <1>9, <2>1, <2>2, <2>3 DEF Dashboard!TypeOK
<1>10. CASE ~workflow.modeChanged /\ inFlight' = inFlight /\ Dashboard!Reset
  <2>1. Dashboard!TypeOK' /\ workflow'.stage = "idle" /\ ~workflow'.modeChanged
    BY <1>2, <1>9, <1>10
  <2>2. Dashboard!ModeIsKnown'
    <3>1. /\ pump.mode \in {userMode, Dashboard!DhwOnly} /\ Dashboard!OneCommand("mode")
          /\ Dashboard!SeenMode \in {userMode, Dashboard!DhwOnly}
          /\ Dashboard!ModeUnderWay(userMode)
          /\ ~Dashboard!UnderWay("mode") => pump.mode = userMode
          /\ Dashboard!UnderWay("mode") =>
               pump.mode = Dashboard!DhwOnly /\ Dashboard!SeenMode = Dashboard!DhwOnly
      BY <1>3, <1>10, Knowledge DEF Dashboard!ModeIsKnown
    <3>2. /\ Dashboard!OneCommand("mode")'
          /\ Dashboard!UnderWay("mode")' <=> Dashboard!UnderWay("mode")
      BY <1>10, <3>1, CommandsStay
    <3>3. Dashboard!ModeUnderWay(userMode)'
      BY <1>1, <1>10, <3>1 DEF Dashboard!ModeUnderWay
    <3> QED BY <1>1, <1>8, <2>1, <3>1, <3>2, <3>3 DEF Dashboard!ModeIsKnown
  <2>3. Dashboard!ForceIsKnown'
    BY <1>1, <1>6, <1>10, <2>1, CommandsStay DEF Dashboard!ForceIsKnown, Dashboard!ForceSettled
  <2> QED BY <1>1, <1>3, <1>8, <2>1, <2>2, <2>3 DEF Dashboard!WorkflowIsKnown
<1>11. CASE /\ workflow.modeChanged /\ Dashboard!Reset
            /\ inFlight' = Dashboard!Accepted("mode", userMode)
  <2>1. ~Dashboard!UnderWay("mode") /\ pump.mode = Dashboard!DhwOnly
        /\ Dashboard!SeenMode = Dashboard!DhwOnly
    BY <1>7, <1>11 DEF Dashboard!ModeSettled
  <2>2. /\ inFlight' \in Seq(Dashboard!Command) /\ Dashboard!UnderWay("mode")'
        /\ Dashboard!OneCommand("mode")' /\ Dashboard!ModeUnderWay(userMode)'
        /\ Dashboard!UnderWay("force")' <=> Dashboard!UnderWay("force")
    <3>1. PICK chosen \in Dashboard!Setting : chosen = userMode
      BY <1>2
    <3>2. Dashboard!ModeUnderWay(chosen)'
      BY <1>2, <1>11, <2>1, <3>1, CommandIsGiven
    <3>3. Dashboard!ModeUnderWay(userMode)'
      BY <1>1, <3>1, <3>2 DEF Dashboard!ModeUnderWay
    <3> QED BY <1>2, <1>11, <2>1, <3>3, CommandIsGiven
  <2>3. Dashboard!TypeOK' /\ workflow'.stage = "idle" /\ ~workflow'.modeChanged
    BY <1>9, <1>11, <2>2
  <2>4. Dashboard!ModeIsKnown'
    BY <1>1, <1>8, <2>1, <2>2, <2>3 DEF Dashboard!ModeIsKnown
  <2>5. Dashboard!ForceIsKnown'
    BY <1>1, <1>6, <2>2, <2>3 DEF Dashboard!ForceIsKnown, Dashboard!ForceSettled
  <2> QED BY <1>1, <1>3, <1>8, <2>3, <2>4, <2>5 DEF Dashboard!WorkflowIsKnown
<1>12. CASE /\ workflow.modeChanged /\ inFlight' = inFlight /\ wait' = RetryDelay
            /\ UNCHANGED <<workflow, forceAge>>
  <2>1. wait' \in Nat /\ \E d \in Dashboard!Delays : wait' <= d
    BY <1>12, WaitingTimes DEF Dashboard!Delays
  <2>2. Dashboard!TypeOK'
    BY <1>1, <1>3, <1>12, <2>1 DEF Dashboard!TypeOK
  <2>3. Dashboard!Running /\ Dashboard!Running'
    BY <1>1, <1>12 DEF Dashboard!Running
  <2>4. Dashboard!ModeIsKnown'
    BY <1>1, <1>7, <1>12, <2>3, CommandsStay, ModeStaysKnown
  <2>5. Dashboard!ForceIsKnown'
    BY <1>1, <1>6, <1>12, CommandsStay DEF Dashboard!ForceIsKnown, Dashboard!ForceSettled
  <2> QED BY <1>1, <1>3, <1>8, <1>12, <2>2, <2>4, <2>5 DEF Dashboard!WorkflowIsKnown
<1>13. workflow.modeChanged => ~Dashboard!NoChanges("mode", workflow.previousMode)
  BY <1>7 DEF Dashboard!NoChanges, Dashboard!ModeSettled, Dashboard!SeenMode
<1> QED BY <1>7, <1>10, <1>11, <1>12, <1>13
        DEF Dashboard!RestoreMode, Dashboard!Send, Dashboard!Refused

LEMMA KnownAtFirst == Dashboard!Init => Dashboard!WorkflowIsKnown
<1> SUFFICES ASSUME Dashboard!Init PROVE Dashboard!WorkflowIsKnown
  OBVIOUS
<1>1. /\ workflow = Dashboard!Idle /\ wait = 0 /\ forceAge = 0
      /\ actData = Dashboard!NoData /\ dataAge = 0 /\ inFlight = <<>> /\ userMode \in Mode
      /\ ended = "no"
  BY DEF Dashboard!Init
<1>2. /\ pump.mode = userMode /\ ~pump.forced /\ pump \in Dashboard!HeatPump
  <2>1. PICK warm \in BOOLEAN : pump = [mode |-> userMode, forced |-> FALSE, warm |-> warm]
    BY DEF Dashboard!Init
  <2> QED BY <1>1, <2>1 DEF Dashboard!HeatPump, Dashboard!Setting
<1>3. /\ workflow \in Dashboard!Workflow /\ workflow.stage = "idle" /\ ~workflow.modeChanged
  BY <1>1, WorkflowStates DEF Dashboard!Idle
<1>4. Dashboard!TypeOK
  <2>1. /\ wait \in Nat /\ \E d \in Dashboard!Delays : wait <= d
    BY <1>1, WaitingTimes
  <2>2. forceAge \in 0 .. ConfirmTime + 1 /\ dataAge \in 0 .. ReadPeriod
    BY <1>1, Times
  <2>3. inFlight \in Seq(Dashboard!Command)
    BY <1>1
  <2> QED BY <1>1, <1>2, <1>3, <2>1, <2>2, <2>3 DEF Dashboard!TypeOK
<1>5. ~Dashboard!HasData /\ actData.force = 0
  BY <1>1 DEF Dashboard!HasData, Dashboard!NoData
<1>6. \A topic : ~Dashboard!UnderWay(topic) /\ Dashboard!OneCommand(topic)
  BY <1>1 DEF Dashboard!UnderWay, Dashboard!OneCommand
<1>7. \A mode : Dashboard!ModeUnderWay(mode)
  BY <1>1 DEF Dashboard!ModeUnderWay
<1>8. Dashboard!ModeIsKnown
  BY <1>2, <1>3, <1>5, <1>6, <1>7 DEF Dashboard!ModeIsKnown
<1>9. Dashboard!ForceIsKnown
  BY <1>2, <1>3, <1>6 DEF Dashboard!ForceIsKnown, Dashboard!ForceSettled
<1> QED BY <1>1, <1>3, <1>4, <1>8, <1>9 DEF Dashboard!WorkflowIsKnown, Dashboard!Running

\* WorkflowIsSafe: whatever ends a forced sterilization (processDashboardWorkflow,
\* dashboardWorkflowCancelSterilization), the heat pump is back in the mode the user has chosen
\* when the commands of the workflow have arrived, and the end of the cycle is announced only
\* after it; for any modes and times of which a restore waits longer than a command and the next
\* data take.
THEOREM SterilizationRestoresTheMode ==
  ASSUME InTime
  PROVE  LoopSpec => []WorkflowIsSafe
<1> DEFINE Known == part = "workflow" => Dashboard!WorkflowIsKnown
<1>1. LoopInit => Known
  BY KnownAtFirst DEF LoopInit
<1>2. Known /\ [LoopNext]_loopVars => Known'
  <2> SUFFICES ASSUME Known, [LoopNext]_loopVars, part' = "workflow"
               PROVE  Dashboard!WorkflowIsKnown'
    OBVIOUS
  <2>1. part = "workflow" /\ Dashboard!WorkflowIsKnown
    BY DEF LoopNext, loopVars
  <2>2. CASE UNCHANGED workflowVars
    BY <2>1, <2>2
       DEF workflowVars, Dashboard!WorkflowIsKnown, Dashboard!TypeOK, Dashboard!Running,
           Dashboard!HasData, Dashboard!ModeIsKnown, Dashboard!ForceIsKnown,
           Dashboard!ModeSettled, Dashboard!ForceSettled, Dashboard!SeenMode,
           Dashboard!UnderWay, Dashboard!OneCommand, Dashboard!ModeUnderWay,
           Dashboard!TakesItsTime, Dashboard!OlderThan, Dashboard!Elapsed
  <2>3. CASE Dashboard!Next
    BY <2>1, <2>3, StartKeepsKnown, CancelKeepsKnown, ForcingKeepsKnown, WatchingKeepsKnown,
       RestoringKeepsKnown, ReadingKeepsKnown, ArrivalKeepsKnown, HeatPumpKeepsKnown,
       WaitingKeepsKnown
       DEF Dashboard!Next, Dashboard!processDashboardWorkflow
  <2>4. UNCHANGED workflowVars \/ Dashboard!Next
    BY <2>1 DEF LoopNext, loopVars, workflowVars
  <2> QED BY <2>2, <2>3, <2>4
<1>3. Known => WorkflowIsSafe
  <2> SUFFICES ASSUME Dashboard!WorkflowIsKnown
               PROVE  Dashboard!TypeOK /\ Dashboard!RestoresMode /\ Dashboard!CompleteMeansDone
    BY DEF WorkflowIsSafe
  <2>1. Dashboard!TypeOK /\ Dashboard!ModeIsKnown /\ Dashboard!ForceIsKnown
    BY DEF Dashboard!WorkflowIsKnown
  <2>2. Dashboard!RestoresMode
    <3>1. inFlight = <<>> => ~Dashboard!UnderWay("mode")
      BY DEF Dashboard!UnderWay
    <3> QED BY <2>1, <3>1 DEF Dashboard!RestoresMode, Dashboard!ModeIsKnown
  <2>3. Dashboard!CompleteMeansDone
    <3> SUFFICES ASSUME workflow.stage = "restore", ended = "complete"
                 PROVE  ~pump.forced /\ ~Dashboard!UnderWay("force")
      BY DEF Dashboard!CompleteMeansDone, Dashboard!UnderWay
    <3> QED BY <2>1 DEF Dashboard!WorkflowIsKnown, Dashboard!ForceIsKnown, Dashboard!ForceSettled
  <2> QED BY <2>1, <2>2, <2>3
<1> QED BY <1>1, <1>2, <1>3, PTL DEF LoopSpec
==============================================================================
