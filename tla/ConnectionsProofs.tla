-------------------------- MODULE ConnectionsProofs --------------------------
(***************************************************************************)
(* Proofs about the parts that are checked side by side in MCConnections,   *)
(* for all values of their constants.  A part is left alone by the others,  *)
(* so each has an inductive invariant of its own.                           *)
(***************************************************************************)
EXTENDS MCConnections, FiniteSetTheorems, SequenceTheorems, WellFoundedInduction, TLAPS

\* A non-empty set of natural numbers has a least element.
LEMMA LeastElement ==
  ASSUME NEW S \in SUBSET Nat, S # {}
  PROVE  \E x \in S : \A y \in S : x <= y
<1> DEFINE R == OpToRel(<, Nat)
<1>1. IsWellFoundedOn(R, Nat)
  BY NatLessThanWellFounded, Zenon
<1>2. \A a, b \in Nat : a < b => <<a, b>> \in R
  BY Zenon DEF OpToRel
<1> HIDE DEF R
<1>3. PICK x \in S : \A y \in S : ~(<<y, x>> \in R)
  BY <1>1, WFMin
<1>4. \A y \in S : ~(y < x)
  BY <1>2, <1>3, Zenon
<1>5. \A y \in S : x <= y
  BY <1>4
<1> QED BY <1>5

-----------------------------------------------------------------------------
(* The external sensors.                                                    *)

LEMMA ExternalSteps ==
  ASSUME part = "external", [SystemNext]_svars
  PROVE  part' = part /\ [External!ExternalNext]_extVars
<1>1. CASE UNCHANGED svars
  BY <1>1 DEF svars, heldVars, extVars
<1>2. CASE SystemNext
  BY <1>2 DEF SystemNext, LineNext, SensorsNext, AskedNext, heldVars, extVars
<1> QED BY <1>1, <1>2

LEMMA ExternalBegins == SystemInit /\ part = "external" => External!ExternalInit
  BY DEF SystemInit

\* An id is free below one more than the number of sensors.
LEMMA FreeId ==
  ASSUME External!Registry(sensors)
  PROVE  \E id \in 1 .. Len(sensors) + 1 : External!findIndex(id) = {}
<1> DEFINE N == Len(sensors)
<1>1. N \in Nat
  BY LenProperties DEF External!Registry
<1> SUFFICES ASSUME \A id \in 1 .. N + 1 : External!findIndex(id) # {}
             PROVE  FALSE
  OBVIOUS
<1> DEFINE f == [id \in 1 .. N + 1 |-> CHOOSE n \in External!findIndex(id) : TRUE]
<1>2. \A id \in 1 .. N + 1 : f[id] \in 1 .. N /\ sensors[f[id]].id = id
  BY DEF External!findIndex, External!Indices
<1>3. f \in [1 .. N + 1 -> 1 .. N]
  BY <1>2
<1>4. IsFiniteSet(1 .. N) /\ Cardinality(1 .. N) = N
  <2>1. 1 \in Int /\ N \in Int /\ (IF 1 > N THEN 0 ELSE N - 1 + 1) = N
    BY <1>1
  <2> QED BY <2>1, FS_Interval, Zenon
<1>5. IsFiniteSet(1 .. N + 1) /\ Cardinality(1 .. N + 1) = N + 1
  BY <1>1, FS_Interval
<1> HIDE DEF f, N
<1>6. \E x, y \in 1 .. N + 1 : x # y /\ f[x] = f[y]
  BY SMTT(30), <1>1, <1>3, <1>4, <1>5, FS_PigeonHole
<1> QED BY <1>2, <1>6

LEMMA NextIdIsFree ==
  ASSUME External!Registry(sensors)
  PROVE  /\ External!nextId \in 1 .. Len(sensors) + 1
         /\ \A n \in 1 .. Len(sensors) : sensors[n].id # External!nextId
<1> DEFINE Free == {id \in 1 .. Len(sensors) + 1 : External!findIndex(id) = {}}
<1>1. Len(sensors) \in Nat
  BY LenProperties DEF External!Registry
<1>2. Free \in SUBSET Nat /\ Free # {}
  BY <1>1, FreeId
<1>3. PICK least \in Free : \A id \in Free : least <= id
  BY <1>2, LeastElement
<1>4. \A lower \in 1 .. least - 1 : External!findIndex(lower) # {}
  <2> TAKE lower \in 1 .. least - 1
  <2>1. least \in 1 .. Len(sensors) + 1 /\ lower \in Nat /\ lower < least
    BY <1>1
  <2>2. lower \in 1 .. Len(sensors) + 1
    BY <1>1, <2>1
  <2>3. lower \notin Free
    BY <1>3, <2>1
  <2> QED BY <2>2, <2>3
<1>5. External!nextId \in Free
  BY <1>3, <1>4 DEF External!nextId
<1> QED BY <1>5 DEF External!findIndex, External!Indices

LEMMA AppendsToRegistry ==
  ASSUME External!Registry(sensors), NEW sensor \in External!Registered,
         Len(sensors) < EXTERNAL_SENSOR_MAX,
         \A n \in 1 .. Len(sensors) : sensors[n].topic # sensor.topic
  PROVE  External!Registry(Append(sensors, [sensor EXCEPT !.id = External!nextId]))
<1> DEFINE new == [sensor EXCEPT !.id = External!nextId]
           N   == Len(sensors)
           list == Append(sensors, new)
<1>1. N \in Nat /\ EXTERNAL_SENSOR_MAX \in Nat
  BY ConnectionsAssumption, LenProperties DEF External!Registry
<1>2. /\ new \in External!Registered
      /\ new.topic = sensor.topic /\ new.id = External!nextId
  BY <1>1, NextIdIsFree DEF External!Registered
<1> HIDE DEF new
<1>3. /\ list \in Seq(External!Registered) /\ Len(list) = N + 1
      /\ \A n \in 1 .. N : list[n] = sensors[n]
      /\ list[N + 1] = new
  BY <1>2, AppendProperties DEF External!Registry
<1> HIDE DEF list
<1>4. External!NoneTwice(list)
  <2> SUFFICES ASSUME NEW n \in 1 .. N + 1, NEW m \in 1 .. N + 1, n # m
               PROVE  list[n].topic # list[m].topic /\ list[n].id # list[m].id
    BY <1>3 DEF External!NoneTwice
  <2>1. CASE n \in 1 .. N /\ m \in 1 .. N
    BY <1>3, <2>1 DEF External!Registry, External!NoneTwice
  <2>2. CASE n = N + 1
    <3>1. m \in 1 .. N
      BY <1>1, <2>2
    <3> QED BY <1>2, <1>3, <2>2, <3>1, NextIdIsFree
  <2>3. CASE m = N + 1
    <3>1. n \in 1 .. N
      BY <1>1, <2>3
    <3> QED BY <1>2, <1>3, <2>3, <3>1, NextIdIsFree
  <2> QED BY <1>1, <2>1, <2>2, <2>3
<1>5. \A n \in 1 .. N + 1 : list[n].id # 0
  BY <1>1, <1>2, <1>3, NextIdIsFree DEF External!Registry
<1>6. External!Registry(list)
  BY <1>1, <1>3, <1>4, <1>5 DEF External!Registry
<1> QED BY <1>6 DEF list, new

LEMMA RemovedFromRegistry ==
  ASSUME NEW list, External!Registry(list), NEW n \in 1 .. Len(list)
  PROVE  External!Registry(External!RemoveAt(list, n))
<1> DEFINE N == Len(list)
           a == SubSeq(list, 1, n - 1)
           b == SubSeq(list, n + 1, N)
           left == a \o b
<1>1. N \in Nat /\ EXTERNAL_SENSOR_MAX \in Nat /\ list \in Seq(External!Registered)
  BY ConnectionsAssumption, LenProperties DEF External!Registry
<1>2. /\ a \in Seq(External!Registered) /\ Len(a) = n - 1
      /\ \A k \in 1 .. n - 1 : a[k] = list[k]
  BY <1>1, SubSeqProperties
<1>3. /\ b \in Seq(External!Registered) /\ Len(b) = N - n
      /\ \A k \in 1 .. N - n : b[k] = list[n + k]
  BY <1>1, SubSeqProperties
<1> HIDE DEF a, b
<1>4. /\ left \in Seq(External!Registered) /\ Len(left) = N - 1
      /\ \A k \in 1 .. N - 1 : left[k] = IF k < n THEN list[k] ELSE list[k + 1]
  <2>1. /\ left \in Seq(External!Registered) /\ Len(left) = Len(a) + Len(b)
        /\ \A k \in 1 .. Len(a) + Len(b) :
             left[k] = IF k <= Len(a) THEN a[k] ELSE b[k - Len(a)]
    BY <1>2, <1>3, ConcatProperties
  <2> HIDE DEF left
  <2>2. Len(left) = N - 1
    BY <1>1, <1>2, <1>3, <2>1
  <2>3. ASSUME NEW k \in 1 .. N - 1
        PROVE  left[k] = IF k < n THEN list[k] ELSE list[k + 1]
    <3>1. k \in 1 .. Len(a) + Len(b)
      BY <1>1, <1>2, <1>3
    <3>2. CASE k < n
      <4>1. k \in 1 .. n - 1 /\ k <= Len(a)
        BY <1>2, <3>2
      <4> QED BY <1>2, <2>1, <3>1, <3>2, <4>1
    <3>3. CASE ~(k < n)
      <4>1. k - Len(a) \in 1 .. N - n /\ ~(k <= Len(a)) /\ n + (k - Len(a)) = k + 1
        BY <1>1, <1>2, <3>3
      <4> QED BY <1>3, <2>1, <3>1, <3>3, <4>1
    <3> QED BY <3>2, <3>3
  <2> QED BY <2>1, <2>2, <2>3
<1> HIDE DEF left
<1>5. External!NoneTwice(left)
  <2> SUFFICES ASSUME NEW k \in 1 .. N - 1, NEW m \in 1 .. N - 1, k # m
               PROVE  left[k].topic # left[m].topic /\ left[k].id # left[m].id
    BY <1>4 DEF External!NoneTwice
  <2> DEFINE K == IF k < n THEN k ELSE k + 1
             M == IF m < n THEN m ELSE m + 1
  <2>1. K \in 1 .. N /\ M \in 1 .. N /\ K # M
    BY <1>1
  <2>2. left[k] = list[K] /\ left[m] = list[M]
    BY <1>4
  <2> HIDE DEF K, M
  <2> QED BY <2>1, <2>2 DEF External!Registry, External!NoneTwice
<1>6. \A k \in 1 .. N - 1 : left[k].id # 0
  BY <1>1, <1>4 DEF External!Registry
<1>7. External!Registry(left)
  BY <1>1, <1>4, <1>5, <1>6 DEF External!Registry
<1> QED BY <1>7 DEF left, a, b, External!RemoveAt

LEMMA EditedRegistry ==
  ASSUME External!Registry(sensors), NEW sensor \in External!Registered,
         sensor.id # 0, NEW n \in 1 .. Len(sensors), sensors[n].id = sensor.id,
         \A k \in 1 .. Len(sensors) : sensors[k].topic = sensor.topic => sensors[k].id = sensor.id
  PROVE  External!Registry([sensors EXCEPT ![n] = sensor])
<1> DEFINE list == [sensors EXCEPT ![n] = sensor]
<1>1. /\ list \in Seq(External!Registered) /\ Len(list) = Len(sensors)
      /\ \A k \in 1 .. Len(sensors) : list[k] = IF k = n THEN sensor ELSE sensors[k]
  BY ExceptSeq DEF External!Registry
<1> HIDE DEF list
<1>2. External!NoneTwice(list)
  BY <1>1 DEF External!Registry, External!NoneTwice
<1>3. External!Registry(list)
  BY <1>1, <1>2 DEF External!Registry
<1> QED BY <1>3 DEF list

LEMMA EmptyRegistry == External!Registry(<<>>)
<1>1. <<>> \in Seq(External!Registered) /\ Len(<<>>) = 0
  BY EmptySeq
<1> QED BY <1>1, ConnectionsAssumption DEF External!Registry, External!NoneTwice

\* What a save leaves in the file, and what was said of it.
LEMMA SaveKeeps ==
  ASSUME External!Registry(file.list), NEW saved, External!Registry(saved), External!save(saved)
  PROVE  /\ External!Registry(file'.list)
         /\ External!Saved => file' = promised' /\ promised'.list = saved
<1>1. CASE file' = External!Some(saved) /\ promised' = External!Some(saved)
  BY <1>1 DEF External!Some
<1>2. CASE file' \in {file, External!Lost} /\ promised' = External!Lost
  BY <1>2, EmptyRegistry DEF External!Lost, External!Saved
<1> QED BY <1>1, <1>2 DEF External!save

LEMMA UpsertKeepsRegistry ==
  ASSUME External!RegistryIsKept, NEW sensor \in External!Registered, External!upsert(sensor)
  PROVE  External!RegistryIsKept'
<1>1. /\ External!Registry(sensors) /\ External!Registry(file.list)
      /\ \A n \in 1 .. Len(sensors) : sensors[n].topic = sensor.topic => sensors[n].id = sensor.id
      /\ subscriptionsDirty' = TRUE
  BY DEF External!RegistryIsKept, External!upsert, External!Indices, External!Dirty
<1>2. External!EnabledAreHeard'
  BY <1>1 DEF External!EnabledAreHeard
<1>3. CASE sensor.id = 0
  <2> DEFINE added == Append(sensors, [sensor EXCEPT !.id = External!nextId])
  <2>1. /\ Len(sensors) < EXTERNAL_SENSOR_MAX
        /\ External!save(added)
        /\ sensors' = IF External!Saved THEN added ELSE sensors
    BY <1>3 DEF External!upsert
  <2>2. CASE \A n \in 1 .. Len(sensors) : sensors[n].topic # sensor.topic
    <3>1. External!Registry(added)
      BY <1>1, <2>1, <2>2, AppendsToRegistry
    <3> HIDE DEF added
    <3>2. /\ External!Registry(file'.list)
          /\ External!Saved => file' = promised' /\ promised'.list = added
      BY <1>1, <2>1, <3>1, SaveKeeps
    <3>3. External!Registry(sensors)' /\ External!Registry(file.list)'
      BY <1>1, <2>1, <3>1, <3>2
         DEF External!Registry, External!NoneTwice, External!Registered
    <3>4. (promised.ok)' => file' = promised' /\ sensors' = promised'.list
      BY <2>1, <3>2 DEF External!Saved
    <3> QED BY <1>2, <3>3, <3>4 DEF External!RegistryIsKept
  <2>3. \A n \in 1 .. Len(sensors) : sensors[n].topic # sensor.topic
    BY <1>1, <1>3 DEF External!Registry
  <2> QED BY <2>2, <2>3
<1>4. CASE sensor.id # 0
  <2>1. PICK n \in External!findIndex(sensor.id) : sensors' = [sensors EXCEPT ![n] = sensor]
    BY <1>4 DEF External!upsert
  <2>2. n \in 1 .. Len(sensors) /\ sensors[n].id = sensor.id
    BY DEF External!findIndex, External!Indices
  <2>3. External!Registry(sensors')
    BY <1>1, <1>4, <2>1, <2>2, EditedRegistry
  <2>4. External!save(sensors')
    BY <1>4 DEF External!upsert
  <2>5. /\ External!Registry(file'.list)
        /\ External!Saved => file' = promised' /\ promised'.list = sensors'
    BY <1>1, <2>3, <2>4, SaveKeeps
  <2>6. External!Registry(sensors)' /\ External!Registry(file.list)'
    BY <2>3, <2>5 DEF External!Registry, External!NoneTwice, External!Registered
  <2>7. (promised.ok)' => file' = promised' /\ sensors' = promised'.list
    BY <2>5 DEF External!Saved
  <2> QED BY <1>2, <2>6, <2>7 DEF External!RegistryIsKept
<1> QED BY <1>3, <1>4

LEMMA RemoveKeepsRegistry ==
  ASSUME External!RegistryIsKept, NEW id, External!remove(id)
  PROVE  External!RegistryIsKept'
<1>1. External!Registry(sensors) /\ External!Registry(file.list) /\ subscriptionsDirty' = TRUE
  BY DEF External!RegistryIsKept, External!remove
<1>2. External!EnabledAreHeard'
  BY <1>1 DEF External!EnabledAreHeard
<1>3. PICK n \in External!findIndex(id) :
        /\ External!save(External!RemoveAt(sensors, n))
        /\ sensors' = IF External!Saved THEN External!RemoveAt(sensors, n) ELSE sensors
  BY DEF External!remove, External!saveRemoval
<1> DEFINE left == External!RemoveAt(sensors, n)
<1>4. External!Registry(left)
  BY <1>1, RemovedFromRegistry DEF External!findIndex, External!Indices
<1> HIDE DEF left
<1>5. /\ External!Registry(file'.list)
      /\ External!Saved => file' = promised' /\ promised'.list = left
  <2>1. External!save(left)
    BY <1>3 DEF left
  <2> QED BY <1>1, <1>4, <2>1, SaveKeeps
<1>6. External!Registry(sensors')
  BY <1>1, <1>3, <1>4 DEF left
<1>7. External!Registry(sensors)' /\ External!Registry(file.list)'
  BY <1>5, <1>6 DEF External!Registry, External!NoneTwice, External!Registered
<1>8. (promised.ok)' => file' = promised' /\ sensors' = promised'.list
  BY <1>3, <1>5 DEF External!Saved, left
<1> QED BY <1>2, <1>7, <1>8 DEF External!RegistryIsKept

LEMMA ConnectionKeepsRegistry ==
  ASSUME External!RegistryIsKept,
         External!Connected \/ External!Loop \/ External!Disconnected \/ External!Restart
  PROVE  External!RegistryIsKept'
<1> USE DEF External!RegistryIsKept, External!Registry, External!NoneTwice, External!Registered,
            External!EnabledAreHeard, External!Indices, External!AllSubscribed
<1>1. CASE External!Connected
  <2>1. UNCHANGED <<sensors, file, promised>>
    BY <1>1 DEF External!Connected
  <2>2. External!EnabledAreHeard'
    BY <1>1 DEF External!Connected
  <2> QED BY <2>1, <2>2
<1>2. CASE External!Loop
  <2>1. UNCHANGED <<sensors, file, promised>>
    BY <1>2 DEF External!Loop
  <2>2. External!EnabledAreHeard'
    BY <1>2 DEF External!Loop, External!subscribe
  <2> QED BY <2>1, <2>2
<1>3. CASE External!Disconnected
  BY <1>3 DEF External!Disconnected
<1>4. CASE External!Restart
  BY <1>4 DEF External!Restart
<1> QED BY <1>1, <1>2, <1>3, <1>4

ExternalKept == part = "external" => External!RegistryIsKept

\* SensorsSurvive, for any topics, any limit of the registry and any number of failures:
\* what was acknowledged of the external sensors is registered and in the file, and on a
\* connection with nothing left to do all enabled ones are heard.
THEOREM ExternalSensorsSurvive == SystemSpec => []SensorsSurvive
<1>1. SystemInit => ExternalKept
  <2> SUFFICES ASSUME SystemInit, part = "external" PROVE External!RegistryIsKept
    BY DEF ExternalKept
  <2>1. External!ExternalInit
    BY ExternalBegins
  <2> QED BY <2>1, EmptyRegistry
        DEF External!ExternalInit, External!RegistryIsKept, External!EnabledAreHeard,
            External!Some, External!Lost
<1>2. ExternalKept /\ [SystemNext]_svars => ExternalKept'
  <2> SUFFICES ASSUME ExternalKept, [SystemNext]_svars, part' = "external"
               PROVE  External!RegistryIsKept'
    BY DEF ExternalKept
  <2>1. part' = part
    BY DEF SystemNext, svars
  <2>2. External!RegistryIsKept /\ [External!ExternalNext]_extVars
    BY <2>1, ExternalSteps DEF ExternalKept
  <2>3. CASE UNCHANGED extVars
    BY <2>2, <2>3
       DEF extVars, External!RegistryIsKept, External!Registry, External!NoneTwice,
           External!Registered, External!EnabledAreHeard, External!Indices
  <2>4. CASE External!ExternalNext
    <3>1. ASSUME NEW sensor \in External!Registered, External!upsert(sensor)
          PROVE  External!RegistryIsKept'
      BY <2>2, <3>1, UpsertKeepsRegistry
    <3>2. ASSUME NEW sensor \in External!Registered, External!remove(sensor.id)
          PROVE  External!RegistryIsKept'
      BY <2>2, <3>2, RemoveKeepsRegistry
    <3>3. CASE External!Connected \/ External!Loop \/ External!Disconnected \/ External!Restart
      BY <2>2, <3>3, ConnectionKeepsRegistry
    <3> QED BY <2>4, <3>1, <3>2, <3>3 DEF External!ExternalNext
  <2> QED BY <2>2, <2>3, <2>4
<1>3. ExternalKept => SensorsSurvive
  BY DEF ExternalKept, SensorsSurvive, External!RegistryIsKept, External!Registry,
         External!AcknowledgedSurvives
<1> QED BY <1>1, <1>2, <1>3, PTL DEF SystemSpec

-----------------------------------------------------------------------------
(* The broker's copy of the values.                                         *)

LEMMA MqttSteps ==
  ASSUME part = "mqtt", [SystemNext]_svars
  PROVE  part' = part /\ [Mqtt!MqttNext]_mqttVars
<1>1. CASE UNCHANGED svars
  BY <1>1 DEF svars, heldVars, mqttVars
<1>2. CASE SystemNext
  BY <1>2 DEF SystemNext, LineNext, SensorsNext, AskedNext, heldVars, mqttVars
<1> QED BY <1>1, <1>2

LEMMA MqttBegins == SystemInit /\ part = "mqtt" => Mqtt!MqttInit
  BY DEF SystemInit

LEMMA FrameIsTold ==
  ASSUME Mqtt!BrokerIsTold, NEW data \in [Topic -> Value], Mqtt!decode_heatpump_data(data)
  PROVE  Mqtt!BrokerIsTold'
<1> USE DEF Mqtt!Never
<1>1. /\ updateAllTime \in Nat /\ mqttReconnects \in Nat
      /\ sinceAll \in -1 .. updateAllTime + 1 /\ upFor \in 0 .. updateAllTime + 1
  BY ConnectionsAssumption DEF Mqtt!BrokerIsTold
<1>2. /\ actData' = data /\ sinceAll' = IF Mqtt!UpdateTime THEN 0 ELSE sinceAll
      /\ frames' = (frames \/ Mqtt!Delivers)
      /\ UNCHANGED <<session, broken, mqttReconnects, lwt, upFor>>
  BY DEF Mqtt!decode_heatpump_data
<1>3. Mqtt!Delivers' <=> Mqtt!Delivers
  BY <1>2 DEF Mqtt!Delivers
<1>4. ASSUME Mqtt!Delivers, Mqtt!UpdateTime \/ retained = actData
      PROVE  retained' = actData'
  <2>1. \A t \in Topic : Mqtt!Publishes(t, data) \/ retained[t] = data[t]
    BY <1>4 DEF Mqtt!Publishes
  <2>2. retained' = [t \in Topic |-> data[t]]
    BY <1>4, <2>1 DEF Mqtt!decode_heatpump_data
  <2> QED BY <1>2, <2>2
<1>5. (Mqtt!Delivers /\ mqttReconnects = 1)' => retained' = actData'
  <2> SUFFICES ASSUME Mqtt!Delivers, mqttReconnects = 1 PROVE Mqtt!UpdateTime \/ retained = actData
    BY <1>2, <1>3, <1>4
  <2> QED BY DEF Mqtt!BrokerIsTold, Mqtt!BrokerIsCurrent, Mqtt!UpdateTime
<1>6. (Mqtt!Delivers /\ 0 <= sinceAll /\ sinceAll < upFor)' => retained' = actData'
  <2> SUFFICES ASSUME Mqtt!Delivers, 0 <= sinceAll', sinceAll' < upFor, ~Mqtt!UpdateTime
               PROVE  retained = actData
    BY <1>2, <1>3, <1>4
  <2> QED BY <1>2 DEF Mqtt!BrokerIsTold, Mqtt!BrokerIsCurrent
<1>7. (Mqtt!Delivers /\ mqttReconnects = 1)' => frames'
  BY <1>2, <1>3
<1>8. sinceAll' \in -1 .. updateAllTime + 1
  BY <1>1, <1>2
<1>9. Mqtt!WillIsTrue'
  BY <1>2, <1>3 DEF Mqtt!BrokerIsTold, Mqtt!WillIsTrue
<1> QED BY <1>1, <1>2, <1>5, <1>6, <1>7, <1>8, <1>9 DEF Mqtt!BrokerIsTold, Mqtt!BrokerIsCurrent

LEMMA TickKeepsBroker ==
  ASSUME Mqtt!BrokerIsTold, Mqtt!Tick
  PROVE  Mqtt!BrokerIsTold'
<1> USE DEF Mqtt!Never
<1>1. /\ updateAllTime \in Nat /\ mqttReconnects \in Nat
      /\ sinceAll \in -1 .. updateAllTime + 1 /\ upFor \in 0 .. updateAllTime + 1
  BY ConnectionsAssumption DEF Mqtt!BrokerIsTold
<1>2. /\ sinceAll' = IF sinceAll > updateAllTime THEN sinceAll ELSE Mqtt!Later(sinceAll)
      /\ upFor' = IF Mqtt!Delivers /\ upFor <= updateAllTime THEN upFor + 1 ELSE upFor
      /\ UNCHANGED <<session, broken, mqttReconnects, actData, retained, lwt, frames>>
  BY DEF Mqtt!Tick
<1>3. Mqtt!Delivers' <=> Mqtt!Delivers
  BY <1>2 DEF Mqtt!Delivers
<1>4. /\ sinceAll' \in -1 .. updateAllTime + 1 /\ upFor' \in 0 .. updateAllTime + 1
      /\ sinceAll = -1 => sinceAll' = -1
      /\ 0 <= sinceAll' /\ sinceAll' < upFor' => 0 <= sinceAll /\ sinceAll < upFor
  BY <1>1, <1>2 DEF Mqtt!Later
<1>5. Mqtt!BrokerIsCurrent' /\ Mqtt!WillIsTrue'
  BY <1>2, <1>3, <1>4 DEF Mqtt!BrokerIsTold, Mqtt!BrokerIsCurrent, Mqtt!WillIsTrue
<1> QED BY <1>1, <1>2, <1>3, <1>4, <1>5 DEF Mqtt!BrokerIsTold

LEMMA LineKeepsBroker ==
  ASSUME Mqtt!BrokerIsTold,
         \/ Mqtt!Connect \/ Mqtt!ConnectFails \/ Mqtt!NetworkUp \/ Mqtt!Breaks \/ Mqtt!Recovers
         \/ Mqtt!ClientNotices \/ Mqtt!BrokerNotices
  PROVE  Mqtt!BrokerIsTold'
<1> USE DEF Mqtt!BrokerIsTold, Mqtt!BrokerIsCurrent, Mqtt!WillIsTrue, Mqtt!Delivers
<1>1. CASE Mqtt!Connect
  <2>1. /\ session' = TRUE /\ broken' = FALSE /\ mqttReconnects' = mqttReconnects + 1
        /\ lwt' = "Online" /\ upFor' = 0 /\ frames' = FALSE
        /\ sinceAll' = IF mqttReconnects = 0 THEN Mqtt!Never ELSE sinceAll
    BY <1>1 DEF Mqtt!Connect, Mqtt!SaysOnline, Mqtt!Resend
  <2>2. updateAllTime \in Nat /\ mqttReconnects \in Nat
    BY ConnectionsAssumption
  <2>3. sinceAll' \in Mqtt!Never .. updateAllTime + 1
    BY <2>1, <2>2 DEF Mqtt!Never
  <2> QED BY <2>1, <2>2, <2>3
<1>2. CASE Mqtt!ConnectFails
  BY <1>2 DEF Mqtt!ConnectFails, Mqtt!Values
<1>3. CASE Mqtt!NetworkUp
  BY <1>3 DEF Mqtt!NetworkUp, Mqtt!Values
<1>4. CASE Mqtt!Breaks
  BY <1>4 DEF Mqtt!Breaks, Mqtt!Values
<1>5. CASE Mqtt!Recovers
  BY <1>5 DEF Mqtt!Recovers, Mqtt!Values
<1>6. CASE Mqtt!ClientNotices
  BY <1>6 DEF Mqtt!ClientNotices, Mqtt!Values, Mqtt!Side
<1>7. CASE Mqtt!BrokerNotices
  BY <1>7 DEF Mqtt!BrokerNotices, Mqtt!Values, Mqtt!Side
<1> QED BY <1>1, <1>2, <1>3, <1>4, <1>5, <1>6, <1>7

BrokerKept == part = "mqtt" => Mqtt!BrokerIsTold

\* BrokerIsCurrent, for any topics and values and any times: what the broker retains is what
\* was read last, and its will says whether the connection stands.
THEOREM BrokerStaysCurrent == SystemSpec => []BrokerIsCurrent
<1>1. SystemInit => BrokerKept
  <2> SUFFICES ASSUME SystemInit, part = "mqtt" PROVE Mqtt!BrokerIsTold
    BY DEF BrokerKept
  <2>1. Mqtt!MqttInit
    BY MqttBegins
  <2> QED BY <2>1, ConnectionsAssumption
        DEF Mqtt!MqttInit, Mqtt!BrokerIsTold, Mqtt!BrokerIsCurrent, Mqtt!WillIsTrue,
            Mqtt!Delivers, Mqtt!Never
<1>2. BrokerKept /\ [SystemNext]_svars => BrokerKept'
  <2> SUFFICES ASSUME BrokerKept, [SystemNext]_svars, part' = "mqtt" PROVE Mqtt!BrokerIsTold'
    BY DEF BrokerKept
  <2>1. part' = part
    BY DEF SystemNext, svars
  <2>2. Mqtt!BrokerIsTold /\ [Mqtt!MqttNext]_mqttVars
    BY <2>1, MqttSteps DEF BrokerKept
  <2>3. CASE UNCHANGED mqttVars
    BY <2>2, <2>3 DEF mqttVars, Mqtt!BrokerIsTold, Mqtt!BrokerIsCurrent, Mqtt!WillIsTrue,
                      Mqtt!Delivers
  <2>4. CASE Mqtt!MqttNext
    <3>1. CASE Mqtt!Frame
      BY <2>2, <3>1, FrameIsTold DEF Mqtt!Frame
    <3>2. CASE Mqtt!Tick
      BY <2>2, <3>2, TickKeepsBroker
    <3>3. CASE ~Mqtt!Frame /\ ~Mqtt!Tick
      BY <2>2, <2>4, <3>3, LineKeepsBroker DEF Mqtt!MqttNext
    <3> QED BY <3>1, <3>2, <3>3
  <2> QED BY <2>2, <2>3, <2>4
<1>3. BrokerKept => BrokerIsCurrent
  BY DEF BrokerKept, BrokerIsCurrent, Mqtt!BrokerIsTold
<1> QED BY <1>1, <1>2, <1>3, PTL DEF SystemSpec

-----------------------------------------------------------------------------
(* The 1-wire sensors.                                                      *)

LEMMA DallasSteps ==
  ASSUME part = "dallas", [SystemNext]_svars
  PROVE  part' = part /\ [Dallas!DallasNext]_dallasVars
<1>1. CASE UNCHANGED svars
  BY <1>1 DEF svars, heldVars, dallasVars
<1>2. CASE SystemNext
  BY <1>2 DEF SystemNext, LineNext, SensorsNext, AskedNext, heldVars, dallasVars
<1> QED BY <1>1, <1>2

LEMMA DallasBegins == SystemInit /\ part = "dallas" => Dallas!DallasInit
  BY DEF SystemInit

LEMMA Temperatures ==
  /\ MaxTemp \in Nat \ {0} /\ Dallas!Temp = 0 .. MaxTemp
  /\ Dallas!None = -127 /\ Dallas!Never = -1 /\ -127 \notin Dallas!Temp /\ -1 \notin Dallas!Temp
  /\ \A n \in Dallas!Temp : Dallas!Up(n) \in Dallas!Temp /\ Dallas!Up(n) > 0 /\ Dallas!Up(n) >= n
                              /\ (n < MaxTemp => Dallas!Up(n) = n + 1)
  BY ConnectionsAssumption DEF Dallas!Temp, Dallas!None, Dallas!Never, Dallas!Up

\* A reading that is refused has been refused one time longer, and its time is not up.
LEMMA RefusedAgain ==
  ASSUME Dallas!DallasTypes, NEW s \in Sensor, s \in ow_known, NEW measured \in Dallas!Temp,
         ~Dallas!Accepted(s, measured)
  PROVE  /\ temperature[s] \in Dallas!Temp /\ Dallas!Waited(s) \in Dallas!Temp
         /\ Dallas!Waited(s) + 1 < MaxTemp
         /\ Dallas!Elapsed(s) = Dallas!Waited(s) + 1
<1>1. /\ temperature[s] \in Dallas!Temp \union {-127} /\ Dallas!Waited(s) \in Dallas!Temp
      /\ Dallas!Elapsed(s) = Dallas!Up(Dallas!Waited(s))
  BY Temperatures DEF Dallas!DallasTypes, Dallas!Waited, Dallas!Elapsed
<1>2. /\ temperature[s] # -127
      /\ ~(measured <= temperature[s] + Dallas!Elapsed(s) /\ measured >= temperature[s] - Dallas!Elapsed(s))
  BY Temperatures DEF Dallas!Accepted
<1> DEFINE w == Dallas!Waited(s)
           e == Dallas!Elapsed(s)
           t == temperature[s]
<1>3. MaxTemp \in Nat /\ w \in 0 .. MaxTemp /\ t \in 0 .. MaxTemp /\ measured \in 0 .. MaxTemp
  BY <1>1, <1>2, Temperatures
<1>4. e \in 0 .. MaxTemp /\ (w < MaxTemp => e = w + 1) /\ e >= w
  BY <1>1, <1>3, Temperatures
<1> HIDE DEF w, e, t
<1>5. ~(measured <= t + e /\ measured >= t - e)
  BY <1>2 DEF e, t
<1>6. e < MaxTemp
  BY <1>3, <1>4, <1>5
<1>7. w + 1 < MaxTemp /\ e = w + 1
  BY <1>3, <1>4, <1>6
<1> QED BY <1>1, <1>2, <1>7 DEF w, e

LEMMA ReadKeepsTypes ==
  ASSUME Dallas!DallasTypes, NEW temps \in [Sensor -> Dallas!Temp \union {Dallas!None}],
         NEW told, Dallas!readNewDallasTemp(temps, told)
  PROVE  Dallas!DallasTypes'
<1> DEFINE T == Dallas!Temp
<1> USE DEF Dallas!DallasTypes
<1>1. temperature' \in [Sensor -> T \union {Dallas!None}]
  BY DEF Dallas!readNewDallasTemp
<1>2. good' \in [Sensor -> T \union {Dallas!Never}]
  <2>1. \A s \in Sensor : Dallas!Elapsed(s) \in T
    BY Temperatures DEF Dallas!Elapsed
  <2>2. 0 \in T
    BY Temperatures
  <2>3. \A s \in Sensor : Dallas!GoodTime(s, temps[s]) \in T \union {Dallas!Never}
    BY <2>1, <2>2 DEF Dallas!GoodTime
  <2> QED BY <2>3 DEF Dallas!readNewDallasTemp
<1>3. ow_retained' \in [Sensor -> T \union {Dallas!None}]
  BY DEF Dallas!readNewDallasTemp
<1>4. up' \in T /\ reading' \in [Sensor -> T \union {Dallas!None}]
  BY Temperatures DEF Dallas!readNewDallasTemp
<1>5. steady' \in [Sensor -> T]
  <2>1. 0 \in T
    BY Temperatures
  <2> QED BY <2>1, Temperatures DEF Dallas!readNewDallasTemp
<1>6. ow_inbox' \subseteq Sensor \X T
  BY DEF Dallas!readNewDallasTemp, Dallas!Accepted
<1>7. UNCHANGED <<ow_known, removed, alias, ow_file, named>>
  BY DEF Dallas!readNewDallasTemp
<1> QED BY <1>1, <1>2, <1>3, <1>4, <1>5, <1>6, <1>7

LEMMA ReadKeepsSensors ==
  ASSUME Dallas!SensorsAreKept, Dallas!Read
  PROVE  Dallas!SensorsAreKept'
<1>1. Dallas!DallasTypes
  BY DEF Dallas!SensorsAreKept
<1>2. PICK temps \in [Sensor -> Dallas!Temp \union {Dallas!None}], told \in {TRUE, resend} :
        /\ \A s \in Sensor : temps[s] \in Dallas!Readings(s)
        /\ Dallas!readNewDallasTemp(temps, told)
  BY DEF Dallas!Read
<1>3. Dallas!DallasTypes'
  BY <1>1, <1>2, ReadKeepsTypes
<1>4. UNCHANGED <<ow_known, removed, alias, ow_file, named>>
  BY <1>2 DEF Dallas!readNewDallasTemp
<1>5. ASSUME NEW s \in Sensor
      PROVE  Dallas!Remembered(s)' /\ Dallas!StaysGone(s)'
  <2>1. Dallas!Remembered(s) /\ Dallas!StaysGone(s)
    BY DEF Dallas!SensorsAreKept
  <2>2. Dallas!Remembered(s)'
    BY <1>4, <2>1 DEF Dallas!Remembered
  <2>3. ASSUME s \in removed
        PROVE  ow_retained'[s] = ow_retained[s] /\ \A m \in ow_inbox' : m[1] # s
    <3>1. s \notin ow_known /\ \A m \in ow_inbox : m[1] # s
      BY <2>1, <2>3 DEF Dallas!StaysGone
    <3>2. ~Dallas!Accepted(s, temps[s])
      BY <3>1 DEF Dallas!Accepted
    <3> QED BY <1>2, <3>1, <3>2 DEF Dallas!readNewDallasTemp
  <2> QED BY <1>4, <2>1, <2>2, <2>3 DEF Dallas!StaysGone
<1>6. ASSUME NEW s \in Sensor
      PROVE  Dallas!FilterOpens(s)'
  <2>1. Dallas!FilterOpens(s)
    BY DEF Dallas!SensorsAreKept
  <2>2. /\ reading'[s] = temps[s] /\ up' = Dallas!Up(up)
        /\ temperature'[s] = IF Dallas!Accepted(s, temps[s]) THEN temps[s] ELSE temperature[s]
        /\ good'[s] = Dallas!GoodTime(s, temps[s])
        /\ steady'[s] = IF temps[s] = reading[s] /\ temps[s] \in Dallas!Temp
                        THEN Dallas!Up(steady[s]) ELSE 0
    BY <1>2 DEF Dallas!readNewDallasTemp
  <2>3. CASE temps[s] \notin Dallas!Temp
    BY <2>2, <2>3 DEF Dallas!FilterOpens
  <2>4. CASE temps[s] \in Dallas!Temp
    <3>1. s \in ow_known /\ s \in ow_known'
      BY <1>2, <1>4, <2>4, Temperatures DEF Dallas!Readings
    <3>2. CASE Dallas!Accepted(s, temps[s])
      <4>1. temperature'[s] = reading'[s] /\ good'[s] = 0 /\ good'[s] # Dallas!Never
        BY <2>2, <3>2, Temperatures DEF Dallas!GoodTime
      <4> QED BY <2>2, <2>4, <3>1, <4>1 DEF Dallas!FilterOpens
    <3>3. CASE ~Dallas!Accepted(s, temps[s])
      <4> DEFINE w == Dallas!Waited(s)
      <4>1. /\ w \in Dallas!Temp /\ w + 1 < MaxTemp /\ Dallas!Elapsed(s) = w + 1
        BY <1>1, <2>4, <3>1, <3>3, RefusedAgain
      <4>2. Dallas!Waited(s)' = w + 1
        <5>1. CASE good[s] = Dallas!Never
          <6>1. good'[s] = Dallas!Never /\ up' = Dallas!Elapsed(s)
            BY <2>2, <3>3, <5>1 DEF Dallas!GoodTime, Dallas!Elapsed
          <6> QED BY <4>1, <6>1 DEF Dallas!Waited
        <5>2. CASE good[s] # Dallas!Never
          <6>1. good'[s] = w + 1
            BY <2>2, <3>3, <4>1, <5>2 DEF Dallas!GoodTime
          <6>2. good'[s] # Dallas!Never
            BY <4>1, <6>1, Temperatures
          <6> QED BY <6>1, <6>2 DEF Dallas!Waited
        <5> QED BY <5>1, <5>2
      <4>3. w \in Nat /\ steady[s] \in Dallas!Temp
        BY <1>1, <4>1, Temperatures DEF Dallas!DallasTypes
      <4> HIDE DEF w
      <4>4. steady'[s] < w + 1
        <5>1. CASE temps[s] = reading[s]
          <6>1. good[s] = Dallas!Never \/ temperature[s] # reading[s]
            <7>1. ASSUME temperature[s] = reading[s] PROVE Dallas!Accepted(s, temps[s])
              <8>1. temps[s] \in 0 .. MaxTemp /\ Dallas!Elapsed(s) \in Nat
                BY <2>4, <4>1, <4>3, Temperatures
              <8>2. /\ temps[s] <= temperature[s] + Dallas!Elapsed(s)
                    /\ temps[s] >= temperature[s] - Dallas!Elapsed(s)
                BY <5>1, <7>1, <8>1
              <8> QED BY <2>4, <3>1, <8>2 DEF Dallas!Accepted
            <7> QED BY <3>3, <7>1
          <6>2. steady[s] < w
            BY <2>1, <2>4, <5>1, <6>1 DEF Dallas!FilterOpens, w
          <6>3. steady'[s] = steady[s] + 1
            BY <2>2, <2>4, <4>1, <4>3, <5>1, <6>2, Temperatures
          <6> QED BY <4>3, <6>2, <6>3, Temperatures
        <5>2. CASE temps[s] # reading[s]
          BY <2>2, <4>3, <5>2
        <5> QED BY <5>1, <5>2
      <4>5. steady'[s] < Dallas!Waited(s)'
        BY <4>2, <4>4 DEF w
      <4> QED BY <2>2, <2>4, <3>1, <4>5 DEF Dallas!FilterOpens
    <3> QED BY <3>2, <3>3
  <2> QED BY <2>3, <2>4
<1> QED BY <1>3, <1>5, <1>6 DEF Dallas!SensorsAreKept

LEMMA RescanKeepsSensors ==
  ASSUME Dallas!SensorsAreKept, NEW found \in SUBSET Sensor, Dallas!rescanDallasSensors(found)
  PROVE  Dallas!SensorsAreKept'
<1>1. PICK admitted \in SUBSET (found \ ow_known) :
        /\ ow_known' = ow_known \union admitted
        /\ temperature' = [s \in Sensor |-> IF s \in admitted THEN Dallas!None ELSE temperature[s]]
        /\ good' = [s \in Sensor |-> IF s \in admitted THEN Dallas!Never ELSE good[s]]
        /\ alias' = [s \in Sensor |-> IF s \in admitted THEN Dallas!LoadedAlias(s) ELSE alias[s]]
        /\ removed' = removed \ found
        /\ UNCHANGED <<up, ow_file, ow_retained, ow_inbox, reading, steady, named>>
  BY DEF Dallas!rescanDallasSensors, Dallas!Broker, Dallas!Seen
<1>2. Dallas!DallasTypes
  BY DEF Dallas!SensorsAreKept
<1>3. Dallas!DallasTypes'
  <2>1. temperature' \in [Sensor -> Dallas!Temp \union {Dallas!None}]
    BY <1>1, <1>2 DEF Dallas!DallasTypes
  <2>2. good' \in [Sensor -> Dallas!Temp \union {Dallas!Never}]
    BY <1>1, <1>2 DEF Dallas!DallasTypes
  <2>3. alias' \in [Sensor -> Alias \union {Dallas!NotSet, Dallas!NoName}]
    BY <1>1, <1>2 DEF Dallas!DallasTypes, Dallas!LoadedAlias
  <2> QED BY <1>1, <1>2, <2>1, <2>2, <2>3 DEF Dallas!DallasTypes
<1>4. ASSUME NEW s \in Sensor
      PROVE  Dallas!Remembered(s)' /\ Dallas!StaysGone(s)' /\ Dallas!FilterOpens(s)'
  <2>1. Dallas!Remembered(s) /\ Dallas!StaysGone(s) /\ Dallas!FilterOpens(s)
    BY DEF Dallas!SensorsAreKept
  <2>2. Dallas!Remembered(s)'
    BY <1>1, <2>1 DEF Dallas!Remembered, Dallas!LoadedAlias
  <2>3. Dallas!StaysGone(s)'
    BY <1>1, <2>1 DEF Dallas!StaysGone
  <2>4. CASE s \in admitted
    <3>1. reading'[s] \notin Dallas!Temp /\ steady'[s] = 0
      BY <1>1, <2>1, <2>4 DEF Dallas!FilterOpens
    <3> QED BY <2>2, <2>3, <3>1 DEF Dallas!FilterOpens
  <2>5. CASE s \notin admitted
    <3>1. /\ temperature'[s] = temperature[s] /\ good'[s] = good[s]
          /\ s \in ow_known' <=> s \in ow_known
      BY <1>1, <2>5
    <3>2. Dallas!Waited(s)' = Dallas!Waited(s)
      BY <1>1, <3>1 DEF Dallas!Waited
    <3> QED BY <1>1, <2>1, <2>2, <2>3, <3>1, <3>2 DEF Dallas!FilterOpens
  <2> QED BY <2>4, <2>5
<1> QED BY <1>3, <1>4 DEF Dallas!SensorsAreKept

LEMMA AliasKeepsSensors ==
  ASSUME Dallas!SensorsAreKept, NEW x \in Sensor, NEW a \in Alias, Dallas!changeDallasAlias(x, a)
  PROVE  Dallas!SensorsAreKept'
<1>1. /\ x \in ow_known /\ alias' = [alias EXCEPT ![x] = a]
      /\ ow_file' = [s \in Sensor |-> IF s \in ow_known THEN alias'[s] ELSE Dallas!NoName]
      /\ named' = [s \in Sensor |-> IF s = x THEN a ELSE IF s \in ow_known THEN named[s]
                                    ELSE Dallas!NoName]
      /\ UNCHANGED <<ow_known, temperature, good, up, ow_retained, ow_inbox, reading, steady, removed>>
  BY DEF Dallas!changeDallasAlias, Dallas!saveDallasAliasFile, Dallas!Broker, Dallas!Seen
<1>2. Dallas!DallasTypes
  BY DEF Dallas!SensorsAreKept
<1>3. Dallas!DallasTypes'
  <2>1. alias' \in [Sensor -> Alias \union {Dallas!NotSet, Dallas!NoName}]
    BY <1>1, <1>2 DEF Dallas!DallasTypes
  <2>2. ow_file' \in [Sensor -> Alias \union {Dallas!NotSet, Dallas!NoName}]
    BY <1>1, <2>1
  <2>3. named' \in [Sensor -> Alias \union {Dallas!NotSet, Dallas!NoName}]
    BY <1>1, <1>2 DEF Dallas!DallasTypes
  <2> QED BY <1>1, <1>2, <2>1, <2>2, <2>3 DEF Dallas!DallasTypes
<1>4. ASSUME NEW s \in Sensor
      PROVE  Dallas!Remembered(s)' /\ Dallas!StaysGone(s)' /\ Dallas!FilterOpens(s)'
  <2>1. Dallas!Remembered(s) /\ Dallas!StaysGone(s) /\ Dallas!FilterOpens(s)
    BY DEF Dallas!SensorsAreKept
  <2>2. Dallas!Remembered(s)'
    BY <1>1, <1>2, <2>1 DEF Dallas!Remembered, Dallas!DallasTypes
  <2>3. Dallas!StaysGone(s)'
    BY <1>1, <2>1 DEF Dallas!StaysGone
  <2>4. Dallas!FilterOpens(s)'
    BY <1>1, <2>1 DEF Dallas!FilterOpens, Dallas!Waited
  <2> QED BY <2>2, <2>3, <2>4
<1> QED BY <1>3, <1>4 DEF Dallas!SensorsAreKept

LEMMA RemovalKeepsSensors ==
  ASSUME Dallas!SensorsAreKept, NEW x \in Sensor, Dallas!removeDallasSensor(x)
  PROVE  Dallas!SensorsAreKept'
<1>1. /\ ow_retained' = [ow_retained EXCEPT ![x] = Dallas!Cleared(x)]
      /\ ow_known' = ow_known \ {x}
      /\ temperature' = [temperature EXCEPT ![x] = Dallas!None]
      /\ good' = [good EXCEPT ![x] = Dallas!Never]
      /\ alias' = [alias EXCEPT ![x] = Dallas!NotSet]
      /\ ow_file' = [s \in Sensor |-> IF s \in ow_known \ {x} THEN alias[s] ELSE Dallas!NoName]
      /\ named' = [s \in Sensor |-> IF s \in ow_known \ {x} THEN named[s] ELSE Dallas!NoName]
      /\ removed' = IF ow_connected /\ (\A m \in ow_inbox : m[1] # x)
                    THEN removed \union {x} ELSE removed
      /\ reading' = [reading EXCEPT ![x] = Dallas!None] /\ steady' = [steady EXCEPT ![x] = 0]
      /\ UNCHANGED <<up, ow_inbox>>
  BY DEF Dallas!removeDallasSensor, Dallas!saveDallasAliasFile
<1>2. Dallas!DallasTypes
  BY DEF Dallas!SensorsAreKept
<1>3. Dallas!DallasTypes'
  <2>1. 0 \in Dallas!Temp
    BY Temperatures
  <2>2. ow_retained' \in [Sensor -> Dallas!Temp \union {Dallas!None}]
    BY <1>1, <1>2 DEF Dallas!DallasTypes, Dallas!Cleared
  <2>3. {alias', ow_file', named'} \subseteq [Sensor -> Alias \union {Dallas!NotSet, Dallas!NoName}]
    BY <1>1, <1>2 DEF Dallas!DallasTypes
  <2>4. /\ temperature' \in [Sensor -> Dallas!Temp \union {Dallas!None}]
        /\ reading' \in [Sensor -> Dallas!Temp \union {Dallas!None}]
        /\ good' \in [Sensor -> Dallas!Temp \union {Dallas!Never}]
        /\ steady' \in [Sensor -> Dallas!Temp]
    BY <1>1, <1>2, <2>1 DEF Dallas!DallasTypes
  <2> QED BY <1>1, <1>2, <2>2, <2>3, <2>4 DEF Dallas!DallasTypes
<1>4. ASSUME NEW s \in Sensor
      PROVE  Dallas!Remembered(s)' /\ Dallas!StaysGone(s)' /\ Dallas!FilterOpens(s)'
  <2>1. Dallas!Remembered(s) /\ Dallas!StaysGone(s) /\ Dallas!FilterOpens(s)
    BY DEF Dallas!SensorsAreKept
  <2>2. Dallas!Remembered(s)'
    BY <1>1, <1>2, <2>1 DEF Dallas!Remembered, Dallas!DallasTypes
  <2>3. Dallas!StaysGone(s)'
    <3>1. CASE s = x
      BY <1>1, <1>2, <2>1, <3>1 DEF Dallas!StaysGone, Dallas!Cleared, Dallas!DallasTypes
    <3>2. CASE s # x
      BY <1>1, <1>2, <2>1, <3>2 DEF Dallas!StaysGone, Dallas!DallasTypes
    <3> QED BY <3>1, <3>2
  <2>4. CASE s = x
    <3>1. reading'[s] \notin Dallas!Temp /\ steady'[s] = 0
      BY <1>1, <1>2, <2>4, Temperatures DEF Dallas!DallasTypes
    <3> QED BY <2>2, <2>3, <3>1 DEF Dallas!FilterOpens
  <2>5. CASE s # x
    <3>1. /\ temperature'[s] = temperature[s] /\ good'[s] = good[s] /\ reading'[s] = reading[s]
          /\ steady'[s] = steady[s]
          /\ s \in ow_known' <=> s \in ow_known
      BY <1>1, <1>2, <2>5 DEF Dallas!DallasTypes
    <3>2. Dallas!Waited(s)' = Dallas!Waited(s)
      BY <1>1, <3>1 DEF Dallas!Waited
    <3> QED BY <1>1, <2>1, <2>2, <2>3, <3>1, <3>2 DEF Dallas!FilterOpens
  <2> QED BY <2>4, <2>5
<1> QED BY <1>3, <1>4 DEF Dallas!SensorsAreKept

LEMMA ReceiveKeepsSensors ==
  ASSUME Dallas!SensorsAreKept, Dallas!Receive
  PROVE  Dallas!SensorsAreKept'
<1>1. PICK m \in ow_inbox : ow_inbox' = ow_inbox \ {m} /\ Dallas!restoreDallasFromMqtt(m[1], m[2])
  BY DEF Dallas!Receive
<1>2. UNCHANGED <<good, up, ow_file, ow_retained, reading, steady, named, removed>>
  BY DEF Dallas!Receive, Dallas!Seen
<1>3. Dallas!DallasTypes
  BY DEF Dallas!SensorsAreKept
<1> DEFINE x == m[1]
<1>4. x \in Sensor /\ m[2] \in Dallas!Temp
  BY <1>3 DEF Dallas!DallasTypes
<1>5. /\ ow_known' = ow_known \/ ow_known' = ow_known \union {x}
      /\ alias' = alias
         \/ (x \notin ow_known /\ alias' = [alias EXCEPT ![x] = Dallas!LoadedAlias(x)])
      /\ temperature' = temperature
         \/ (good[x] = Dallas!Never /\ temperature' = [temperature EXCEPT ![x] = m[2]])
      /\ x \notin ow_known /\ x \in ow_known' => alias' = [alias EXCEPT ![x] = Dallas!LoadedAlias(x)]
  BY <1>1 DEF Dallas!restoreDallasFromMqtt
<1> HIDE DEF x
<1>6. Dallas!DallasTypes'
  <2>1. temperature' \in [Sensor -> Dallas!Temp \union {Dallas!None}]
    BY <1>3, <1>4, <1>5 DEF Dallas!DallasTypes
  <2>2. alias' \in [Sensor -> Alias \union {Dallas!NotSet, Dallas!NoName}]
    BY <1>3, <1>4, <1>5 DEF Dallas!DallasTypes, Dallas!LoadedAlias
  <2> QED BY <1>1, <1>2, <1>3, <1>4, <1>5, <2>1, <2>2 DEF Dallas!DallasTypes
<1>7. ASSUME NEW s \in Sensor
      PROVE  Dallas!Remembered(s)' /\ Dallas!StaysGone(s)' /\ Dallas!FilterOpens(s)'
  <2>1. Dallas!Remembered(s) /\ Dallas!StaysGone(s) /\ Dallas!FilterOpens(s)
    BY DEF Dallas!SensorsAreKept
  <2>2. Dallas!Remembered(s)'
    <3>1. CASE s # x
      <4>1. alias'[s] = alias[s] /\ (s \in ow_known' <=> s \in ow_known)
        BY <1>3, <1>5, <3>1 DEF Dallas!DallasTypes
      <4> QED BY <1>2, <2>1, <4>1 DEF Dallas!Remembered
    <3>2. CASE s = x /\ x \in ow_known
      BY <1>2, <1>5, <2>1, <3>2 DEF Dallas!Remembered
    <3>3. CASE s = x /\ x \notin ow_known
      BY <1>2, <1>3, <1>5, <2>1, <3>3 DEF Dallas!Remembered, Dallas!LoadedAlias, Dallas!DallasTypes
    <3> QED BY <3>1, <3>2, <3>3
  <2>3. Dallas!StaysGone(s)'
    BY <1>1, <1>2, <1>5, <2>1 DEF Dallas!StaysGone, x
  <2>4. Dallas!FilterOpens(s)'
    <3>1. Dallas!Waited(s)' = Dallas!Waited(s)
      BY <1>2 DEF Dallas!Waited
    <3>2. temperature'[s] = temperature[s] \/ good[s] = Dallas!Never
      BY <1>3, <1>5 DEF Dallas!DallasTypes
    <3>3. s \in ow_known => s \in ow_known'
      BY <1>5
    <3> QED BY <1>2, <2>1, <3>1, <3>2, <3>3 DEF Dallas!FilterOpens
  <2> QED BY <2>2, <2>3, <2>4
<1> QED BY <1>6, <1>7 DEF Dallas!SensorsAreKept

LEMMA ConnectionKeepsSensors ==
  ASSUME Dallas!SensorsAreKept,
         Dallas!Connect \/ Dallas!Disconnect \/ Dallas!RestoreEnds \/ Dallas!Restart
  PROVE  Dallas!SensorsAreKept'
<1>1. Dallas!DallasTypes /\ 0 \in Dallas!Temp
  BY Temperatures DEF Dallas!SensorsAreKept
<1>2. CASE Dallas!Connect \/ Dallas!Disconnect \/ Dallas!RestoreEnds
  <2>1. /\ UNCHANGED <<ow_known, temperature, good, alias, up, ow_file, ow_retained, reading,
                       steady, named, removed>>
        /\ \A m \in ow_inbox' : m \in ow_inbox
             \/ (m[1] \in Sensor /\ m[2] = ow_retained[m[1]] /\ m[2] # Dallas!None /\ m = <<m[1], m[2]>>)
    <3>1. CASE Dallas!Connect
      BY <3>1 DEF Dallas!Connect, Dallas!Slots, Dallas!Seen
    <3>2. CASE Dallas!Disconnect
      BY <3>2 DEF Dallas!Disconnect, Dallas!Slots, Dallas!Seen
    <3>3. CASE Dallas!RestoreEnds
      BY <3>3 DEF Dallas!RestoreEnds, Dallas!Slots, Dallas!Seen
    <3> QED BY <1>2, <3>1, <3>2, <3>3
  <2>2. ow_inbox' \subseteq Sensor \X Dallas!Temp
    BY <1>1, <2>1 DEF Dallas!DallasTypes
  <2>3. Dallas!DallasTypes'
    BY <1>1, <2>1, <2>2 DEF Dallas!DallasTypes
  <2>4. ASSUME NEW s \in Sensor
        PROVE  Dallas!Remembered(s)' /\ Dallas!StaysGone(s)' /\ Dallas!FilterOpens(s)'
    <3>1. Dallas!Remembered(s) /\ Dallas!StaysGone(s) /\ Dallas!FilterOpens(s)
      BY DEF Dallas!SensorsAreKept
    <3>2. Dallas!Remembered(s)' /\ Dallas!FilterOpens(s)'
      BY <2>1, <3>1 DEF Dallas!Remembered, Dallas!FilterOpens, Dallas!Waited
    <3>3. Dallas!StaysGone(s)'
      BY <2>1, <3>1 DEF Dallas!StaysGone
    <3> QED BY <3>2, <3>3
  <2> QED BY <2>3, <2>4 DEF Dallas!SensorsAreKept
<1>3. CASE Dallas!Restart
  <2>1. /\ ow_known' = {} /\ temperature' = [s \in Sensor |-> Dallas!None]
        /\ good' = [s \in Sensor |-> Dallas!Never] /\ alias' = [s \in Sensor |-> Dallas!NotSet]
        /\ up' = 0 /\ ow_inbox' = {}
        /\ reading' = [s \in Sensor |-> Dallas!None] /\ steady' = [s \in Sensor |-> 0]
        /\ UNCHANGED <<ow_file, ow_retained, named, removed>>
    BY <1>3 DEF Dallas!Restart
  <2>2. Dallas!DallasTypes'
    BY <1>1, <2>1 DEF Dallas!DallasTypes
  <2>3. ASSUME NEW s \in Sensor
        PROVE  Dallas!Remembered(s)' /\ Dallas!StaysGone(s)' /\ Dallas!FilterOpens(s)'
    <3>1. Dallas!Remembered(s) /\ Dallas!StaysGone(s)
      BY DEF Dallas!SensorsAreKept
    <3>2. reading'[s] \notin Dallas!Temp /\ steady'[s] = 0
      BY <2>1, Temperatures
    <3> QED BY <2>1, <3>1, <3>2 DEF Dallas!Remembered, Dallas!StaysGone, Dallas!FilterOpens
  <2> QED BY <2>2, <2>3 DEF Dallas!SensorsAreKept
<1> QED BY <1>2, <1>3

DallasKept == part = "dallas" => Dallas!SensorsAreKept

\* SensorsAreKnown, for any sensors, slots, aliases and temperatures: a removed 1-wire sensor
\* stays removed, a known one has its alias, and a temperature that stays is shown in the end.
THEOREM DallasSensorsAreKnown == SystemSpec => []SensorsAreKnown
<1>1. SystemInit => DallasKept
  <2> SUFFICES ASSUME SystemInit, part = "dallas" PROVE Dallas!SensorsAreKept
    BY DEF DallasKept
  <2>1. Dallas!DallasInit /\ 0 \in Dallas!Temp /\ Dallas!None \notin Dallas!Temp
    BY DallasBegins, Temperatures
  <2>2. Dallas!DallasTypes
    BY <2>1 DEF Dallas!DallasInit, Dallas!DallasTypes
  <2>3. \A s \in Sensor : Dallas!Remembered(s) /\ Dallas!StaysGone(s) /\ Dallas!FilterOpens(s)
    BY <2>1 DEF Dallas!DallasInit, Dallas!Remembered, Dallas!StaysGone, Dallas!FilterOpens
  <2> QED BY <2>2, <2>3 DEF Dallas!SensorsAreKept
<1>2. DallasKept /\ [SystemNext]_svars => DallasKept'
  <2> SUFFICES ASSUME DallasKept, [SystemNext]_svars, part' = "dallas" PROVE Dallas!SensorsAreKept'
    BY DEF DallasKept
  <2>1. part' = part
    BY DEF SystemNext, svars
  <2>2. Dallas!SensorsAreKept /\ [Dallas!DallasNext]_dallasVars
    BY <2>1, DallasSteps DEF DallasKept
  <2>3. CASE UNCHANGED dallasVars
    BY <2>2, <2>3 DEF dallasVars, Dallas!SensorsAreKept, Dallas!DallasTypes, Dallas!Remembered,
                      Dallas!StaysGone, Dallas!FilterOpens, Dallas!Waited
  <2>4. CASE Dallas!DallasNext
    <3>1. CASE Dallas!Rescan
      BY <2>2, <3>1, RescanKeepsSensors DEF Dallas!Rescan
    <3>2. CASE Dallas!Read
      BY <2>2, <3>2, ReadKeepsSensors
    <3>3. CASE Dallas!Receive
      BY <2>2, <3>3, ReceiveKeepsSensors
    <3>4. CASE Dallas!Connect \/ Dallas!Disconnect \/ Dallas!RestoreEnds \/ Dallas!Restart
      BY <2>2, <3>4, ConnectionKeepsSensors
    <3>5. CASE \E s \in Sensor : Dallas!removeDallasSensor(s)
      BY <2>2, <3>5, RemovalKeepsSensors
    <3>6. CASE \E s \in Sensor, a \in Alias : Dallas!changeDallasAlias(s, a)
      BY <2>2, <3>6, AliasKeepsSensors
    <3> QED BY <2>4, <3>1, <3>2, <3>3, <3>4, <3>5, <3>6 DEF Dallas!DallasNext
  <2> QED BY <2>2, <2>3, <2>4
<1>3. DallasKept => SensorsAreKnown
  <2> SUFFICES ASSUME Dallas!SensorsAreKept
               PROVE  /\ Dallas!RemovedStaysRemoved /\ Dallas!AliasIsKept
                      /\ Dallas!SteadyIsAccepted
    BY DEF DallasKept, SensorsAreKnown
  <2>1. Dallas!DallasTypes /\ ow_known \subseteq Sensor
    BY DEF Dallas!SensorsAreKept, Dallas!DallasTypes
  <2>2. Dallas!RemovedStaysRemoved
    BY <2>1 DEF Dallas!SensorsAreKept, Dallas!StaysGone, Dallas!RemovedStaysRemoved
  <2>3. Dallas!AliasIsKept
    BY <2>1 DEF Dallas!SensorsAreKept, Dallas!Remembered, Dallas!AliasIsKept
  <2>4. ASSUME NEW s \in ow_known, steady[s] = MaxTemp PROVE temperature[s] = reading[s]
    <3>1. Dallas!FilterOpens(s) /\ s \in Sensor
      BY <2>1 DEF Dallas!SensorsAreKept
    <3>2. Dallas!Waited(s) \in Dallas!Temp
      BY <2>1, <3>1 DEF Dallas!DallasTypes, Dallas!Waited
    <3>3. ~(steady[s] < Dallas!Waited(s)) /\ steady[s] # 0
      BY <2>4, <3>2, Temperatures
    <3> QED BY <3>1, <3>3 DEF Dallas!FilterOpens
  <2> QED BY <2>2, <2>3, <2>4 DEF Dallas!SteadyIsAccepted
<1> QED BY <1>1, <1>2, <1>3, PTL DEF SystemSpec

-----------------------------------------------------------------------------
(* The conditions of a schedule.                                            *)

LEMMA ConditionsSteps ==
  ASSUME part = "conditions", [SystemNext]_svars
  PROVE  part' = part /\ [Next]_vars
<1>1. CASE UNCHANGED svars
  BY <1>1 DEF svars, askedVars
<1>2. CASE SystemNext
  BY <1>2 DEF SystemNext, LineNext, SensorsNext, AskedNext, askedVars
<1> QED BY <1>1, <1>2

LEMMA ConditionsBegin == SystemInit /\ part = "conditions" => Init
  BY DEF SystemInit

\* The first condition of the group that m is in.
LEMMA StartOfGroup ==
  ASSUME joins \in Seq(Join), NEW m \in 1 .. count
  PROVE  \E s \in 1 .. m : Starts(s) /\ \A k \in 1 .. m : InGroup(k, m) <=> s <= k
<1> DEFINE S == {k \in 1 .. m : InGroup(k, m)}
<1>1. count \in Nat /\ m \in Nat /\ \A k \in 1 .. count : joins[k] \in Join
  BY LenProperties, ElementOfSeq DEF count
<1>2. S \in SUBSET Nat /\ m \in S
  BY <1>1 DEF InGroup
<1>3. PICK s \in S : \A k \in S : s <= k
  BY <1>2, LeastElement
<1>4. s \in 1 .. m /\ InGroup(s, m)
  OBVIOUS
<1>5. \A k \in 1 .. m : s <= k => InGroup(k, m)
  BY <1>1, <1>4 DEF InGroup
<1>6. ASSUME s # 1, joins[s] = "and" PROVE FALSE
  <2>1. s - 1 \in 1 .. m
    BY <1>1, <1>4, <1>6
  <2>2. ASSUME NEW l \in s - 1 + 1 .. m PROVE joins[l] = "and"
    BY <1>1, <1>4, <1>6 DEF InGroup
  <2>3. s - 1 \in S
    BY <2>1, <2>2 DEF InGroup
  <2> QED BY <1>1, <1>3, <1>4, <2>3
<1>7. Starts(s)
  BY <1>1, <1>4, <1>6 DEF Starts, Join
<1> QED BY <1>3, <1>4, <1>5, <1>7

\* One more condition: an OR ends the group, an AND goes on with it.
LEMMA GroupEnds ==
  ASSUME joins \in Seq(Join), NEW m \in 1 .. count - 1, joins[m + 1] = "or", NEW T
  PROVE  /\ GroupIn(m + 1, T) <=> m + 1 \in T
         /\ EarlierIn(m + 1, T) <=> (EarlierIn(m, T) \/ GroupIn(m, T))
<1>1. count \in Nat /\ m \in Nat /\ m \in 1 .. count /\ \A k \in 1 .. count : joins[k] \in Join
  BY LenProperties, ElementOfSeq DEF count
<1>2. \A k \in 1 .. m : ~InGroup(k, m + 1)
  BY <1>1 DEF InGroup
<1>3. InGroup(m + 1, m + 1)
  BY <1>1 DEF InGroup
<1>4. GroupIn(m + 1, T) <=> m + 1 \in T
  <2>1. \A k \in 1 .. m + 1 : k \in 1 .. m \/ k = m + 1
    BY <1>1
  <2>2. m + 1 \in 1 .. m + 1
    BY <1>1
  <2> QED BY <1>2, <1>3, <2>1, <2>2 DEF GroupIn
<1>5. PICK s \in 1 .. m : Starts(s) /\ \A k \in 1 .. m : InGroup(k, m) <=> s <= k
  BY <1>1, StartOfGroup
<1> DEFINE Made(a, n) == \A k \in a .. n : InGroup(a, k) => k \in T
<1>6. \A a \in 1 .. m : Made(a, m + 1) <=> Made(a, m)
  <2> TAKE a \in 1 .. m
  <2>1. \A k \in a .. m + 1 : k \in a .. m \/ k = m + 1
    BY <1>1
  <2>2. \A k \in a .. m : k \in a .. m + 1
    BY <1>1
  <2> QED BY <1>2, <2>1, <2>2
<1>7. Made(s, m) <=> GroupIn(m, T)
  <2>1. \A k \in s .. m : InGroup(s, k) /\ k \in 1 .. m
    <3>1. InGroup(s, m)
      BY <1>1, <1>5
    <3> QED BY <1>1, <3>1 DEF InGroup
  <2>2. \A k \in 1 .. m : InGroup(k, m) <=> k \in s .. m
    BY <1>1, <1>5
  <2> QED BY <2>1, <2>2 DEF GroupIn
<1>8. EarlierIn(m + 1, T) <=> \E a \in 1 .. m : Starts(a) /\ Made(a, m)
  <2>1. \A a \in 1 .. m + 1 : ~InGroup(a, m + 1) <=> a \in 1 .. m
    BY <1>1, <1>2, <1>3
  <2>2. \A a \in 1 .. m : a \in 1 .. m + 1
    BY <1>1
  <2> HIDE DEF Made
  <2>3. EarlierIn(m + 1, T) <=> \E a \in 1 .. m + 1 : Starts(a) /\ ~InGroup(a, m + 1) /\ Made(a, m + 1)
    BY DEF EarlierIn, Made
  <2> QED BY <1>6, <2>1, <2>2, <2>3
<1>9. EarlierIn(m, T) <=> \E a \in 1 .. m : Starts(a) /\ ~InGroup(a, m) /\ Made(a, m)
  BY DEF EarlierIn
<1>10. ASSUME NEW a \in 1 .. m, Starts(a), InGroup(a, m) PROVE a = s
  <2>1. s <= a
    BY <1>5, <1>10
  <2>2. ASSUME s < a PROVE FALSE
    <3>1. InGroup(s, m) /\ a \in s + 1 .. m
      BY <1>1, <1>5, <2>2
    <3>2. joins[a] = "and" /\ a # 1
      BY <1>1, <3>1 DEF InGroup
    <3> QED BY <1>10, <3>2 DEF Starts
  <2> QED BY <1>1, <2>1, <2>2
<1> HIDE DEF Made
<1>11. InGroup(s, m)
  BY <1>1, <1>5
<1>12. EarlierIn(m + 1, T) <=> (EarlierIn(m, T) \/ GroupIn(m, T))
  BY <1>5, <1>7, <1>8, <1>9, <1>10, <1>11
<1> QED BY <1>4, <1>12

LEMMA GroupGoesOn ==
  ASSUME joins \in Seq(Join), NEW m \in 1 .. count - 1, joins[m + 1] = "and", NEW T
  PROVE  /\ GroupIn(m + 1, T) <=> (GroupIn(m, T) /\ m + 1 \in T)
         /\ EarlierIn(m + 1, T) <=> EarlierIn(m, T)
<1>1. count \in Nat /\ m \in Nat /\ m \in 1 .. count
  BY LenProperties DEF count
<1>2. \A k \in 1 .. m : InGroup(k, m + 1) <=> InGroup(k, m)
  <2> TAKE k \in 1 .. m
  <2>1. \A l \in k + 1 .. m + 1 : l \in k + 1 .. m \/ l = m + 1
    BY <1>1
  <2>2. \A l \in k + 1 .. m : l \in k + 1 .. m + 1
    BY <1>1
  <2> QED BY <2>1, <2>2 DEF InGroup
<1>3. InGroup(m + 1, m + 1) /\ ~Starts(m + 1)
  BY <1>1 DEF InGroup, Starts
<1>4. \A k \in 1 .. m + 1 : k \in 1 .. m \/ k = m + 1
  BY <1>1
<1>5. m + 1 \in 1 .. m + 1 /\ \A k \in 1 .. m : k \in 1 .. m + 1
  BY <1>1
<1>6. GroupIn(m + 1, T) <=> (GroupIn(m, T) /\ m + 1 \in T)
  BY <1>2, <1>3, <1>4, <1>5 DEF GroupIn
<1> DEFINE Made(a, n) == \A k \in a .. n : InGroup(a, k) => k \in T
<1>7. \A a \in 1 .. m : ~InGroup(a, m) => (Made(a, m + 1) <=> Made(a, m))
  <2> TAKE a \in 1 .. m
  <2>1. \A k \in a .. m + 1 : k \in a .. m \/ k = m + 1
    BY <1>1
  <2>2. \A k \in a .. m : k \in a .. m + 1
    BY <1>1
  <2> QED BY <1>2, <2>1, <2>2
<1> HIDE DEF Made
<1>8. EarlierIn(m, T) <=> \E a \in 1 .. m : Starts(a) /\ ~InGroup(a, m) /\ Made(a, m)
  BY DEF EarlierIn, Made
<1>9. EarlierIn(m + 1, T)
        <=> \E a \in 1 .. m + 1 : Starts(a) /\ ~InGroup(a, m + 1) /\ Made(a, m + 1)
  BY DEF EarlierIn, Made
<1>10. EarlierIn(m + 1, T) <=> EarlierIn(m, T)
  BY <1>2, <1>3, <1>4, <1>5, <1>7, <1>8, <1>9
<1> QED BY <1>6, <1>10

\* When every condition is passed, the expression holds of the conditions T exactly when they
\* make one of the groups.
LEMMA GroupsAreAll ==
  ASSUME joins \in Seq(Join), count > 0, NEW outcome \in [1 .. count -> BOOLEAN]
  PROVE  LET T == {k \in 1 .. count : outcome[k]}
         IN  Holds(outcome) <=> (EarlierIn(count, T) \/ GroupIn(count, T))
<1> DEFINE T == {k \in 1 .. count : outcome[k]}
           m == count
<1>1. m \in Nat /\ m \in 1 .. m
  BY LenProperties DEF count
<1>2. PICK s \in 1 .. m : Starts(s) /\ \A k \in 1 .. m : InGroup(k, m) <=> s <= k
  BY <1>1, StartOfGroup
<1> DEFINE Made(a) == \A k \in a .. m : InGroup(a, k) => k \in T
<1>3. \A a \in 1 .. m : Made(a) <=> \A k \in a .. m : InGroup(a, k) => outcome[k]
  BY <1>1
<1>4. Made(s) <=> GroupIn(m, T)
  <2>1. \A k \in s .. m : InGroup(s, k) /\ k \in 1 .. m
    <3>1. InGroup(s, m)
      BY <1>1, <1>2
    <3> QED BY <1>1, <3>1 DEF InGroup
  <2>2. \A k \in 1 .. m : InGroup(k, m) <=> k \in s .. m
    BY <1>1, <1>2
  <2> HIDE DEF T
  <2> QED BY <2>1, <2>2 DEF GroupIn
<1>5. ASSUME NEW a \in 1 .. m, Starts(a), InGroup(a, m) PROVE a = s
  <2>1. s <= a
    BY <1>2, <1>5
  <2>2. ASSUME s < a PROVE FALSE
    <3>1. InGroup(s, m) /\ a \in s + 1 .. m
      BY <1>1, <1>2, <2>2
    <3>2. joins[a] = "and" /\ a # 1
      BY <1>1, <3>1 DEF InGroup
    <3> QED BY <1>5, <3>2 DEF Starts
  <2> QED BY <1>1, <2>1, <2>2
<1>6. Holds(outcome) <=> \E a \in 1 .. m : Starts(a) /\ Made(a)
  <2> HIDE DEF Made
  <2> QED BY <1>3 DEF Holds
<1>7. EarlierIn(m, T) <=> \E a \in 1 .. m : Starts(a) /\ ~InGroup(a, m) /\ Made(a)
  BY DEF EarlierIn
<1>8. InGroup(s, m)
  BY <1>1, <1>2
<1> HIDE DEF Made, T, m
<1>9. Holds(outcome) <=> (EarlierIn(m, T) \/ GroupIn(m, T))
  BY <1>2, <1>4, <1>5, <1>6, <1>7, <1>8
<1> QED BY <1>9 DEF T, m

\* The least and the most that can be true of the conditions.
LEMMA TruthTables ==
  \A l, r \in Truth :
    /\ TruthAnd(l, r) \in Truth /\ TruthOr(l, r) \in Truth
    /\ TruthAnd(l, r) = "true"  <=> (l = "true" /\ r = "true")
    /\ TruthAnd(l, r) # "false" <=> (l # "false" /\ r # "false")
    /\ TruthOr(l, r) = "true"   <=> (l = "true" \/ r = "true")
    /\ TruthOr(l, r) # "false"  <=> (l # "false" \/ r # "false")
  BY DEF Truth, TruthAnd, TruthOr

LEMMA GroupsGrow ==
  ASSUME NEW m, NEW S, NEW T, S \subseteq T
  PROVE  (GroupIn(m, S) => GroupIn(m, T)) /\ (EarlierIn(m, S) => EarlierIn(m, T))
  BY DEF GroupIn, EarlierIn

\* A decision that follows the two extreme cases is exact.
LEMMA DecidedExactly ==
  ASSUME EvaluatedSoFar
  PROVE  DecisionIsExact
<1> SUFFICES ASSUME decision # "none"
             PROVE  /\ decision = "true" <=> \A outcome \in Possible : count = 0 \/ Holds(outcome)
                    /\ decision = "false" <=> count > 0 /\ \A outcome \in Possible : ~Holds(outcome)
  BY DEF DecisionIsExact
<1>1. CASE decision = "true" /\ count = 0
  BY <1>1
<1>2. CASE decision = TruthOr(expression, andGroup) /\ i = count /\ count > 0
  <2>1. /\ joins \in Seq(Join) /\ count \in Nat /\ Len(values) = count /\ values \in Seq(Truth)
        /\ \A k \in 1 .. count : values[k] \in Truth
    BY <1>2, LenProperties, ElementOfSeq DEF EvaluatedSoFar, count
  <2> DEFINE Some(T) == EarlierIn(count, T) \/ GroupIn(count, T)
  <2>2. /\ decision = "true"  <=> Some(Sure)
        /\ decision # "false" <=> Some(Open)
    BY <1>2, <2>1, TruthTables DEF EvaluatedSoFar
  <2> DEFINE least == [k \in 1 .. count |-> values[k] = "true"]
             most  == [k \in 1 .. count |-> values[k] # "false"]
             Made(outcome) == {k \in 1 .. count : outcome[k]}
  <2>3. /\ least \in Possible /\ Made(least) = Sure
        /\ most \in Possible /\ Made(most) = Open
    <3>1. least \in [1 .. count -> BOOLEAN] /\ most \in [1 .. count -> BOOLEAN]
      OBVIOUS
    <3>2. \A k \in 1 .. count : /\ values[k] # "unknown" => (least[k] <=> values[k] = "true")
                                /\ values[k] # "unknown" => (most[k] <=> values[k] = "true")
      BY <2>1 DEF Truth
    <3> QED BY <3>1, <3>2 DEF Possible, Sure, Open
  <2>4. \A outcome \in Possible : outcome \in [1 .. count -> BOOLEAN]
    BY DEF Possible
  <2>5. \A outcome \in Possible : Holds(outcome) <=> Some(Made(outcome))
    BY <1>2, <2>1, <2>4, GroupsAreAll
  <2>6. \A outcome \in Possible : Sure \subseteq Made(outcome) /\ Made(outcome) \subseteq Open
    BY <2>1 DEF Possible, Sure, Open, Truth
  <2>7. \A S, T : S \subseteq T => (Some(S) => Some(T))
    BY GroupsGrow
  <2> HIDE DEF least, most, Made, Some
  <2>8. decision = "true" <=> \A outcome \in Possible : Holds(outcome)
    <3>1. ASSUME decision = "true", NEW outcome \in Possible PROVE Holds(outcome)
      BY <2>2, <2>5, <2>6, <2>7, <3>1
    <3>2. ASSUME \A outcome \in Possible : Holds(outcome) PROVE decision = "true"
      <4>1. Holds(least)
        BY <2>3, <3>2
      <4> QED BY <2>2, <2>3, <2>5, <4>1
    <3> QED BY <3>1, <3>2
  <2>9. decision = "false" <=> \A outcome \in Possible : ~Holds(outcome)
    <3>1. ASSUME decision = "false", NEW outcome \in Possible, Holds(outcome) PROVE FALSE
      BY <2>2, <2>5, <2>6, <2>7, <3>1
    <3>2. ASSUME \A outcome \in Possible : ~Holds(outcome) PROVE decision = "false"
      <4>1. ~Holds(most)
        BY <2>3, <3>2
      <4> QED BY <2>2, <2>3, <2>5, <4>1
    <3> QED BY <3>1, <3>2
  <2> QED BY <1>2, <2>8, <2>9
<1> QED BY <1>1, <1>2 DEF EvaluatedSoFar

\* Reading one condition and passing it.
LEMMA ReadKeepsEvaluation ==
  ASSUME EvaluatedSoFar, Read \/ Unconditional \/ Decide
  PROVE  EvaluatedSoFar'
<1>1. CASE Unconditional
  <2>1. /\ UNCHANGED <<joins, values, i, expression, andGroup>> /\ decision' = "true" /\ count = 0
    BY <1>1 DEF Unconditional
  <2> QED BY <2>1 DEF EvaluatedSoFar, count, GroupIn, EarlierIn, Starts, InGroup, Sure, Open
<1>2. CASE Decide
  <2>1. /\ UNCHANGED <<joins, values, i, expression, andGroup>>
        /\ decision' = TruthOr(expression, andGroup) /\ i = count /\ count > 0
    BY <1>2 DEF Decide
  <2> QED BY <2>1 DEF EvaluatedSoFar, count, GroupIn, EarlierIn, Starts, InGroup, Sure, Open,
                      TruthOr
<1>3. CASE Read
  <2>1. PICK v \in Truth : values' = Append(values, v)
    BY <1>3 DEF Read
  <2>2. /\ Len(values) < count /\ UNCHANGED <<joins, i, expression, andGroup, decision>>
    BY <1>3 DEF Read
  <2>3. values \in Seq(Truth) /\ Len(values) \in Nat /\ count \in Nat /\ count' = count
    BY <2>2, LenProperties DEF EvaluatedSoFar, count
  <2>4. values' \in Seq(Truth) /\ Len(values') = Len(values) + 1
    BY <2>1, <2>3, AppendProperties
  <2>5. i = 0
    BY <2>2, <2>3 DEF EvaluatedSoFar
  <2>6. decision = "none"
    BY <2>2, <2>3, <2>5 DEF EvaluatedSoFar
  <2> QED BY <2>2, <2>3, <2>4, <2>5, <2>6 DEF EvaluatedSoFar
<1> QED BY <1>1, <1>2, <1>3

LEMMA FirstGroup ==
  ASSUME NEW T
  PROVE  (GroupIn(1, T) <=> 1 \in T) /\ ~EarlierIn(1, T)
<1>1. InGroup(1, 1) /\ 1 .. 1 = {1}
  BY DEF InGroup
<1> QED BY <1>1 DEF GroupIn, EarlierIn

LEMMA PassingKeepsEvaluation ==
  ASSUME EvaluatedSoFar, Begin \/ NextGroup \/ SameGroup
  PROVE  EvaluatedSoFar'
<1>1. /\ UNCHANGED <<joins, values, decision>> /\ i' = i + 1
      /\ i \in Nat /\ i < count /\ Len(values) = count
  <2>1. CASE Begin
    BY <2>1 DEF Begin
  <2>2. CASE NextGroup \/ SameGroup
    <3>1. joins \in Seq(Join)
      BY DEF EvaluatedSoFar
    <3>2. count \in Nat
      BY <3>1, LenProperties DEF count
    <3>3. i \in 1 .. count - 1 /\ i # 0
      BY <2>2, <3>2 DEF NextGroup, SameGroup
    <3> QED BY <2>2, <3>2, <3>3 DEF NextGroup, SameGroup, EvaluatedSoFar
  <2> QED BY <2>1, <2>2
<1>2. /\ joins \in Seq(Join) /\ count \in Nat /\ count' = count /\ values \in Seq(Truth)
      /\ \A k \in 1 .. count : values[k] \in Truth
      /\ decision = "none" /\ expression \in Truth /\ andGroup \in Truth
  <2>1. joins \in Seq(Join) /\ values \in Seq(Truth) /\ expression \in Truth /\ andGroup \in Truth
    BY DEF EvaluatedSoFar
  <2>2. count \in Nat /\ count' = count /\ \A k \in 1 .. count : values[k] \in Truth
    BY <1>1, <2>1, LenProperties, ElementOfSeq DEF count
  <2>3. decision = "none"
    BY <1>1, <2>2 DEF EvaluatedSoFar
  <2> QED BY <2>1, <2>2, <2>3
<1>3. i + 1 \in 1 .. count /\ Sure' = Sure /\ Open' = Open
  BY <1>1, <1>2 DEF Sure, Open
<1>4. /\ i + 1 \in Sure <=> values[i + 1] = "true"
      /\ i + 1 \in Open <=> values[i + 1] # "false"
  BY <1>3 DEF Sure, Open
<1>5. /\ expression' \in Truth /\ andGroup' \in Truth
      /\ (andGroup' = "true"   <=> GroupIn(i + 1, Sure))
      /\ (andGroup' # "false"  <=> GroupIn(i + 1, Open))
      /\ (expression' = "true"  <=> EarlierIn(i + 1, Sure))
      /\ (expression' # "false" <=> EarlierIn(i + 1, Open))
  <2>1. CASE Begin
    <3>1. i = 0 /\ i + 1 = 1 /\ andGroup' = values[1] /\ expression' = "false"
      BY <2>1 DEF Begin, EvaluatedSoFar
    <3> QED BY <1>2, <1>3, <1>4, <3>1, FirstGroup DEF Truth
  <2>2. CASE NextGroup
    <3>1. /\ i \in 1 .. count - 1 /\ joins[i + 1] = "or" /\ i # 0
          /\ expression' = TruthOr(expression, andGroup) /\ andGroup' = values[i + 1]
      BY <1>2, <2>2 DEF NextGroup
    <3>2. /\ \A T : GroupIn(i + 1, T) <=> i + 1 \in T
          /\ \A T : EarlierIn(i + 1, T) <=> (EarlierIn(i, T) \/ GroupIn(i, T))
      BY <1>2, <3>1, GroupEnds
    <3>3. /\ andGroup = "true"   <=> GroupIn(i, Sure)
          /\ andGroup # "false"  <=> GroupIn(i, Open)
          /\ expression = "true" <=> EarlierIn(i, Sure)
          /\ expression # "false" <=> EarlierIn(i, Open)
      BY <3>1 DEF EvaluatedSoFar
    <3>4. values[i + 1] \in Truth
      BY <1>2, <1>3
    <3> QED BY <1>2, <1>4, <3>1, <3>2, <3>3, <3>4, TruthTables
  <2>3. CASE SameGroup
    <3>1. /\ i \in 1 .. count - 1 /\ joins[i + 1] = "and" /\ i # 0
          /\ expression' = expression /\ andGroup' = TruthAnd(andGroup, values[i + 1])
      BY <1>2, <2>3 DEF SameGroup
    <3>2. /\ \A T : GroupIn(i + 1, T) <=> (GroupIn(i, T) /\ i + 1 \in T)
          /\ \A T : EarlierIn(i + 1, T) <=> EarlierIn(i, T)
      BY <1>2, <3>1, GroupGoesOn
    <3>3. /\ andGroup = "true"   <=> GroupIn(i, Sure)
          /\ andGroup # "false"  <=> GroupIn(i, Open)
          /\ expression = "true" <=> EarlierIn(i, Sure)
          /\ expression # "false" <=> EarlierIn(i, Open)
      BY <3>1 DEF EvaluatedSoFar
    <3>4. values[i + 1] \in Truth
      BY <1>2, <1>3
    <3> QED BY <1>2, <1>4, <3>1, <3>2, <3>3, <3>4, TruthTables
  <2> QED BY <2>1, <2>2, <2>3
<1>6. i' # 0 /\ i' \in 0 .. count'
  BY <1>1, <1>2
<1>7. /\ GroupIn(i, Sure)' <=> GroupIn(i + 1, Sure)
      /\ GroupIn(i, Open)' <=> GroupIn(i + 1, Open)
      /\ EarlierIn(i, Sure)' <=> EarlierIn(i + 1, Sure)
      /\ EarlierIn(i, Open)' <=> EarlierIn(i + 1, Open)
  BY <1>1, <1>3 DEF GroupIn, EarlierIn, Starts, InGroup
<1> QED BY <1>1, <1>2, <1>5, <1>6, <1>7 DEF EvaluatedSoFar

ConditionsKept == part = "conditions" => EvaluatedSoFar

\* ConditionsExact, for any number of conditions: a schedule runs exactly when its expression
\* holds whatever the conditions are that could not be read.
THEOREM ConditionsAreDecidedExactly == SystemSpec => []ConditionsExact
<1>1. SystemInit => ConditionsKept
  <2> SUFFICES ASSUME SystemInit, part = "conditions" PROVE EvaluatedSoFar
    BY DEF ConditionsKept
  <2>1. Init
    BY ConditionsBegin
  <2>2. PICK n \in 0 .. SCHEDULER_MAX_CONDITIONS :
          joins \in [1 .. n -> Join] /\ (n > 0 => joins[1] = "and")
    BY <2>1 DEF Init
  <2>3. n \in Nat
    BY <2>2, ConditionsAssumption
  <2>4. joins \in Seq(Join) /\ Len(joins) = n
    BY <2>2, <2>3, IsASeq, LenProperties
  <2>5. <<>> \in Seq(Truth) /\ Len(<<>>) = 0
    BY EmptySeq
  <2> QED BY <2>1, <2>2, <2>3, <2>4, <2>5 DEF Init, EvaluatedSoFar, count, Truth
<1>2. ConditionsKept /\ [SystemNext]_svars => ConditionsKept'
  <2> SUFFICES ASSUME ConditionsKept, [SystemNext]_svars, part' = "conditions"
               PROVE  EvaluatedSoFar'
    BY DEF ConditionsKept
  <2>1. part' = part
    BY DEF SystemNext, svars
  <2>2. EvaluatedSoFar /\ [Next]_vars
    BY <2>1, ConditionsSteps DEF ConditionsKept
  <2>3. CASE UNCHANGED vars
    BY <2>2, <2>3 DEF vars, EvaluatedSoFar, count, GroupIn, EarlierIn, Starts, InGroup, Sure, Open
  <2>4. CASE Next
    BY <2>2, <2>4, ReadKeepsEvaluation, PassingKeepsEvaluation DEF Next
  <2> QED BY <2>2, <2>3, <2>4
<1>3. ConditionsKept => ConditionsExact
  BY DecidedExactly DEF ConditionsKept, ConditionsExact
<1> QED BY <1>1, <1>2, <1>3, PTL DEF SystemSpec

-----------------------------------------------------------------------------
(* The serial link of the ESP8266.                                          *)

LEMMA LinkSteps ==
  ASSUME part = "link", [SystemNext]_svars
  PROVE  part' = part /\ [Link!LinkNext]_linkVars
<1>1. CASE UNCHANGED svars
  BY <1>1 DEF svars, askedVars, linkVars
<1>2. CASE SystemNext
  BY <1>2 DEF SystemNext, LineNext, SensorsNext, AskedNext, askedVars, linkVars
<1> QED BY <1>1, <1>2

LEMMA LinkBegins == SystemInit /\ part = "link" => Link!LinkInit
  BY DEF SystemInit

\* Slots of a ring are numbered from any beginning without repetition.
LEMMA Slot ==
  ASSUME NEW r \in Nat \ {0}, NEW a \in 0 .. r - 1, NEW k \in 0 .. r
  PROVE  /\ (a + k) % r = (IF a + k < r THEN a + k ELSE a + k - r)
         /\ (a + k) % r \in 0 .. r - 1
  OBVIOUS

LEMMA NextSlot ==
  ASSUME NEW r \in Nat \ {0}, NEW a \in 0 .. r - 1, NEW c \in 0 .. r - 1
  PROVE  /\ (((a + c) % r) + 1) % r \in 0 .. r - 1
         /\ (((a + c) % r) + 1) % r = (a + (c + 1)) % r
         /\ \A k \in 0 .. c - 1 : /\ (a + k) % r \in 0 .. r - 1
                                  /\ (a + k) % r # (a + c) % r
<1>1. (a + c) % r = (IF a + c < r THEN a + c ELSE a + c - r) /\ (a + c) % r \in 0 .. r - 1
  <2>1. c \in 0 .. r
    OBVIOUS
  <2> QED BY <2>1, Slot
<1>2. c + 1 \in 0 .. r
  OBVIOUS
<1>3. (a + (c + 1)) % r = (IF a + (c + 1) < r THEN a + (c + 1) ELSE a + (c + 1) - r)
  BY <1>2, Slot
<1>4. 1 \in 0 .. r
  OBVIOUS
<1> DEFINE e == (a + c) % r
<1>5. e \in 0 .. r - 1 /\ e = (IF a + c < r THEN a + c ELSE a + c - r)
  BY <1>1
<1> HIDE DEF e
<1>6. (e + 1) % r = (IF e + 1 < r THEN e + 1 ELSE e + 1 - r) /\ (e + 1) % r \in 0 .. r - 1
  BY <1>4, <1>5, Slot
<1>7. (e + 1) % r = (a + (c + 1)) % r
  <2>1. CASE a + c < r
    BY <1>3, <1>5, <1>6, <2>1
  <2>2. CASE ~(a + c < r)
    BY <1>3, <1>5, <1>6, <2>2
  <2> QED BY <2>1, <2>2
<1>8. ASSUME NEW k \in 0 .. c - 1
      PROVE  (a + k) % r \in 0 .. r - 1 /\ (a + k) % r # e
  <2>1. k \in 0 .. r
    OBVIOUS
  <2>2. /\ (a + k) % r = (IF a + k < r THEN a + k ELSE a + k - r)
        /\ (a + k) % r \in 0 .. r - 1
    BY <2>1, Slot
  <2> QED BY <1>5, <2>2
<1> QED BY <1>6, <1>7, <1>8 DEF e

LEMMA LongerIsLine ==
  ASSUME NEW l \in Link!Line, NEW buffer \in [Link!Slots -> Int], NEW end \in Link!Slots,
         NEW n \in 0 .. MAXCOMMANDSINBUFFER, NEW waiting \in Seq(Int)
  PROVE  [l EXCEPT !.buffer = buffer, !.cmdend = end, !.cmdnrel = n, !.waiting = waiting]
           \in Link!Line
  BY DEF Link!Line

LEMMA ShorterIsLine ==
  ASSUME NEW l \in Link!Line, NEW buffer \in [Link!Slots -> Int], NEW start \in Link!Slots,
         NEW n \in 0 .. MAXCOMMANDSINBUFFER, NEW waiting \in Seq(Int)
  PROVE  [l EXCEPT !.buffer = buffer, !.cmdstart = start, !.cmdnrel = n, !.waiting = waiting]
           \in Link!Line
  BY DEF Link!Line

\* A buffer that is not full takes one more at its end, a full one is left as it is.
LEMMA PushKeepsOrder ==
  ASSUME NEW l \in Link!Line, Link!BufferInOrder(l), NEW request \in Int,
         NEW pushed, pushed = Link!pushCommandBuffer(l, request)
  PROVE  /\ pushed \in Link!Line /\ Link!BufferInOrder(pushed)
         /\ pushed.late = l.late /\ (Link!AnswerAwaited(l) => Link!AnswerAwaited(pushed))
<1> DEFINE r == MAXCOMMANDSINBUFFER
           c == l.cmdnrel
<1>1. /\ r \in Nat \ {0} /\ Link!Slots = 0 .. r - 1
      /\ l.cmdstart \in 0 .. r - 1 /\ l.cmdend \in 0 .. r - 1 /\ c \in 0 .. r
      /\ l.waiting \in Seq(Int) /\ l.buffer \in [0 .. r - 1 -> Int]
      /\ c = Len(l.waiting) /\ l.cmdend = (l.cmdstart + c) % r
      /\ \A i_1 \in 1 .. c : l.buffer[(l.cmdstart + i_1 - 1) % r] = l.waiting[i_1]
  BY ConnectionsAssumption DEF Link!Line, Link!Slots, Link!BufferInOrder
<1>2. CASE c + 1 > r
  BY <1>2, pushed = l DEF Link!pushCommandBuffer
<1>3. CASE ~(c + 1 > r)
  <2>1. c \in 0 .. r - 1
    BY <1>1, <1>3
  <2>2. /\ Append(l.waiting, request) \in Seq(Int) /\ Len(Append(l.waiting, request)) = c + 1
        /\ \A i_1 \in 1 .. c : Append(l.waiting, request)[i_1] = l.waiting[i_1]
        /\ Append(l.waiting, request)[c + 1] = request
    BY <1>1, AppendProperties
  <2>3. pushed = [l EXCEPT !.buffer[l.cmdend] = request, !.cmdend = (l.cmdend + 1) % r,
                           !.cmdnrel = c + 1, !.waiting = Append(l.waiting, request)]
    BY <1>3 DEF Link!pushCommandBuffer, Link!Next1, Link!Line
  <2>4. (l.cmdend + 1) % r \in 0 .. r - 1 /\ (l.cmdend + 1) % r = (l.cmdstart + (c + 1)) % r
    <3>1. r \in Nat \ {0} /\ l.cmdstart \in 0 .. r - 1 /\ l.cmdend = (l.cmdstart + c) % r
      BY <1>1
    <3> HIDE DEF r, c
    <3>2. /\ (((l.cmdstart + c) % r) + 1) % r \in 0 .. r - 1
          /\ (((l.cmdstart + c) % r) + 1) % r = (l.cmdstart + (c + 1)) % r
      BY <2>1, <3>1, NextSlot
    <3> QED BY <3>1, <3>2
  <2> DEFINE buffer == [l.buffer EXCEPT ![l.cmdend] = request]
  <2>5. /\ buffer \in [0 .. r - 1 -> Int] /\ buffer[l.cmdend] = request
        /\ \A s \in 0 .. r - 1 : s # l.cmdend => buffer[s] = l.buffer[s]
    BY <1>1
  <2>6. /\ pushed \in Link!Line
        /\ pushed.cmdstart = l.cmdstart /\ pushed.cmdend = (l.cmdend + 1) % r
        /\ pushed.cmdnrel = c + 1 /\ pushed.waiting = Append(l.waiting, request)
        /\ pushed.buffer = buffer /\ pushed.late = l.late /\ pushed.early = l.early
        /\ pushed.wire = l.wire /\ pushed.half = l.half /\ pushed.sending = l.sending
        /\ pushed.readAge = l.readAge /\ pushed.data = l.data /\ pushed.rx = l.rx
    <3>1. pushed = [l EXCEPT !.buffer = buffer, !.cmdend = (l.cmdend + 1) % r,
                             !.cmdnrel = c + 1, !.waiting = Append(l.waiting, request)]
      BY <2>3
    <3>2. c + 1 \in 0 .. r
      BY <1>1, <2>1
    <3> HIDE DEF buffer
    <3>3. /\ (l.cmdend + 1) % r \in Link!Slots /\ buffer \in [Link!Slots -> Int]
          /\ c + 1 \in 0 .. MAXCOMMANDSINBUFFER /\ Append(l.waiting, request) \in Seq(Int)
      BY <1>1, <2>2, <2>4, <2>5, <3>2
    <3> DEFINE new == (l.cmdend + 1) % r
               longer == Append(l.waiting, request)
    <3>4. new \in Link!Slots /\ longer \in Seq(Int)
          /\ pushed = [l EXCEPT !.buffer = buffer, !.cmdend = new, !.cmdnrel = c + 1,
                                !.waiting = longer]
      BY <3>1, <3>3
    <3> HIDE DEF new, longer, c
    <3>5. pushed \in Link!Line
      <4>1. [l EXCEPT !.buffer = buffer, !.cmdend = new, !.cmdnrel = c + 1,
                      !.waiting = longer] \in Link!Line
        BY <3>3, <3>4, LongerIsLine, Zenon
      <4> QED BY <3>4, <4>1, Zenon
    <3>6. /\ pushed.cmdstart = l.cmdstart /\ pushed.cmdend = new
          /\ pushed.cmdnrel = c + 1 /\ pushed.waiting = longer
          /\ pushed.buffer = buffer /\ pushed.late = l.late /\ pushed.early = l.early
          /\ pushed.wire = l.wire /\ pushed.half = l.half /\ pushed.sending = l.sending
          /\ pushed.readAge = l.readAge /\ pushed.data = l.data /\ pushed.rx = l.rx
      BY <3>4 DEF Link!Line
    <3> QED BY <3>5, <3>6, Zenon DEF new, longer, c
  <2> HIDE DEF buffer
  <2>7. ASSUME NEW n \in 1 .. c + 1
        PROVE  buffer[(l.cmdstart + n - 1) % r] = Append(l.waiting, request)[n]
    <3>1. CASE n = c + 1
      <4>1. l.cmdstart + n - 1 = l.cmdstart + c
        BY <1>1, <3>1
      <4> QED BY <1>1, <2>2, <2>5, <3>1, <4>1
    <3>2. CASE n # c + 1
      <4>1. n \in 1 .. c /\ n - 1 \in 0 .. c - 1
        BY <1>1, <3>2
      <4>2. l.cmdstart + n - 1 = l.cmdstart + (n - 1)
        BY <1>1, <4>1
      <4>3. /\ (l.cmdstart + (n - 1)) % r \in 0 .. r - 1
            /\ (l.cmdstart + (n - 1)) % r # (l.cmdstart + c) % r
        <5>1. r \in Nat \ {0} /\ l.cmdstart \in 0 .. r - 1
          BY <1>1
        <5> HIDE DEF r, c
        <5>2. \A k \in 0 .. c - 1 : /\ (l.cmdstart + k) % r \in 0 .. r - 1
                                    /\ (l.cmdstart + k) % r # (l.cmdstart + c) % r
          BY <2>1, <5>1, NextSlot
        <5> QED BY <4>1, <5>2
      <4> QED BY <1>1, <2>2, <2>5, <4>1, <4>2, <4>3
    <3> QED BY <3>1, <3>2
  <2>8. Link!BufferInOrder(pushed)
    <3>1. Len(pushed.waiting) = c + 1 /\ pushed.cmdnrel = c + 1
      BY <2>2, <2>6
    <3> QED BY <2>4, <2>6, <2>7, <3>1 DEF Link!BufferInOrder
  <2>9. Link!AnswerAwaited(l) => Link!AnswerAwaited(pushed)
    BY <2>6 DEF Link!AnswerAwaited, Link!GivenUp
  <2> QED BY <2>6, <2>8, <2>9
<1> QED BY <1>2, <1>3

LEMMA LineOfWritten ==
  ASSUME NEW l \in Link!Line, NEW wire \in Nat, NEW late \in BOOLEAN, NEW early \in BOOLEAN
  PROVE  [l EXCEPT !.sending = TRUE, !.readAge = 0, !.wire = wire, !.late = late,
                   !.early = early] \in Link!Line
  BY DEF Link!Line

\* What is written on a free line is awaited, and it is the only one unless a request was
\* given up too early.
LEMMA WrittenIsAwaited ==
  ASSUME NEW l \in Link!Line, Link!BufferInOrder(l), ~l.sending,
         l.late \/ Link!AnswerAwaited(l), NEW written, written = Link!Written(l)
  PROVE  /\ written \in Link!Line /\ Link!BufferInOrder(written)
         /\ written.late \/ Link!AnswerAwaited(written)
         /\ written.buffer = l.buffer /\ written.cmdstart = l.cmdstart
         /\ written.cmdend = l.cmdend /\ written.cmdnrel = l.cmdnrel
         /\ written.waiting = l.waiting
<1>1. written \in Link!Line
  <2> DEFINE wire  == IF l.wire < MaxUnanswered THEN l.wire + 1 ELSE l.wire
             late  == l.late \/ (Link!GivenUp(l) /\ (l.wire > 0 \/ l.rx # <<>>))
             early == l.early \/ (~Link!GivenUp(l) /\ l.wire > 0)
  <2>1. wire \in Nat
    BY DEF Link!Line
  <2>2. late \in BOOLEAN /\ early \in BOOLEAN
    BY Zenon
  <2>3. written = [l EXCEPT !.sending = TRUE, !.readAge = 0, !.wire = wire, !.late = late,
                            !.early = early]
    BY Zenon DEF Link!Written
  <2> HIDE DEF wire, late, early
  <2>4. [l EXCEPT !.sending = TRUE, !.readAge = 0, !.wire = wire, !.late = late,
                  !.early = early] \in Link!Line
    BY <2>1, <2>2, LineOfWritten, Zenon
  <2> QED BY <2>3, <2>4, Zenon
<1>2. /\ written.buffer = l.buffer /\ written.cmdstart = l.cmdstart
      /\ written.cmdend = l.cmdend /\ written.cmdnrel = l.cmdnrel
      /\ written.waiting = l.waiting
      /\ written.sending = TRUE /\ written.data = l.data /\ written.rx = l.rx
      /\ written.half = l.half
      /\ written.wire = (IF l.wire < MaxUnanswered THEN l.wire + 1 ELSE l.wire)
      /\ written.late <=> (l.late \/ (Link!GivenUp(l) /\ (l.wire > 0 \/ l.rx # <<>>)))
      /\ written.early <=> (l.early \/ (~Link!GivenUp(l) /\ l.wire > 0))
  BY DEF Link!Line, Link!Written
<1>3. Link!BufferInOrder(written)
  BY <1>2 DEF Link!BufferInOrder
<1>4. ASSUME ~written.late PROVE Link!AnswerAwaited(written)
  <2>1. l.wire \in Nat /\ l.data = <<>> /\ l.rx = <<>> /\ l.wire = 0 /\ ~l.half /\ ~l.early
    BY <1>2, <1>4 DEF Link!AnswerAwaited, Link!Line
  <2>2. Len(written.data) = 0 /\ Len(written.rx) = 0 /\ written.wire \in {0, 1}
        /\ ~written.early /\ ~written.half
    <3>1. Len(<<>>) = 0
      OBVIOUS
    <3>2. Len(written.data) = 0 /\ Len(written.rx) = 0
      BY <1>2, <2>1, <3>1
    <3>3. written.wire \in {0, 1}
      BY <1>2, <2>1
    <3>4. ~written.early /\ ~written.half
      BY <1>2, <2>1
    <3> QED BY <3>2, <3>3, <3>4
  <2>3. written.sending = TRUE
    BY <1>2
  <2>4. Len(written.data) + Len(written.rx) <=
          (IF written.wire = 0 THEN 2 ELSE IF written.half THEN 1 ELSE 0)
    BY <2>2
  <2> QED BY <2>2, <2>3, <2>4 DEF Link!AnswerAwaited
<1> QED BY <1>1, <1>2, <1>3, <1>4

\* Either way, what a caller sends leaves the line in order; on a line that is busy it waits.
LEMMA SendKeepsOrder ==
  ASSUME NEW l \in Link!Line, Link!BufferInOrder(l), l.late \/ Link!AnswerAwaited(l),
         NEW request \in Int, NEW sent_1, sent_1 = Link!send_command(l, request)
  PROVE  /\ sent_1 \in Link!Line /\ Link!BufferInOrder(sent_1)
         /\ sent_1.late \/ Link!AnswerAwaited(sent_1)
<1>1. CASE l.sending
  BY <1>1, PushKeepsOrder DEF Link!send_command
<1>2. CASE ~l.sending
  BY <1>2, WrittenIsAwaited DEF Link!send_command
<1> QED BY <1>1, <1>2

LEMMA FirstLeaves ==
  ASSUME NEW r \in Nat \ {0}, NEW a \in 0 .. r - 1, NEW c \in 1 .. r
  PROVE  /\ (a + 1) % r \in 0 .. r - 1
         /\ (((a + 1) % r) + (c - 1)) % r = (a + c) % r
         /\ \A k \in 0 .. c - 2 : /\ (((a + 1) % r) + k) % r = (a + (k + 1)) % r
                                  /\ (a + (k + 1)) % r # a
<1> DEFINE b == (a + 1) % r
<1>1. 1 \in 0 .. r
  OBVIOUS
<1>2. b = (IF a + 1 < r THEN a + 1 ELSE a + 1 - r) /\ b \in 0 .. r - 1
  BY <1>1, Slot
<1> HIDE DEF b
<1>3. ASSUME NEW k \in 0 .. c - 1
      PROVE  (b + k) % r = (a + (k + 1)) % r /\ (k + 1 < c => (a + (k + 1)) % r # a)
  <2>1. k \in 0 .. r /\ k + 1 \in 0 .. r
    OBVIOUS
  <2>2. (b + k) % r = (IF b + k < r THEN b + k ELSE b + k - r)
    BY <1>2, <2>1, Slot
  <2>3. (a + (k + 1)) % r = (IF a + (k + 1) < r THEN a + (k + 1) ELSE a + (k + 1) - r)
    BY <2>1, Slot
  <2>4. CASE a + 1 < r
    BY <1>2, <2>2, <2>3, <2>4
  <2>5. CASE ~(a + 1 < r)
    <3>1. b = 0 /\ a = r - 1
      BY <1>2, <2>5
    <3>2. CASE k = r
      BY <3>2
    <3>3. CASE k < r
      BY <2>2, <2>3, <3>1, <3>3
    <3> QED BY <2>1, <3>2, <3>3
  <2> QED BY <2>4, <2>5
<1>4. c - 1 \in 0 .. c - 1 /\ (c - 1) + 1 = c
  OBVIOUS
<1>5. (b + (c - 1)) % r = (a + c) % r
  BY <1>3, <1>4
<1>6. ASSUME NEW k \in 0 .. c - 2
      PROVE  (b + k) % r = (a + (k + 1)) % r /\ (a + (k + 1)) % r # a
  <2>1. k \in 0 .. c - 1 /\ k + 1 < c
    OBVIOUS
  <2> QED BY <1>3, <2>1
<1> QED BY <1>2, <1>5, <1>6 DEF b

\* The first that waits is written and leaves; the others stay where they are.
LEMMA PopKeepsOrder ==
  ASSUME NEW l \in Link!Line, Link!BufferInOrder(l), l.late \/ Link!AnswerAwaited(l),
         ~l.sending, l.cmdnrel > 0, NEW popped, popped = Link!popCommandBuffer(l)
  PROVE  /\ popped \in Link!Line /\ Link!BufferInOrder(popped)
         /\ popped.late \/ Link!AnswerAwaited(popped)
<1> DEFINE r == MAXCOMMANDSINBUFFER
           c == l.cmdnrel
           w == Link!Written(l)
           start == (l.cmdstart + 1) % r
           buffer == [l.buffer EXCEPT ![l.cmdstart] = Link!Query]
<1>1. /\ r \in Nat \ {0} /\ Link!Slots = 0 .. r - 1
      /\ l.cmdstart \in 0 .. r - 1 /\ l.cmdend \in 0 .. r - 1 /\ c \in 1 .. r
      /\ l.waiting \in Seq(Int) /\ l.buffer \in [0 .. r - 1 -> Int]
      /\ c = Len(l.waiting) /\ l.cmdend = (l.cmdstart + c) % r
      /\ \A n \in 1 .. c : l.buffer[(l.cmdstart + n - 1) % r] = l.waiting[n]
  <2>1. r \in Nat \ {0} /\ c \in 0 .. r
    BY ConnectionsAssumption DEF Link!Line
  <2>2. c \in 1 .. r
    BY <2>1
  <2> QED BY <2>1, <2>2 DEF Link!Line, Link!Slots, Link!BufferInOrder
<1>2. /\ w \in Link!Line /\ (w.late \/ Link!AnswerAwaited(w))
      /\ w.buffer = l.buffer /\ w.cmdstart = l.cmdstart
      /\ w.cmdend = l.cmdend /\ w.cmdnrel = c /\ w.waiting = l.waiting
  BY WrittenIsAwaited
<1>3. popped = [w EXCEPT !.buffer = buffer, !.cmdstart = start, !.cmdnrel = c - 1,
                         !.waiting = Tail(l.waiting)]
  BY <1>2 DEF Link!popCommandBuffer, Link!Next1, Link!Line
<1> HIDE DEF w
<1>4. /\ start \in 0 .. r - 1 /\ (start + (c - 1)) % r = (l.cmdstart + c) % r
      /\ \A k \in 0 .. c - 2 : /\ (start + k) % r = (l.cmdstart + (k + 1)) % r
                               /\ (l.cmdstart + (k + 1)) % r # l.cmdstart
  <2>1. r \in Nat \ {0} /\ l.cmdstart \in 0 .. r - 1 /\ c \in 1 .. r
    BY <1>1
  <2> HIDE DEF r, c
  <2>2. /\ (l.cmdstart + 1) % r \in 0 .. r - 1
        /\ (((l.cmdstart + 1) % r) + (c - 1)) % r = (l.cmdstart + c) % r
        /\ \A k \in 0 .. c - 2 :
             /\ (((l.cmdstart + 1) % r) + k) % r = (l.cmdstart + (k + 1)) % r
             /\ (l.cmdstart + (k + 1)) % r # l.cmdstart
    BY <2>1, FirstLeaves
  <2> QED BY <2>2, Zenon DEF start
<1>5. /\ Tail(l.waiting) \in Seq(Int) /\ Len(Tail(l.waiting)) = c - 1
      /\ \A n \in 1 .. c - 1 : Tail(l.waiting)[n] = l.waiting[n + 1]
  <2>1. l.waiting # <<>>
    BY <1>1
  <2> QED BY <1>1, <2>1, HeadTailProperties
<1>6. /\ buffer \in [0 .. r - 1 -> Int]
      /\ \A s \in 0 .. r - 1 : s # l.cmdstart => buffer[s] = l.buffer[s]
  BY SMTT(30), <1>1 DEF Link!Query
<1> HIDE DEF buffer, start
<1>7. c - 1 \in 0 .. r
  BY <1>1
<1>8. /\ popped \in Link!Line
      /\ popped.cmdstart = start /\ popped.cmdend = l.cmdend /\ popped.cmdnrel = c - 1
      /\ popped.waiting = Tail(l.waiting) /\ popped.buffer = buffer
      /\ popped.late = w.late /\ popped.early = w.early
      /\ popped.wire = w.wire /\ popped.half = w.half /\ popped.sending = w.sending
      /\ popped.readAge = w.readAge /\ popped.data = w.data /\ popped.rx = w.rx
  <2>1. /\ w \in Link!Line /\ start \in Link!Slots /\ buffer \in [Link!Slots -> Int]
        /\ c - 1 \in 0 .. MAXCOMMANDSINBUFFER /\ Tail(l.waiting) \in Seq(Int)
    BY <1>1, <1>2, <1>4, <1>5, <1>6, <1>7
  <2>2. popped \in Link!Line
    <3>1. [w EXCEPT !.buffer = buffer, !.cmdstart = start, !.cmdnrel = c - 1,
                    !.waiting = Tail(l.waiting)] \in Link!Line
      BY <2>1, ShorterIsLine, Zenon
    <3> QED BY <1>3, <3>1, Zenon
  <2>3. /\ popped.cmdstart = start /\ popped.cmdend = w.cmdend /\ popped.cmdnrel = c - 1
        /\ popped.waiting = Tail(l.waiting) /\ popped.buffer = buffer
        /\ popped.late = w.late /\ popped.early = w.early
        /\ popped.wire = w.wire /\ popped.half = w.half /\ popped.sending = w.sending
        /\ popped.readAge = w.readAge /\ popped.data = w.data /\ popped.rx = w.rx
    BY <1>3, <2>1 DEF Link!Line
  <2> QED BY <1>2, <2>2, <2>3
<1>9. ASSUME NEW n \in 1 .. c - 1
      PROVE  buffer[(start + n - 1) % r] = Tail(l.waiting)[n]
  <2>1. /\ n - 1 \in 0 .. c - 2 /\ start + n - 1 = start + (n - 1)
        /\ (n - 1) + 1 = n /\ n + 1 \in 1 .. c /\ l.cmdstart + (n + 1) - 1 = l.cmdstart + n
    BY <1>1, <1>4
  <2>2. (start + n - 1) % r = (l.cmdstart + n) % r /\ (l.cmdstart + n) % r # l.cmdstart
    BY <1>4, <2>1
  <2>3. (l.cmdstart + n) % r \in 0 .. r - 1
    <3>1. n \in 0 .. r
      BY <1>1
    <3> QED BY <1>1, <3>1, Slot
  <2>4. l.buffer[(l.cmdstart + (n + 1) - 1) % r] = l.waiting[n + 1]
    BY <1>1, <2>1
  <2> QED BY <1>5, <1>6, <2>1, <2>2, <2>3, <2>4
<1>10. Link!BufferInOrder(popped)
  <2>1. popped.cmdnrel = Len(popped.waiting) /\ Len(popped.waiting) = c - 1
    BY <1>5, <1>8
  <2>2. popped.cmdend = (popped.cmdstart + popped.cmdnrel) % r
    BY <1>1, <1>4, <1>8
  <2> QED BY <1>8, <1>9, <2>1, <2>2 DEF Link!BufferInOrder
<1>11. Link!AnswerAwaited(w) => Link!AnswerAwaited(popped)
  BY <1>8 DEF Link!AnswerAwaited, Link!GivenUp
<1> QED BY <1>2, <1>8, <1>10, <1>11

\* No more of an answer is read than was sent for the one request that is awaited.
LEMMA ReadKeepsOrder ==
  ASSUME NEW l \in Link!Line, Link!BufferInOrder(l), l.late \/ Link!AnswerAwaited(l),
         NEW read, read = Link!readHeatpump(l)
  PROVE  /\ read \in Link!Line /\ Link!BufferInOrder(read)
         /\ read.late \/ Link!AnswerAwaited(read)
<1> DEFINE m == IF l.sending /\ Link!GivenUp(l) THEN [l EXCEPT !.sending = FALSE, !.data = <<>>]
                ELSE l
<1>1. /\ m \in Link!Line /\ Link!BufferInOrder(m) /\ (m.late \/ Link!AnswerAwaited(m))
      /\ (m.sending => m = l)
  <2>1. CASE l.sending /\ Link!GivenUp(l)
    <3>1. m = [l EXCEPT !.sending = FALSE, !.data = <<>>] /\ <<>> \in Seq(Link!Part)
      BY <2>1
    <3> HIDE DEF m
    <3>2. /\ m \in Link!Line /\ ~m.sending /\ m.data = <<>>
          /\ m.buffer = l.buffer /\ m.cmdstart = l.cmdstart /\ m.cmdend = l.cmdend
          /\ m.cmdnrel = l.cmdnrel /\ m.waiting = l.waiting /\ m.late = l.late
          /\ m.early = l.early /\ m.wire = l.wire /\ m.half = l.half /\ m.readAge = l.readAge
      BY <3>1 DEF Link!Line
    <3>3. Link!BufferInOrder(m)
      BY <3>2 DEF Link!BufferInOrder
    <3>4. Link!AnswerAwaited(l) => Link!AnswerAwaited(m)
      BY <2>1, <3>2 DEF Link!AnswerAwaited, Link!GivenUp
    <3> QED BY <3>2, <3>3, <3>4
  <2>2. CASE ~(l.sending /\ Link!GivenUp(l))
    BY <2>2
  <2> QED BY <2>1, <2>2
<1>2. read = IF m.sending /\ m.rx # <<>> THEN Link!readSerial(m) ELSE m
  BY DEF Link!readHeatpump
<1> HIDE DEF m
<1>3. CASE ~(m.sending /\ m.rx # <<>>)
  BY <1>1, <1>2, <1>3
<1>4. CASE m.sending /\ m.rx # <<>>
  <2> DEFINE d == m.data \o m.rx
             e == [m EXCEPT !.rx = <<>>, !.data = <<>>]
  <2>1. /\ m.data \in Seq(Link!Part) /\ m.rx \in Seq(Link!Part)
        /\ d \in Seq(Link!Part) /\ Len(d) = Len(m.data) + Len(m.rx)
        /\ Len(m.data) \in Nat /\ Len(m.rx) \in Nat /\ Len(m.rx) # 0
    <3>1. m.data \in Seq(Link!Part) /\ m.rx \in Seq(Link!Part)
      BY <1>1 DEF Link!Line
    <3> QED BY <1>4, <3>1, ConcatProperties, EmptySeq, LenProperties
  <2> DEFINE a == Len(m.data)
             b == Len(m.rx)
  <2>9. a + b = Len(d) /\ Len(d) \in Nat /\ Len(d) # 0
    <3>1. a \in Nat /\ b \in Nat /\ b # 0 /\ Len(d) = a + b
      BY <2>1
    <3> HIDE DEF a, b, d
    <3> QED BY <3>1
  <2> HIDE DEF a, b
  <2>2. read = CASE d[1] # "first" \/ Len(d) > 2 -> e
                 [] d[1] = "first" /\ Len(d) = 2 -> [e EXCEPT !.sending = FALSE]
                 [] d = <<"first">>              -> [e EXCEPT !.data = d]
    BY <1>2, <1>4 DEF Link!readSerial
  <2>3. /\ e \in Link!Line /\ e.sending = m.sending /\ e.data = <<>> /\ e.rx = <<>>
        /\ e.buffer = m.buffer /\ e.cmdstart = m.cmdstart /\ e.cmdend = m.cmdend
        /\ e.cmdnrel = m.cmdnrel /\ e.waiting = m.waiting /\ e.late = m.late
        /\ e.early = m.early /\ e.wire = m.wire /\ e.half = m.half /\ e.readAge = m.readAge
    <3>1. <<>> \in Seq(Link!Part)
      OBVIOUS
    <3> QED BY <1>1, <3>1 DEF Link!Line
  <2> HIDE DEF d, e
  <2>4. Len(<<>>) = 0 /\ <<>> \in Seq(Link!Part)
    OBVIOUS
  <2>5. CASE d[1] # "first" \/ Len(d) > 2
    <3>1. read = e
      BY <2>2, <2>5
    <3>2. Link!BufferInOrder(e)
      BY <1>1, <2>3 DEF Link!BufferInOrder
    <3>3. ASSUME ~m.late PROVE Link!AnswerAwaited(e)
      <4>1. Len(e.data) = 0 /\ Len(e.rx) = 0 /\ e.sending
        BY <1>4, <2>3, <2>4
      <4>2. Link!AnswerAwaited(m)
        BY <1>1, <3>3
      <4> QED BY <2>3, <4>1, <4>2 DEF Link!AnswerAwaited
    <3> QED BY <2>3, <3>1, <3>2, <3>3
  <2>6. CASE d[1] = "first" /\ Len(d) = 2
    <3>1. read = [e EXCEPT !.sending = FALSE]
      <4>1. ~(d[1] # "first" \/ Len(d) > 2)
        BY <2>6
      <4> QED BY <2>2, <2>6, <4>1
    <3>2. /\ read \in Link!Line /\ ~read.sending /\ read.data = <<>> /\ read.rx = <<>>
          /\ read.buffer = m.buffer /\ read.cmdstart = m.cmdstart /\ read.cmdend = m.cmdend
          /\ read.cmdnrel = m.cmdnrel /\ read.waiting = m.waiting /\ read.late = m.late
          /\ read.early = m.early /\ read.wire = m.wire /\ read.half = m.half
      BY <2>3, <3>1 DEF Link!Line
    <3>3. Link!BufferInOrder(read)
      BY <1>1, <3>2 DEF Link!BufferInOrder
    <3>4. ASSUME ~m.late PROVE Link!AnswerAwaited(read)
      <4>1. Link!AnswerAwaited(m)
        BY <1>1, <3>4
      <4>2. m.wire = 0
        <5>1. Len(m.data) + Len(m.rx) <=
                (IF m.wire = 0 THEN 2 ELSE IF m.half THEN 1 ELSE 0)
          BY <1>4, <4>1 DEF Link!AnswerAwaited
        <5>2. Len(m.data) + Len(m.rx) = 2
          BY <2>1, <2>6, Zenon
        <5>3. 2 <= (IF m.wire = 0 THEN 2 ELSE IF m.half THEN 1 ELSE 0)
          BY <5>1, <5>2, Zenon
        <5>4. CASE m.half
          BY <5>3, <5>4
        <5>5. CASE ~m.half
          BY <5>3, <5>5
        <5> QED BY <5>4, <5>5
      <4> QED BY <3>2, <4>1, <4>2 DEF Link!AnswerAwaited
    <3> QED BY <3>2, <3>3, <3>4
  <2>7. CASE d[1] = "first" /\ Len(d) # 2 /\ ~(Len(d) > 2)
    <3>1. Len(d) = 1 /\ d = <<"first">>
      <4>1. Len(d) = 1
        BY <2>7, <2>9
      <4>2. d[1] = "first" /\ d \in Seq(Link!Part)
        BY <2>1, <2>7
      <4> QED BY <4>1, <4>2
    <3>2. read = [e EXCEPT !.data = d]
      BY <2>2, <2>7, <3>1
    <3>3. /\ read \in Link!Line /\ read.sending = m.sending /\ read.data = d /\ read.rx = <<>>
          /\ read.buffer = m.buffer /\ read.cmdstart = m.cmdstart /\ read.cmdend = m.cmdend
          /\ read.cmdnrel = m.cmdnrel /\ read.waiting = m.waiting /\ read.late = m.late
          /\ read.early = m.early /\ read.wire = m.wire /\ read.half = m.half
      BY <2>1, <2>3, <3>2 DEF Link!Line
    <3>4. Link!BufferInOrder(read)
      BY <1>1, <3>3 DEF Link!BufferInOrder
    <3>5. ASSUME ~m.late PROVE Link!AnswerAwaited(read)
      <4>1. Link!AnswerAwaited(m)
        BY <1>1, <3>5
      <4>2. Len(read.data) + Len(read.rx) = Len(m.data) + Len(m.rx)
        <5>1. Len(read.data) = Len(m.data) + Len(m.rx) /\ Len(read.rx) = 0
          BY <2>1, <2>4, <3>3, Zenon
        <5> QED BY <2>9, <5>1 DEF a, b
      <4> QED BY <1>4, <3>3, <4>1, <4>2 DEF Link!AnswerAwaited
    <3> QED BY <3>3, <3>4, <3>5
  <2>8. Len(d) > 2 \/ Len(d) = 2 \/ (Len(d) # 2 /\ ~(Len(d) > 2))
    OBVIOUS
  <2> QED BY <2>5, <2>6, <2>7, <2>8
<1> QED BY <1>3, <1>4

\* What has come of an answer is part of it, and the line knows how much is to come.
LEMMA AnswerKeepsOrder ==
  ASSUME Link!LinkIsOrdered, Link!Answer
  PROVE  Link!LinkIsOrdered'
<1>1. PICK came \in {<<IF line.half THEN "last" ELSE "first">>, <<"garbled">>, <<>>} :
        line' = [line EXCEPT !.rx = @ \o came, !.half = ~@,
                             !.wire = IF line.half THEN @ - 1 ELSE @]
  BY DEF Link!Answer
<1>2. line \in Link!Line /\ line.wire > 0 /\ commands' = commands
  BY DEF Link!Answer, Link!LinkIsOrdered
<1>3. came \in Seq(Link!Part) /\ Len(came) \in {0, 1} /\ line.rx \in Seq(Link!Part)
  <2>1. "first" \in Link!Part /\ "last" \in Link!Part /\ "garbled" \in Link!Part
    BY DEF Link!Part
  <2>2. line.rx \in Seq(Link!Part)
    BY <1>2 DEF Link!Line
  <2>3. came = <<>> \/ \E p \in Link!Part : came = <<p>>
    BY <1>1, <2>1
  <2>4. <<>> \in Seq(Link!Part) /\ Len(<<>>) = 0
    OBVIOUS
  <2>5. \A p \in Link!Part : <<p>> \in Seq(Link!Part) /\ Len(<<p>>) = 1
    OBVIOUS
  <2> QED BY <2>2, <2>3, <2>4, <2>5, Zenon
<1>4. line.rx \o came \in Seq(Link!Part) /\ Len(line.rx \o came) = Len(line.rx) + Len(came)
  BY <1>3, ConcatProperties
<1> DEFINE wire == IF line.half THEN line.wire - 1 ELSE line.wire
           rx   == line.rx \o came
<1>5. wire \in Nat
  BY <1>2 DEF Link!Line
<1>6. line' = [line EXCEPT !.rx = rx, !.half = ~line.half, !.wire = wire]
  BY <1>1, <1>2 DEF Link!Line
<1>7. rx \in Seq(Link!Part)
  BY <1>4
<1> HIDE DEF wire, rx
<1>8. /\ line' \in Link!Line /\ line'.rx = rx /\ line'.half = (~line.half) /\ line'.wire = wire
      /\ line'.buffer = line.buffer /\ line'.cmdstart = line.cmdstart
      /\ line'.cmdend = line.cmdend /\ line'.cmdnrel = line.cmdnrel
      /\ line'.waiting = line.waiting /\ line'.late = line.late /\ line'.early = line.early
      /\ line'.sending = line.sending /\ line'.data = line.data
      /\ line'.readAge = line.readAge
  BY <1>2, <1>5, <1>6, <1>7 DEF Link!Line
<1>9. Link!BufferInOrder(line)'
  BY <1>8 DEF Link!LinkIsOrdered, Link!BufferInOrder
<1>10. ASSUME ~line.late PROVE Link!AnswerAwaited(line)'
  <2>1. Link!AnswerAwaited(line)
    BY <1>10 DEF Link!LinkIsOrdered
  <2>2. line.wire = 1
    BY <1>2, <2>1 DEF Link!AnswerAwaited, Link!Line
  <2>3. wire = IF line.half THEN 0 ELSE 1
    BY <2>2 DEF wire
  <2>4. ~line'.early /\ line'.wire <= 1 /\ (line'.half => line'.wire = 1)
    <3>1. ~line'.early
      BY <1>8, <2>1 DEF Link!AnswerAwaited
    <3>2. CASE line.half
      <4>1. line'.half = FALSE /\ line'.wire = 0
        BY <1>8, <2>3, <3>2
      <4> QED BY <3>1, <4>1
    <3>3. CASE ~line.half
      BY <1>8, <2>3, <3>1, <3>3
    <3> QED BY <3>2, <3>3
  <2>5. CASE line.sending
    <3> DEFINE a == Len(line.data)
               b == Len(line.rx)
               c == Len(came)
    <3>1. a \in Nat /\ b \in Nat /\ c \in {0, 1}
      BY <1>2, <1>3, LenProperties DEF Link!Line
    <3>2. Len(line'.data) = a /\ Len(line'.rx) = b + c
      BY <1>4, <1>8 DEF rx
    <3>3. a + b <= IF line.half THEN 1 ELSE 0
      BY <2>1, <2>2, <2>5 DEF Link!AnswerAwaited
    <3> HIDE DEF a, b, c
    <3>4. a + (b + c) <= (IF line'.wire = 0 THEN 2 ELSE IF line'.half THEN 1 ELSE 0)
      <4>1. CASE line.half
        <5>1. line'.wire = 0 /\ a + (b + c) <= 2
          BY <1>8, <2>3, <3>1, <3>3, <4>1
        <5> QED BY <5>1
      <4>2. CASE ~line.half
        <5>1. a + (b + c) <= 1
          BY <3>1, <3>3, <4>2
        <5>2. line'.wire = 1 /\ line'.half
          BY <1>8, <2>3, <4>2
        <5> QED BY <5>1, <5>2
      <4> QED BY <4>1, <4>2
    <3> QED BY <1>8, <2>4, <2>5, <3>2, <3>4 DEF Link!AnswerAwaited
  <2>6. CASE ~line.sending
    <3>1. line.data = <<>> /\ Link!GivenUp(line)
      BY <2>1, <2>2, <2>6 DEF Link!AnswerAwaited
    <3> QED BY <1>8, <2>4, <2>6, <3>1 DEF Link!AnswerAwaited, Link!GivenUp
  <2> QED BY <2>5, <2>6
<1> QED BY <1>2, <1>8, <1>9, <1>10 DEF Link!LinkIsOrdered

LEMMA TickKeepsOrder ==
  ASSUME Link!LinkIsOrdered, Link!Tick
  PROVE  Link!LinkIsOrdered'
<1>1. line \in Link!Line /\ ~Link!GivenUp(line) /\ commands' = commands
      /\ line' = [line EXCEPT !.readAge = line.readAge + 1]
  BY DEF Link!Tick, Link!LinkIsOrdered, Link!Line
<1>2. /\ line' \in Link!Line /\ line'.rx = line.rx /\ line'.half = line.half
      /\ line'.wire = line.wire
      /\ line'.buffer = line.buffer /\ line'.cmdstart = line.cmdstart
      /\ line'.cmdend = line.cmdend /\ line'.cmdnrel = line.cmdnrel
      /\ line'.waiting = line.waiting /\ line'.late = line.late /\ line'.early = line.early
      /\ line'.sending = line.sending /\ line'.data = line.data
  <2> DEFINE older == line.readAge + 1
  <2>1. older \in Nat /\ line' = [line EXCEPT !.readAge = older]
    BY <1>1 DEF Link!Line
  <2> HIDE DEF older
  <2> QED BY <1>1, <2>1 DEF Link!Line
<1>3. Link!BufferInOrder(line)'
  BY <1>2 DEF Link!LinkIsOrdered, Link!BufferInOrder
<1>4. Link!AnswerAwaited(line) => Link!AnswerAwaited(line)'
  BY <1>1, <1>2 DEF Link!AnswerAwaited
<1> QED BY <1>1, <1>2, <1>3, <1>4 DEF Link!LinkIsOrdered

LEMMA LoopKeepsOrder ==
  ASSUME Link!LinkIsOrdered,
         \/ Link!Command \/ Link!Read \/ Link!Pop
         \/ Link!send_optionalpcb_query \/ Link!send_panasonic_query
  PROVE  Link!LinkIsOrdered'
<1>1. /\ line \in Link!Line /\ Link!BufferInOrder(line)
      /\ line.late \/ Link!AnswerAwaited(line)
      /\ commands \in Nat
  BY DEF Link!LinkIsOrdered
<1> DEFINE Ordered(l) == /\ l \in Link!Line /\ Link!BufferInOrder(l)
                         /\ l.late \/ Link!AnswerAwaited(l)
<1>2. \A request \in Int : \A l : Ordered(l) => Ordered(Link!send_command(l, request))
  BY SendKeepsOrder
<1>3. Ordered(line')  => Link!BufferInOrder(line)' /\ (line.late \/ Link!AnswerAwaited(line))'
  BY DEF Link!BufferInOrder, Link!AnswerAwaited, Link!GivenUp
<1>4. Link!Query \in Int /\ Link!Extra \in Int /\ Link!Pcb \in Int
  BY DEF Link!Query, Link!Extra, Link!Pcb
<1>5. commands' \in Nat /\ Ordered(line')
  <2>1. CASE Link!Command
    <3>1. commands' \in Nat /\ commands' \in Int /\ line' = Link!send_command(line, commands')
      BY <1>1, <2>1 DEF Link!Command
    <3> QED BY <1>1, <1>2, <3>1
  <2>2. CASE Link!Read
    BY <1>1, <2>2, ReadKeepsOrder DEF Link!Read
  <2>3. CASE Link!Pop
    <3>1. commands' \in Nat
      BY <1>1, <2>3 DEF Link!Pop
    <3>2. CASE ~line.sending /\ line.cmdnrel > 0
      BY <1>1, <2>3, <3>1, <3>2, PopKeepsOrder DEF Link!Pop
    <3>3. CASE ~(~line.sending /\ line.cmdnrel > 0)
      BY <1>1, <2>3, <3>1, <3>3 DEF Link!Pop
    <3> QED BY <3>2, <3>3
  <2>4. CASE Link!send_optionalpcb_query
    BY <1>1, <1>2, <1>4, <2>4 DEF Link!send_optionalpcb_query
  <2>5. CASE Link!send_panasonic_query
    <3>1. Ordered(Link!send_command(line, Link!Query))
      BY <1>1, <1>2, <1>4
    <3>2. Ordered(Link!send_command(Link!send_command(line, Link!Query), Link!Extra))
      BY <1>2, <1>4, <3>1
    <3> QED BY <1>1, <2>5, <3>1, <3>2 DEF Link!send_panasonic_query
  <2> QED BY <2>1, <2>2, <2>3, <2>4, <2>5
<1> QED BY <1>3, <1>5 DEF Link!LinkIsOrdered

-----------------------------------------------------------------------------
(* Zone 1.                                                                  *)

LEMMA Zone1Steps ==
  ASSUME part = "zone1", [SystemNext]_svars
  PROVE  part' = part /\ [Zone1!Next]_zone1Vars
<1>1. CASE UNCHANGED svars
  BY <1>1 DEF svars, askedVars, zone1Vars
<1>2. CASE SystemNext
  BY <1>2 DEF SystemNext, LineNext, SensorsNext, AskedNext, askedVars, zone1Vars
<1> QED BY <1>1, <1>2

LEMMA Zone1Begins == SystemInit /\ part = "zone1" => Zone1!Init
  BY DEF SystemInit

LEMMA Numbers ==
  /\ Zone1!Requested \subseteq Int /\ 0 \in Zone1!Requested /\ 30 \in Zone1!Requested
  /\ Targets \cup Outsides \subseteq Int
  /\ waterMin \in Int /\ waterMax \in Int /\ 30 \in waterMin .. waterMax
  BY ConnectionsAssumption DEF Zone1!Requested

\* A command joins the others.
LEMMA OneMoreCommand ==
  ASSUME Zone1!CommandsFit, NEW write, Zone1!Enqueue(write),
         [write |-> write, for |-> Zone1!Control(frame)] \in Zone1!Command,
         Zone1!WriteFits([write |-> write, for |-> Zone1!Control(frame)]),
         subject = "request" <=> "request" \in DOMAIN write
  PROVE  /\ queue' \in Seq(Zone1!Command) /\ Len(queue') = Len(queue) + 1
         /\ \A n \in 1 .. Len(queue') :
              /\ Zone1!WriteFits(queue'[n])
              /\ subject = "request" <=> "request" \in DOMAIN queue'[n].write
         /\ queue = <<>> => queue'[1].write = write
<1> DEFINE command == [write |-> write, for |-> Zone1!Control(frame)]
           N == Len(queue)
<1>1. queue' = Append(queue, command) /\ queue \in Seq(Zone1!Command) /\ N \in Nat
  BY LenProperties DEF Zone1!Enqueue, Zone1!CommandsFit
<1>2. command \in Zone1!Command /\ command.write = write /\ Zone1!WriteFits(command)
  OBVIOUS
<1> HIDE DEF command
<1>3. /\ queue' \in Seq(Zone1!Command) /\ Len(queue') = N + 1
      /\ \A n \in 1 .. N : queue'[n] = queue[n]
      /\ queue'[N + 1] = command
  BY <1>1, <1>2, AppendProperties
<1>4. subject \in {"request", "curve"}
  BY DEF Zone1!CommandsFit
<1>5. ASSUME NEW n \in 1 .. Len(queue')
      PROVE  /\ Zone1!WriteFits(queue'[n])
             /\ subject = "request" <=> "request" \in DOMAIN queue'[n].write
  <2>1. CASE n = N + 1
    BY <1>2, <1>3, <2>1
  <2>2. CASE n # N + 1
    <3>1. n \in 1 .. N
      BY <1>1, <1>3, <2>2
    <3> QED BY <1>3, <1>4, <3>1 DEF Zone1!CommandsFit
  <2> QED BY <2>1, <2>2
<1>6. queue = <<>> => queue'[1].write = write
  <2> HAVE queue = <<>>
  <2>1. N + 1 = 1
    OBVIOUS
  <2> QED BY <1>2, <1>3, <2>1
<1> QED BY <1>3, <1>5, <1>6

LEMMA RequestKeepsCommands ==
  ASSUME Zone1!CommandsFit, subject = "request", Zone1!Judged, NEW v \in Zone1!Requested,
         \/ /\ Zone1!ValueValid(frame, v)
            /\ Zone1!Enqueue([request |-> v])
         \/ Zone1!Rejected
  PROVE  Zone1!CommandsFit'
<1>1. UNCHANGED <<subject, patient, pump, frame, age, meant>>
  BY DEF Zone1!Judged
<1>2. CASE Zone1!Rejected
  BY <1>1, <1>2 DEF Zone1!Rejected, Zone1!CommandsFit, Zone1!WriteFits, Zone1!ValueValid,
     Zone1!Semantic, Zone1!RequestFitsItsMeaning, Zone1!PatientCurveIsOrdered,
     Zone1!Control, Zone1!CurveValid, Zone1!Written
<1>3. CASE Zone1!ValueValid(frame, v) /\ Zone1!Enqueue([request |-> v])
  <2> DEFINE command == [write |-> [request |-> v], for |-> Zone1!Control(frame)]
  <2>1. frame.mode \in Zone1!Modes /\ frame.sensor \in Zone1!Sensors
    BY DEF Zone1!CommandsFit, Zone1!Settings
  <2>2. command \in Zone1!Command
    BY <2>1 DEF Zone1!Command, Zone1!Control
  <2>3. Zone1!WriteFits(command)
    BY <1>3, <2>1 DEF Zone1!WriteFits, Zone1!ValueValid, Zone1!Semantic, Zone1!Control
  <2>4. "request" \in DOMAIN [request |-> v]
    OBVIOUS
  <2>5. /\ queue' \in Seq(Zone1!Command)
        /\ \A n \in 1 .. Len(queue') :
             /\ Zone1!WriteFits(queue'[n])
             /\ subject = "request" <=> "request" \in DOMAIN queue'[n].write
    <3> HIDE DEF command
    <3>1. command = [write |-> [request |-> v], for |-> Zone1!Control(frame)]
      BY DEF command
    <3> QED BY <1>3, <2>2, <2>3, <2>4, <3>1, OneMoreCommand
  <2>6. \A n \in 1 .. Len(queue') : Zone1!WriteFits(queue[n])'
    BY <2>5 DEF Zone1!WriteFits, Zone1!ValueValid, Zone1!Semantic
  <2>7. Zone1!RequestFitsItsMeaning' /\ Zone1!PatientCurveIsOrdered'
    BY <1>1 DEF Zone1!CommandsFit, Zone1!ValueValid, Zone1!Semantic, Zone1!Control,
       Zone1!RequestFitsItsMeaning, Zone1!PatientCurveIsOrdered, Zone1!CurveValid
  <2> QED BY <1>1, <2>5, <2>6, <2>7 DEF Zone1!CommandsFit
<1> QED BY <1>2, <1>3

\* What is left out of a curve is what the heat pump has.
LEMMA CurveKeepsCommands ==
  ASSUME Zone1!CommandsFit,
         NEW c \in [Zone1!EndPoints -> Targets \cup Outsides], Zone1!RequestCurve(c)
  PROVE  Zone1!CommandsFit'
<1>1. /\ UNCHANGED <<subject, patient, pump, frame, age, meant>>
      /\ subject = "curve"
  BY DEF Zone1!RequestCurve, Zone1!Judged
<1>2. Zone1!RequestFitsItsMeaning' /\ Zone1!PatientCurveIsOrdered'
  BY <1>1 DEF Zone1!CommandsFit, Zone1!ValueValid, Zone1!Semantic, Zone1!Control,
     Zone1!RequestFitsItsMeaning, Zone1!PatientCurveIsOrdered, Zone1!CurveValid
<1>3. CASE Zone1!Rejected
  BY <1>1, <1>2, <1>3 DEF Zone1!Rejected, Zone1!CommandsFit, Zone1!WriteFits,
     Zone1!ValueValid, Zone1!Semantic, Zone1!CurveValid, Zone1!Written
<1>4. CASE ~Zone1!Rejected
  <2> DEFINE write   == [e \in Zone1!Changes(c) |-> c[e]]
             command == [write |-> write, for |-> Zone1!Control(frame)]
  <2>1. /\ Zone1!CurveValid(c) /\ Zone1!Enqueue(write)
        /\ patient => queue = <<>> /\ frame = pump
    BY <1>4 DEF Zone1!RequestCurve, Zone1!Asks
  <2>2. Zone1!Changes(c) \in SUBSET Zone1!EndPoints
    BY DEF Zone1!Changes
  <2>3. /\ write \in [Zone1!Changes(c) -> Targets \cup Outsides]
        /\ DOMAIN write = Zone1!Changes(c) /\ "request" \notin DOMAIN write
    BY <2>2 DEF Zone1!EndPoints
  <2>4. frame.mode \in Zone1!Modes /\ frame.sensor \in Zone1!Sensors
    BY DEF Zone1!CommandsFit, Zone1!Settings
  <2>5. Zone1!Written(frame.curve, write) = c
    <3>1. c = [e \in Zone1!EndPoints |-> c[e]]
      OBVIOUS
    <3>2. \A e \in Zone1!EndPoints : e \notin Zone1!Changes(c) => frame.curve[e] = c[e]
      BY DEF Zone1!Changes
    <3>3. \A e \in Zone1!EndPoints : e \in Zone1!Changes(c) => write[e] = c[e]
      OBVIOUS
    <3> HIDE DEF write
    <3> QED BY <2>3, <3>1, <3>2, <3>3 DEF Zone1!Written
  <2> HIDE DEF write
  <2>6. command \in Zone1!Command
    BY <2>2, <2>3, <2>4 DEF Zone1!Command, Zone1!Control
  <2>7. Zone1!WriteFits(command)
    BY <2>3 DEF Zone1!WriteFits
  <2>8. subject = "request" <=> "request" \in DOMAIN write
    BY <1>1, <2>3
  <2> HIDE DEF command
  <2>9. command = [write |-> write, for |-> Zone1!Control(frame)]
    BY DEF command
  <2>10. /\ queue' \in Seq(Zone1!Command) /\ Len(queue') = Len(queue) + 1
         /\ \A n \in 1 .. Len(queue') :
              /\ Zone1!WriteFits(queue'[n])
              /\ subject = "request" <=> "request" \in DOMAIN queue'[n].write
         /\ queue = <<>> => queue'[1].write = write
    BY <2>1, <2>6, <2>7, <2>8, <2>9, OneMoreCommand
  <2>11. \A n \in 1 .. Len(queue') : Zone1!WriteFits(queue[n])'
    BY <2>10 DEF Zone1!WriteFits, Zone1!ValueValid, Zone1!Semantic
  <2>12. patient => Len(queue') = 1 /\ Zone1!CurveValid(Zone1!Written(pump.curve, queue'[1].write))
    <3> HAVE patient
    <3>1. queue = <<>> /\ Zone1!Written(pump.curve, queue'[1].write) = c
      BY <2>1, <2>5, <2>10
    <3> QED BY <2>1, <2>10, <3>1
  <2>13. patient => Len(queue') = 1 /\ Zone1!CurveValid(Zone1!Written(pump.curve, queue[1].write))'
    BY <1>1, <2>12 DEF Zone1!CurveValid, Zone1!Written
  <2> QED BY <1>1, <1>2, <2>10, <2>11, <2>13 DEF Zone1!CommandsFit
<1> QED BY <1>3, <1>4

\* What a command writes fits when the zone still means what it was judged by.
LEMMA ExecuteKeepsCommands ==
  ASSUME Zone1!CommandsFit, Zone1!Execute
  PROVE  Zone1!CommandsFit'
<1> DEFINE command == Head(queue)
           w == command.write
           N == Len(queue)
           request == IF "request" \in DOMAIN w THEN w["request"] ELSE pump.request
<1>1. /\ queue \in Seq(Zone1!Command) /\ queue # <<>> /\ pump \in Zone1!Settings
      /\ UNCHANGED <<subject, patient, frame, age>> /\ queue' = Tail(queue)
      /\ meant' = command.for
  BY DEF Zone1!Execute, Zone1!CommandsFit
<1>2. /\ command \in Zone1!Command /\ command = queue[1] /\ N \in Nat /\ N # 0
      /\ Tail(queue) \in Seq(Zone1!Command) /\ Len(Tail(queue)) = N - 1
      /\ \A n \in 1 .. N - 1 : Tail(queue)[n] = queue[n + 1]
  BY <1>1, HeadTailProperties, LenProperties, EmptySeq
<1>3. pump' = [pump EXCEPT !.request = request, !.curve = Zone1!Written(pump.curve, w)]
  BY <1>1 DEF Zone1!Execute, Zone1!Written, Zone1!Settings
<1> HIDE DEF command
<1>4. 1 \in 1 .. N
  BY <1>2
<1>5. Zone1!WriteFits(command) /\ (subject = "request" <=> "request" \in DOMAIN w)
  BY <1>2, <1>4 DEF Zone1!CommandsFit
<1>6. \/ w \in [request : Zone1!Requested]
      \/ \E es \in SUBSET Zone1!EndPoints : w \in [es -> Targets \cup Outsides]
  BY <1>2 DEF Zone1!Command
<1>7. request \in Zone1!Requested
  <2>1. CASE "request" \in DOMAIN w
    BY <1>6, <2>1 DEF Zone1!EndPoints
  <2>2. CASE "request" \notin DOMAIN w
    BY <1>1, <2>2 DEF Zone1!Settings
  <2> QED BY <2>1, <2>2
<1>8. Zone1!Written(pump.curve, w) \in Zone1!Curve
  <2>1. ASSUME NEW e \in Zone1!EndPoints, e \in DOMAIN w
        PROVE  w[e] \in Targets \cup Outsides
    BY <1>6, <2>1 DEF Zone1!EndPoints
  <2>2. \A e \in Zone1!EndPoints : pump.curve[e] \in Targets \cup Outsides \cup {-15, 15, 30}
    BY <1>1 DEF Zone1!Settings, Zone1!Curve
  <2> HIDE DEF w
  <2> QED BY <2>1, <2>2 DEF Zone1!Written, Zone1!Curve
<1> HIDE DEF request
<1>9. /\ pump' \in Zone1!Settings /\ pump'.mode = pump.mode /\ pump'.sensor = pump.sensor
      /\ pump'.request = request /\ pump'.curve = Zone1!Written(pump.curve, w)
  BY <1>1, <1>3, <1>7, <1>8 DEF Zone1!Settings
<1>10. meant' \in Zone1!Modes \X Zone1!Sensors
  BY <1>1, <1>2 DEF Zone1!Command
<1>11. ASSUME NEW n \in 1 .. Len(queue')
       PROVE  /\ Zone1!WriteFits(queue'[n])
              /\ subject = "request" <=> "request" \in DOMAIN queue'[n].write
  <2>1. n + 1 \in 1 .. N /\ queue'[n] = queue[n + 1]
    BY <1>1, <1>2
  <2> QED BY <2>1 DEF Zone1!CommandsFit
<1>12. \A n \in 1 .. Len(queue') : Zone1!WriteFits(queue[n])'
  BY <1>11 DEF Zone1!WriteFits, Zone1!ValueValid, Zone1!Semantic
<1>13. Zone1!RequestFitsItsMeaning'
  <2> SUFFICES ASSUME meant' = <<pump.mode, pump.sensor>>
               PROVE  Zone1!ValueValid(pump, request)
    BY <1>9 DEF Zone1!RequestFitsItsMeaning, Zone1!Control, Zone1!ValueValid, Zone1!Semantic
  <2>1. CASE "request" \in DOMAIN w
    <3>1. request = w["request"] /\ command.for[1] = pump.mode /\ command.for[2] = pump.sensor
      BY <1>1, <2>1 DEF request
    <3>2. Zone1!ValueValid([mode |-> command.for[1], sensor |-> command.for[2]], w["request"])
      BY <1>5, <2>1 DEF Zone1!WriteFits
    <3> QED BY <3>1, <3>2 DEF Zone1!ValueValid, Zone1!Semantic
  <2>2. CASE "request" \notin DOMAIN w
    <3>1. subject = "curve" /\ request = pump.request
      BY <1>5, <2>2 DEF request, Zone1!CommandsFit
    <3>2. pump.mode = 0 /\ pump.sensor = 0 /\ pump.request = 0
      BY <3>1 DEF Zone1!CommandsFit
    <3> QED BY <3>1, <3>2 DEF Zone1!ValueValid, Zone1!Semantic
  <2> QED BY <2>1, <2>2
<1>14. ASSUME subject = "curve", patient
       PROVE  queue' = <<>> /\ Zone1!CurveValid(Zone1!Written(pump.curve, w))
  <2>1. Len(queue) = 1 /\ Zone1!CurveValid(Zone1!Written(pump.curve, queue[1].write))
    BY <1>1, <1>14 DEF Zone1!CommandsFit
  <2>2. Len(Tail(queue)) = 0
    BY <1>2, <2>1
  <2> QED BY <1>1, <1>2, <2>1, <2>2, EmptySeq
<1>15. Zone1!PatientCurveIsOrdered'
  BY <1>1, <1>9, <1>14 DEF Zone1!PatientCurveIsOrdered, Zone1!CurveValid
<1>16. ASSUME subject = "curve"
       PROVE  pump'.mode = 0 /\ pump'.sensor = 0 /\ pump'.request = 0
  <2>1. request = pump.request
    BY <1>5, <1>16 DEF request
  <2> QED BY <1>9, <1>16, <2>1 DEF Zone1!CommandsFit
<1>17. queue' \in Seq(Zone1!Command) /\ subject' \in {"request", "curve"}
       /\ frame' \in Zone1!Settings
  BY <1>1, <1>2 DEF Zone1!CommandsFit
<1>18. subject' = "curve" /\ patient' /\ queue' # <<>> => FALSE
  BY <1>1, <1>14
<1>19. IF subject' = "request" THEN \A n \in 1 .. Len(queue') : "request" \in DOMAIN queue'[n].write
       ELSE /\ \A s \in {pump', frame'} : s.mode = 0 /\ s.sensor = 0 /\ s.request = 0
            /\ \A n \in 1 .. Len(queue') : "request" \notin DOMAIN queue'[n].write
  BY <1>1, <1>11, <1>16 DEF Zone1!CommandsFit
<1> QED BY <1>9, <1>10, <1>12, <1>13, <1>15, <1>17, <1>18, <1>19 DEF Zone1!CommandsFit

\* The heat pump has a value for every mode that someone chooses on the panel.
LEMMA PanelKeepsCommands ==
  ASSUME Zone1!CommandsFit, NEW mode \in Zone1!Modes, NEW sensor \in Zone1!Sensors,
         Zone1!Panel(mode, sensor)
  PROVE  Zone1!CommandsFit'
<1> DEFINE s == [pump EXCEPT !.mode = mode, !.sensor = sensor]
           request == IF Zone1!Semantic(s).type = "shift" THEN 0 ELSE 30
<1>1. /\ subject = "request" /\ UNCHANGED <<subject, patient, frame, age, queue>>
      /\ pump' = [s EXCEPT !.request = request] /\ meant' = <<mode, sensor>>
      /\ pump \in Zone1!Settings
  BY DEF Zone1!Panel, Zone1!CommandsFit
<1>2. s \in Zone1!Settings /\ s.mode = mode /\ s.sensor = sensor
  BY <1>1 DEF Zone1!Settings
<1> HIDE DEF s
<1>3. request \in {0, 30} /\ request \in Zone1!Requested
  BY Numbers
<1>4. request \in Zone1!Semantic(s).min .. Zone1!Semantic(s).max
  <2>1. mode \in {0, 1} /\ sensor \in {0, 1}
    BY DEF Zone1!Modes, Zone1!Sensors
  <2>2. CASE sensor # 0
    BY <1>2, <2>2 DEF Zone1!Semantic
  <2>3. CASE sensor = 0 /\ mode = 0
    BY <1>2, <2>3 DEF Zone1!Semantic
  <2>4. CASE sensor = 0 /\ mode # 0
    BY <1>2, <2>4, Numbers DEF Zone1!Semantic
  <2> QED BY <2>2, <2>3, <2>4
<1> HIDE DEF request
<1>5. /\ pump' \in Zone1!Settings /\ pump'.request = request
      /\ pump'.mode = mode /\ pump'.sensor = sensor
  BY <1>1, <1>2, <1>3 DEF Zone1!Settings
<1>6. Zone1!RequestFitsItsMeaning'
  BY <1>2, <1>4, <1>5 DEF Zone1!RequestFitsItsMeaning, Zone1!ValueValid, Zone1!Semantic
<1>7. meant' \in Zone1!Modes \X Zone1!Sensors
  BY <1>1
<1>8. \A n \in 1 .. Len(queue') : Zone1!WriteFits(queue[n])'
  BY <1>1 DEF Zone1!CommandsFit, Zone1!WriteFits, Zone1!ValueValid, Zone1!Semantic
<1>9. subject' = "request"
  BY <1>1
<1> QED BY <1>1, <1>5, <1>6, <1>7, <1>8, <1>9 DEF Zone1!CommandsFit, Zone1!PatientCurveIsOrdered

\* A frame is the settings of the heat pump, and grows old.
LEMMA FramesKeepCommands ==
  ASSUME Zone1!CommandsFit, Zone1!ReadData \/ Zone1!Tick \/ UNCHANGED zone1Vars
  PROVE  Zone1!CommandsFit'
<1>1. UNCHANGED <<subject, patient, pump, queue, meant>> /\ frame' \in {pump, frame}
  BY DEF Zone1!ReadData, Zone1!Tick, zone1Vars
<1>2. \A n \in 1 .. Len(queue) : Zone1!WriteFits(queue[n]) => Zone1!WriteFits(queue[n])'
  BY <1>1 DEF Zone1!WriteFits, Zone1!ValueValid, Zone1!Semantic
<1>3. Zone1!RequestFitsItsMeaning' /\ Zone1!PatientCurveIsOrdered'
  BY <1>1 DEF Zone1!CommandsFit, Zone1!ValueValid, Zone1!Semantic, Zone1!Control,
     Zone1!RequestFitsItsMeaning, Zone1!PatientCurveIsOrdered, Zone1!CurveValid
<1>4. subject = "curve" /\ patient /\ queue # <<>> =>
        Len(queue) = 1 /\ Zone1!CurveValid(Zone1!Written(pump.curve, queue[1].write))'
  BY <1>1 DEF Zone1!CommandsFit, Zone1!CurveValid, Zone1!Written
<1> QED BY <1>1, <1>2, <1>3, <1>4 DEF Zone1!CommandsFit

LEMMA Zone1Keeps ==
  ASSUME Zone1!CommandsFit, Zone1!Next
  PROVE  Zone1!CommandsFit'
<1>1. ASSUME NEW v \in WaterValues, Zone1!RequestTarget("water", v)
      PROVE  Zone1!CommandsFit'
  BY <1>1, RequestKeepsCommands DEF Zone1!RequestTarget, Zone1!Takes, Zone1!Requested
<1>2. ASSUME NEW v \in RoomValues, Zone1!RequestTarget("room", v)
      PROVE  Zone1!CommandsFit'
  BY <1>2, RequestKeepsCommands DEF Zone1!RequestTarget, Zone1!Takes, Zone1!Requested
<1>3. ASSUME NEW v \in ShiftValues, Zone1!RequestShift(v)
      PROVE  Zone1!CommandsFit'
  <2>1. v \in -5 .. 5 /\ Zone1!ShiftAvailable => Zone1!ValueValid(frame, v)
    BY DEF Zone1!ShiftAvailable, Zone1!ValueValid, Zone1!Semantic
  <2> QED BY <1>3, <2>1, RequestKeepsCommands DEF Zone1!RequestShift, Zone1!Requested
<1>4. ASSUME NEW tc \in Targets, NEW tw \in Targets, NEW oc \in Outsides, NEW ow \in Outsides,
             Zone1!RequestCurve([e \in Zone1!EndPoints |->
               CASE e = "targetAtCold" -> tc [] e = "targetAtWarm" -> tw
                 [] e = "outsideCold" -> oc [] OTHER -> ow])
      PROVE  Zone1!CommandsFit'
  <2> DEFINE c == [e \in Zone1!EndPoints |->
                     CASE e = "targetAtCold" -> tc [] e = "targetAtWarm" -> tw
                       [] e = "outsideCold" -> oc [] OTHER -> ow]
  <2>1. c \in [Zone1!EndPoints -> Targets \cup Outsides]
    BY DEF Zone1!EndPoints
  <2>2. Zone1!RequestCurve(c)
    BY <1>4
  <2> HIDE DEF c
  <2> QED BY <2>1, <2>2, CurveKeepsCommands
<1> QED BY <1>1, <1>2, <1>3, <1>4, PanelKeepsCommands, ExecuteKeepsCommands,
           FramesKeepCommands DEF Zone1!Next

Zone1Kept == part = "zone1" => Zone1!CommandsFit
LinkKept  == part = "link" => Link!LinkIsOrdered

\* RequestsFit, for all ranges, curves and queues: TOP27 holds a value of what it means as long
\* as the panel leaves the mode alone, a curve asked for while nothing is under way arrives
\* ordered, and the buffer of the ESP8266 is a queue whose requests are written one at a time.
THEOREM RequestsAlwaysFit == SystemSpec => []RequestsFit
<1>1. SystemInit => Zone1Kept
  <2> SUFFICES ASSUME SystemInit, part = "zone1" PROVE Zone1!CommandsFit
    BY DEF Zone1Kept
  <2>1. Zone1!Init
    BY Zone1Begins
  <2> DEFINE curve == [e \in Zone1!EndPoints |->
                         CASE e = "outsideCold" -> -15 [] e = "outsideWarm" -> 15 [] OTHER -> 30]
  <2>2. curve \in Zone1!Curve /\ Zone1!CurveValid(curve)
    BY DEF Zone1!Curve, Zone1!CurveValid, Zone1!EndPoints
  <2>3. pump = [mode |-> 0, sensor |-> 0, request |-> 0, curve |-> curve]
    BY <2>1 DEF Zone1!Init
  <2> HIDE DEF curve
  <2>4. pump \in Zone1!Settings /\ frame \in Zone1!Settings /\ frame = pump
    BY <2>1, <2>2, <2>3, Numbers DEF Zone1!Init, Zone1!Settings, Zone1!Modes, Zone1!Sensors
  <2>5. meant = <<0, 0>> /\ meant \in Zone1!Modes \X Zone1!Sensors
    BY <2>1, <2>3 DEF Zone1!Init, Zone1!Control, Zone1!Modes, Zone1!Sensors
  <2>6. queue = <<>> /\ queue \in Seq(Zone1!Command) /\ Len(queue) = 0
        /\ subject \in {"request", "curve"}
    BY <2>1 DEF Zone1!Init
  <2>7. Zone1!RequestFitsItsMeaning /\ Zone1!PatientCurveIsOrdered
    BY <2>2, <2>3 DEF Zone1!RequestFitsItsMeaning, Zone1!PatientCurveIsOrdered,
       Zone1!ValueValid, Zone1!Semantic
  <2> QED BY <2>3, <2>4, <2>5, <2>6, <2>7 DEF Zone1!CommandsFit
<1>2. SystemInit => LinkKept
  <2> SUFFICES ASSUME SystemInit, part = "link" PROVE Link!LinkIsOrdered
    BY DEF LinkKept
  <2>1. Link!LinkInit
    BY LinkBegins
  <2>2. MAXCOMMANDSINBUFFER \in Nat \ {0} /\ 0 \in Link!Slots /\ 0 % MAXCOMMANDSINBUFFER = 0
    BY ConnectionsAssumption DEF Link!Slots
  <2>3. <<>> \in Seq(Link!Part) /\ <<>> \in Seq(Int) /\ Len(<<>>) = 0
    OBVIOUS
  <2>4. [k \in Link!Slots |-> Link!Query] \in [Link!Slots -> Int]
    BY DEF Link!Query
  <2>5. line \in Link!Line /\ commands \in Nat
    BY <2>1, <2>2, <2>3, <2>4 DEF Link!LinkInit, Link!Line
  <2>6. Link!BufferInOrder(line)
    BY <2>1, <2>2, <2>3 DEF Link!LinkInit, Link!BufferInOrder
  <2>7. Link!AnswerAwaited(line)
    BY <2>1, <2>2, <2>3 DEF Link!LinkInit, Link!AnswerAwaited
  <2> QED BY <2>5, <2>6, <2>7 DEF Link!LinkIsOrdered
<1>3. Zone1Kept /\ [SystemNext]_svars => Zone1Kept'
  <2> SUFFICES ASSUME Zone1Kept, [SystemNext]_svars, part' = "zone1"
               PROVE  Zone1!CommandsFit'
    BY DEF Zone1Kept
  <2>1. part' = part
    BY DEF SystemNext, svars
  <2>2. Zone1!CommandsFit /\ [Zone1!Next]_zone1Vars
    BY <2>1, Zone1Steps DEF Zone1Kept
  <2> QED BY <2>2, Zone1Keeps, FramesKeepCommands
<1>4. LinkKept /\ [SystemNext]_svars => LinkKept'
  <2> SUFFICES ASSUME LinkKept, [SystemNext]_svars, part' = "link"
               PROVE  Link!LinkIsOrdered'
    BY DEF LinkKept
  <2>1. part' = part
    BY DEF SystemNext, svars
  <2>2. Link!LinkIsOrdered /\ [Link!LinkNext]_linkVars
    BY <2>1, LinkSteps DEF LinkKept
  <2>3. CASE UNCHANGED linkVars
    BY <2>2, <2>3 DEF linkVars, Link!LinkIsOrdered, Link!BufferInOrder, Link!AnswerAwaited,
       Link!GivenUp
  <2>4. CASE Link!LinkNext
    BY <2>2, <2>4, LoopKeepsOrder, TickKeepsOrder, AnswerKeepsOrder DEF Link!LinkNext
  <2> QED BY <2>2, <2>3, <2>4
<1>5. Zone1Kept /\ LinkKept => RequestsFit
  <2>1. Zone1!CommandsFit => Zone1!RequestFitsItsMeaning /\ Zone1!PatientCurveIsOrdered
    BY DEF Zone1!CommandsFit
  <2>2. Link!LinkIsOrdered => Link!BufferIsQueue /\ Link!OneRequestAtATime
    BY DEF Link!LinkIsOrdered, Link!BufferInOrder, Link!BufferIsQueue, Link!OneRequestAtATime,
       Link!AnswerAwaited
  <2> QED BY <2>1, <2>2 DEF Zone1Kept, LinkKept, RequestsFit
<1> QED BY <1>1, <1>2, <1>3, <1>4, <1>5, PTL DEF SystemSpec

-----------------------------------------------------------------------------
(* The S0 meters: the power.                                                *)

LEMMA PowerSteps ==
  ASSUME part = "power", [SystemNext]_svars
  PROVE  part' = part /\ [Power!PowerNext]_powerVars
<1>1. CASE UNCHANGED svars
  BY <1>1 DEF svars, heldVars, powerVars
<1>2. CASE SystemNext
  BY <1>2 DEF SystemNext, LineNext, SensorsNext, AskedNext, heldVars, powerVars
<1> QED BY <1>1, <1>2

LEMMA PowerBegins == SystemInit /\ part = "power" => Power!PowerInit
  BY DEF SystemInit

\* One tick later, any time is one tick further away.
LEMMA OneTickLater ==
  ASSUME NEW r \in Nat \ {0}, NEW a \in 0 .. r - 1, NEW b \in 0 .. r - 1
  PROVE  /\ (a + 1) % r \in 0 .. r - 1
         /\ (a - b) % r \in 0 .. r - 1
         /\ (a - a) % r = 0
         /\ ((a - b) % r) + 1 < r => (((a + 1) % r) - b) % r = ((a - b) % r) + 1
<1>1. (a - b) % r = (IF b <= a THEN a - b ELSE a - b + r)
  OBVIOUS
<1>2. (a + 1) % r = (IF a + 1 < r THEN a + 1 ELSE 0)
  OBVIOUS
<1> DEFINE c == (a + 1) % r
<1>3. c \in 0 .. r - 1 /\ c = (IF a + 1 < r THEN a + 1 ELSE 0)
  BY <1>2
<1> HIDE DEF c
<1>4. (c - b) % r = (IF b <= c THEN c - b ELSE c - b + r)
  BY <1>3
<1>5. (a - a) % r = 0
  OBVIOUS
<1> QED BY <1>1, <1>3, <1>4, <1>5 DEF c

\* Power is a natural number.
LEMMA PowerOfInterval ==
  ASSUME NEW interval \in Nat \ {0}
  PROVE  Power!Watts(interval) \in Nat
  BY ConnectionsAssumption DEF Power!Watts

\* A report brings down what is too much, to twice what is possible at most.
LEMMA ReportIsPossible ==
  ASSUME watt \in Nat, NEW possible \in Nat
  PROVE  /\ Power!BroughtDown(possible) \in Nat
         /\ Power!BroughtDown(possible) <= 2 * possible + 1
  BY DEF Power!BroughtDown

PowerKept == part = "power" => Power!MeterIsRegular /\ Power!PowerIsPossible

LEMMA MeterTicks ==
  ASSUME Power!MeterIsRegular, Power!PowerIsPossible, Power!Tick
  PROVE  Power!MeterIsRegular' /\ Power!PowerIsPossible'
<1>1. /\ Wrap \in Nat \ {0} /\ PulseWidth \in Nat \ {0} /\ Gap \in Nat \ {0}
      /\ MinWidth \in Nat /\ MaxWidth \in Nat
      /\ PulseWidth + Gap < Wrap /\ PulseWidth \in MinWidth .. MaxWidth
  BY ConnectionsAssumption
<1>2. /\ now \in 0 .. Wrap - 1 /\ lastEdge \in 0 .. Wrap - 1 /\ lastPulse \in 0 .. Wrap - 1
      /\ thisLoop \in Power!Times \cup {Power!Idle}
      /\ running \in BOOLEAN /\ level \in BOOLEAN /\ badEdge \in BOOLEAN /\ watt \in Nat
  BY DEF Power!MeterIsRegular, Power!Times
<1>3. now' = (now + 1) % Wrap /\ now' \in 0 .. Wrap - 1
  BY <1>1, <1>2, OneTickLater DEF Power!Tick
<1>4. ASSUME NEW past \in 0 .. Wrap - 1, Power!Minus(now, past) + 1 < Wrap
      PROVE  Power!Minus(now', past) = Power!Minus(now, past) + 1
  BY <1>1, <1>2, <1>3, <1>4, OneTickLater DEF Power!Minus
<1>5. Power!Minus(now', now') = 0
  BY <1>1, <1>3, OneTickLater DEF Power!Minus
<1>6. UNCHANGED <<running, thisLoop, reported>>
  BY DEF Power!Tick
<1>7. level => /\ running /\ edgeIn \in 1 .. PulseWidth
               /\ Power!Minus(now, lastEdge) = PulseWidth - edgeIn
               /\ (lastPulse > 0 => Power!Minus(now, lastPulse) \in
                                      {PulseWidth - edgeIn, Gap + PulseWidth - edgeIn})
  BY DEF Power!MeterIsRegular
<1>8. ~level => ~badEdge /\ edgeIn \in 1 .. Gap
  BY DEF Power!MeterIsRegular
<1>9. ~level /\ running /\ lastPulse > 0 => Power!Minus(now, lastPulse) = Gap - edgeIn
  BY DEF Power!MeterIsRegular
<1>10. badPulses = 0 /\ reported.watt <= 2 * reported.possible + 1
  BY DEF Power!PowerIsPossible
\* No edge.
<1>11. CASE ~(running /\ edgeIn = 1)
  <2>1. /\ edgeIn' = IF running THEN edgeIn - 1 ELSE edgeIn
        /\ UNCHANGED <<level, lastEdge, badEdge, badPulses, lastPulse, watt, nextReport>>
    BY <1>11 DEF Power!Tick
  <2>2. /\ {now, lastEdge, lastPulse}' \subseteq Power!Times'
        /\ thisLoop' \in (Power!Times \cup {Power!Idle})'
        /\ {running, level, badEdge}' \subseteq BOOLEAN /\ watt' \in Nat
    BY <1>2, <1>3, <1>6, <2>1 DEF Power!Times, Power!Idle
  <2>3. CASE level
    <3>1. running /\ edgeIn' = edgeIn - 1 /\ edgeIn \in 2 .. PulseWidth
      BY <1>1, <1>7, <1>11, <2>1, <2>3
    <3>2. Power!Minus(now', lastEdge) = PulseWidth - edgeIn'
      BY <1>1, <1>2, <1>4, <1>7, <2>3, <3>1
    <3>3. ASSUME lastPulse > 0
          PROVE  Power!Minus(now', lastPulse) \in
                   {PulseWidth - edgeIn', Gap + PulseWidth - edgeIn'}
      BY <1>1, <1>2, <1>4, <1>7, <2>3, <3>1, <3>3
    <3>4. level' /\ running' /\ edgeIn' \in 1 .. PulseWidth
      BY <1>1, <1>6, <2>1, <2>3, <3>1
    <3> QED BY <1>6, <1>10, <2>1, <2>2, <3>2, <3>3, <3>4
            DEF Power!MeterIsRegular, Power!PowerIsPossible, Power!Minus
  <2>4. CASE ~level
    <3>1. ~level' /\ ~badEdge' /\ edgeIn' \in 1 .. Gap
      BY <1>1, <1>8, <1>11, <2>1, <2>4
    <3>2. ASSUME running, lastPulse > 0
          PROVE  Power!Minus(now', lastPulse) = Gap - edgeIn'
      <4>1. Power!Minus(now, lastPulse) = Gap - edgeIn /\ edgeIn \in 1 .. Gap
            /\ edgeIn' = edgeIn - 1
        BY <1>8, <1>9, <2>1, <2>4, <3>2
      <4> QED BY <1>1, <1>2, <1>4, <4>1
    <3> QED BY <1>6, <1>10, <2>1, <2>2, <3>1, <3>2
            DEF Power!MeterIsRegular, Power!PowerIsPossible, Power!Minus
  <2> QED BY <1>2, <2>3, <2>4
\* An edge that begins a pulse.
<1>12. CASE running /\ edgeIn = 1
  <2>1. /\ Power!countPulse(now') /\ lastEdge' = now' /\ level' = ~level
        /\ edgeIn' = IF level THEN Gap ELSE PulseWidth
    BY <1>12 DEF Power!Tick
  <2> DEFINE since == Power!Minus(now', lastPulse)
             width == Power!Minus(now', lastEdge)
  <2>2. lastPulse > 0 => since \in Nat \ {0}
    <3>1. ASSUME level, lastPulse > 0
          PROVE  since \in {PulseWidth, Gap + PulseWidth}
      BY <1>1, <1>2, <1>4, <1>7, <1>12, <3>1
    <3>2. ASSUME ~level, lastPulse > 0
          PROVE  since = Gap
      BY <1>1, <1>2, <1>4, <1>9, <1>12, <3>2
    <3> QED BY <1>1, <1>2, <3>1, <3>2
  <2>3. lastPulse > 0 => Power!Watts(since) \in Nat
    BY <2>2, PowerOfInterval
  <2>4. level => width \in MinWidth .. MaxWidth
    <3> SUFFICES ASSUME level PROVE width = PulseWidth
      BY <1>1
    <3> QED BY <1>1, <1>2, <1>4, <1>7, <1>12
  <2>5. CASE width \in MinWidth .. MaxWidth
    <3>1. /\ watt' \in Nat /\ lastPulse' = now' /\ badEdge' = FALSE /\ badPulses' = 0
      BY <1>2, <1>10, <2>1, <2>3, <2>5 DEF Power!countPulse
    <3>2. /\ {now, lastEdge, lastPulse}' \subseteq Power!Times'
          /\ thisLoop' \in (Power!Times \cup {Power!Idle})'
          /\ {running, level, badEdge}' \subseteq BOOLEAN
      BY <1>2, <1>3, <1>6, <2>1, <3>1 DEF Power!Times, Power!Idle
    <3>3. level' => /\ running' /\ edgeIn' \in 1 .. PulseWidth
                    /\ Power!Minus(now', lastEdge') = PulseWidth - edgeIn'
                    /\ Power!Minus(now', lastPulse') = PulseWidth - edgeIn'
      <4>1. Power!Minus(now', lastEdge') = 0 /\ Power!Minus(now', lastPulse') = 0
        BY <1>5, <2>1, <3>1, Zenon
      <4>2. level' => running' /\ edgeIn' = PulseWidth
        BY <1>2, <1>6, <1>12, <2>1
      <4> QED BY <1>1, <4>1, <4>2
    <3>4. ~level' => /\ ~badEdge' /\ edgeIn' \in 1 .. Gap
                     /\ Power!Minus(now', lastPulse') = Gap - edgeIn'
      <4>1. Power!Minus(now', lastPulse') = 0
        BY <1>5, <3>1, Zenon
      <4>2. ~level' => ~badEdge' /\ edgeIn' = Gap
        BY <1>2, <2>1, <3>1
      <4> QED BY <1>1, <4>1, <4>2
    <3> QED BY <1>6, <1>10, <3>1, <3>2, <3>3, <3>4
            DEF Power!MeterIsRegular, Power!PowerIsPossible, Power!Minus
  <2>6. CASE ~(width \in MinWidth .. MaxWidth)
    <3>1. ~level
      BY <2>4, <2>6
    <3>2. /\ watt' \in Nat /\ lastPulse' = lastPulse /\ badEdge' = TRUE /\ badPulses' = 0
      BY <1>2, <1>8, <1>10, <2>1, <2>6, <3>1 DEF Power!countPulse
    <3>3. /\ {now, lastEdge, lastPulse}' \subseteq Power!Times'
          /\ thisLoop' \in (Power!Times \cup {Power!Idle})'
          /\ {running, level, badEdge}' \subseteq BOOLEAN
      BY <1>2, <1>3, <1>6, <2>1, <3>2 DEF Power!Times, Power!Idle
    <3>4. /\ level' /\ running' /\ edgeIn' \in 1 .. PulseWidth /\ edgeIn' = PulseWidth
          /\ Power!Minus(now', lastEdge') = PulseWidth - edgeIn'
      <4>1. Power!Minus(now', lastEdge') = 0
        BY <1>5, <2>1, Zenon
      <4>2. level' /\ running' /\ edgeIn' = PulseWidth
        BY <1>2, <1>6, <1>12, <2>1, <3>1
      <4> QED BY <1>1, <4>1, <4>2
    <3>5. lastPulse' > 0 => Power!Minus(now', lastPulse') = Gap + PulseWidth - edgeIn'
      <4> SUFFICES ASSUME lastPulse > 0 PROVE since = Gap
        BY <1>1, <3>2, <3>4
      <4> QED BY <1>1, <1>2, <1>4, <1>9, <1>12, <3>1
    <3> QED BY <1>6, <1>10, <3>2, <3>3, <3>4, <3>5
            DEF Power!MeterIsRegular, Power!PowerIsPossible, Power!Minus
  <2> QED BY <2>5, <2>6
<1> QED BY <1>11, <1>12

LEMMA MeterReports ==
  ASSUME Power!MeterIsRegular, Power!PowerIsPossible, Power!Report
  PROVE  Power!MeterIsRegular' /\ Power!PowerIsPossible'
<1>1. PICK possible \in Power!calcMaxWatt :
        /\ watt' = Power!BroughtDown(possible)
        /\ reported' = [watt |-> watt', possible |-> possible]
  BY DEF Power!Report
<1>2. watt \in Nat /\ badPulses = 0
  BY DEF Power!MeterIsRegular, Power!PowerIsPossible
<1>3. possible \in Nat
  <2>1. thisLoop \in 0 .. Wrap - 1 /\ lastPulse \in 0 .. Wrap - 1 /\ Wrap \in Nat \ {0}
        /\ Scale \in Nat
    BY ConnectionsAssumption
       DEF Power!MeterIsRegular, Power!Times, Power!Report, Power!Idle
  <2>2. Power!Minus(thisLoop, lastPulse) \in Nat
    BY <2>1, OneTickLater DEF Power!Minus
  <2> QED BY <2>1, <2>2, PowerOfInterval DEF Power!calcMaxWatt
<1>4. watt' \in Nat /\ watt' <= 2 * possible + 1
  BY <1>1, <1>2, <1>3, ReportIsPossible
<1>5. /\ thisLoop' = Power!Idle
      /\ UNCHANGED <<now, running, edgeIn, level, lastEdge, badEdge, badPulses, lastPulse>>
  BY DEF Power!Report
<1>6. Power!PowerIsPossible'
  BY <1>1, <1>2, <1>4, <1>5 DEF Power!PowerIsPossible
<1>7. Power!MeterIsRegular'
  BY <1>4, <1>5 DEF Power!MeterIsRegular, Power!Times, Power!Minus
<1> QED BY <1>6, <1>7

\* No report of an S0 meter claims more than twice the power that is possible without a pulse
\* since the last one, and no clean pulse is counted as a bad one: for any meter whose pulses
\* are of an accepted width, at any wrap of millis() and whenever the interrupt comes.
THEOREM PowerStaysPossible == SystemSpec => [](part = "power" => Power!PowerIsPossible)
<1>1. SystemInit => PowerKept
  <2> SUFFICES ASSUME SystemInit, part = "power"
               PROVE  Power!MeterIsRegular /\ Power!PowerIsPossible
    BY DEF PowerKept
  <2>1. Power!PowerInit
    BY PowerBegins
  <2>2. Wrap \in Nat \ {0} /\ Gap \in Nat \ {0} /\ 0 \in Power!Times
    BY ConnectionsAssumption DEF Power!Times
  <2>3. /\ now = 0 /\ lastEdge = 0 /\ lastPulse = 0 /\ thisLoop = Power!Idle /\ watt = 0
        /\ running = TRUE /\ level = FALSE /\ badEdge = FALSE /\ edgeIn = Gap
    BY <2>1 DEF Power!PowerInit
  <2>4. /\ {now, lastEdge, lastPulse} \subseteq Power!Times
        /\ thisLoop \in Power!Times \cup {Power!Idle}
        /\ {running, level, badEdge} \subseteq BOOLEAN /\ watt \in Nat
    BY <2>2, <2>3
  <2>5. ~level /\ ~badEdge /\ edgeIn \in 1 .. Gap /\ ~(lastPulse > 0)
    BY <2>2, <2>3
  <2>6. Power!MeterIsRegular
    BY <2>4, <2>5 DEF Power!MeterIsRegular
  <2> QED BY <2>1, <2>6 DEF Power!PowerInit, Power!PowerIsPossible
<1>2. PowerKept /\ [SystemNext]_svars => PowerKept'
  <2> SUFFICES ASSUME PowerKept, [SystemNext]_svars, part' = "power"
               PROVE  Power!MeterIsRegular' /\ Power!PowerIsPossible'
    BY DEF PowerKept
  <2>1. part' = part
    BY DEF SystemNext, svars
  <2>2. Power!MeterIsRegular /\ Power!PowerIsPossible /\ [Power!PowerNext]_powerVars
    BY <2>1, PowerSteps DEF PowerKept
  <2>3. CASE UNCHANGED powerVars
    BY <2>2, <2>3 DEF powerVars, Power!MeterIsRegular, Power!PowerIsPossible, Power!Times,
       Power!Minus
  <2>4. CASE Power!Stop
    BY <2>2, <2>4 DEF Power!Stop, Power!MeterIsRegular, Power!PowerIsPossible, Power!Times,
       Power!Minus
  <2>5. CASE Power!Begin
    BY <2>2, <2>5 DEF Power!Begin, Power!MeterIsRegular, Power!PowerIsPossible, Power!Times,
       Power!Minus
  <2> QED BY <2>2, <2>3, <2>4, <2>5, MeterTicks, MeterReports DEF Power!PowerNext
<1>3. PowerKept => (part = "power" => Power!PowerIsPossible)
  BY DEF PowerKept
<1> QED BY <1>1, <1>2, <1>3, PTL DEF SystemSpec

-----------------------------------------------------------------------------
(* The S0 meters: the energy.                                               *)

LEMMA EnergySteps ==
  ASSUME part = "energy", [SystemNext]_svars
  PROVE  part' = part /\ [Energy!EnergyNext]_energyVars
<1>1. CASE UNCHANGED svars
  BY <1>1 DEF svars, heldVars, energyVars
<1>2. CASE SystemNext
  BY <1>2 DEF SystemNext, LineNext, SensorsNext, AskedNext, heldVars, energyVars
<1> QED BY <1>1, <1>2

LEMMA EnergyBegins == SystemInit /\ part = "energy" => Energy!EnergyInit
  BY DEF SystemInit

PulsesKept == Energy!ReportIsPart /\ Energy!EnergyAddsUp
EnergyKept == part = "energy" => PulsesKept

LEMMA PulseKeeps ==
  ASSUME PulsesKept, Energy!countPulse \/ Energy!ReadCounters
  PROVE  PulsesKept'
<1>1. CASE Energy!countPulse
  <2>1. /\ pulses \in Nat /\ pulsesTotal \in Nat /\ counted \in Nat /\ sent \in Nat
        /\ raced \in Nat /\ known \in Nat /\ s0_retained \in Nat /\ breaks \in Nat
        /\ boots \in Nat
    BY DEF PulsesKept, Energy!ReportIsPart
  <2>2. /\ counted' = counted + 1 /\ pulses' = pulses + 1 /\ pulsesTotal' = pulsesTotal + 1
        /\ raced' = (IF report # Energy!None THEN raced + 1 ELSE raced)
        /\ UNCHANGED <<report, connected, inbox, s0_retained, known, boots, breaks, sent>>
    BY <1>1 DEF Energy!countPulse, Energy!Broker
  <2>3. /\ sent' + pulses' + raced' >= counted' /\ sent' + pulses' <= counted'
        /\ pulsesTotal' >= counted'
    <3>1. /\ sent + pulses + raced >= counted /\ sent + pulses <= counted
          /\ pulsesTotal >= counted
      BY DEF PulsesKept, Energy!EnergyAddsUp
    <3> QED BY <2>1, <2>2, <3>1
  <2>4. ASSUME report # Energy!None
        PROVE  /\ report \in [pulses : Nat, total : Nat]
               /\ report.pulses <= pulses' /\ report.total <= pulsesTotal'
               /\ sent' + report.pulses + raced' >= counted'
    <3>1. /\ report \in [pulses : Nat, total : Nat]
          /\ report.pulses <= pulses /\ report.total <= pulsesTotal
          /\ sent + report.pulses + raced >= counted
      BY <2>4 DEF PulsesKept, Energy!ReportIsPart
    <3>2. report.pulses \in Nat /\ report.total \in Nat
      BY <3>1
    <3> QED BY <2>1, <2>2, <2>4, <3>1, <3>2
  <2>5. breaks = 0 /\ boots = 0 =>
          IF connected THEN \/ known <= pulsesTotal'
                            \/ \E n \in 1 .. Len(inbox) : known <= inbox[n]
                       ELSE known <= s0_retained
    BY <2>1, <2>2 DEF PulsesKept, Energy!ReportIsPart
  <2>6. {pulses, pulsesTotal, counted, sent, raced, known, s0_retained, breaks, boots}'
          \subseteq Nat
    BY <2>1, <2>2
  <2>7. inbox \in Seq(Nat) /\ connected \in BOOLEAN /\ (inbox # <<>> => connected)
    BY DEF PulsesKept, Energy!ReportIsPart
  <2>8. Energy!ReportIsPart'
    BY <2>2, <2>4, <2>5, <2>6, <2>7 DEF Energy!ReportIsPart, Energy!None
  <2> QED BY <2>3, <2>8 DEF PulsesKept, Energy!EnergyAddsUp
<1>2. CASE Energy!ReadCounters
  <2>1. Energy!ReportIsPart'
    BY <1>2 DEF PulsesKept, Energy!ReportIsPart, Energy!EnergyAddsUp, Energy!ReadCounters,
       Energy!Broker, Energy!Ghosts, Energy!None
  <2>2. Energy!EnergyAddsUp'
    BY <1>2 DEF PulsesKept, Energy!EnergyAddsUp, Energy!ReadCounters
  <2> QED BY <2>1, <2>2 DEF PulsesKept
<1> QED BY <1>1, <1>2

LEMMA PublishKeeps ==
  ASSUME PulsesKept, Energy!Publish
  PROVE  PulsesKept'
<1>1. /\ {pulses, pulsesTotal, counted, sent, raced, known, s0_retained, breaks, boots}
           \subseteq Nat
      /\ inbox \in Seq(Nat) /\ connected \in BOOLEAN /\ (inbox # <<>> => connected)
      /\ report \in [pulses : Nat, total : Nat]
      /\ report.pulses <= pulses /\ report.total <= pulsesTotal
      /\ sent + report.pulses + raced >= counted
  BY DEF PulsesKept, Energy!ReportIsPart, Energy!Publish
<1>2. sent + pulses <= counted /\ pulsesTotal >= counted
  BY DEF PulsesKept, Energy!EnergyAddsUp
<1>3. /\ pulses' = 0 /\ pulsesTotal' = pulsesTotal /\ sent' = sent + report.pulses
      /\ report' = Energy!None
      /\ UNCHANGED <<connected, subscribed, boots, breaks, real, reports, counted, raced>>
  BY DEF Energy!Publish, Energy!Total, Energy!Ghosts
<1>4. Energy!EnergyAddsUp'
  <2>1. sent \in Nat /\ pulses \in Nat /\ counted \in Nat /\ raced \in Nat /\ pulsesTotal \in Nat
          /\ report.pulses \in Nat /\ sent + report.pulses + raced >= counted
          /\ report.pulses <= pulses
    BY <1>1
  <2>2. /\ sent' = sent + report.pulses /\ pulses' = 0 /\ raced' = raced /\ counted' = counted
        /\ pulsesTotal' = pulsesTotal
    BY <1>3
  <2> QED BY <1>2, <2>1, <2>2 DEF Energy!EnergyAddsUp
<1>5. CASE ~connected
  <2>1. UNCHANGED <<s0_retained, inbox, known>>
    BY <1>5 DEF Energy!Publish
  <2> QED BY <1>1, <1>3, <1>4, <1>5, <2>1 DEF PulsesKept, Energy!ReportIsPart
<1>6. CASE connected
  <2>1. /\ s0_retained' = report.total
        /\ known' = IF report.total > known THEN report.total ELSE known
        /\ inbox' = IF subscribed THEN Append(inbox, report.total) ELSE inbox
    BY <1>6 DEF Energy!Publish
  <2>2. /\ inbox' \in Seq(Nat)
        /\ \A i_1 \in 1 .. Len(inbox) : i_1 \in 1 .. Len(inbox') /\ inbox'[i_1] = inbox[i_1]
    BY <1>1, <2>1
  <2>3. s0_retained' \in Nat /\ known' \in Nat
    BY <1>1, <2>1
  <2>4. ASSUME breaks = 0, boots = 0
        PROVE  known' <= pulsesTotal \/ \E i_1 \in 1 .. Len(inbox') : known' <= inbox'[i_1]
    <3>1. CASE report.total > known
      BY <1>1, <2>1, <3>1
    <3>2. CASE ~(report.total > known)
      <4>1. known' = known
        BY <2>1, <3>2
      <4>2. known <= pulsesTotal \/ \E i_1 \in 1 .. Len(inbox) : known <= inbox[i_1]
        BY <1>6, <2>4 DEF PulsesKept, Energy!ReportIsPart
      <4> QED BY <2>2, <4>1, <4>2
    <3> QED BY <3>1, <3>2
  <2>5. {pulses, pulsesTotal, counted, sent, raced, known, s0_retained, breaks, boots}'
          \subseteq Nat
    BY SMTT(30), <1>1, <1>3, <2>3
  <2>6. Energy!ReportIsPart'
    BY <1>3, <1>6, <2>2, <2>4, <2>5 DEF Energy!ReportIsPart, Energy!None
  <2> QED BY <1>4, <2>6 DEF PulsesKept
<1> QED BY <1>1, <1>5, <1>6

LEMMA ReceiveKeeps ==
  ASSUME PulsesKept, Energy!Receive
  PROVE  PulsesKept'
<1>1. /\ {pulses, pulsesTotal, counted, sent, raced, known, s0_retained, breaks, boots}
           \subseteq Nat
      /\ inbox \in Seq(Nat) /\ connected /\ inbox # <<>>
      /\ pulsesTotal >= counted
  BY DEF PulsesKept, Energy!ReportIsPart, Energy!EnergyAddsUp, Energy!Receive
<1>2. /\ pulsesTotal' = Energy!Restored(Head(inbox)) /\ inbox' = Tail(inbox)
      /\ UNCHANGED <<pulses, report, connected, s0_retained, known, boots, breaks, counted,
                     sent, raced>>
  BY DEF Energy!Receive, Energy!Ghosts
<1>3. /\ Head(inbox) = inbox[1] /\ inbox[1] \in Nat /\ Len(inbox) \in Nat \ {0}
      /\ inbox' \in Seq(Nat) /\ Len(inbox') = Len(inbox) - 1
      /\ \A n \in 1 .. Len(inbox) - 1 : inbox'[n] = inbox[n + 1]
  <2>1. inbox \in Seq(Nat) /\ inbox # <<>>
    BY <1>1
  <2>2. Len(inbox) \in Nat \ {0} /\ Len(inbox) >= 1
    BY <2>1, EmptySeq, LenProperties
  <2>3. inbox[1] \in Nat
    BY <2>1, <2>2, ElementOfSeq
  <2>4. inbox' = Tail(inbox)
    BY <1>2
  <2> QED BY <2>1, <2>2, <2>3, <2>4, HeadTailProperties
<1>4. pulsesTotal' \in Nat /\ pulsesTotal' >= pulsesTotal /\ pulsesTotal' >= inbox[1]
  BY <1>1, <1>2, <1>3 DEF Energy!Restored
<1>5. Energy!EnergyAddsUp'
  BY <1>1, <1>2, <1>4 DEF PulsesKept, Energy!EnergyAddsUp
<1>6. report # Energy!None => /\ report \in [pulses : Nat, total : Nat]
                              /\ report.pulses <= pulses /\ report.total <= pulsesTotal'
                              /\ sent + report.pulses + raced >= counted
  BY <1>1, <1>4 DEF PulsesKept, Energy!ReportIsPart
<1>7. ASSUME breaks = 0, boots = 0
      PROVE  known <= pulsesTotal' \/ \E n \in 1 .. Len(inbox') : known <= inbox'[n]
  <2>1. known <= pulsesTotal \/ \E n \in 1 .. Len(inbox) : known <= inbox[n]
    BY <1>1, <1>7 DEF PulsesKept, Energy!ReportIsPart
  <2>2. CASE known <= pulsesTotal
    BY <1>1, <1>4, <2>2
  <2>3. ASSUME NEW n \in 1 .. Len(inbox), known <= inbox[n]
        PROVE  known <= pulsesTotal' \/ \E m \in 1 .. Len(inbox') : known <= inbox'[m]
    <3>1. CASE n = 1
      <4>1. known \in Nat
        BY <1>1
      <4>2. known <= inbox[1]
        BY <2>3, <3>1
      <4> QED BY <1>3, <1>4, <4>1, <4>2
    <3>2. CASE n # 1
      <4>1. n - 1 \in 1 .. Len(inbox') /\ inbox'[n - 1] = inbox[n]
        BY <1>3, <3>2
      <4> QED BY <2>3, <4>1
    <3> QED BY <3>1, <3>2
  <2> QED BY <2>1, <2>2, <2>3
<1>8. Energy!ReportIsPart'
  BY <1>1, <1>2, <1>3, <1>4, <1>6, <1>7 DEF Energy!ReportIsPart, Energy!None
<1> QED BY <1>5, <1>8 DEF PulsesKept

LEMMA LineKeepsPulses ==
  ASSUME PulsesKept, Energy!Connect \/ Energy!Break \/ Energy!Restart
  PROVE  PulsesKept'
<1>1. CASE Energy!Connect
  <2>1. s0_retained \in Nat /\ <<s0_retained>> \in Seq(Nat) /\ Len(<<s0_retained>>) = 1
    BY DEF PulsesKept, Energy!ReportIsPart
  <2>2. breaks = 0 /\ boots = 0 => \E n \in 1 .. Len(inbox') : known' <= inbox'[n]
    BY <1>1, <2>1 DEF PulsesKept, Energy!ReportIsPart, Energy!Connect
  <2>3. Energy!ReportIsPart'
    BY <1>1, <2>1, <2>2 DEF PulsesKept, Energy!ReportIsPart, Energy!Connect, Energy!Ghosts,
       Energy!None
  <2> QED BY <1>1, <2>3 DEF PulsesKept, Energy!EnergyAddsUp, Energy!Connect
<1>2. CASE Energy!Break
  <2>1. <<>> \in Seq(Nat) /\ breaks \in Nat
    BY DEF PulsesKept, Energy!ReportIsPart
  <2>2. breaks' = breaks + 1 /\ breaks' \in Nat /\ breaks' # 0
        /\ connected' = FALSE /\ inbox' = <<>>
        /\ UNCHANGED <<pulses, pulsesTotal, report, s0_retained, known, boots, counted, sent,
                       raced>>
    BY <1>2, <2>1 DEF Energy!Break
  <2>3. Energy!ReportIsPart'
    <3>1. Energy!ReportIsPart
      BY DEF PulsesKept
    <3>2. {pulses, pulsesTotal, counted, sent, raced, known, s0_retained, breaks, boots}'
            \subseteq Nat
      BY <2>2, <3>1 DEF Energy!ReportIsPart
    <3>3. report' # Energy!None =>
            /\ report' \in [pulses : Nat, total : Nat]
            /\ report'.pulses <= pulses' /\ report'.total <= pulsesTotal'
            /\ sent' + report'.pulses + raced' >= counted'
      BY <2>2, <3>1 DEF Energy!ReportIsPart
    <3>4. inbox' \in Seq(Nat) /\ connected' \in BOOLEAN /\ (inbox' # <<>> => connected')
      BY <2>1, <2>2
    <3> QED BY <2>2, <3>2, <3>3, <3>4 DEF Energy!ReportIsPart, Energy!None
  <2> QED BY <2>2, <2>3 DEF PulsesKept, Energy!EnergyAddsUp
<1>3. CASE Energy!Restart
  <2>1. <<>> \in Seq(Nat) /\ boots \in Nat
    BY DEF PulsesKept, Energy!ReportIsPart
  <2>2. /\ boots' = boots + 1 /\ boots' \in Nat /\ boots' # 0
        /\ connected' = FALSE /\ inbox' = <<>> /\ report' = Energy!None
        /\ pulses' = 0 /\ pulsesTotal' = 0 /\ counted' = 0 /\ sent' = 0 /\ raced' = 0
        /\ UNCHANGED <<s0_retained, known, breaks>>
    BY <1>3, <2>1 DEF Energy!Restart
  <2>3. Energy!ReportIsPart'
    <3>1. {pulses, pulsesTotal, counted, sent, raced, known, s0_retained, breaks, boots}'
            \subseteq Nat
      BY <2>2 DEF PulsesKept, Energy!ReportIsPart
    <3> QED BY <2>1, <2>2, <3>1 DEF Energy!ReportIsPart, Energy!None
  <2>4. Energy!EnergyAddsUp'
    BY <2>2 DEF Energy!EnergyAddsUp
  <2> QED BY <2>3, <2>4 DEF PulsesKept
<1> QED BY <1>1, <1>2, <1>3

\* The reports of energy of an S0 port add up to the pulses of the boot, but for those that
\* fell into a report, and the total of before is held while power and connection stay.
THEOREM PulsesAddUp == SystemSpec => [](part = "energy" => Energy!EnergyAddsUp /\ Energy!TotalIsHeld)
<1>1. SystemInit => EnergyKept
  <2> SUFFICES ASSUME SystemInit, part = "energy" PROVE PulsesKept
    BY DEF EnergyKept
  <2>1. Energy!EnergyInit
    BY EnergyBegins
  <2>2. s0_retained \in Nat /\ known = s0_retained /\ <<>> \in Seq(Nat)
    BY <2>1 DEF Energy!EnergyInit
  <2>3. /\ pulses = 0 /\ pulsesTotal = 0 /\ counted = 0 /\ sent = 0 /\ raced = 0
        /\ breaks = 0 /\ boots = 0 /\ report = Energy!None /\ connected = FALSE /\ inbox = <<>>
    BY <2>1 DEF Energy!EnergyInit
  <2>4. {pulses, pulsesTotal, counted, sent, raced, known, s0_retained, breaks, boots}
          \subseteq Nat
    BY <2>2, <2>3
  <2>5. Energy!ReportIsPart
    <3>1. known <= s0_retained
      BY <2>2
    <3>2. inbox \in Seq(Nat) /\ connected \in BOOLEAN /\ ~connected
      BY <2>2, <2>3
    <3>3. ~(report # Energy!None) /\ ~(inbox # <<>>)
      BY <2>3
    <3> QED BY <2>4, <3>1, <3>2, <3>3 DEF Energy!ReportIsPart
  <2>6. Energy!EnergyAddsUp
    BY <2>3 DEF Energy!EnergyAddsUp
  <2> QED BY <2>5, <2>6 DEF PulsesKept
<1>2. EnergyKept /\ [SystemNext]_svars => EnergyKept'
  <2> SUFFICES ASSUME EnergyKept, [SystemNext]_svars, part' = "energy"
               PROVE  PulsesKept'
    BY DEF EnergyKept
  <2>1. part' = part
    BY DEF SystemNext, svars
  <2>2. PulsesKept /\ [Energy!EnergyNext]_energyVars
    BY <2>1, EnergySteps DEF EnergyKept
  <2>3. CASE UNCHANGED energyVars
    BY <2>2, <2>3 DEF energyVars, PulsesKept, Energy!ReportIsPart, Energy!EnergyAddsUp,
       Energy!None
  <2> QED BY <2>2, <2>3, PulseKeeps, PublishKeeps, ReceiveKeeps, LineKeepsPulses
          DEF Energy!EnergyNext
<1>3. EnergyKept => (part = "energy" => Energy!EnergyAddsUp /\ Energy!TotalIsHeld)
  <2> SUFFICES ASSUME PulsesKept PROVE Energy!EnergyAddsUp /\ Energy!TotalIsHeld
    BY DEF EnergyKept
  <2> QED BY DEF PulsesKept, Energy!ReportIsPart, Energy!TotalIsHeld
<1> QED BY <1>1, <1>2, <1>3, PTL DEF SystemSpec

-----------------------------------------------------------------------------
(* The recorded energy of a board without a card.  The ledger stands for all  *)
(* of the live summary and for nothing after the last sample, but between an  *)
(* interval being added to the day and the update that follows, when the      *)
(* ledger `Owes` it; what is not saved is no older than the last saving.      *)

LEMMA LedgerConstants ==
  /\ DayLength \in Nat \ {0} /\ MonthDays \in Nat \ {0} /\ MaxGap \in 0 .. DayLength
  /\ SAVE_INTERVAL \in Nat /\ COP_MQTT_PUBLISH_INTERVAL \in Nat /\ MaxHour \in Nat
  BY ConnectionsAssumption

\* Division keeps the order, and within one divisor there is at most one step.
LEMMA Divided ==
  ASSUME NEW n \in Nat \ {0}, NEW a \in Nat, NEW b \in Nat, a <= b
  PROVE  /\ a \div n \in Nat /\ b \div n \in Nat
         /\ a \div n <= b \div n
         /\ b - a <= n => b \div n <= (a \div n) + 1
<1> DEFINE p == a \div n
           q == b \div n
<1>1. /\ p \in Nat /\ q \in Nat
      /\ n * p <= a /\ a < n * p + n /\ n * q <= b /\ b < n * q + n
  OBVIOUS
<1> HIDE DEF p, q
<1>2. p <= q
  <2>1. SUFFICES ASSUME q + 1 <= p PROVE FALSE
    BY <1>1
  <2>2. n * (q + 1) <= n * p
    BY <1>1, <2>1
  <2> QED BY <1>1, <2>2
<1>3. b - a <= n => q <= p + 1
  <2>1. SUFFICES ASSUME b - a <= n, p + 2 <= q PROVE FALSE
    BY <1>1
  <2>2. n * (p + 2) <= n * q
    BY <1>1, <2>1
  <2> QED BY <1>1, <2>1, <2>2
<1> QED BY <1>1, <1>2, <1>3 DEF p, q

LEMMA LedgerTime ==
  ASSUME NEW a \in Nat, NEW b \in Nat, a <= b
  PROVE  /\ Ledger!DayOf(a) \in Nat /\ Ledger!DayOf(b) \in Nat
         /\ Ledger!DayOf(a) <= Ledger!DayOf(b)
         /\ b - a <= MaxGap => Ledger!DayOf(b) <= Ledger!DayOf(a) + 1
         /\ Ledger!MonthOf(a) \in Nat /\ Ledger!MonthOf(b) \in Nat
         /\ Ledger!MonthOf(a) <= Ledger!MonthOf(b)
<1>1. b - a <= MaxGap => b - a <= DayLength
  BY LedgerConstants
<1> QED BY <1>1, LedgerConstants, Divided DEF Ledger!DayOf, Ledger!MonthOf

\* Today's month is one of those that may be recorded, and so is that of any day before.
LEMMA LedgerMonths ==
  ASSUME hour \in Ledger!Time, NEW day \in Nat, day <= Ledger!Today
  PROVE  Ledger!Today \in Nat /\ Ledger!MonthOf(day) \in Ledger!Months
<1>1. hour \in Nat /\ MaxHour \in Nat /\ hour <= MaxHour
  BY LedgerConstants DEF Ledger!Time
<1>2. Ledger!Today \in Nat /\ Ledger!DayOf(MaxHour) \in Nat /\ Ledger!Today <= Ledger!DayOf(MaxHour)
  BY <1>1, LedgerTime DEF Ledger!Today
<1>3. Ledger!MonthOf(day) <= Ledger!MonthOf(Ledger!DayOf(MaxHour))
      /\ Ledger!MonthOf(day) \in Nat /\ Ledger!MonthOf(Ledger!DayOf(MaxHour)) \in Nat
  BY <1>2, LedgerTime
<1> QED BY <1>2, <1>3 DEF Ledger!Months

LEMMA TimeIsFinite ==
  ASSUME NEW S \in SUBSET Ledger!Time
  PROVE  IsFiniteSet(S) /\ Cardinality(S) \in Nat
<1>1. IsFiniteSet(Ledger!Time)
  BY LedgerConstants, FS_Interval DEF Ledger!Time
<1> QED BY <1>1, FS_Subset, FS_CardinalityType

LEMMA CountedTogether ==
  ASSUME NEW A \in SUBSET Ledger!Time, NEW B \in SUBSET Ledger!Time, A \cap B = {}
  PROVE  Cardinality(A \cup B) = Cardinality(A) + Cardinality(B)
<1>1. IsFiniteSet(A) /\ IsFiniteSet(B)
  BY TimeIsFinite
<1>2. Cardinality(A \cup B) = Cardinality(A) + Cardinality(B) - Cardinality(A \cap B)
  BY <1>1, FS_Union
<1>3. Cardinality(A \cap B) = 0
  BY FS_EmptySet
<1>4. Cardinality(A) \in Nat /\ Cardinality(B) \in Nat
  BY TimeIsFinite
<1> QED BY <1>2, <1>3, <1>4

LEMMA SameCardinality == \A S : Ledger!Cardinality(S) = Cardinality(S)
  BY DEF Ledger!Cardinality, Cardinality

SumsUp(l) ==
  /\ \A m \in Ledger!Months :
       Ledger!forMonth(l, m) = Cardinality({u \in l.counted : Ledger!MonthOf(Ledger!DayOf(u)) = m})
  /\ l.dayStart # Ledger!None =>
       l.today = Cardinality({u \in l.counted : Ledger!DayOf(u) = l.dayStart})
  /\ \A u \in l.counted : u < hour /\ l.dayStart # Ledger!None /\ Ledger!DayOf(u) <= l.dayStart
  /\ l.dayStart # Ledger!None => l.dayStart <= Ledger!Today

LEMMA SumsAddUp == ASSUME NEW l PROVE Ledger!AddsUp(l) <=> SumsUp(l)
  BY SameCardinality, Zenon DEF Ledger!AddsUp, SumsUp

\* Units that were observed and are in no sum yet.
Owes(d, owed) ==
  /\ d \in Ledger!Device /\ d.loaded /\ owed \subseteq d.ledger.counted
  /\ d.summary \in Nat /\ d.summary <= Ledger!Today
  /\ SumsUp([d.ledger EXCEPT !.counted = @ \ owed])
  /\ d.ledger.dayStart # Ledger!None => d.ledger.dayStart <= d.summary
  /\ \A u \in owed : u < hour /\ Ledger!DayOf(u) = d.summary
  /\ Ledger!Delta(d, d.summary, d.energy) = Cardinality(owed)

\* But for the ledger, an update leaves a device alone.
SameButFed(d, e) ==
  /\ e.sampled = d.sampled /\ e.summary = d.summary /\ e.energy = d.energy /\ e.loaded = d.loaded
  /\ e.pending = d.pending /\ e.publishAge = d.publishAge /\ e.localDay = d.localDay

LEMMA UpdateAddsUp ==
  ASSUME hour \in Ledger!Time, NEW d, NEW owed, Owes(d, owed)
  PROVE  LET e == Ledger!Update(d) IN
         /\ e \in Ledger!Device /\ Ledger!AddsUp(e.ledger) /\ SameButFed(d, e)
         /\ e.sessionDay = d.summary /\ e.session = d.energy /\ e.dirty
         /\ e.json = d.json /\ e.saveAge = d.saveAge
         /\ e.ledger.counted = d.ledger.counted /\ e.ledger.dayStart = d.summary
         /\ \A m \in Ledger!Months \ {Ledger!MonthOf(d.summary)} :
              e.ledger.months[m] = d.ledger.months[m]
<1> DEFINE e == Ledger!Update(d)
           l == d.ledger
           day == d.summary
           month == Ledger!MonthOf(day)
           delta == Ledger!Delta(d, day, d.energy)
           old == IF l.dayStart = day THEN l.today ELSE 0
           rest == l.counted \ owed
<1>1. /\ d \in Ledger!Device /\ day \in Nat /\ day <= Ledger!Today
      /\ l \in Ledger!LedgerType /\ l.counted \in SUBSET Ledger!Time /\ owed \in SUBSET Ledger!Time
      /\ rest \in SUBSET Ledger!Time
      /\ l.months \in [Ledger!Months -> Nat \cup {Ledger!None}] /\ l.today \in Nat
      /\ l.dayStart \in Nat \cup {Ledger!None}
  BY DEF Owes, Ledger!Device, Ledger!LedgerType
<1>2. /\ \A m \in Ledger!Months :
           Ledger!forMonth(l, m) = Cardinality({u \in rest : Ledger!MonthOf(Ledger!DayOf(u)) = m})
      /\ l.dayStart # Ledger!None =>
           l.today = Cardinality({u \in rest : Ledger!DayOf(u) = l.dayStart})
      /\ \A u \in rest : u < hour /\ l.dayStart # Ledger!None /\ Ledger!DayOf(u) <= l.dayStart
  <2> DEFINE k == [l EXCEPT !.counted = rest]
  <2>1. SumsUp(k)
    BY DEF Owes
  <2>2. k.months = l.months /\ k.today = l.today /\ k.dayStart = l.dayStart /\ k.counted = rest
    BY <1>1 DEF Ledger!LedgerType
  <2>3. \A m : Ledger!forMonth(k, m) = Ledger!forMonth(l, m)
    BY <2>2 DEF Ledger!forMonth, Ledger!Recorded
  <2> HIDE DEF k, rest
  <2>4. \A m \in Ledger!Months :
          Ledger!forMonth(l, m) = Cardinality({u \in rest : Ledger!MonthOf(Ledger!DayOf(u)) = m})
    BY <2>1, <2>2, <2>3, Zenon DEF SumsUp
  <2>5. l.dayStart # Ledger!None =>
          l.today = Cardinality({u \in rest : Ledger!DayOf(u) = l.dayStart})
    BY <2>1, <2>2, Zenon DEF SumsUp
  <2> QED BY <2>1, <2>2, <2>4, <2>5, Zenon DEF SumsUp
<1>3. month \in Ledger!Months
  BY <1>1, LedgerMonths
<1>4. delta = Cardinality(owed) /\ delta \in Nat
  BY <1>1, TimeIsFinite DEF Owes
<1>5. old \in Nat
  BY <1>1
<1>6. /\ \A m \in Ledger!Months : Ledger!forMonth(l, m) \in Nat
      /\ \A m \in Ledger!Months : l.months[m] # Ledger!None => Ledger!forMonth(l, m) = l.months[m]
  BY <1>1 DEF Ledger!forMonth, Ledger!Recorded, Ledger!None
<1>7. e = [d EXCEPT !.sessionDay = day, !.session = d.energy, !.dirty = TRUE,
                    !.ledger = [l EXCEPT !.dayStart = day, !.today = old + delta,
                                         !.months[month] = Ledger!forMonth(l, month) + delta]]
  BY <1>1, ZenonT(40) DEF Ledger!Update, Ledger!Device, Ledger!LedgerType
<1> DEFINE n == [l EXCEPT !.dayStart = day, !.today = old + delta,
                          !.months[month] = Ledger!forMonth(l, month) + delta]
<1>8. n \in Ledger!LedgerType /\ n.dayStart = day /\ n.today = old + delta
      /\ n.months = [l.months EXCEPT ![month] = Ledger!forMonth(l, month) + delta]
      /\ n.counted = l.counted
  <2>1. Ledger!forMonth(l, month) + delta \in Nat /\ old + delta \in Nat
    BY <1>3, <1>4, <1>5, <1>6
  <2> DEFINE months == [l.months EXCEPT ![month] = Ledger!forMonth(l, month) + delta]
  <2>2. months \in [Ledger!Months -> Nat \cup {Ledger!None}]
    <3> HIDE DEF delta, old, month
    <3> QED BY <1>1, <2>1
  <2>3. n = [[[l EXCEPT !.dayStart = day] EXCEPT !.today = old + delta] EXCEPT !.months = months]
    BY <1>1 DEF Ledger!LedgerType
  <2> HIDE DEF n, months, delta, old, month
  <2>4. n \in Ledger!LedgerType /\ n.dayStart = day /\ n.today = old + delta
        /\ n.months = months /\ n.counted = l.counted
    BY <1>1, <2>1, <2>2, <2>3 DEF Ledger!LedgerType
  <2> QED BY <2>4 DEF months
<1> HIDE DEF n, delta, old, rest
<1>9. /\ e = [d EXCEPT !.sessionDay = day, !.session = d.energy, !.dirty = TRUE, !.ledger = n]
  BY <1>7 DEF n, old, delta
<1>10. /\ e \in Ledger!Device /\ SameButFed(d, e) /\ e.ledger = n
       /\ e.sessionDay = day /\ e.session = d.energy /\ e.dirty
       /\ e.json = d.json /\ e.saveAge = d.saveAge
  BY <1>1, <1>8, <1>9 DEF Ledger!Device, SameButFed
<1>11. l.counted = rest \cup owed /\ rest \cap owed = {}
  BY DEF Owes, rest
<1>12. \A u \in owed : u < hour /\ Ledger!DayOf(u) = day
  BY DEF Owes
<1>13. ASSUME NEW m \in Ledger!Months
       PROVE  Ledger!forMonth(n, m) = Cardinality({u \in n.counted : Ledger!MonthOf(Ledger!DayOf(u)) = m})
  <2> DEFINE R == {u \in rest : Ledger!MonthOf(Ledger!DayOf(u)) = m}
             C == {u \in n.counted : Ledger!MonthOf(Ledger!DayOf(u)) = m}
  <2>1. Ledger!forMonth(l, m) = Cardinality(R) /\ R \in SUBSET Ledger!Time
    BY <1>1, <1>2
  <2>2. CASE m = month
    <3>1. C = R \cup owed /\ R \cap owed = {}
      BY <1>8, <1>11, <1>12, <2>2
    <3>2. Cardinality(C) = Ledger!forMonth(l, m) + delta
      BY <1>1, <1>4, <2>1, <3>1, CountedTogether
    <3>3. n.months[m] = Ledger!forMonth(l, m) + delta /\ n.months[m] \in Nat
      BY <1>1, <1>3, <1>4, <1>6, <1>8, <2>2
    <3> QED BY <3>2, <3>3 DEF Ledger!forMonth, Ledger!Recorded, Ledger!None
  <2>3. CASE m # month
    <3>1. C = R
      BY <1>8, <1>11, <1>12, <2>3
    <3>2. n.months[m] = l.months[m]
      BY <1>1, <1>8, <2>3
    <3>3. Ledger!forMonth(n, m) = Ledger!forMonth(l, m)
      BY <3>2 DEF Ledger!forMonth, Ledger!Recorded
    <3> QED BY <2>1, <3>1, <3>3
  <2> QED BY <2>2, <2>3
<1>14. n.today = Cardinality({u \in n.counted : Ledger!DayOf(u) = n.dayStart})
  <2> DEFINE R == {u \in rest : Ledger!DayOf(u) = day}
             C == {u \in n.counted : Ledger!DayOf(u) = n.dayStart}
  <2>1. C = R \cup owed /\ R \cap owed = {} /\ R \in SUBSET Ledger!Time
    BY <1>1, <1>8, <1>11, <1>12
  <2>2. Cardinality(C) = Cardinality(R) + delta
    BY <1>1, <1>4, <2>1, CountedTogether
  <2>3. old = Cardinality(R)
    <3>1. CASE l.dayStart = day
      <4>1. l.dayStart # Ledger!None
        BY <1>1, <3>1 DEF Ledger!None
      <4> QED BY <1>2, <3>1, <4>1 DEF old
    <3>2. CASE l.dayStart # day
      <4>1. l.dayStart # Ledger!None => l.dayStart < day
        BY <1>1, <3>2 DEF Owes, Ledger!None
      <4>2. R = {}
        <5>1. SUFFICES ASSUME NEW u \in rest, Ledger!DayOf(u) = day PROVE FALSE
          OBVIOUS
        <5>2. l.dayStart # Ledger!None /\ Ledger!DayOf(u) <= l.dayStart /\ l.dayStart \in Nat
          BY <1>1, <1>2, <5>1
        <5> QED BY <1>1, <4>1, <5>1, <5>2
      <4> QED BY <3>2, <4>2, FS_EmptySet DEF old
    <3> QED BY <3>1, <3>2
  <2> QED BY <1>8, <2>2, <2>3
<1>15. \A u \in n.counted : u < hour /\ n.dayStart # Ledger!None /\ Ledger!DayOf(u) <= n.dayStart
  <2> SUFFICES ASSUME NEW u \in n.counted
               PROVE  u < hour /\ n.dayStart # Ledger!None /\ Ledger!DayOf(u) <= n.dayStart
    OBVIOUS
  <2>1. n.dayStart # Ledger!None
    BY <1>1, <1>8 DEF Ledger!None
  <2>2. CASE u \in owed
    BY <1>1, <1>8, <1>12, <2>1, <2>2
  <2>3. CASE u \in rest
    <3>1. u < hour /\ l.dayStart # Ledger!None /\ Ledger!DayOf(u) <= l.dayStart
      BY <1>2, <2>3
    <3>2. l.dayStart <= day
      BY <3>1 DEF Owes
    <3>3. Ledger!DayOf(u) \in Nat
      BY <1>1, <2>3, LedgerTime, LedgerConstants DEF Ledger!Time
    <3> QED BY <1>1, <1>8, <2>1, <3>1, <3>2, <3>3
  <2> QED BY <1>8, <1>11, <2>2, <2>3
<1>16. Ledger!AddsUp(n)
  <2>1. n.dayStart <= Ledger!Today
    BY <1>1, <1>8
  <2> QED BY <1>13, <1>14, <1>15, <2>1, SumsAddUp, Zenon DEF SumsUp
<1>17. \A m \in Ledger!Months \ {month} : n.months[m] = l.months[m]
  BY <1>1, <1>8
<1> QED BY <1>8, <1>10, <1>16, <1>17

\* A sample is taken.
Sampled(d, owed) == [Ledger!Accumulated(d, owed) EXCEPT !.sampled = hour]

\* The units that were not saved are no older than they may be.
Checkpoint(d) ==
  \A u \in d.ledger.counted \ d.json.counted :
    /\ u >= savedAt - SAVE_INTERVAL - MaxGap
    /\ ~Ledger!SaveDue(d) => u >= hour - d.saveAge - MaxGap

\* But for the file, saving leaves a device alone.
SameButSaved(d, e) ==
  /\ SameButFed(d, e) /\ e.sessionDay = d.sessionDay /\ e.session = d.session
  /\ e.ledger = d.ledger

LEMMA SavingKeeps ==
  ASSUME NEW d \in Ledger!Device, NEW ok \in BOOLEAN, Ledger!AddsUp(d.ledger), Ledger!AddsUp(d.json),
         Ledger!IsCheckpointed(d), d.loaded,
         NEW e, e = Ledger!saveFallback(d, ok) \/ e = Ledger!SavedWhenDue(d, ok)
  PROVE  /\ e \in Ledger!Device /\ Ledger!AddsUp(e.json) /\ Ledger!IsCheckpointed(e)
         /\ SameButSaved(d, e)
         /\ e = Ledger!SavedWhenDue(d, ok) /\ ok => ~Ledger!SaveDue(e) \/ ~e.dirty
<1> DEFINE saved == [d EXCEPT !.dirty = FALSE, !.saveAge = 0, !.json = d.ledger]
<1>1. /\ saved.dirty = FALSE /\ saved.saveAge = 0 /\ saved.json = d.ledger
      /\ SameButSaved(d, saved)
  BY DEF Ledger!Device, SameButSaved, SameButFed
<1>2. saved \in Ledger!Device
  <2>1. d.ledger \in Ledger!LedgerType /\ 0 \in 0 .. SAVE_INTERVAL \cup {Ledger!None}
    BY LedgerConstants DEF Ledger!Device
  <2> QED BY <2>1 DEF Ledger!Device
<1>3. e = d \/ e = saved
  BY DEF Ledger!saveFallback, Ledger!SavedWhenDue
<1>4. e = Ledger!SavedWhenDue(d, ok) /\ ok => e = saved \/ ~Ledger!SaveDue(d) \/ ~d.dirty
  BY DEF Ledger!saveFallback, Ledger!SavedWhenDue
<1> HIDE DEF saved
<1>5. CASE e = d
  <2>1. SameButSaved(d, e)
    BY <1>5 DEF SameButSaved, SameButFed
  <2>2. e = saved => ~e.dirty
    BY <1>1
  <2> QED BY <1>4, <1>5, <2>1, <2>2
<1>6. CASE e = saved
  <2>1. Ledger!IsCheckpointed(e)
    BY <1>1, <1>6 DEF Ledger!IsCheckpointed, SameButSaved
  <2> QED BY <1>1, <1>2, <1>6, <2>1
<1> QED BY <1>3, <1>5, <1>6

LEMMA UpdatedAndSaved ==
  ASSUME hour \in Ledger!Time, NEW ok \in BOOLEAN,
         NEW d, NEW owed, Owes(d, owed), Checkpoint(d), Ledger!AddsUp(d.json)
  PROVE  LET e == Ledger!energyMqttUpdateFallback(d, ok) IN
         /\ e \in Ledger!Device /\ Ledger!AddsUp(e.ledger) /\ Ledger!AddsUp(e.json)
         /\ Ledger!IsCheckpointed(e) /\ SameButFed(d, e)
         /\ e.sessionDay = d.summary /\ e.session = d.energy
         /\ e.ledger.counted = d.ledger.counted /\ e.ledger.dayStart = d.summary
         /\ \A m \in Ledger!Months \ {Ledger!MonthOf(d.summary)} :
              e.ledger.months[m] = d.ledger.months[m]
<1> DEFINE e == Ledger!energyMqttUpdateFallback(d, ok)
           f == Ledger!Update(d)
           rollover == d.ledger.dayStart \notin {Ledger!None, d.summary}
           g == IF rollover THEN Ledger!saveFallback(f, ok) ELSE f
<1>1. d.loaded /\ Ledger!loadFallback(d) = d
  BY DEF Owes, Ledger!loadFallback
<1>2. e = Ledger!SavedWhenDue(g, ok)
  BY <1>1 DEF Ledger!energyMqttUpdateFallback
<1> HIDE DEF e
<1>3. /\ f \in Ledger!Device /\ Ledger!AddsUp(f.ledger) /\ SameButFed(d, f)
      /\ f.sessionDay = d.summary /\ f.session = d.energy /\ f.dirty
      /\ f.json = d.json /\ f.saveAge = d.saveAge
      /\ f.ledger.counted = d.ledger.counted /\ f.ledger.dayStart = d.summary
      /\ \A m \in Ledger!Months \ {Ledger!MonthOf(d.summary)} :
           f.ledger.months[m] = d.ledger.months[m]
  BY UpdateAddsUp
<1> HIDE DEF f
<1>4. Ledger!IsCheckpointed(f) /\ f.loaded /\ Ledger!AddsUp(f.json)
  BY <1>1, <1>3 DEF Checkpoint, Ledger!IsCheckpointed, Ledger!SaveDue, SameButFed
<1>5. /\ g \in Ledger!Device /\ Ledger!AddsUp(g.json) /\ Ledger!IsCheckpointed(g)
      /\ SameButSaved(f, g)
  <2>1. CASE rollover
    BY <1>3, <1>4, <2>1, SavingKeeps
  <2>2. CASE ~rollover
    BY <1>3, <1>4, <2>2 DEF SameButSaved, SameButFed
  <2> QED BY <2>1, <2>2
<1> HIDE DEF g
<1>6. Ledger!AddsUp(g.ledger) /\ g.loaded
  BY <1>3, <1>4, <1>5 DEF SameButSaved, SameButFed
<1>7. /\ e \in Ledger!Device /\ Ledger!AddsUp(e.json) /\ Ledger!IsCheckpointed(e)
      /\ SameButSaved(g, e)
  BY <1>2, <1>5, <1>6, SavingKeeps
<1>8. e.ledger = f.ledger /\ e.sessionDay = f.sessionDay /\ e.session = f.session
  BY <1>5, <1>7 DEF SameButSaved
<1>9. SameButFed(d, e)
  BY <1>3, <1>5, <1>7 DEF SameButSaved, SameButFed
<1> QED BY <1>3, <1>7, <1>8, <1>9 DEF e

LEMMA LoadingKeeps ==
  ASSUME NEW d, Ledger!DeviceIsKept(d), NEW e, e = Ledger!loadFallback(d)
  PROVE  /\ Ledger!DeviceIsKept(e) /\ e.loaded
         /\ e.sampled = d.sampled /\ e.summary = d.summary /\ e.energy = d.energy
         /\ e.pending = d.pending /\ e.publishAge = d.publishAge /\ e.localDay = d.localDay
         /\ d.summary # Ledger!None => e = d
<1>1. CASE d.loaded
  BY <1>1 DEF Ledger!loadFallback
<1>2. CASE ~d.loaded
  <2>1. e = [d EXCEPT !.loaded = TRUE, !.ledger = d.json]
    BY <1>2 DEF Ledger!loadFallback
  <2>2. d \in Ledger!Device /\ Ledger!AddsUp(d.json) /\ d.summary = Ledger!None
    BY <1>2 DEF Ledger!DeviceIsKept, Ledger!IsFed
  <2>3. e \in Ledger!Device /\ e.ledger = d.json /\ e.json = d.json /\ e.loaded
        /\ e.sampled = d.sampled /\ e.summary = d.summary /\ e.sessionDay = d.sessionDay
        /\ e.energy = d.energy
        /\ e.pending = d.pending /\ e.publishAge = d.publishAge /\ e.localDay = d.localDay
    BY <2>1, <2>2 DEF Ledger!Device
  <2>4. Ledger!IsFed(e)
    BY <2>2, <2>3 DEF Ledger!DeviceIsKept, Ledger!IsFed
  <2>5. Ledger!IsCheckpointed(e)
    BY <2>3 DEF Ledger!IsCheckpointed
  <2> QED BY <2>2, <2>3, <2>4, <2>5 DEF Ledger!DeviceIsKept
<1> QED BY <1>1, <1>2

\* What is observed since the last sample was not counted before, and is of its day or of today.
LEMMA NewUnits ==
  ASSUME hour \in Ledger!Time, NEW d, Ledger!DeviceIsKept(d), NEW u \in Ledger!Observed(d)
  PROVE  /\ u \in Ledger!Time /\ u < hour /\ u >= hour - MaxGap /\ u \notin d.ledger.counted
         /\ d.summary # Ledger!None /\ d.summary \in Nat /\ d.summary <= Ledger!Today
         /\ Ledger!DayOf(u) = d.summary \/ Ledger!DayOf(u) = Ledger!Today
<1>1. d.sampled # Ledger!None /\ hour - d.sampled <= MaxGap /\ u \in d.sampled .. hour - 1
  BY DEF Ledger!Observed
<1>2. d.sampled \in Nat /\ d.sampled \in Ledger!Time /\ hour \in Nat /\ hour <= MaxHour
      /\ d.summary \in Nat \cup {Ledger!None}
  BY <1>1, LedgerConstants DEF Ledger!DeviceIsKept, Ledger!Device, Ledger!Time
<1>3. d.summary # Ledger!None
  BY <1>1 DEF Ledger!DeviceIsKept, Ledger!IsFed
<1>4. d.summary = Ledger!DayOf(d.sampled) /\ \A v \in d.ledger.counted : v < d.sampled
  BY <1>3 DEF Ledger!DeviceIsKept, Ledger!IsFed
<1>5. u \in Nat /\ d.sampled <= u /\ u < hour /\ d.sampled <= hour /\ u <= hour
  BY <1>1, <1>2
<1>6. u \in Ledger!Time /\ u >= hour - MaxGap /\ u \notin d.ledger.counted
  BY <1>1, <1>2, <1>4, <1>5, LedgerConstants DEF Ledger!Time
<1>7. Ledger!DayOf(d.sampled) <= Ledger!DayOf(u) /\ Ledger!DayOf(u) <= Ledger!DayOf(hour)
      /\ Ledger!DayOf(hour) <= Ledger!DayOf(d.sampled) + 1
      /\ Ledger!DayOf(d.sampled) \in Nat /\ Ledger!DayOf(u) \in Nat /\ Ledger!DayOf(hour) \in Nat
      /\ Ledger!DayOf(d.sampled) <= Ledger!DayOf(hour)
  BY <1>1, <1>2, <1>5, LedgerTime
<1> QED BY <1>2, <1>3, <1>4, <1>5, <1>6, <1>7 DEF Ledger!Today

LEMMA AccumulatedOwes ==
  ASSUME hour \in Ledger!Time, savedAt \in 0 .. hour,
         NEW d \in Ledger!Device, d.loaded, Ledger!AddsUp(d.ledger), Checkpoint(d),
         d.summary \in Nat, d.summary <= Ledger!Today,
         d.ledger.dayStart # Ledger!None => d.ledger.dayStart <= d.summary,
         Ledger!Delta(d, d.summary, d.energy) = 0,
         NEW owed \in SUBSET Ledger!Time,
         \A u \in owed : u < hour /\ u >= hour - MaxGap /\ u \notin d.ledger.counted
                           /\ Ledger!DayOf(u) = d.summary,
         NEW a, a = Ledger!Accumulated(d, owed)
                  \/ a = Sampled(d, owed)
  PROVE  /\ Owes(a, owed) /\ Checkpoint(a) /\ a.json = d.json
         /\ a.sampled = d.sampled \/ a.sampled = hour
         /\ a = Sampled(d, owed) => a.sampled = hour
         /\ a.summary = d.summary
         /\ a.pending = d.pending /\ a.publishAge = d.publishAge /\ a.localDay = d.localDay
         /\ a.ledger.months = d.ledger.months
<1> DEFINE n == [d.ledger EXCEPT !.counted = @ \cup owed]
           c == Ledger!Accumulated(d, owed)
<1>1. Cardinality(owed) \in Nat
  BY TimeIsFinite
<1>2. c = [d EXCEPT !.energy = d.energy + Cardinality(owed), !.ledger = n]
  BY SameCardinality DEF Ledger!Accumulated, Ledger!Device, Ledger!LedgerType
<1>3. /\ d.ledger \in Ledger!LedgerType /\ d.energy \in Nat /\ d.session \in Nat
      /\ d.ledger.counted \in SUBSET Ledger!Time
      /\ hour \in Nat /\ savedAt \in Nat /\ savedAt <= hour
  BY LedgerConstants DEF Ledger!Device, Ledger!LedgerType, Ledger!Time
<1>4. /\ n \in Ledger!LedgerType /\ n.counted = d.ledger.counted \cup owed
      /\ n.months = d.ledger.months /\ n.today = d.ledger.today
      /\ n.dayStart = d.ledger.dayStart
      /\ [n EXCEPT !.counted = @ \ owed] = d.ledger
  <2>1. (d.ledger.counted \cup owed) \ owed = d.ledger.counted
    OBVIOUS
  <2> QED BY <1>3, <2>1 DEF Ledger!LedgerType
<1> HIDE DEF n
<1>5. /\ c \in Ledger!Device /\ c.ledger = n /\ c.energy = d.energy + Cardinality(owed)
      /\ c.json = d.json /\ c.sampled = d.sampled /\ c.summary = d.summary /\ c.loaded = d.loaded
      /\ c.sessionDay = d.sessionDay /\ c.session = d.session /\ c.saveAge = d.saveAge
      /\ c.pending = d.pending /\ c.publishAge = d.publishAge /\ c.localDay = d.localDay
  <2> HIDE DEF c
  <2>1. d.energy + Cardinality(owed) \in Nat
    BY <1>1, <1>3
  <2> DEFINE energy == d.energy + Cardinality(owed)
  <2>2. c = [d EXCEPT !.energy = energy, !.ledger = n]
    BY <1>2
  <2> HIDE DEF energy
  <2>3. c \in Ledger!Device
    BY <1>4, <2>1, <2>2 DEF Ledger!Device, energy
  <2> QED BY <1>4, <2>1, <2>2, <2>3 DEF Ledger!Device, energy
<1> HIDE DEF c
<1>6. /\ a \in Ledger!Device /\ a.ledger = n /\ a.energy = d.energy + Cardinality(owed)
      /\ a.json = d.json /\ a.summary = d.summary /\ a.loaded = d.loaded
      /\ a.sessionDay = d.sessionDay /\ a.session = d.session /\ a.saveAge = d.saveAge
      /\ a.pending = d.pending /\ a.publishAge = d.publishAge /\ a.localDay = d.localDay
      /\ a.sampled = d.sampled \/ a.sampled = hour
      /\ a = [c EXCEPT !.sampled = hour] => a.sampled = hour
  <2>1. CASE a = c
    <3>1. a = [c EXCEPT !.sampled = hour] => a.sampled = hour
      BY <1>5 DEF Ledger!Device
    <3> QED BY <1>5, <2>1, <3>1
  <2>2. CASE a = [c EXCEPT !.sampled = hour]
    BY <1>5, <2>2 DEF Ledger!Device
  <2> QED BY <2>1, <2>2 DEF c, Sampled
<1>7. Ledger!Delta(a, a.summary, a.energy) = Cardinality(owed)
  BY <1>1, <1>3, <1>6 DEF Ledger!Delta
<1>8. Owes(a, owed)
  BY <1>4, <1>6, <1>7, SumsAddUp DEF Owes
<1>9. Checkpoint(a)
  <2> SUFFICES ASSUME NEW u \in a.ledger.counted \ a.json.counted
               PROVE  /\ u >= savedAt - SAVE_INTERVAL - MaxGap
                      /\ ~Ledger!SaveDue(a) => u >= hour - a.saveAge - MaxGap
    BY DEF Checkpoint
  <2>1. CASE u \in owed
    <3>1. u >= hour - MaxGap /\ u \in Nat
      BY <2>1, LedgerConstants DEF Ledger!Time
    <3>2. ~Ledger!SaveDue(a) => a.saveAge \in Nat
      BY <1>6, LedgerConstants DEF Ledger!SaveDue, Ledger!Device
    <3> QED BY <1>3, <3>1, <3>2, LedgerConstants
  <2>2. CASE u \notin owed
    <3>1. u \in d.ledger.counted \ d.json.counted
      BY <1>4, <1>6, <2>2
    <3> QED BY <1>6, <3>1 DEF Checkpoint, Ledger!SaveDue
  <2> QED BY <2>1, <2>2
<1> QED BY <1>4, <1>6, <1>8, <1>9 DEF c, Sampled

LEMMA FedIsKept ==
  ASSUME hour \in Ledger!Time, NEW ok \in BOOLEAN,
         NEW d, NEW owed, Owes(d, owed), Checkpoint(d), Ledger!AddsUp(d.json),
         d.sampled = hour, d.summary = Ledger!Today
  PROVE  Ledger!DeviceIsKept(Ledger!energyMqttUpdateFallback(d, ok))
<1> DEFINE e == Ledger!energyMqttUpdateFallback(d, ok)
<1>1. /\ e \in Ledger!Device /\ Ledger!AddsUp(e.ledger) /\ Ledger!AddsUp(e.json)
      /\ Ledger!IsCheckpointed(e) /\ SameButFed(d, e)
      /\ e.sessionDay = d.summary /\ e.session = d.energy
      /\ e.ledger.counted = d.ledger.counted /\ e.ledger.dayStart = d.summary
  BY UpdatedAndSaved
<1> HIDE DEF e
<1>2. hour \in Nat /\ Ledger!Today \in Nat
  BY LedgerConstants, LedgerTime DEF Ledger!Time, Ledger!Today
<1>3. e.summary = Ledger!Today /\ e.sampled = hour /\ e.energy = d.energy /\ e.loaded
  BY <1>1 DEF SameButFed, Owes
<1>4. e.summary # Ledger!None /\ e.sampled # Ledger!None
  BY <1>2, <1>3 DEF Ledger!None
<1>5. \A u \in e.ledger.counted : u < hour
  BY <1>1 DEF Ledger!AddsUp
<1>6. Ledger!IsFed(e)
  BY <1>1, <1>2, <1>3, <1>4, <1>5 DEF Ledger!IsFed, Ledger!Today
<1> QED BY <1>1, <1>6 DEF Ledger!DeviceIsKept, e

LEMMA CheckpointOf ==
  ASSUME NEW d, NEW b, Ledger!IsCheckpointed(d),
         b.ledger = d.ledger, b.json = d.json, b.saveAge = d.saveAge
  PROVE  Checkpoint(b)
<1>1. Ledger!SaveDue(b) <=> Ledger!SaveDue(d)
  BY DEF Ledger!SaveDue
<1> SUFFICES ASSUME NEW u \in b.ledger.counted \ b.json.counted
             PROVE  /\ u >= savedAt - SAVE_INTERVAL - MaxGap
                    /\ ~Ledger!SaveDue(b) => u >= hour - b.saveAge - MaxGap
  BY Zenon DEF Checkpoint
<1>2. u \in d.ledger.counted \ d.json.counted
  OBVIOUS
<1> HIDE DEF Ledger!SaveDue
<1>3. /\ u >= savedAt - SAVE_INTERVAL - MaxGap
      /\ ~Ledger!SaveDue(d) => u >= hour - d.saveAge - MaxGap
  BY <1>2 DEF Ledger!IsCheckpointed
<1> QED BY <1>1, <1>3

LEMMA RolledOverKeeps ==
  ASSUME hour \in Ledger!Time, NEW d \in Ledger!Device, NEW e, e = Ledger!RolledOver(d)
  PROVE  /\ e \in Ledger!Device /\ e.ledger = d.ledger /\ e.json = d.json
         /\ e.loaded = d.loaded /\ e.summary = Ledger!Today /\ e.energy = 0
         /\ e.sessionDay = d.sessionDay /\ e.saveAge = d.saveAge /\ e.pending
         /\ e.publishAge = d.publishAge /\ e.localDay = d.localDay
<1>1. e = [[d EXCEPT !.summary = Ledger!Today, !.energy = 0] EXCEPT !.pending = TRUE]
  BY DEF Ledger!RolledOver
<1>2. Ledger!Today \in Nat
  BY LedgerConstants, LedgerTime DEF Ledger!Time, Ledger!Today
<1> DEFINE f == [d EXCEPT !.summary = Ledger!Today, !.energy = 0]
<1>3. /\ f \in Ledger!Device /\ f.ledger = d.ledger /\ f.json = d.json
      /\ f.loaded = d.loaded /\ f.summary = Ledger!Today /\ f.energy = 0
      /\ f.sessionDay = d.sessionDay /\ f.saveAge = d.saveAge
      /\ f.publishAge = d.publishAge /\ f.localDay = d.localDay
  BY <1>2 DEF Ledger!Device
<1> HIDE DEF f
<1>4. e = [f EXCEPT !.pending = TRUE]
  BY <1>1 DEF f
<1> QED BY <1>3, <1>4, ZenonT(40) DEF Ledger!Device

LEMMA FedMonths ==
  ASSUME hour \in Ledger!Time, NEW ok \in BOOLEAN,
         NEW d, NEW owed, Owes(d, owed), Checkpoint(d), Ledger!AddsUp(d.json),
         NEW e, e = Ledger!energyMqttUpdateFallback(d, ok),
         NEW m \in Ledger!Months, m # Ledger!MonthOf(d.summary)
  PROVE  e.ledger.months[m] = d.ledger.months[m]
BY UpdatedAndSaved

\* A step of the loop keeps what is known of a device; what is published anew it marks.
StillKnown(x, r) ==
  /\ r.publishAge # Ledger!None => r.publishAge = x.publishAge
  /\ ~r.pending => /\ ~x.pending
                   /\ \A m \in Ledger!Months \ {Ledger!MonthOf(Ledger!Today)} :
                        r.ledger.months[m] = x.ledger.months[m]

LEMMA FirstSampleKeeps ==
  ASSUME hour \in Ledger!Time, savedAt \in 0 .. hour, NEW ok \in BOOLEAN,
         NEW d, Ledger!DeviceIsKept(d), d.loaded, d.summary = Ledger!None,
         NEW x, x = Sampled(Ledger!PublishNow(
                      [Ledger!PublishNow(d) EXCEPT !.summary = Ledger!Today, !.energy = 0]), {}),
         NEW r, r = Ledger!energyMqttUpdateFallback(x, ok)
  PROVE  /\ Ledger!DeviceIsKept(r) /\ r.summary = Ledger!Today /\ r.localDay = d.localDay
         /\ r.pending /\ r.publishAge = Ledger!None
<1> DEFINE b == Ledger!PublishNow([Ledger!PublishNow(d) EXCEPT !.summary = Ledger!Today, !.energy = 0])
<1>1. /\ d \in Ledger!Device /\ Ledger!AddsUp(d.ledger) /\ Ledger!AddsUp(d.json)
      /\ d.sessionDay = Ledger!None /\ Ledger!IsCheckpointed(d)
  BY DEF Ledger!DeviceIsKept, Ledger!IsFed
<1>2. Ledger!Today \in Nat /\ hour \in Nat
  BY LedgerConstants, LedgerTime DEF Ledger!Time, Ledger!Today
<1>3. b = [d EXCEPT !.summary = Ledger!Today, !.energy = 0, !.pending = TRUE,
                    !.publishAge = Ledger!None]
  BY <1>1 DEF Ledger!PublishNow, Ledger!Device
<1> HIDE DEF b
<1>4. /\ b \in Ledger!Device /\ b.ledger = d.ledger /\ b.json = d.json /\ b.loaded
      /\ b.summary = Ledger!Today /\ b.energy = 0 /\ b.sessionDay = Ledger!None
      /\ b.saveAge = d.saveAge /\ b.pending /\ b.publishAge = Ledger!None
      /\ b.localDay = d.localDay
  BY <1>1, <1>2, <1>3 DEF Ledger!Device
<1>5. Ledger!Delta(b, b.summary, b.energy) = 0
  BY <1>2, <1>4 DEF Ledger!Delta, Ledger!None
<1>6. b.ledger.dayStart # Ledger!None => b.ledger.dayStart <= b.summary
  BY <1>1, <1>4 DEF Ledger!AddsUp
<1>7. Checkpoint(b)
  BY <1>1, <1>4, CheckpointOf
<1>8. /\ Owes(x, {}) /\ Checkpoint(x) /\ x.json = b.json /\ x.sampled = hour
      /\ x.summary = b.summary /\ x.pending = b.pending /\ x.publishAge = b.publishAge
      /\ x.localDay = b.localDay
  <2>1. x = Sampled(b, {})
    BY DEF b
  <2> HIDE DEF Owes, Checkpoint
  <2>2. b.summary \in Nat /\ b.summary <= Ledger!Today /\ Ledger!AddsUp(b.ledger)
    BY <1>1, <1>2, <1>4
  <2>3. {} \in SUBSET Ledger!Time
    OBVIOUS
  <2> QED BY <1>4, <1>5, <1>6, <1>7, <2>1, <2>2, <2>3, AccumulatedOwes
<1>9. Ledger!DeviceIsKept(Ledger!energyMqttUpdateFallback(x, ok))
  BY <1>1, <1>4, <1>8, FedIsKept
<1>10. SameButFed(x, Ledger!energyMqttUpdateFallback(x, ok))
  BY <1>1, <1>4, <1>8, UpdatedAndSaved
<1> QED BY <1>4, <1>8, <1>9, <1>10 DEF SameButFed

LEMMA SampleOfTodayKeeps ==
  ASSUME hour \in Ledger!Time, savedAt \in 0 .. hour, NEW ok \in BOOLEAN,
         NEW d, Ledger!DeviceIsKept(d), d.loaded, d.summary = Ledger!Today,
         NEW owed, owed = {u \in Ledger!Observed(d) : Ledger!DayOf(u) = Ledger!Today},
         NEW x, x = Sampled(d, owed),
         NEW r, r = Ledger!energyMqttUpdateFallback(x, ok)
  PROVE  /\ Ledger!DeviceIsKept(r) /\ r.summary = Ledger!Today /\ r.localDay = d.localDay
         /\ StillKnown(d, r)
<1>1. Ledger!Today \in Nat /\ hour \in Nat
  BY LedgerConstants, LedgerTime DEF Ledger!Time, Ledger!Today
<1>2. /\ d \in Ledger!Device /\ Ledger!AddsUp(d.ledger) /\ Ledger!AddsUp(d.json)
      /\ d.sessionDay = d.summary /\ d.session = d.energy /\ d.ledger.dayStart = d.summary
      /\ Ledger!IsCheckpointed(d) /\ d.energy \in Nat
  BY <1>1 DEF Ledger!DeviceIsKept, Ledger!IsFed, Ledger!None, Ledger!Device
<1>3. Ledger!Delta(d, d.summary, d.energy) = 0
  BY <1>2 DEF Ledger!Delta
<1>4. Checkpoint(d)
  BY <1>2, CheckpointOf
<1>5. /\ owed \in SUBSET Ledger!Time
      /\ \A u \in owed : u < hour /\ u >= hour - MaxGap /\ u \notin d.ledger.counted
                           /\ Ledger!DayOf(u) = d.summary
  BY NewUnits
<1>6. /\ Owes(x, owed) /\ Checkpoint(x) /\ x.json = d.json /\ x.sampled = hour
      /\ x.summary = d.summary /\ x.pending = d.pending /\ x.publishAge = d.publishAge
      /\ x.localDay = d.localDay /\ x.ledger.months = d.ledger.months
  BY <1>1, <1>2, <1>3, <1>4, <1>5, AccumulatedOwes
<1>7. Ledger!DeviceIsKept(Ledger!energyMqttUpdateFallback(x, ok))
  BY <1>2, <1>6, FedIsKept
<1> DEFINE e == Ledger!energyMqttUpdateFallback(x, ok)
<1>8. /\ SameButFed(x, e)
      /\ \A m \in Ledger!Months \ {Ledger!MonthOf(x.summary)} :
           e.ledger.months[m] = x.ledger.months[m]
  <2>1. Owes(x, owed) /\ Checkpoint(x) /\ Ledger!AddsUp(x.json)
    BY <1>2, <1>6
  <2>2. SameButFed(x, e)
    BY <2>1, UpdatedAndSaved
  <2> HIDE DEF e
  <2>3. ASSUME NEW m \in Ledger!Months, m # Ledger!MonthOf(x.summary)
        PROVE  e.ledger.months[m] = x.ledger.months[m]
    BY <2>1, <2>3, FedMonths DEF e
  <2> QED BY <2>2, <2>3
<1>9. r = e /\ Ledger!DeviceIsKept(e)
  BY <1>7
<1> HIDE DEF e
<1>10. e.summary = Ledger!Today /\ e.localDay = d.localDay /\ e.pending = d.pending
       /\ e.publishAge = d.publishAge
  BY <1>6, <1>8 DEF SameButFed
<1>11. \A m \in Ledger!Months \ {Ledger!MonthOf(Ledger!Today)} :
         e.ledger.months[m] = d.ledger.months[m]
  BY <1>6, <1>8
<1>12. StillKnown(d, e)
  BY <1>10, <1>11 DEF StillKnown
<1> QED BY <1>9, <1>10, <1>12, Zenon

\* At midnight the interval is split.
LEMMA SampleAfterMidnightKeeps ==
  ASSUME hour \in Ledger!Time, savedAt \in 0 .. hour, NEW ok \in BOOLEAN,
         NEW d, Ledger!DeviceIsKept(d), d.loaded,
         d.summary # Ledger!None, d.summary # Ledger!Today,
         NEW before, before = {u \in Ledger!Observed(d) : Ledger!DayOf(u) # Ledger!Today},
         NEW owed, owed = {u \in Ledger!Observed(d) : Ledger!DayOf(u) = Ledger!Today},
         NEW begun, begun = Ledger!RolledOver(
                              Ledger!energyMqttUpdateFallback(Ledger!Accumulated(d, before), ok)),
         NEW x, x = Sampled(begun, owed),
         NEW r, r = Ledger!energyMqttUpdateFallback(x, ok)
  PROVE  /\ Ledger!DeviceIsKept(r) /\ r.summary = Ledger!Today /\ r.localDay = d.localDay
         /\ r.pending /\ r.publishAge = d.publishAge
<1>1. Ledger!Today \in Nat /\ hour \in Nat
  BY LedgerConstants, LedgerTime DEF Ledger!Time, Ledger!Today
<1>2. /\ d \in Ledger!Device /\ Ledger!AddsUp(d.ledger) /\ Ledger!AddsUp(d.json)
      /\ d.sessionDay = d.summary /\ d.session = d.energy /\ d.ledger.dayStart = d.summary
      /\ Ledger!IsCheckpointed(d) /\ d.energy \in Nat /\ d.summary \in Nat
  BY DEF Ledger!DeviceIsKept, Ledger!IsFed, Ledger!Device
<1>3. d.summary <= Ledger!Today
  BY <1>2 DEF Ledger!AddsUp
<1>4. Ledger!Delta(d, d.summary, d.energy) = 0
  BY <1>2 DEF Ledger!Delta
<1>5. Checkpoint(d)
  BY <1>2, CheckpointOf
<1>6. /\ before \in SUBSET Ledger!Time
      /\ \A u \in before : u < hour /\ u >= hour - MaxGap /\ u \notin d.ledger.counted
                             /\ Ledger!DayOf(u) = d.summary
  BY NewUnits
<1> DEFINE a == Ledger!Accumulated(d, before)
           f == Ledger!energyMqttUpdateFallback(a, ok)
<1>7. /\ Owes(a, before) /\ Checkpoint(a) /\ a.json = d.json
      /\ a.summary = d.summary /\ a.pending = d.pending /\ a.publishAge = d.publishAge
      /\ a.localDay = d.localDay
  BY <1>2, <1>3, <1>4, <1>5, <1>6, AccumulatedOwes
<1>8. a.ledger.counted = d.ledger.counted \cup before
  BY <1>2 DEF Ledger!Accumulated, Ledger!Device, Ledger!LedgerType
<1>9. begun = Ledger!RolledOver(f)
  OBVIOUS
<1> HIDE DEF a
<1>10. /\ f \in Ledger!Device /\ Ledger!AddsUp(f.ledger) /\ Ledger!AddsUp(f.json)
       /\ Ledger!IsCheckpointed(f) /\ SameButFed(a, f)
       /\ f.sessionDay = a.summary /\ f.ledger.counted = a.ledger.counted
       /\ f.ledger.dayStart = a.summary
  BY <1>2, <1>7, UpdatedAndSaved
<1> HIDE DEF f
<1>11. f.loaded /\ f.publishAge = d.publishAge /\ f.localDay = d.localDay
  BY <1>7, <1>10 DEF SameButFed, Owes
<1>12. /\ begun \in Ledger!Device /\ begun.ledger = f.ledger /\ begun.json = f.json
       /\ begun.loaded /\ begun.summary = Ledger!Today /\ begun.energy = 0
       /\ begun.sessionDay = f.sessionDay /\ begun.saveAge = f.saveAge /\ begun.pending
       /\ begun.publishAge = f.publishAge /\ begun.localDay = f.localDay
  BY <1>9, <1>10, <1>11, RolledOverKeeps
<1>13. Ledger!Delta(begun, begun.summary, begun.energy) = 0
  BY <1>7, <1>10, <1>12 DEF Ledger!Delta
<1>14. Checkpoint(begun)
  BY <1>10, <1>12, CheckpointOf
<1>15. /\ owed \in SUBSET Ledger!Time
       /\ \A u \in owed : u < hour /\ u >= hour - MaxGap /\ u \notin begun.ledger.counted
                            /\ Ledger!DayOf(u) = begun.summary
  BY <1>8, <1>10, <1>12, NewUnits, ZenonT(40)
<1>16. begun.ledger.dayStart <= begun.summary
  BY <1>3, <1>7, <1>10, <1>12
<1>17. /\ Owes(x, owed) /\ Checkpoint(x) /\ x.json = begun.json /\ x.sampled = hour
       /\ x.summary = begun.summary /\ x.pending = begun.pending
       /\ x.publishAge = begun.publishAge /\ x.localDay = begun.localDay
  <2>1. begun.summary \in Nat /\ begun.summary <= Ledger!Today /\ Ledger!AddsUp(begun.ledger)
    BY <1>1, <1>10, <1>12
  <2> QED BY <1>12, <1>13, <1>14, <1>15, <1>16, <2>1, AccumulatedOwes
<1>18. Ledger!DeviceIsKept(Ledger!energyMqttUpdateFallback(x, ok))
  BY <1>10, <1>12, <1>17, FedIsKept
<1>19. SameButFed(x, Ledger!energyMqttUpdateFallback(x, ok))
  BY <1>10, <1>12, <1>17, UpdatedAndSaved
<1> QED BY <1>11, <1>12, <1>17, <1>18, <1>19 DEF SameButFed

LEMMA SampleKeeps ==
  ASSUME hour \in Ledger!Time, savedAt \in 0 .. hour, NEW ok \in BOOLEAN,
         NEW x, Ledger!DeviceIsKept(x), NEW r, r = Ledger!updateDailySummary(x, ok)
  PROVE  /\ Ledger!DeviceIsKept(r) /\ r.summary = Ledger!Today /\ r.localDay = x.localDay
         /\ StillKnown(x, r)
<1> DEFINE d == Ledger!loadFallback(x)
           units == Ledger!Observed(d)
           before == {u \in units : Ledger!DayOf(u) # Ledger!Today}
           owed == {u \in units : Ledger!DayOf(u) = Ledger!Today}
           first == IF d.sampled = Ledger!None THEN Ledger!PublishNow(d) ELSE d
           begun == IF first.summary = Ledger!None
                    THEN Ledger!PublishNow([first EXCEPT !.summary = Ledger!Today, !.energy = 0])
                    ELSE IF first.summary # Ledger!Today
                    THEN Ledger!RolledOver(
                           Ledger!energyMqttUpdateFallback(Ledger!Accumulated(first, before), ok))
                    ELSE first
<1>1. /\ Ledger!DeviceIsKept(d) /\ d.loaded
      /\ d.sampled = x.sampled /\ d.summary = x.summary /\ d.energy = x.energy
      /\ d.pending = x.pending /\ d.publishAge = x.publishAge /\ d.localDay = x.localDay
      /\ d.summary # Ledger!None => d = x
  <2> DEFINE e == Ledger!loadFallback(x)
  <2>1. e = Ledger!loadFallback(x)
    OBVIOUS
  <2> HIDE DEF e
  <2>2. /\ Ledger!DeviceIsKept(e) /\ e.loaded
        /\ e.sampled = x.sampled /\ e.summary = x.summary /\ e.energy = x.energy
        /\ e.pending = x.pending /\ e.publishAge = x.publishAge /\ e.localDay = x.localDay
        /\ x.summary # Ledger!None => e = x
    BY <2>1, LoadingKeeps
  <2> QED BY <2>1, <2>2
<1> HIDE DEF d
<1>2. units \ before = owed
  OBVIOUS
<1>3. r = Ledger!energyMqttUpdateFallback(Sampled(begun, units \ before), ok)
  BY DEF Ledger!updateDailySummary, Sampled, d
<1>4. r = Ledger!energyMqttUpdateFallback(Sampled(begun, owed), ok)
  BY <1>2, <1>3
<1> HIDE DEF units, before, owed, begun, first
<1>5. CASE d.summary = Ledger!None
  <2>1. d.sampled = Ledger!None /\ d \in Ledger!Device
    BY <1>1, <1>5 DEF Ledger!DeviceIsKept, Ledger!IsFed
  <2>2. first = Ledger!PublishNow(d) /\ first.summary = Ledger!None
    BY <1>5, <2>1 DEF first, Ledger!PublishNow, Ledger!Device
  <2>3. begun = Ledger!PublishNow([Ledger!PublishNow(d) EXCEPT !.summary = Ledger!Today, !.energy = 0])
    BY <2>2 DEF begun
  <2>4. owed = {}
    <3>1. SUFFICES ASSUME NEW u \in Ledger!Observed(d) PROVE FALSE
      BY DEF owed, units
    <3> QED BY <1>1, <1>5, NewUnits
  <2> DEFINE y == Sampled(begun, owed)
  <2>5. y = Sampled(Ledger!PublishNow(
                      [Ledger!PublishNow(d) EXCEPT !.summary = Ledger!Today, !.energy = 0]), {})
    BY <2>3, <2>4
  <2>6. r = Ledger!energyMqttUpdateFallback(y, ok)
    BY <1>4
  <2> HIDE DEF y
  <2>7. /\ Ledger!DeviceIsKept(r) /\ r.summary = Ledger!Today /\ r.localDay = d.localDay
        /\ r.pending /\ r.publishAge = Ledger!None
    BY <1>1, <1>5, <2>5, <2>6, FirstSampleKeeps
  <2> QED BY <1>1, <2>7 DEF StillKnown
<1>6. CASE d.summary # Ledger!None
  <2>1. d.sampled # Ledger!None /\ first = d /\ d = x
    BY <1>1, <1>6 DEF Ledger!DeviceIsKept, Ledger!IsFed, first
  <2>2. owed = {u \in Ledger!Observed(d) : Ledger!DayOf(u) = Ledger!Today}
        /\ before = {u \in Ledger!Observed(d) : Ledger!DayOf(u) # Ledger!Today}
    BY DEF owed, before, units
  <2> DEFINE y == Sampled(begun, owed)
  <2>3. y = Sampled(begun, owed) /\ r = Ledger!energyMqttUpdateFallback(y, ok)
    BY <1>4
  <2> HIDE DEF y
  <2>4. CASE d.summary = Ledger!Today
    <3>1. begun = d
      BY <1>6, <2>1, <2>4 DEF begun
    <3>2. /\ Ledger!DeviceIsKept(r) /\ r.summary = Ledger!Today /\ r.localDay = d.localDay
          /\ StillKnown(d, r)
      <4>1. y = Sampled(d, owed)
        BY <2>3, <3>1
      <4> QED BY <1>1, <2>2, <2>3, <2>4, <4>1, SampleOfTodayKeeps
    <3> QED BY <2>1, <3>2
  <2>5. CASE d.summary # Ledger!Today
    <3>1. begun = Ledger!RolledOver(
                    Ledger!energyMqttUpdateFallback(Ledger!Accumulated(d, before), ok))
      BY <1>6, <2>1, <2>5 DEF begun
    <3>2. /\ Ledger!DeviceIsKept(r) /\ r.summary = Ledger!Today /\ r.localDay = d.localDay
          /\ r.pending /\ r.publishAge = d.publishAge
      BY <1>1, <1>6, <2>2, <2>3, <2>5, <3>1, SampleAfterMidnightKeeps
    <3> QED BY <2>1, <3>2 DEF StillKnown
  <2> QED BY <2>4, <2>5
<1> QED BY <1>5, <1>6

LEMMA DayChangedKeeps ==
  ASSUME hour \in Ledger!Time, savedAt \in 0 .. hour, NEW ok \in BOOLEAN,
         NEW d, Ledger!DeviceIsKept(d), NEW r, r = Ledger!DayChanged(d, ok)
  PROVE  /\ Ledger!DeviceIsKept(r) /\ r.localDay = Ledger!Today
         /\ r.pending /\ r.publishAge = Ledger!None
<1> DEFINE f == IF d.summary # Ledger!None /\ d.summary < Ledger!Today
                THEN Ledger!energyMqttUpdateFallback(d, ok) ELSE d
<1>1. Ledger!Today \in Nat
  BY LedgerConstants, LedgerTime DEF Ledger!Time, Ledger!Today
<1>2. r = Ledger!PublishNow([f EXCEPT !.localDay = Ledger!Today])
  BY DEF Ledger!DayChanged
<1>3. Ledger!DeviceIsKept(f)
  <2>1. CASE d.summary # Ledger!None /\ d.summary < Ledger!Today
    <3>1. /\ d \in Ledger!Device /\ Ledger!AddsUp(d.ledger) /\ Ledger!AddsUp(d.json)
          /\ d.loaded /\ d.sessionDay = d.summary /\ d.session = d.energy
          /\ d.ledger.dayStart = d.summary /\ Ledger!IsCheckpointed(d)
          /\ d.energy \in Nat /\ d.summary \in Nat
          /\ d.sampled # Ledger!None /\ d.sampled <= hour /\ d.summary = Ledger!DayOf(d.sampled)
          /\ \A u \in d.ledger.counted : u < d.sampled
      BY <2>1 DEF Ledger!DeviceIsKept, Ledger!IsFed, Ledger!Device
    <3>2. Owes(d, {})
      <4>1. Ledger!Delta(d, d.summary, d.energy) = Cardinality({})
        BY <3>1, FS_EmptySet DEF Ledger!Delta
      <4>2. [d.ledger EXCEPT !.counted = @ \ {}] = d.ledger
        <5>1. d.ledger \in Ledger!LedgerType /\ d.ledger.counted \ {} = d.ledger.counted
          BY <3>1 DEF Ledger!Device
        <5> QED BY <5>1 DEF Ledger!LedgerType
      <4>3. SumsUp([d.ledger EXCEPT !.counted = @ \ {}])
        BY <3>1, <4>2, SumsAddUp
      <4> QED BY <1>1, <2>1, <3>1, <4>1, <4>3 DEF Owes
    <3>3. Checkpoint(d)
      BY <3>1, CheckpointOf
    <3> DEFINE e == Ledger!energyMqttUpdateFallback(d, ok)
    <3>4. /\ e \in Ledger!Device /\ Ledger!AddsUp(e.ledger) /\ Ledger!AddsUp(e.json)
          /\ Ledger!IsCheckpointed(e) /\ SameButFed(d, e)
          /\ e.sessionDay = d.summary /\ e.session = d.energy
          /\ e.ledger.counted = d.ledger.counted /\ e.ledger.dayStart = d.summary
      BY <3>1, <3>2, <3>3, UpdatedAndSaved
    <3>5. f = e
      BY <2>1
    <3> HIDE DEF e, f
    <3>6. Ledger!IsFed(e)
      BY <2>1, <3>1, <3>4 DEF Ledger!IsFed, SameButFed
    <3> QED BY <3>4, <3>5, <3>6 DEF Ledger!DeviceIsKept
  <2>2. CASE ~(d.summary # Ledger!None /\ d.summary < Ledger!Today)
    BY <2>2
  <2> QED BY <2>1, <2>2
<1> HIDE DEF f
<1>4. f \in Ledger!Device
  BY <1>3 DEF Ledger!DeviceIsKept
<1>5. r = [f EXCEPT !.localDay = Ledger!Today, !.pending = TRUE, !.publishAge = Ledger!None]
  BY <1>2, <1>4 DEF Ledger!PublishNow, Ledger!Device
<1>6. /\ r \in Ledger!Device /\ r.sampled = f.sampled /\ r.summary = f.summary
      /\ r.energy = f.energy /\ r.sessionDay = f.sessionDay /\ r.session = f.session
      /\ r.loaded = f.loaded /\ r.ledger = f.ledger /\ r.json = f.json /\ r.dirty = f.dirty
      /\ r.saveAge = f.saveAge /\ r.localDay = Ledger!Today /\ r.pending
      /\ r.publishAge = Ledger!None
  BY <1>1, <1>4, <1>5 DEF Ledger!Device
<1>7. Ledger!IsFed(r)
  BY <1>3, <1>6 DEF Ledger!DeviceIsKept, Ledger!IsFed
<1>8. Ledger!IsCheckpointed(r)
  BY <1>3, <1>6 DEF Ledger!DeviceIsKept, Ledger!IsCheckpointed, Ledger!SaveDue
<1> QED BY <1>3, <1>6, <1>7, <1>8 DEF Ledger!DeviceIsKept

LEMMA SavedIsFed ==
  ASSUME NEW d \in Ledger!Device, NEW r \in Ledger!Device, Ledger!IsFed(d), d.loaded,
         SameButSaved(d, r)
  PROVE  Ledger!IsFed(r) /\ r.loaded /\ r.localDay = d.localDay /\ StillKnown(d, r)
<1>1. /\ r.sampled = d.sampled /\ r.summary = d.summary /\ r.energy = d.energy
      /\ r.loaded = d.loaded /\ r.pending = d.pending /\ r.publishAge = d.publishAge
      /\ r.localDay = d.localDay /\ r.sessionDay = d.sessionDay /\ r.session = d.session
      /\ r.ledger = d.ledger
  BY DEF SameButSaved, SameButFed
<1>2. r.loaded
  BY <1>1
<1>3. Ledger!IsFed(r)
  BY <1>1, <1>2 DEF Ledger!IsFed
<1>4. StillKnown(d, r)
  BY <1>1 DEF StillKnown
<1> QED BY <1>1, <1>2, <1>3, <1>4

LEMMA LoopedKeeps ==
  ASSUME hour \in Ledger!Time, savedAt \in 0 .. hour,
         NEW take \in BOOLEAN, NEW ok \in BOOLEAN, Ledger!DeviceIsKept(device),
         device.localDay # Ledger!None => device.loaded,
         NEW r, r = Ledger!Looped(take, ok)
  PROVE  /\ Ledger!DeviceIsKept(r) /\ r.localDay = Ledger!Today /\ r.loaded
         /\ r.publishAge # Ledger!None => device.localDay = Ledger!Today
         /\ ~r.pending => device.localDay = Ledger!Today
         /\ StillKnown(device, r)
         /\ ok => ~Ledger!SaveDue(r) \/ ~r.dirty
<1> DEFINE d == IF take THEN Ledger!updateDailySummary(device, ok) ELSE device
           e == IF d.localDay # Ledger!Today THEN Ledger!DayChanged(d, ok) ELSE d
           f == Ledger!loadFallback(e)
<1>1. r = Ledger!SavedWhenDue(f, ok)
  BY DEF Ledger!Looped
<1>2. Ledger!Today \in Nat /\ Ledger!Today # Ledger!None
  BY LedgerConstants, LedgerTime DEF Ledger!Time, Ledger!Today, Ledger!None
<1>3. /\ Ledger!DeviceIsKept(d) /\ d.localDay = device.localDay /\ StillKnown(device, d)
  <2>1. CASE take
    <3>1. d = Ledger!updateDailySummary(device, ok)
      BY <2>1
    <3> HIDE DEF d
    <3> QED BY <3>1, SampleKeeps
  <2>2. CASE ~take
    BY <2>2 DEF StillKnown
  <2> QED BY <2>1, <2>2
<1>4. device.loaded => d.loaded
  <2>1. CASE take
    <3>1. d = Ledger!updateDailySummary(device, ok)
      BY <2>1
    <3> HIDE DEF d
    <3>2. Ledger!DeviceIsKept(d) /\ d.summary = Ledger!Today
      BY <3>1, SampleKeeps
    <3> QED BY <1>2, <3>2 DEF Ledger!DeviceIsKept, Ledger!IsFed
  <2>2. CASE ~take
    BY <2>2
  <2> QED BY <2>1, <2>2
<1> HIDE DEF d
<1>5. CASE d.localDay # Ledger!Today
  <2>1. e = Ledger!DayChanged(d, ok)
    BY <1>5
  <2> HIDE DEF e
  <2>2. /\ Ledger!DeviceIsKept(e) /\ e.localDay = Ledger!Today
        /\ e.pending /\ e.publishAge = Ledger!None
    BY <1>3, <2>1, DayChangedKeeps
  <2>3. f = Ledger!loadFallback(e)
    OBVIOUS
  <2> HIDE DEF f
  <2>4. /\ Ledger!DeviceIsKept(f) /\ f.loaded /\ f.localDay = Ledger!Today
        /\ f.pending /\ f.publishAge = Ledger!None
    BY <2>2, <2>3, LoadingKeeps
  <2>5. /\ f \in Ledger!Device /\ Ledger!AddsUp(f.ledger) /\ Ledger!AddsUp(f.json)
        /\ Ledger!IsCheckpointed(f)
    BY <2>4 DEF Ledger!DeviceIsKept
  <2>6. /\ r \in Ledger!Device /\ Ledger!AddsUp(r.json) /\ Ledger!IsCheckpointed(r)
        /\ SameButSaved(f, r)
        /\ ok => ~Ledger!SaveDue(r) \/ ~r.dirty
    BY <1>1, <2>4, <2>5, SavingKeeps
  <2>7. Ledger!IsFed(r) /\ r.loaded /\ r.localDay = Ledger!Today
        /\ r.ledger = f.ledger /\ r.pending /\ r.publishAge = Ledger!None
    <3>1. Ledger!IsFed(f)
      BY <2>4 DEF Ledger!DeviceIsKept
    <3>2. r.ledger = f.ledger /\ r.pending = f.pending /\ r.publishAge = f.publishAge
      BY <2>6 DEF SameButSaved, SameButFed
    <3>3. Ledger!IsFed(r) /\ r.loaded /\ r.localDay = f.localDay
      BY <2>4, <2>5, <2>6, <3>1, SavedIsFed
    <3> QED BY <2>4, <3>2, <3>3
  <2>8. Ledger!DeviceIsKept(r)
    BY <2>5, <2>6, <2>7 DEF Ledger!DeviceIsKept
  <2>9. StillKnown(device, r)
    BY <2>7 DEF StillKnown
  <2> QED BY <2>6, <2>7, <2>8, <2>9
<1>6. CASE d.localDay = Ledger!Today
  <2>1. e = d
    BY <1>6
  <2>2. device.localDay = Ledger!Today /\ d.loaded
    BY <1>2, <1>3, <1>4, <1>6
  <2>3. f = d
    BY <2>1, <2>2 DEF Ledger!loadFallback
  <2> HIDE DEF e, f
  <2>4. /\ d \in Ledger!Device /\ Ledger!AddsUp(d.ledger) /\ Ledger!AddsUp(d.json)
        /\ Ledger!IsCheckpointed(d) /\ Ledger!IsFed(d)
    BY <1>3 DEF Ledger!DeviceIsKept
  <2>5. /\ r \in Ledger!Device /\ Ledger!AddsUp(r.json) /\ Ledger!IsCheckpointed(r)
        /\ SameButSaved(d, r)
        /\ ok => ~Ledger!SaveDue(r) \/ ~r.dirty
    BY <1>1, <2>2, <2>3, <2>4, SavingKeeps
  <2>6. Ledger!IsFed(r) /\ r.loaded /\ r.localDay = Ledger!Today /\ StillKnown(d, r)
    BY <1>6, <2>2, <2>4, <2>5, SavedIsFed
  <2>7. r.ledger = d.ledger
    BY <2>5 DEF SameButSaved
  <2>8. Ledger!DeviceIsKept(r)
    BY <2>4, <2>5, <2>6, <2>7 DEF Ledger!DeviceIsKept
  <2>9. StillKnown(device, r)
    BY <1>3, <2>6 DEF StillKnown
  <2> QED BY <2>2, <2>5, <2>6, <2>8, <2>9
<1> QED BY <1>5, <1>6

\* A device is as good later, and after a save that has just been made or was not due.
LEMMA DeviceLater ==
  ASSUME hour \in Ledger!Time, savedAt \in 0 .. hour, hour' = hour, NEW r, Ledger!DeviceIsKept(r),
         savedAt' = savedAt \/ (savedAt' = hour /\ (~Ledger!SaveDue(r) \/ ~r.dirty)),
         NEW x, device' = x,
         x = r \/ x = [r EXCEPT !.pending = FALSE, !.publishAge = 0]
  PROVE  Ledger!DeviceIsKept(device)'
<1>1. /\ x \in Ledger!Device /\ x.sampled = r.sampled /\ x.summary = r.summary
      /\ x.energy = r.energy /\ x.sessionDay = r.sessionDay /\ x.session = r.session
      /\ x.loaded = r.loaded /\ x.ledger = r.ledger /\ x.json = r.json /\ x.dirty = r.dirty
      /\ x.saveAge = r.saveAge
  <2>1. r \in Ledger!Device
    BY DEF Ledger!DeviceIsKept
  <2>2. CASE x = r
    BY <2>1, <2>2
  <2>3. CASE x = [r EXCEPT !.pending = FALSE, !.publishAge = 0]
    BY <2>1, <2>3 DEF Ledger!Device
  <2> QED BY <2>2, <2>3
<1>2. (device \in Ledger!Device)'
  BY <1>1 DEF Ledger!Device
<1>3. Ledger!AddsUp(device.ledger)' /\ Ledger!AddsUp(device.json)'
  <2>1. Ledger!AddsUp(x.ledger) /\ Ledger!AddsUp(x.json)
    BY <1>1 DEF Ledger!DeviceIsKept
  <2> QED BY <2>1 DEF Ledger!AddsUp, Ledger!Today
<1>4. Ledger!IsFed(device)'
  BY <1>1 DEF Ledger!DeviceIsKept, Ledger!IsFed
<1>5. Ledger!IsCheckpointed(device)'
  <2>1. Ledger!IsCheckpointed(r) /\ r \in Ledger!Device
    BY DEF Ledger!DeviceIsKept
  <2>2. \A u \in r.ledger.counted \ r.json.counted :
          /\ u >= savedAt' - SAVE_INTERVAL - MaxGap
          /\ ~Ledger!SaveDue(r) => u >= hour - r.saveAge - MaxGap
    <3> SUFFICES ASSUME NEW u \in r.ledger.counted \ r.json.counted
                 PROVE  /\ u >= savedAt' - SAVE_INTERVAL - MaxGap
                        /\ ~Ledger!SaveDue(r) => u >= hour - r.saveAge - MaxGap
      OBVIOUS
    <3>1. /\ r.dirty /\ u >= savedAt - SAVE_INTERVAL - MaxGap
          /\ ~Ledger!SaveDue(r) => u >= hour - r.saveAge - MaxGap
      BY <2>1 DEF Ledger!IsCheckpointed
    <3>2. CASE savedAt' = savedAt
      BY <3>1, <3>2
    <3>3. CASE savedAt' = hour /\ ~Ledger!SaveDue(r)
      <4>1. r.saveAge \in 0 .. SAVE_INTERVAL
        BY <2>1, <3>3 DEF Ledger!Device, Ledger!SaveDue
      <4>2. u \in Nat /\ hour \in Nat
        BY <2>1, LedgerConstants DEF Ledger!Device, Ledger!LedgerType, Ledger!Time
      <4> QED BY <3>1, <3>3, <4>1, <4>2, LedgerConstants
    <3> QED BY <3>1, <3>2, <3>3
  <2>3. Ledger!SaveDue(device)' <=> Ledger!SaveDue(r)
    BY <1>1 DEF Ledger!SaveDue
  <2>4. ~r.dirty => r.ledger.counted \ r.json.counted = {}
    BY <2>1 DEF Ledger!IsCheckpointed
  <2> QED BY <1>1, <2>2, <2>3, <2>4 DEF Ledger!IsCheckpointed
<1> QED BY <1>2, <1>3, <1>4, <1>5 DEF Ledger!DeviceIsKept

LEMMA DeviceTicks ==
  ASSUME Ledger!LedgerTypeOK, Ledger!DeviceIsKept(device), Ledger!Tick
  PROVE  Ledger!DeviceIsKept(device)'
<1>1. /\ hour \in Nat /\ hour' = hour + 1 /\ hour' \in Ledger!Time /\ savedAt' = savedAt
      /\ savedAt \in 0 .. hour /\ device \in Ledger!Device
  BY LedgerConstants DEF Ledger!Tick, Ledger!LedgerTypeOK, Ledger!Time
<1> DEFINE saveAge == Ledger!More(device.saveAge, SAVE_INTERVAL)
           publishAge == Ledger!More(device.publishAge, COP_MQTT_PUBLISH_INTERVAL)
<1>2. device' = [device EXCEPT !.saveAge = saveAge, !.publishAge = publishAge]
  BY DEF Ledger!Tick
<1>3. /\ saveAge \in 0 .. SAVE_INTERVAL \cup {Ledger!None}
      /\ publishAge \in Nat \cup {Ledger!None}
      /\ device.saveAge \in {Ledger!None, SAVE_INTERVAL} => saveAge = device.saveAge
      /\ device.saveAge \notin {Ledger!None, SAVE_INTERVAL} => saveAge = device.saveAge + 1
  BY <1>1, LedgerConstants DEF Ledger!More, Ledger!Device, Ledger!None
<1> HIDE DEF saveAge, publishAge
<1>4. /\ (device \in Ledger!Device)'
      /\ device'.sampled = device.sampled /\ device'.summary = device.summary
      /\ device'.energy = device.energy /\ device'.sessionDay = device.sessionDay
      /\ device'.session = device.session /\ device'.loaded = device.loaded
      /\ device'.ledger = device.ledger /\ device'.json = device.json
      /\ device'.dirty = device.dirty /\ device'.saveAge = saveAge
  BY <1>1, <1>2, <1>3 DEF Ledger!Device
<1>5. Ledger!Today <= Ledger!Today' /\ Ledger!Today \in Nat /\ Ledger!Today' \in Nat
  BY <1>1, LedgerTime DEF Ledger!Today
<1>6. ASSUME NEW l \in Ledger!LedgerType, Ledger!AddsUp(l), NEW k, k' = l
      PROVE  Ledger!AddsUp(k)'
  <2>1. \A u \in l.counted : u \in Nat /\ u < hour + 1
    BY <1>1, <1>6, LedgerConstants DEF Ledger!AddsUp, Ledger!LedgerType, Ledger!Time
  <2>2. l.dayStart # Ledger!None => l.dayStart <= Ledger!Today'
    BY <1>5, <1>6 DEF Ledger!AddsUp, Ledger!LedgerType
  <2> QED BY <1>1, <1>6, <2>1, <2>2 DEF Ledger!AddsUp
<1>7. Ledger!AddsUp(device.ledger)' /\ Ledger!AddsUp(device.json)'
  BY <1>1, <1>4, <1>6 DEF Ledger!DeviceIsKept, Ledger!Device
<1>8. Ledger!IsFed(device)'
  <2>1. device.sampled # Ledger!None => device.sampled \in Nat
    BY <1>1, LedgerConstants DEF Ledger!Device, Ledger!Time
  <2>2. device.saveAge = Ledger!None => saveAge = Ledger!None
    BY <1>3
  <2>3. Ledger!IsFed(device)
    BY DEF Ledger!DeviceIsKept
  <2>4. device.sampled # Ledger!None /\ device.sampled <= hour => device.sampled <= hour'
    BY <1>1, <2>1
  <2> QED BY <1>4, <2>2, <2>3, <2>4 DEF Ledger!IsFed
<1>9. Ledger!IsCheckpointed(device)'
  <2>1. Ledger!IsCheckpointed(device)
    BY DEF Ledger!DeviceIsKept
  <2>2. ASSUME NEW u \in device.ledger.counted \ device.json.counted, ~Ledger!SaveDue(device)'
        PROVE  u >= hour' - device'.saveAge - MaxGap
    <3>1. saveAge \notin {Ledger!None, SAVE_INTERVAL}
      BY <1>4, <2>2 DEF Ledger!SaveDue
    <3>2. device.saveAge \notin {Ledger!None, SAVE_INTERVAL} /\ saveAge = device.saveAge + 1
      BY <1>3, <3>1
    <3>3. u >= hour - device.saveAge - MaxGap
      BY <2>1, <3>2 DEF Ledger!IsCheckpointed, Ledger!SaveDue
    <3>4. device.saveAge \in Nat /\ u \in Nat
      BY <1>1, <3>2, LedgerConstants DEF Ledger!Device, Ledger!LedgerType, Ledger!Time
    <3> QED BY <1>1, <1>4, <3>2, <3>3, <3>4, LedgerConstants
  <2>3. /\ ~device.dirty => device.ledger.counted \ device.json.counted = {}
        /\ \A u \in device.ledger.counted \ device.json.counted : u >= savedAt - SAVE_INTERVAL - MaxGap
    BY <2>1 DEF Ledger!IsCheckpointed
  <2> QED BY <1>1, <1>4, <2>2, <2>3 DEF Ledger!IsCheckpointed
<1> QED BY <1>4, <1>7, <1>8, <1>9 DEF Ledger!DeviceIsKept

LEMMA EmptyLedger ==
  /\ hour \in Ledger!Time => Ledger!AddsUp(Ledger!NoLedger)
  /\ Ledger!NoLedger \in Ledger!LedgerType
<1>1. Cardinality({}) = 0
  BY FS_EmptySet
<1> DEFINE l == Ledger!NoLedger
<1>2. /\ l.dayStart = Ledger!None /\ l.counted = {} /\ l.today = 0
      /\ l.months = [m \in Ledger!Months |-> Ledger!None]
      /\ l \in Ledger!LedgerType
  BY DEF Ledger!NoLedger, Ledger!LedgerType
<1> HIDE DEF l
<1>3. ASSUME NEW m \in Ledger!Months
      PROVE  Ledger!forMonth(l, m) = Cardinality({u \in l.counted : Ledger!MonthOf(Ledger!DayOf(u)) = m})
  <2>1. Ledger!forMonth(l, m) = 0
    BY <1>2 DEF Ledger!forMonth, Ledger!Recorded
  <2>2. {u \in l.counted : Ledger!MonthOf(Ledger!DayOf(u)) = m} = {}
    BY <1>2
  <2> QED BY <1>1, <2>1, <2>2
<1>4. SumsUp(l)
  BY <1>2, <1>3 DEF SumsUp
<1> QED BY <1>2, <1>4, SumsAddUp DEF l

LEMMA InitialIsKept ==
  ASSUME hour \in Ledger!Time, savedAt \in 0 .. hour,
         NEW json \in Ledger!LedgerType, Ledger!AddsUp(json), NEW d, d = Ledger!Initial(json)
  PROVE  Ledger!DeviceIsKept(d) /\ d.localDay = Ledger!None /\ d.pending
<1>1. /\ d.sampled = Ledger!None /\ d.summary = Ledger!None /\ d.sessionDay = Ledger!None
      /\ ~d.loaded /\ d.ledger = Ledger!NoLedger /\ d.json = json /\ ~d.dirty
      /\ d.saveAge = Ledger!None /\ d.pending /\ d.localDay = Ledger!None
  BY DEF Ledger!Initial
<1>2. d \in Ledger!Device
  BY EmptyLedger DEF Ledger!Initial, Ledger!Device
<1>3. Ledger!NoLedger.counted = {}
  BY DEF Ledger!NoLedger
<1>4. Ledger!IsFed(d)
  BY <1>1 DEF Ledger!IsFed
<1>5. Ledger!IsCheckpointed(d)
  BY <1>1, <1>3 DEF Ledger!IsCheckpointed
<1> QED BY <1>1, <1>2, <1>4, <1>5, EmptyLedger DEF Ledger!DeviceIsKept

\* A value that may be retained: what is Online has one.
Sound(v) == v \in Ledger!Retainable /\ (v.online => v.number # Ledger!Nothing)

LEMMA RecordedValue ==
  ASSUME NEW of \in Nat, NEW n \in Nat, NEW metric \in Ledger!Metric,
         NEW v, v = Ledger!publishRecordedEnergy(of, n)[metric]
  PROVE  /\ Sound(v) /\ (v.online => v.number.of = of)
         /\ metric = "kwh" => v = Ledger!Valid(of, n)
<1>1. v = IF metric = "kwh" \/ n > 0 THEN Ledger!Valid(of, n) ELSE Ledger!Invalid
  BY DEF Ledger!publishRecordedEnergy
<1>2. CASE v = Ledger!Valid(of, n)
  <2>1. v.online = TRUE /\ v.number = [of |-> of, value |-> n]
    BY <1>2 DEF Ledger!Valid
  <2>2. v \in Ledger!Retainable
    BY <1>2 DEF Ledger!Valid, Ledger!Retainable, Ledger!Number
  <2>3. v.number # Ledger!Nothing
    <3>1. v.number.of = of /\ Ledger!Nothing.of = -1
      BY <2>1 DEF Ledger!Nothing, Ledger!None
    <3> QED BY <3>1
  <2> QED BY <1>2, <2>1, <2>2, <2>3 DEF Sound
<1>3. CASE v = Ledger!Invalid /\ metric # "kwh"
  <2>1. v.online = FALSE
    BY <1>3 DEF Ledger!Invalid
  <2>2. v \in Ledger!Retainable
    BY <1>3 DEF Ledger!Invalid, Ledger!Retainable, Ledger!Number, Ledger!Nothing, Ledger!None
  <2> QED BY <1>3, <2>1, <2>2 DEF Sound
<1> QED BY <1>1, <1>2, <1>3

LEMMA Published ==
  ASSUME hour \in Ledger!Time, NEW d \in Ledger!Device,
         NEW pub, pub = Ledger!energyMqttPublishFallback(d)
  PROVE  /\ Ledger!Current \subseteq DOMAIN pub
         /\ \A p \in DOMAIN pub, metric \in Ledger!Metric : Sound(pub[p][metric])
         /\ \A p \in Ledger!Current, metric \in Ledger!Metric : pub[p][metric].online =>
              pub[p][metric].number.of
                = (IF p = Ledger!TheDay THEN Ledger!Today ELSE Ledger!MonthOf(Ledger!Today))
         /\ \A m \in Ledger!Recorded(d.ledger) :
              IF d.pending \/ m = Ledger!MonthOf(Ledger!Today)
              THEN /\ Ledger!Dated(m) \in DOMAIN pub
                   /\ pub[Ledger!Dated(m)]["kwh"] = Ledger!Valid(m, d.ledger.months[m])
              ELSE Ledger!Dated(m) \notin DOMAIN pub
<1> DEFINE l == d.ledger
           now_ == Ledger!MonthOf(Ledger!Today)
           dated == {m \in Ledger!Recorded(l) : d.pending \/ m = now_}
           today == IF l.dayStart = Ledger!Today THEN l.today ELSE 0
           month(p) == IF p = Ledger!TheMonth THEN now_ ELSE p - 2
<1>1. /\ l.months \in [Ledger!Months -> Nat \cup {Ledger!None}] /\ today \in Nat
  BY DEF Ledger!Device, Ledger!LedgerType
<1>2. Ledger!Today \in Nat /\ now_ \in Nat
  BY LedgerMonths, LedgerConstants, LedgerTime DEF Ledger!Time, Ledger!Today
<1>3. /\ \A m : Ledger!forMonth(l, m) \in Nat
      /\ \A m \in Ledger!Recorded(l) : m \in Nat /\ Ledger!forMonth(l, m) = l.months[m]
  <2>1. Ledger!Months \subseteq Nat
    BY LedgerConstants, LedgerTime DEF Ledger!Months
  <2>2. \A m \in Ledger!Recorded(l) : m \in Ledger!Months /\ l.months[m] \in Nat
    BY <1>1 DEF Ledger!Recorded
  <2> QED BY <1>1, <2>1, <2>2 DEF Ledger!forMonth
<1>4. DOMAIN pub = Ledger!Current \cup {Ledger!Dated(m) : m \in dated}
  BY DEF Ledger!energyMqttPublishFallback
<1>5. \A p \in DOMAIN pub :
        pub[p] = IF p = Ledger!TheDay THEN Ledger!publishRecordedEnergy(Ledger!Today, today)
                 ELSE Ledger!publishRecordedEnergy(month(p), Ledger!forMonth(l, month(p)))
  BY <1>4 DEF Ledger!energyMqttPublishFallback
<1>6. \A m \in dated : /\ m \in Nat /\ Ledger!Dated(m) # Ledger!TheDay
                       /\ Ledger!Dated(m) # Ledger!TheMonth /\ month(Ledger!Dated(m)) = m
  BY <1>3 DEF Ledger!Dated, Ledger!TheDay, Ledger!TheMonth
<1>7. Ledger!TheDay # Ledger!TheMonth /\ month(Ledger!TheMonth) = now_
  BY DEF Ledger!TheDay, Ledger!TheMonth
<1> HIDE DEF today, dated, month, now_, l
<1>8. ASSUME NEW p \in DOMAIN pub, NEW metric \in Ledger!Metric
      PROVE  Sound(pub[p][metric])
  <2>1. CASE p = Ledger!TheDay
    BY <1>1, <1>2, <1>5, <2>1, RecordedValue
  <2>2. CASE p = Ledger!TheMonth
    BY <1>2, <1>3, <1>5, <1>7, <2>2, RecordedValue
  <2>3. CASE p \notin Ledger!Current
    <3>1. PICK m \in dated : p = Ledger!Dated(m)
      BY <1>4, <2>3
    <3> QED BY <1>3, <1>5, <1>6, <3>1, RecordedValue
  <2> QED BY <2>1, <2>2, <2>3 DEF Ledger!Current
<1>9. ASSUME NEW p \in Ledger!Current, NEW metric \in Ledger!Metric, pub[p][metric].online
      PROVE  pub[p][metric].number.of = IF p = Ledger!TheDay THEN Ledger!Today ELSE now_
  <2>1. p \in DOMAIN pub
    BY <1>4
  <2>2. CASE p = Ledger!TheDay
    BY <1>1, <1>2, <1>5, <1>9, <2>1, <2>2, RecordedValue
  <2>3. CASE p = Ledger!TheMonth
    BY <1>2, <1>3, <1>5, <1>7, <1>9, <2>1, <2>3, RecordedValue
  <2> QED BY <2>2, <2>3 DEF Ledger!Current
<1>10. ASSUME NEW m \in dated
       PROVE  /\ Ledger!Dated(m) \in DOMAIN pub
              /\ pub[Ledger!Dated(m)]["kwh"] = Ledger!Valid(m, l.months[m])
  <2>1. Ledger!Dated(m) \in DOMAIN pub
    BY <1>4
  <2>2. m \in Ledger!Recorded(l) /\ "kwh" \in Ledger!Metric
    BY DEF dated, Ledger!Metric
  <2>3. pub[Ledger!Dated(m)] = Ledger!publishRecordedEnergy(m, l.months[m]) /\ l.months[m] \in Nat
    BY <1>3, <1>5, <1>6, <2>1, <2>2
  <2> QED BY <1>6, <2>1, <2>2, <2>3, RecordedValue
<1>11. ASSUME NEW m \in Ledger!Recorded(l), m \notin dated
       PROVE  Ledger!Dated(m) \notin DOMAIN pub
  <2>1. m \in Nat
    BY <1>3
  <2>2. \A k \in dated : k \in Nat /\ k # m
    BY <1>6, <1>11
  <2> QED BY <1>4, <2>1, <2>2 DEF Ledger!Dated, Ledger!Current, Ledger!TheDay, Ledger!TheMonth
<1> QED BY <1>4, <1>8, <1>9, <1>10, <1>11 DEF l, dated, now_

\* What is retained is sound when any of a publication has arrived.
Retained(q) == \A p \in Ledger!Period, metric \in Ledger!Metric : Sound(q[p][metric])

LEMMA ArrivedKeeps ==
  ASSUME Retained(periods), NEW pub, NEW upTo \in Int,
         \A p \in DOMAIN pub, metric \in Ledger!Metric : Sound(pub[p][metric]),
         NEW q, q = Ledger!Arrived(pub, upTo)
  PROVE  Retained(q) /\ q \in [Ledger!Period -> [Ledger!Metric -> Ledger!Retainable]]
<1>1. ASSUME NEW p \in Ledger!Period, NEW metric \in Ledger!Metric
      PROVE  Sound(q[p][metric])
  <2> DEFINE got == upTo - 4 * p - (IF metric = "kwh" THEN 0 ELSE 2)
  <2>1. q[p][metric] = IF p \notin DOMAIN pub \/ got <= 0 THEN periods[p][metric]
                       ELSE IF got = 1 THEN Ledger!FirstOf(periods[p][metric], pub[p][metric])
                       ELSE pub[p][metric]
    BY DEF Ledger!Arrived
  <2> HIDE DEF got
  <2>2. CASE q[p][metric] = periods[p][metric]
    BY <2>2 DEF Retained
  <2>3. CASE p \in DOMAIN pub /\ q[p][metric] = pub[p][metric]
    BY <2>3
  <2>4. CASE p \in DOMAIN pub /\ q[p][metric] = Ledger!FirstOf(periods[p][metric], pub[p][metric])
    <3> DEFINE old == periods[p][metric]
               new == pub[p][metric]
    <3>1. Sound(old) /\ Sound(new)
      BY <2>4 DEF Retained
    <3> HIDE DEF old, new
    <3>2. Sound(Ledger!FirstOf(old, new))
      BY <3>1 DEF Sound, Ledger!FirstOf, Ledger!Retainable
    <3> QED BY <2>4, <3>2 DEF old, new
  <2> QED BY <2>1, <2>2, <2>3, <2>4
<1>2. q \in [Ledger!Period -> [Ledger!Metric -> Ledger!Retainable]]
  <2>1. q = [p \in Ledger!Period |-> q[p]]
    BY DEF Ledger!Arrived
  <2>2. \A p \in Ledger!Period : q[p] = [metric \in Ledger!Metric |-> q[p][metric]]
    BY DEF Ledger!Arrived
  <2>3. \A p \in Ledger!Period, metric \in Ledger!Metric : q[p][metric] \in Ledger!Retainable
    BY <1>1 DEF Sound
  <2>4. \A p \in Ledger!Period : q[p] \in [Ledger!Metric -> Ledger!Retainable]
    BY <2>2, <2>3, Zenon
  <2> QED BY <2>1, <2>4, Zenon
<1> QED BY <1>1, <1>2 DEF Retained

LEMMA AllArrived ==
  ASSUME NEW pub, NEW q, q = Ledger!Arrived(pub, 4 * (Ledger!Latest + 1)), hour \in Ledger!Time,
         NEW p \in Ledger!Period, NEW metric \in Ledger!Metric
  PROVE  q[p][metric] = IF p \in DOMAIN pub THEN pub[p][metric] ELSE periods[p][metric]
<1>1. Ledger!Latest \in Int
  BY LedgerConstants, LedgerTime DEF Ledger!Latest, Ledger!Dated
<1>2. p \in Nat /\ p <= Ledger!Latest
  BY <1>1 DEF Ledger!Period
<1>3. /\ 4 * (Ledger!Latest + 1) - 4 * p - 0 >= 2 /\ 4 * (Ledger!Latest + 1) - 4 * p - 2 >= 2
      /\ 4 * (Ledger!Latest + 1) - 4 * p - 0 \in Int /\ 4 * (Ledger!Latest + 1) - 4 * p - 2 \in Int
  BY <1>1, <1>2
<1> DEFINE got == 4 * (Ledger!Latest + 1) - 4 * p - (IF metric = "kwh" THEN 0 ELSE 2)
<1>4. got >= 2 /\ got \in Int
  BY <1>3
<1>5. q[p][metric] = IF p \notin DOMAIN pub \/ got <= 0 THEN periods[p][metric]
                     ELSE IF got = 1 THEN Ledger!FirstOf(periods[p][metric], pub[p][metric])
                     ELSE pub[p][metric]
  BY DEF Ledger!Arrived
<1> HIDE DEF got
<1>6. ~(got <= 0) /\ got # 1
  BY <1>4
<1> QED BY <1>5, <1>6

LEMMA PeriodsOfNow ==
  ASSUME hour \in Ledger!Time
  PROVE  /\ Ledger!Current \subseteq Ledger!Period
         /\ \A m \in Ledger!Months : Ledger!Dated(m) \in Ledger!Period \ Ledger!Current
<1>1. Ledger!MonthOf(Ledger!DayOf(MaxHour)) \in Nat
  BY LedgerConstants, LedgerTime
<1> QED BY <1>1 DEF Ledger!Current, Ledger!Period, Ledger!Latest, Ledger!Dated, Ledger!Months,
      Ledger!TheDay, Ledger!TheMonth

LEMMA Invalidated ==
  ASSUME Retained(periods), periods \in [Ledger!Period -> [Ledger!Metric -> Ledger!Retainable]],
         hour \in Ledger!Time, NEW pub, pub = Ledger!energyMqttInvalidateCurrent
  PROVE  /\ DOMAIN pub = Ledger!Current
         /\ \A p \in DOMAIN pub, metric \in Ledger!Metric :
              Sound(pub[p][metric]) /\ ~pub[p][metric].online
<1>1. DOMAIN pub = Ledger!Current
  BY DEF Ledger!energyMqttInvalidateCurrent
<1>2. ASSUME NEW p \in DOMAIN pub, NEW metric \in Ledger!Metric
      PROVE  Sound(pub[p][metric]) /\ ~pub[p][metric].online
  <2> DEFINE old == periods[p][metric]
  <2>1. pub[p][metric] = [old EXCEPT !.online = FALSE]
    BY <1>1 DEF Ledger!energyMqttInvalidateCurrent
  <2>2. Sound(old)
    BY <1>1, PeriodsOfNow DEF Retained
  <2> HIDE DEF old
  <2> QED BY <2>1, <2>2 DEF Sound, Ledger!Retainable
<1> QED BY <1>1, <1>2

LEMMA RetainedIsTyped ==
  ASSUME NEW q, q \in [Ledger!Period -> [Ledger!Metric -> Ledger!Retainable]]
  PROVE  Retained(q) <=> \A p \in Ledger!Period, metric \in Ledger!Metric :
                           q[p][metric].online => q[p][metric].number # Ledger!Nothing
  BY DEF Retained, Sound

LEMMA LedgerLoops ==
  ASSUME Ledger!LedgerInvariant, Ledger!diagnosticsHistoryLoop
  PROVE  Ledger!LedgerInvariant'
<1>1. /\ hour \in Ledger!Time /\ savedAt \in 0 .. hour /\ hour' = hour /\ looped' = Ledger!Today
      /\ linked \in BOOLEAN /\ delivering \in BOOLEAN
      /\ periods \in [Ledger!Period -> [Ledger!Metric -> Ledger!Retainable]]
      /\ Ledger!DeviceIsKept(device) /\ Ledger!PeriodsAreKept
  BY DEF Ledger!LedgerInvariant, Ledger!LedgerTypeOK, Ledger!diagnosticsHistoryLoop
<1>2. hour \in Nat /\ Ledger!Today \in Nat /\ Ledger!Today # Ledger!None /\ Ledger!Today' = Ledger!Today
  BY <1>1, LedgerConstants, LedgerTime DEF Ledger!Time, Ledger!Today, Ledger!None
<1>3. Retained(periods)
  BY <1>1, RetainedIsTyped DEF Ledger!PeriodsAreKept, Ledger!OnlineHasValue
<1>4. PICK take, ok, done, lost \in BOOLEAN :
        /\ take => device.sampled # hour
        /\ ok \/ Ledger!Looped(take, FALSE) # Ledger!Looped(take, TRUE)
        /\ savedAt' = IF ok THEN hour ELSE savedAt
        /\ Ledger!Suffered(Ledger!Cost(lost) + Ledger!Cost(~ok))
        /\ LET d == Ledger!Looped(take, ok) IN
           \/ /\ linked /\ Ledger!PublishDue(d)
              /\ \/ delivering /\ Ledger!Publishing(Ledger!energyMqttPublishFallback(d), done, lost)
                 \/ ~delivering /\ ~lost /\ linked' = done /\ UNCHANGED <<delivering, periods>>
              /\ device' = IF done THEN [d EXCEPT !.pending = FALSE, !.publishAge = 0] ELSE d
           \/ /\ ~(linked /\ Ledger!PublishDue(d)) /\ ~done /\ ~lost
              /\ device' = d /\ UNCHANGED <<linked, delivering, periods>>
  BY Zenon DEF Ledger!diagnosticsHistoryLoop
<1> DEFINE r == Ledger!Looped(take, ok)
           pub == Ledger!energyMqttPublishFallback(r)
           all == 4 * (Ledger!Latest + 1)
<1>5. device' = r \/ device' = [r EXCEPT !.pending = FALSE, !.publishAge = 0]
  BY <1>4
<1>6. \/ linked /\ delivering /\ Ledger!Publishing(pub, done, lost)
      \/ ~delivering /\ UNCHANGED <<delivering, periods>> /\ linked' \in BOOLEAN
      \/ ~(linked /\ Ledger!PublishDue(r)) /\ device' = r /\ UNCHANGED <<linked, delivering, periods>>
  BY <1>4
<1>7. /\ Ledger!DeviceIsKept(r) /\ r.localDay = Ledger!Today /\ r.loaded
      /\ r.publishAge # Ledger!None => device.localDay = Ledger!Today
      /\ ~r.pending => device.localDay = Ledger!Today
      /\ StillKnown(device, r)
      /\ ok => ~Ledger!SaveDue(r) \/ ~r.dirty
  <2>1. device.localDay # Ledger!None => device.loaded
    BY <1>1 DEF Ledger!PeriodsAreKept
  <2> QED BY <1>1, <2>1, LoopedKeeps
<1> HIDE DEF r
<1>8. r \in Ledger!Device
  BY <1>7 DEF Ledger!DeviceIsKept
<1>9. /\ device'.ledger = r.ledger /\ device'.localDay = Ledger!Today /\ device'.loaded
      /\ device'.pending => device' = r
  BY <1>5, <1>7, <1>8 DEF Ledger!Device
<1>10. Ledger!DeviceIsKept(device)'
  <2>1. savedAt' = savedAt \/ (savedAt' = hour /\ (~Ledger!SaveDue(r) \/ ~r.dirty))
    BY <1>4, <1>7
  <2>2. \A x : device' = x /\ (x = r \/ x = [r EXCEPT !.pending = FALSE, !.publishAge = 0])
               => Ledger!DeviceIsKept(device)'
    BY <1>1, <1>7, <2>1, DeviceLater
  <2> QED BY <1>5, <2>2
<1>11. \A p \in DOMAIN pub, metric \in Ledger!Metric : Sound(pub[p][metric])
  BY <1>1, <1>8, Published
<1>12. /\ linked' \in BOOLEAN /\ delivering' \in BOOLEAN /\ (delivering' => linked')
       /\ periods' \in [Ledger!Period -> [Ledger!Metric -> Ledger!Retainable]] /\ Retained(periods')
       /\ delivering' => delivering
  <2>1. CASE linked /\ delivering /\ Ledger!Publishing(pub, done, lost)
    <3>1. PICK upTo \in Int : periods' = Ledger!Arrived(pub, upTo)
      <4>1. all \in Int
        BY LedgerConstants, LedgerTime DEF Ledger!Latest, Ledger!Dated
      <4> QED BY <2>1, <4>1 DEF Ledger!Publishing
    <3>2. Retained(periods') /\ periods' \in [Ledger!Period -> [Ledger!Metric -> Ledger!Retainable]]
      BY <1>3, <1>11, <3>1, ArrivedKeeps
    <3>3. linked' \in BOOLEAN /\ delivering' \in BOOLEAN /\ (delivering' => linked')
      BY <2>1 DEF Ledger!Publishing
    <3> QED BY <2>1, <3>2, <3>3
  <2>2. CASE ~delivering /\ UNCHANGED <<delivering, periods>> /\ linked' \in BOOLEAN
    BY <1>1, <1>3, <2>2
  <2>3. CASE UNCHANGED <<linked, delivering, periods>>
    BY <1>1, <1>3, <2>3 DEF Ledger!PeriodsAreKept
  <2> QED BY <1>6, <2>1, <2>2, <2>3
<1>13. Ledger!LedgerTypeOK'
  <2>1. savedAt' \in 0 .. hour
    BY <1>1, <1>2, <1>4
  <2>2. looped' \in Nat /\ (hour \in Ledger!Time)' /\ (savedAt \in 0 .. hour)'
    BY <1>1, <1>2, <2>1 DEF Ledger!Time
  <2>3. (periods \in [Ledger!Period -> [Ledger!Metric -> Ledger!Retainable]])'
    BY <1>12 DEF Ledger!Period, Ledger!Latest, Ledger!Dated, Ledger!Retainable, Ledger!Number
  <2>4. (device \in Ledger!Device)'
    BY <1>10 DEF Ledger!DeviceIsKept
  <2> QED BY <1>12, <2>2, <2>3, <2>4 DEF Ledger!LedgerTypeOK
<1>14. Ledger!OnlineHasValue'
  <2>1. \A p \in Ledger!Period, metric \in Ledger!Metric :
          periods'[p][metric].online => periods'[p][metric].number # Ledger!Nothing
    BY <1>12, RetainedIsTyped
  <2> QED BY <2>1 DEF Ledger!OnlineHasValue
<1> DEFINE now_ == Ledger!MonthOf(Ledger!Today)
<1>15. delivering' => Ledger!PeriodsAreKept'
  <2> SUFFICES ASSUME delivering' PROVE Ledger!PeriodsAreKept'
    OBVIOUS
  <2>1. \/ linked /\ delivering /\ periods' = Ledger!Arrived(pub, all)
        \/ ~(linked /\ Ledger!PublishDue(r)) /\ device' = r /\ UNCHANGED <<linked, delivering, periods>>
    BY <1>6, <1>12 DEF Ledger!Publishing
  <2>2. Ledger!Recorded(r.ledger) \subseteq Ledger!Months
    BY DEF Ledger!Recorded
  <2>3. CASE linked /\ delivering /\ periods' = Ledger!Arrived(pub, all)
    <3>1. ASSUME NEW p \in Ledger!Period, NEW metric \in Ledger!Metric
          PROVE  periods'[p][metric] = IF p \in DOMAIN pub THEN pub[p][metric] ELSE periods[p][metric]
      BY <1>1, <2>3, AllArrived
    <3>2. ASSUME NEW p \in Ledger!Current, NEW metric \in Ledger!Metric, periods'[p][metric].online
          PROVE  periods'[p][metric].number.of = IF p = Ledger!TheDay THEN Ledger!Today ELSE now_
      <4>1. periods'[p][metric] = pub[p][metric]
        BY <1>1, <1>8, <3>1, Published, PeriodsOfNow
      <4> QED BY <1>1, <1>8, <3>2, <4>1, Published
    <3>3. ASSUME NEW m \in Ledger!Recorded(r.ledger) \ {now_}
          PROVE  periods'[Ledger!Dated(m)]["kwh"] = Ledger!Valid(m, r.ledger.months[m])
      <4>1. Ledger!Dated(m) \in Ledger!Period /\ "kwh" \in Ledger!Metric /\ m \in Ledger!Months
        BY <1>1, <2>2, PeriodsOfNow DEF Ledger!Metric
      <4>2. CASE r.pending
        <5>1. /\ Ledger!Dated(m) \in DOMAIN pub
              /\ pub[Ledger!Dated(m)]["kwh"] = Ledger!Valid(m, r.ledger.months[m])
          BY <1>1, <1>8, <4>2, Published
        <5> QED BY <3>1, <4>1, <5>1
      <4>3. CASE ~r.pending
        <5>1. Ledger!Dated(m) \notin DOMAIN pub
          BY <1>1, <1>8, <4>3, Published
        <5>2. ~device.pending /\ r.ledger.months[m] = device.ledger.months[m]
              /\ device.localDay = Ledger!Today
          BY <1>7, <4>1, <4>3 DEF StillKnown
        <5>3. m \in Ledger!Recorded(device.ledger)
          BY <4>1, <5>2 DEF Ledger!Recorded
        <5>4. periods[Ledger!Dated(m)]["kwh"] = Ledger!Valid(m, device.ledger.months[m])
          BY <1>1, <2>3, <5>2, <5>3 DEF Ledger!PeriodsAreKept
        <5> QED BY <3>1, <4>1, <5>1, <5>2, <5>4
      <4> QED BY <4>2, <4>3
    <3> HIDE DEF pub, all, now_
    <3> QED BY <1>1, <1>2, <1>9, <1>12, <1>14, <3>2, <3>3 DEF Ledger!PeriodsAreKept, now_,
          Ledger!Recorded
  <2>4. CASE ~(linked /\ Ledger!PublishDue(r)) /\ device' = r /\ UNCHANGED <<linked, delivering, periods>>
    <3>1. linked /\ delivering
      BY <1>1, <1>12, <2>4 DEF Ledger!PeriodsAreKept
    <3>2. r.publishAge # Ledger!None
      BY <2>4, <3>1 DEF Ledger!PublishDue
    <3>3. device.localDay = Ledger!Today
      BY <1>7, <3>2
    <3>4. ASSUME NEW p \in Ledger!Current, NEW metric \in Ledger!Metric, periods[p][metric].online
          PROVE  periods[p][metric].number.of = IF p = Ledger!TheDay THEN Ledger!Today ELSE now_
      BY <1>1, <3>1, <3>3, <3>4 DEF Ledger!PeriodsAreKept
    <3>5. ASSUME ~r.pending, NEW m \in Ledger!Recorded(r.ledger) \ {now_}
          PROVE  periods[Ledger!Dated(m)]["kwh"] = Ledger!Valid(m, r.ledger.months[m])
      <4>1. m \in Ledger!Months
        BY <2>2
      <4>2. ~device.pending /\ r.ledger.months[m] = device.ledger.months[m]
        BY <1>7, <3>5, <4>1 DEF StillKnown
      <4>3. m \in Ledger!Recorded(device.ledger)
        BY <4>1, <4>2, <3>5 DEF Ledger!Recorded
      <4>4. periods[Ledger!Dated(m)]["kwh"] = Ledger!Valid(m, device.ledger.months[m])
        BY <1>1, <3>1, <3>3, <3>5, <4>2, <4>3 DEF Ledger!PeriodsAreKept
      <4> QED BY <4>2, <4>4
    <3> HIDE DEF now_
    <3> QED BY <1>1, <1>2, <1>9, <1>12, <1>14, <2>4, <3>4, <3>5 DEF Ledger!PeriodsAreKept, now_,
          Ledger!Recorded
  <2> QED BY <2>1, <2>3, <2>4
<1>16. ~delivering' => Ledger!PeriodsAreKept'
  <2>1. (delivering => linked)' /\ (device.localDay # Ledger!None => device.localDay = looped /\ device.loaded)'
    BY <1>1, <1>9, <1>12
  <2> QED BY <1>14, <2>1, Zenon DEF Ledger!PeriodsAreKept
<1> QED BY <1>10, <1>13, <1>15, <1>16 DEF Ledger!LedgerInvariant

LEMMA LedgerConnects ==
  ASSUME Ledger!LedgerInvariant, Ledger!diagnosticsHistoryMqttConnected
  PROVE  Ledger!LedgerInvariant'
<1>1. /\ hour \in Ledger!Time /\ savedAt \in 0 .. hour /\ hour' = hour /\ looped' = looped
      /\ savedAt' = savedAt /\ looped \in Nat /\ device \in Ledger!Device
      /\ periods \in [Ledger!Period -> [Ledger!Metric -> Ledger!Retainable]]
      /\ Ledger!DeviceIsKept(device) /\ Ledger!PeriodsAreKept
      /\ device' = Ledger!PublishNow(device)
  BY DEF Ledger!LedgerInvariant, Ledger!LedgerTypeOK, Ledger!diagnosticsHistoryMqttConnected
<1>2. Retained(periods)
  BY <1>1, RetainedIsTyped DEF Ledger!PeriodsAreKept, Ledger!OnlineHasValue
<1> DEFINE pub == Ledger!energyMqttInvalidateCurrent
           all == 4 * (Ledger!Latest + 1)
<1>3. PICK done, lost \in BOOLEAN :
        Ledger!Suffered(Ledger!Cost(lost)) /\ Ledger!Publishing(Ledger!energyMqttInvalidateCurrent, done, lost)
  BY Zenon DEF Ledger!diagnosticsHistoryMqttConnected
<1>4. /\ (device \in Ledger!Device)' /\ device'.sampled = device.sampled
      /\ device'.summary = device.summary /\ device'.energy = device.energy
      /\ device'.sessionDay = device.sessionDay /\ device'.session = device.session
      /\ device'.loaded = device.loaded /\ device'.ledger = device.ledger
      /\ device'.json = device.json /\ device'.dirty = device.dirty
      /\ device'.saveAge = device.saveAge /\ device'.localDay = device.localDay
      /\ device'.pending
  BY <1>1 DEF Ledger!PublishNow, Ledger!Device
<1>5. Ledger!DeviceIsKept(device)'
  <2>1. Ledger!AddsUp(device.ledger)' /\ Ledger!AddsUp(device.json)'
    BY <1>1, <1>4 DEF Ledger!DeviceIsKept, Ledger!AddsUp, Ledger!Today
  <2>2. Ledger!IsFed(device)'
    BY <1>1, <1>4 DEF Ledger!DeviceIsKept, Ledger!IsFed
  <2>3. Ledger!IsCheckpointed(device)'
    BY <1>1, <1>4 DEF Ledger!DeviceIsKept, Ledger!IsCheckpointed, Ledger!SaveDue
  <2> QED BY <1>4, <2>1, <2>2, <2>3 DEF Ledger!DeviceIsKept
<1>6. /\ DOMAIN pub = Ledger!Current
      /\ \A p \in DOMAIN pub, metric \in Ledger!Metric :
           Sound(pub[p][metric]) /\ ~pub[p][metric].online
  BY <1>1, <1>2, Invalidated
<1>7. /\ Retained(periods') /\ linked' \in BOOLEAN /\ delivering' \in BOOLEAN
      /\ periods' \in [Ledger!Period -> [Ledger!Metric -> Ledger!Retainable]]
      /\ delivering' => linked' /\ periods' = Ledger!Arrived(pub, all)
  <2>1. PICK upTo \in Int : periods' = Ledger!Arrived(pub, upTo)
    <3>1. all \in Int
      BY LedgerConstants, LedgerTime DEF Ledger!Latest, Ledger!Dated
    <3> QED BY <1>3, <3>1 DEF Ledger!Publishing
  <2>2. Retained(periods') /\ periods' \in [Ledger!Period -> [Ledger!Metric -> Ledger!Retainable]]
    BY <1>2, <1>6, <2>1, ArrivedKeeps
  <2> QED BY <1>3, <2>2 DEF Ledger!Publishing
<1>8. Ledger!LedgerTypeOK'
  BY <1>1, <1>4, <1>7 DEF Ledger!LedgerTypeOK, Ledger!Time, Ledger!Period, Ledger!Latest,
     Ledger!Dated, Ledger!Retainable, Ledger!Number
<1>9. delivering' => \A p \in Ledger!Current, metric \in Ledger!Metric : ~periods'[p][metric].online
  BY <1>1, <1>6, <1>7, AllArrived, PeriodsOfNow
<1>10. Ledger!OnlineHasValue'
  BY <1>7, RetainedIsTyped DEF Ledger!OnlineHasValue
<1>11. Ledger!PeriodsAreKept'
  <2>1. (device.localDay # Ledger!None => device.localDay = looped /\ device.loaded)'
    BY <1>1, <1>4 DEF Ledger!PeriodsAreKept
  <2>2. delivering' => linked'
    BY <1>7
  <2> QED BY <1>4, <1>9, <1>10, <2>1, <2>2, Zenon DEF Ledger!PeriodsAreKept
<1> QED BY <1>5, <1>8, <1>11 DEF Ledger!LedgerInvariant

\* Losing the connection and noticing it, and learning the time, leave all else alone.
LEMMA LedgerWaits ==
  ASSUME Ledger!LedgerInvariant,
         Ledger!LinkBreaks \/ Ledger!LossNoticed \/ Ledger!ClockReady \/ UNCHANGED ledgerVars
  PROVE  Ledger!LedgerInvariant'
<1>1. /\ hour' = hour /\ savedAt' = savedAt /\ looped' = looped /\ device' = device
      /\ periods' = periods /\ linked' \in BOOLEAN /\ delivering' \in BOOLEAN
      /\ (delivering' => delivering) /\ (delivering' => linked')
  <2>1. linked \in BOOLEAN /\ delivering \in BOOLEAN /\ (delivering => linked)
    BY DEF Ledger!LedgerInvariant, Ledger!LedgerTypeOK, Ledger!PeriodsAreKept
  <2>2. CASE Ledger!LinkBreaks
    BY <2>1, <2>2 DEF Ledger!LinkBreaks
  <2>3. CASE Ledger!LossNoticed
    BY <2>1, <2>3 DEF Ledger!LossNoticed
  <2>4. CASE Ledger!ClockReady
    BY <2>1, <2>4 DEF Ledger!ClockReady
  <2>5. CASE UNCHANGED ledgerVars
    BY <2>1, <2>5 DEF ledgerVars
  <2> QED BY <2>2, <2>3, <2>4, <2>5
<1>2. Ledger!LedgerTypeOK'
  BY <1>1 DEF Ledger!LedgerInvariant, Ledger!LedgerTypeOK
<1>3. Ledger!DeviceIsKept(device)'
  BY <1>1 DEF Ledger!LedgerInvariant, Ledger!DeviceIsKept, Ledger!AddsUp, Ledger!IsFed,
     Ledger!IsCheckpointed, Ledger!Today
<1>4. Ledger!PeriodsAreKept'
  BY <1>1 DEF Ledger!LedgerInvariant, Ledger!PeriodsAreKept, Ledger!OnlineHasValue
<1> QED BY <1>2, <1>3, <1>4 DEF Ledger!LedgerInvariant

LEMMA LedgerRestarts ==
  ASSUME Ledger!LedgerInvariant, Ledger!Restart
  PROVE  Ledger!LedgerInvariant'
<1>1. /\ hour' = hour /\ savedAt' = savedAt /\ looped' = looped /\ periods' = periods
      /\ linked' = FALSE /\ delivering' = FALSE /\ device' = Ledger!Initial(device.json)
  BY DEF Ledger!Restart
<1>2. /\ hour \in Ledger!Time /\ savedAt \in 0 .. hour /\ device \in Ledger!Device
      /\ device.json \in Ledger!LedgerType /\ Ledger!AddsUp(device.json)
  BY DEF Ledger!LedgerInvariant, Ledger!LedgerTypeOK, Ledger!DeviceIsKept, Ledger!Device
<1> DEFINE d == Ledger!Initial(device.json)
<1>3. Ledger!DeviceIsKept(d) /\ d.localDay = Ledger!None /\ d.pending
  BY <1>2, InitialIsKept
<1>4. device' = d
  BY <1>1
<1> HIDE DEF d
<1>5. Ledger!DeviceIsKept(device)'
  BY <1>1, <1>3, <1>4 DEF Ledger!DeviceIsKept, Ledger!AddsUp, Ledger!IsFed,
     Ledger!IsCheckpointed, Ledger!SaveDue, Ledger!Today
<1>6. Ledger!LedgerTypeOK'
  <2>1. (device \in Ledger!Device)'
    BY <1>5 DEF Ledger!DeviceIsKept
  <2> QED BY <1>1, <2>1 DEF Ledger!LedgerInvariant, Ledger!LedgerTypeOK
<1>7. Ledger!PeriodsAreKept'
  <2>1. Ledger!OnlineHasValue'
    BY <1>1 DEF Ledger!LedgerInvariant, Ledger!PeriodsAreKept, Ledger!OnlineHasValue
  <2>2. ~delivering' /\ device'.localDay = Ledger!None
    BY <1>1, <1>3, <1>4
  <2> QED BY <2>1, <2>2 DEF Ledger!PeriodsAreKept
<1> QED BY <1>5, <1>6, <1>7 DEF Ledger!LedgerInvariant

LEMMA LedgerTicks ==
  ASSUME Ledger!LedgerInvariant, Ledger!Tick
  PROVE  Ledger!LedgerInvariant'
<1>1. /\ hour' = hour + 1 /\ hour < MaxHour /\ savedAt' = savedAt /\ looped' = looped
      /\ periods' = periods /\ linked' = linked /\ delivering' = delivering
      /\ device' = [device EXCEPT !.saveAge = Ledger!More(@, SAVE_INTERVAL),
                                  !.publishAge = Ledger!More(@, COP_MQTT_PUBLISH_INTERVAL)]
  BY DEF Ledger!Tick
<1>2. device \in Ledger!Device /\ Ledger!DeviceIsKept(device)'
  BY DeviceTicks DEF Ledger!LedgerInvariant, Ledger!LedgerTypeOK
<1>3. /\ device'.ledger = device.ledger /\ device'.pending = device.pending
      /\ device'.localDay = device.localDay /\ device'.loaded = device.loaded
  BY <1>1, <1>2 DEF Ledger!Device
<1>4. Ledger!LedgerTypeOK'
  <2>1. (device \in Ledger!Device)'
    BY <1>2 DEF Ledger!DeviceIsKept
  <2>2. (hour \in Ledger!Time /\ savedAt \in 0 .. hour)'
    BY <1>1, LedgerConstants DEF Ledger!LedgerInvariant, Ledger!LedgerTypeOK, Ledger!Time
  <2> QED BY <1>1, <2>1, <2>2 DEF Ledger!LedgerInvariant, Ledger!LedgerTypeOK
<1>5. Ledger!PeriodsAreKept'
  BY <1>1, <1>3 DEF Ledger!LedgerInvariant, Ledger!PeriodsAreKept, Ledger!OnlineHasValue,
     Ledger!Recorded
<1> QED BY <1>2, <1>4, <1>5 DEF Ledger!LedgerInvariant

LEMMA LedgerStarts == Ledger!LedgerInit => Ledger!LedgerInvariant
<1> SUFFICES ASSUME Ledger!LedgerInit PROVE Ledger!LedgerInvariant
  OBVIOUS
<1>1. /\ hour = 0 /\ savedAt = 0 /\ looped = 0 /\ linked = FALSE /\ delivering = FALSE
      /\ device = Ledger!Initial(Ledger!NoLedger)
      /\ periods = [p \in Ledger!Period |-> [metric \in Ledger!Metric |-> Ledger!Invalid]]
  BY DEF Ledger!LedgerInit
<1>2. hour \in Ledger!Time /\ savedAt \in 0 .. hour
  BY <1>1, LedgerConstants DEF Ledger!Time
<1>3. Ledger!DeviceIsKept(device) /\ device.localDay = Ledger!None /\ device.pending
  BY <1>1, <1>2, EmptyLedger, InitialIsKept
<1>4. Ledger!Invalid \in Ledger!Retainable /\ Ledger!Invalid.online = FALSE
  BY DEF Ledger!Invalid, Ledger!Retainable, Ledger!Number, Ledger!Nothing, Ledger!None
<1>5. Ledger!LedgerTypeOK
  BY <1>1, <1>2, <1>3, <1>4 DEF Ledger!LedgerTypeOK, Ledger!DeviceIsKept
<1>6. Ledger!PeriodsAreKept
  BY <1>1, <1>3, <1>4 DEF Ledger!PeriodsAreKept, Ledger!OnlineHasValue
<1> QED BY <1>3, <1>5, <1>6 DEF Ledger!LedgerInvariant

LEMMA LedgerIsPublished == Ledger!LedgerInvariant => Ledger!RecordedIsPublished
<1> SUFFICES ASSUME Ledger!LedgerInvariant PROVE Ledger!RecordedIsPublished
  OBVIOUS
<1>1. Ledger!LedgerAddsUp
  BY DEF Ledger!LedgerInvariant, Ledger!DeviceIsKept, Ledger!LedgerAddsUp, Ledger!AddsUp
<1>2. Ledger!CheckpointIsRecent
  BY DEF Ledger!LedgerInvariant, Ledger!DeviceIsKept, Ledger!IsCheckpointed,
     Ledger!CheckpointIsRecent
<1>3. Ledger!TodayIsToday
  BY DEF Ledger!LedgerInvariant, Ledger!PeriodsAreKept, Ledger!TodayIsToday
<1>4. Ledger!HistoryIsCurrent
  BY DEF Ledger!LedgerInvariant, Ledger!PeriodsAreKept, Ledger!HistoryIsCurrent
<1>5. Ledger!OnlineHasValue
  BY DEF Ledger!LedgerInvariant, Ledger!PeriodsAreKept
<1> QED BY <1>1, <1>2, <1>3, <1>4, <1>5 DEF Ledger!RecordedIsPublished

LEMMA LedgerStaysKept ==
  Ledger!LedgerInvariant /\ [Ledger!LedgerNext]_ledgerVars => Ledger!LedgerInvariant'
  BY LedgerLoops, LedgerConnects, LedgerWaits, LedgerRestarts, LedgerTicks DEF Ledger!LedgerNext

LEMMA LedgerSteps ==
  ASSUME part = "ledger", [SystemNext]_svars
  PROVE  part' = part /\ [Ledger!LedgerNext]_ledgerVars
<1>1. CASE UNCHANGED svars
  BY <1>1 DEF svars, heldVars, ledgerVars
<1>2. CASE SystemNext
  BY <1>2 DEF SystemNext, LineNext, SensorsNext, AskedNext, heldVars, ledgerVars
<1> QED BY <1>1, <1>2

LEMMA LedgerBegins == SystemInit /\ part = "ledger" => Ledger!LedgerInit
  BY DEF SystemInit

LedgerKept == part = "ledger" => Ledger!LedgerInvariant

\* What a board without a card records of the energy adds up, is saved in time, and is
\* published as what it is of: of today, complete, and with a value.
THEOREM RecordsAreKept == SystemSpec => [](part = "ledger" => Ledger!RecordedIsPublished)
<1>1. SystemInit => LedgerKept
  BY LedgerBegins, LedgerStarts DEF LedgerKept
<1>2. LedgerKept /\ [SystemNext]_svars => LedgerKept'
  <2> SUFFICES ASSUME LedgerKept, [SystemNext]_svars, part' = "ledger"
               PROVE  Ledger!LedgerInvariant'
    BY DEF LedgerKept
  <2>1. part = "ledger"
    BY DEF SystemNext, svars
  <2> QED BY <2>1, LedgerSteps, LedgerStaysKept DEF LedgerKept
<1>3. LedgerKept => (part = "ledger" => Ledger!RecordedIsPublished)
  BY LedgerIsPublished DEF LedgerKept
<1> QED BY <1>1, <1>2, <1>3, PTL DEF SystemSpec

\* The power of a meter stays one it can have, its pulses add up over every report, restart and
\* lost connection, and so does the recorded energy, which is saved and published as it should.
THEOREM MetersKeepAddingUp == SystemSpec => []MetersAddUp
<1>1. (/\ part = "power" => Power!PowerIsPossible
       /\ part = "energy" => Energy!EnergyAddsUp /\ Energy!TotalIsHeld
       /\ part = "ledger" => Ledger!RecordedIsPublished)
        => MetersAddUp
  BY DEF MetersAddUp
<1> QED BY <1>1, PowerStaysPossible, PulsesAddUp, RecordsAreKept, PTL

-----------------------------------------------------------------------------
(* The optional PCB: byte 6 is its five settings put together.               *)

LEMMA FieldNames ==
  /\ DOMAIN Pcb!Fields = {"HeatCoolMode", "CompressorState", "SmartGridMode",
                          "ExternalThermostat1State", "ExternalThermostat2State"}
  /\ "temp" \notin DOMAIN Pcb!Fields /\ Pcb!Settings = DOMAIN Pcb!Fields \cup {"temp"}
  /\ Pcb!Fields["HeatCoolMode"].bit = 7 /\ Pcb!Fields["HeatCoolMode"].base = 1
  /\ Pcb!Fields["CompressorState"].bit = 6 /\ Pcb!Fields["CompressorState"].base = 1
  /\ Pcb!Fields["SmartGridMode"].bit = 4 /\ Pcb!Fields["SmartGridMode"].base = 3
  /\ Pcb!Fields["ExternalThermostat1State"].bit = 2
  /\ Pcb!Fields["ExternalThermostat1State"].base = 3
  /\ Pcb!Fields["ExternalThermostat2State"].bit = 0
  /\ Pcb!Fields["ExternalThermostat2State"].base = 3
  BY DEF Pcb!Fields, Pcb!Settings

LEMMA FieldBits == 2^7 = 128 /\ 2^6 = 64 /\ 2^4 = 16 /\ 2^2 = 4 /\ 2^0 = 1
  OBVIOUS

\* Settings that are put together are read back.
LEMMA BitsAreApart ==
  ASSUME NEW h \in 0 .. 1, NEW c \in 0 .. 1, NEW g \in 0 .. 3, NEW x \in 0 .. 3, NEW y \in 0 .. 3,
         NEW b, b = 128 * h + 64 * c + 16 * g + 4 * x + y
  PROVE  /\ b \in 0 .. 255
         /\ (b \div 128) % 2 = h /\ (b \div 64) % 2 = c /\ (b \div 16) % 4 = g
         /\ (b \div 4) % 4 = x /\ (b \div 1) % 4 = y
<1>1. b \in 0 .. 255
  OBVIOUS
<1>2. b \div 128 = h
  OBVIOUS
<1>3. b \div 64 = 2 * h + c
  OBVIOUS
<1>4. b \div 16 = 8 * h + 4 * c + g
  OBVIOUS
<1>5. b \div 4 = 32 * h + 16 * c + 4 * g + x
  OBVIOUS
<1>6. b \div 1 = b
  OBVIOUS
<1>7. h % 2 = h
  OBVIOUS
<1>8. (2 * h + c) % 2 = c
  OBVIOUS
<1>9. (8 * h + 4 * c + g) % 4 = g
  OBVIOUS
<1>10. (32 * h + 16 * c + 4 * g + x) % 4 = x
  OBVIOUS
<1>11. b % 4 = y
  OBVIOUS
<1> QED BY <1>1, <1>2, <1>3, <1>4, <1>5, <1>6, <1>7, <1>8, <1>9, <1>10, <1>11

LEMMA FieldsAreApart ==
  ASSUME NEW s, Pcb!AreSettings(s)
  PROVE  \A f \in DOMAIN Pcb!Fields : Pcb!Field(Pcb!Assembled(s), f) = s[f]
<1> DEFINE b == Pcb!Assembled(s)
<1>1. /\ s.HeatCoolMode \in 0 .. 1 /\ s.CompressorState \in 0 .. 1 /\ s.SmartGridMode \in 0 .. 3
      /\ s.ExternalThermostat1State \in 0 .. 3 /\ s.ExternalThermostat2State \in 0 .. 3
  BY FieldNames DEF Pcb!AreSettings
<1>2. b = 128 * s.HeatCoolMode + 64 * s.CompressorState + 16 * s.SmartGridMode
            + 4 * s.ExternalThermostat1State + s.ExternalThermostat2State
  BY DEF Pcb!Assembled
<1> HIDE DEF b
<1>3. /\ (b \div 128) % 2 = s.HeatCoolMode /\ (b \div 64) % 2 = s.CompressorState
      /\ (b \div 16) % 4 = s.SmartGridMode /\ (b \div 4) % 4 = s.ExternalThermostat1State
      /\ (b \div 1) % 4 = s.ExternalThermostat2State
  <2> DEFINE h == s.HeatCoolMode
             c == s.CompressorState
             g == s.SmartGridMode
             x == s.ExternalThermostat1State
             y == s.ExternalThermostat2State
  <2>1. /\ h \in 0 .. 1 /\ c \in 0 .. 1 /\ g \in 0 .. 3 /\ x \in 0 .. 3 /\ y \in 0 .. 3
        /\ b = 128 * h + 64 * c + 16 * g + 4 * x + y
    BY <1>1, <1>2
  <2> HIDE DEF h, c, g, x, y
  <2>2. /\ (b \div 128) % 2 = h /\ (b \div 64) % 2 = c /\ (b \div 16) % 4 = g
        /\ (b \div 4) % 4 = x /\ (b \div 1) % 4 = y
    BY <2>1, BitsAreApart, SMTT(20)
  <2> QED BY <2>2 DEF h, c, g, x, y
<1>4. /\ Pcb!Field(b, "HeatCoolMode") = (b \div 128) % 2
      /\ Pcb!Field(b, "CompressorState") = (b \div 64) % 2
      /\ Pcb!Field(b, "SmartGridMode") = (b \div 16) % 4
      /\ Pcb!Field(b, "ExternalThermostat1State") = (b \div 4) % 4
      /\ Pcb!Field(b, "ExternalThermostat2State") = (b \div 1) % 4
  BY FieldNames, FieldBits DEF Pcb!Field
<1> QED BY <1>3, <1>4, FieldNames DEF b

LEMMA SettingIsSet ==
  ASSUME NEW s, Pcb!AreSettings(s), NEW f \in DOMAIN Pcb!Fields, NEW v \in 0 .. Pcb!Fields[f].base,
         NEW t, t = [s EXCEPT ![f] = v]
  PROVE  /\ Pcb!AreSettings(t) /\ t.temp = s.temp
         /\ Pcb!SetByte6(Pcb!Assembled(s), f, v) = Pcb!Assembled(t)
<1>1. \A g \in Pcb!Settings : t[g] = IF g = f THEN v ELSE s[g]
  BY FieldNames DEF Pcb!AreSettings
<1>2. v \in Int
  BY FieldNames
<1>3. Pcb!AreSettings(t) /\ t.temp = s.temp
  <2>1. t \in [Pcb!Settings -> Int]
    BY <1>2 DEF Pcb!AreSettings
  <2> QED BY <1>1, <2>1, FieldNames DEF Pcb!AreSettings
<1>4. /\ s.HeatCoolMode \in Int /\ s.CompressorState \in Int /\ s.SmartGridMode \in Int
      /\ s.ExternalThermostat1State \in Int /\ s.ExternalThermostat2State \in Int
  BY FieldNames DEF Pcb!AreSettings
<1> DEFINE bit == Pcb!Fields[f].bit
           weight == 2^bit
<1>5. Pcb!SetByte6(Pcb!Assembled(s), f, v) = Pcb!Assembled(s) + (v - s[f]) * weight
  BY FieldsAreApart DEF Pcb!SetByte6
<1>6. /\ f = "HeatCoolMode" => weight = 128
      /\ f = "CompressorState" => weight = 64
      /\ f = "SmartGridMode" => weight = 16
      /\ f = "ExternalThermostat1State" => weight = 4
      /\ f = "ExternalThermostat2State" => weight = 1
  <2>1. /\ f = "HeatCoolMode" => bit = 7
        /\ f = "CompressorState" => bit = 6
        /\ f = "SmartGridMode" => bit = 4
        /\ f = "ExternalThermostat1State" => bit = 2
        /\ f = "ExternalThermostat2State" => bit = 0
    BY FieldNames
  <2> HIDE DEF bit
  <2> QED BY <2>1, FieldBits
<1> HIDE DEF weight, bit
<1>7. CASE f = "HeatCoolMode"
  BY <1>1, <1>2, <1>3, <1>4, <1>5, <1>6, <1>7, FieldNames DEF Pcb!Assembled
<1>8. CASE f = "CompressorState"
  BY <1>1, <1>2, <1>3, <1>4, <1>5, <1>6, <1>8, FieldNames DEF Pcb!Assembled
<1>9. CASE f = "SmartGridMode"
  BY <1>1, <1>2, <1>3, <1>4, <1>5, <1>6, <1>9, FieldNames DEF Pcb!Assembled
<1>10. CASE f = "ExternalThermostat1State"
  BY <1>1, <1>2, <1>3, <1>4, <1>5, <1>6, <1>10, FieldNames DEF Pcb!Assembled
<1>11. CASE f = "ExternalThermostat2State"
  BY <1>1, <1>2, <1>3, <1>4, <1>5, <1>6, <1>11, FieldNames DEF Pcb!Assembled
<1> QED BY <1>7, <1>8, <1>9, <1>10, <1>11, FieldNames

LEMMA PcbBegins == SystemInit /\ part = "pcb" => Pcb!PcbInit
  BY DEF SystemInit

LEMMA PcbStarts == Pcb!PcbInit => Pcb!PcbInvariant
<1> SUFFICES ASSUME Pcb!PcbInit PROVE Pcb!PcbInvariant
  OBVIOUS
<1>1. /\ byte6 = 64 /\ temp = 255 /\ flash = {} /\ kept = asked
      /\ asked = [f \in Pcb!Settings |-> IF f = "temp" THEN 255 ELSE Pcb!Field(64, f)]
  BY DEF Pcb!PcbInit
<1>2. /\ Pcb!Field(64, "HeatCoolMode") = 0 /\ Pcb!Field(64, "CompressorState") = 1
      /\ Pcb!Field(64, "SmartGridMode") = 0 /\ Pcb!Field(64, "ExternalThermostat1State") = 0
      /\ Pcb!Field(64, "ExternalThermostat2State") = 0
  <2>1. /\ Pcb!Field(64, "HeatCoolMode") = (64 \div 128) % 2
        /\ Pcb!Field(64, "CompressorState") = (64 \div 64) % 2
        /\ Pcb!Field(64, "SmartGridMode") = (64 \div 16) % 4
        /\ Pcb!Field(64, "ExternalThermostat1State") = (64 \div 4) % 4
        /\ Pcb!Field(64, "ExternalThermostat2State") = (64 \div 1) % 4
    BY FieldNames, FieldBits DEF Pcb!Field
  <2> QED BY <2>1
<1>3. /\ asked.HeatCoolMode = 0 /\ asked.CompressorState = 1 /\ asked.SmartGridMode = 0
      /\ asked.ExternalThermostat1State = 0 /\ asked.ExternalThermostat2State = 0
      /\ asked.temp = 255
  BY <1>1, <1>2, FieldNames
<1>4. Pcb!AreSettings(asked)
  <2>1. \A f \in Pcb!Settings : asked[f] \in Int
    BY <1>3, FieldNames
  <2>2. asked \in [Pcb!Settings -> Int]
    BY <1>1, <2>1
  <2> QED BY <1>3, <2>2, FieldNames DEF Pcb!AreSettings
<1>5. Pcb!Assembled(asked) = 64
  BY <1>3 DEF Pcb!Assembled
<1> QED BY <1>1, <1>3, <1>4, <1>5 DEF Pcb!PcbInvariant

LEMMA PcbSteps ==
  ASSUME part = "pcb", [SystemNext]_svars
  PROVE  part' = part /\ [Pcb!PcbNext]_pcbVars
<1>1. CASE UNCHANGED svars
  BY <1>1 DEF svars, askedVars, pcbVars
<1>2. CASE SystemNext
  BY <1>2 DEF SystemNext, LineNext, SensorsNext, AskedNext, askedVars, pcbVars
<1> QED BY <1>1, <1>2

LEMMA PcbStaysKept == Pcb!PcbInvariant /\ [Pcb!PcbNext]_pcbVars => Pcb!PcbInvariant'
<1> SUFFICES ASSUME Pcb!PcbInvariant, [Pcb!PcbNext]_pcbVars PROVE Pcb!PcbInvariant'
  OBVIOUS
<1> USE DEF Pcb!PcbInvariant
<1>1. ASSUME asked' = asked, byte6' = byte6, temp' = temp, kept' = kept, flash' = flash
      PROVE  Pcb!PcbInvariant'
  BY <1>1 DEF Pcb!AreSettings, Pcb!Assembled, Pcb!Settings
<1>2. ASSUME NEW f \in DOMAIN Pcb!Fields, NEW val \in StateValues, Pcb!SetState(f, val)
      PROVE  Pcb!PcbInvariant'
  <2> DEFINE v == IF Pcb!Fields[f].base = 1 THEN (IF val = 1 THEN 1 ELSE 0) ELSE val
  <2>1. /\ Pcb!Fields[f].base = 1 \/ val < 4
        /\ byte6' = Pcb!SetByte6(byte6, f, v) /\ asked' = [asked EXCEPT ![f] = v]
        /\ temp' = temp /\ flash' = flash /\ kept' = kept
    BY <1>2 DEF Pcb!SetState
  <2>2. val \in Nat /\ (Pcb!Fields[f].base = 1 \/ Pcb!Fields[f].base = 3)
    BY ConnectionsAssumption, FieldNames
  <2>3. v \in 0 .. Pcb!Fields[f].base
    BY <2>1, <2>2
  <2> HIDE DEF v
  <2>4. Pcb!AreSettings(asked') /\ asked'.temp = asked.temp /\ byte6' = Pcb!Assembled(asked')
    <3>1. Pcb!AreSettings(asked) /\ byte6 = Pcb!Assembled(asked)
      OBVIOUS
    <3> HIDE DEF Pcb!PcbInvariant
    <3> QED BY <2>1, <2>3, <3>1, SettingIsSet
  <2> QED BY <2>1, <2>4 DEF Pcb!AreSettings, Pcb!Assembled, Pcb!Settings
<1>3. ASSUME NEW t \in DOMAIN Hex, Pcb!SetTemp(t)
      PROVE  Pcb!PcbInvariant'
  <2>1. /\ temp' = Hex[t] /\ asked' = [asked EXCEPT !.temp = Hex[t]]
        /\ byte6' = byte6 /\ flash' = flash /\ kept' = kept /\ Hex[t] \in Int
    BY <1>3, ConnectionsAssumption DEF Pcb!SetTemp
  <2>2. /\ asked' \in [Pcb!Settings -> Int] /\ asked'.temp = Hex[t]
        /\ \A f \in DOMAIN Pcb!Fields : asked'[f] = asked[f]
    BY <2>1, FieldNames DEF Pcb!AreSettings
  <2>3. Pcb!AreSettings(asked') /\ Pcb!Assembled(asked') = Pcb!Assembled(asked)
    BY <2>2, FieldNames DEF Pcb!AreSettings, Pcb!Assembled
  <2> QED BY <2>1, <2>2, <2>3 DEF Pcb!AreSettings, Pcb!Assembled, Pcb!Settings
<1>4. ASSUME NEW b \in Answers, Pcb!Answer(b) PROVE Pcb!PcbInvariant'
  BY <1>1, <1>4 DEF Pcb!Answer
<1>5. CASE Pcb!saveOptionalPCB
  <2>1. /\ flash' = {[ack |-> ack, byte6 |-> byte6, temp |-> temp]} /\ kept' = asked
        /\ byte6' = byte6 /\ temp' = temp /\ asked' = asked
    BY <1>5 DEF Pcb!saveOptionalPCB
  <2>2. \A q \in flash' : q.byte6 = byte6 /\ q.temp = temp
    BY <2>1
  <2>3. flash' # {}
    BY <2>1
  <2> QED BY <2>1, <2>2, <2>3, ZenonT(40) DEF Pcb!AreSettings, Pcb!Assembled, Pcb!Settings
<1>6. CASE Pcb!Restart
  <2>1. /\ asked' = kept /\ kept' = kept /\ flash' = flash
        /\ IF flash = {} THEN byte6' = 64 /\ temp' = 255
           ELSE \E q \in flash : byte6' = q.byte6 /\ temp' = q.temp
    BY <1>6 DEF Pcb!Restart
  <2>2. byte6' = Pcb!Assembled(kept) /\ temp' = kept.temp
    BY <2>1
  <2> QED BY <2>1, <2>2 DEF Pcb!AreSettings, Pcb!Assembled, Pcb!Settings
<1>7. CASE UNCHANGED pcbVars
  BY <1>1, <1>7 DEF pcbVars
<1> QED BY <1>2, <1>3, <1>4, <1>5, <1>6, <1>7 DEF Pcb!PcbNext

PcbKept == part = "pcb" => Pcb!PcbInvariant

\* The settings of the optional PCB that share a byte survive each other, the answers of the heat
\* pump and a restart.
THEOREM PcbSettingsSurvive == SystemSpec => [](part = "pcb" => Pcb!SettingsKept)
<1>1. SystemInit => PcbKept
  BY PcbBegins, PcbStarts DEF PcbKept
<1>2. PcbKept /\ [SystemNext]_svars => PcbKept'
  <2> SUFFICES ASSUME PcbKept, [SystemNext]_svars, part' = "pcb" PROVE Pcb!PcbInvariant'
    BY DEF PcbKept
  <2>1. part = "pcb"
    BY DEF SystemNext, svars
  <2> QED BY <2>1, PcbSteps, PcbStaysKept DEF PcbKept
<1>3. PcbKept => (part = "pcb" => Pcb!SettingsKept)
  BY FieldsAreApart DEF PcbKept, Pcb!PcbInvariant, Pcb!SettingsKept
<1> QED BY <1>1, <1>2, <1>3, PTL DEF SystemSpec
==============================================================================
