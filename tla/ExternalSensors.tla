--------------------------- MODULE ExternalSensors ---------------------------
(***************************************************************************)
(* The registry of external sensors, values other devices publish on topics  *)
(* of the broker (external_sensors.cpp, driven by custom_features.cpp).  It  *)
(* is edited by web requests, kept in a file, and every enabled topic has to *)
(* be subscribed to on every connection.  The file is emptied when it is     *)
(* opened for writing.                                                       *)
(***************************************************************************)
EXTENDS Integers, Sequences, SequencesExt

CONSTANTS
  SensorTopic,          \* valid topics: validateTopic refuses the others
  EXTERNAL_SENSOR_MAX,
  MaxFailures           \* BOUND: saves and subscriptions that fail

VARIABLES
  sensors,            \* sequence of [id, enabled, topic]; the values are left out
  file,               \* external_sensors.json, Some(list) or Lost
  online,             \* the connection to the broker
  topics,             \* what the broker sends on it
  subscriptionsDirty,
  failures,
  promised            \* Some(list) the last answer "saved" or "removed" was about, or
                      \* Lost since a save that failed

xvars == <<sensors, file, online, topics, subscriptionsDirty, failures, promised>>

Some(list) == [ok |-> TRUE, list |-> list]
Lost == [ok |-> FALSE, list |-> <<>>]

Registered == [id : 0 .. EXTERNAL_SENSOR_MAX + 1, enabled : BOOLEAN, topic : SensorTopic]

ExternalInit ==
  /\ sensors = <<>> /\ file = Some(<<>>) /\ promised = Some(<<>>)
  /\ online = FALSE /\ topics = {}
  /\ subscriptionsDirty = TRUE
  /\ failures = 0
-----------------------------------------------------------------------------
Indices == 1 .. Len(sensors)
findIndex(id) == {n \in Indices : sensors[n].id = id}
nextId == CHOOSE id \in 1 .. Len(sensors) + 1 :
            /\ findIndex(id) = {}
            /\ \A lower \in 1 .. id - 1 : findIndex(lower) # {}

\* A file that cannot be opened stays as it is, one that cannot be written is lost.
save(kept) ==
  \/ file' = Some(kept) /\ promised' = Some(kept) /\ UNCHANGED failures
  \/ /\ failures < MaxFailures
     /\ failures' = failures + 1
     /\ file' \in {file, Lost}
     /\ promised' = Lost

Saved == promised'.ok

\* upsert: a sensor of id 0 is new.
\* Variant: a new sensor is subscribed to, an edited one is not.
KnownAlready(sensor) == subscriptionsDirty \/ sensor.id = 0

Dirty(sensor) == TRUE

upsert(sensor) ==
  /\ sensor.id # 0 => findIndex(sensor.id) # {}
  /\ \A n \in Indices : sensors[n].topic = sensor.topic => sensors[n].id = sensor.id
  /\ subscriptionsDirty' = Dirty(sensor)
  /\ \/ /\ sensor.id = 0
        /\ Len(sensors) < EXTERNAL_SENSOR_MAX
        /\ LET added == Append(sensors, [sensor EXCEPT !.id = nextId])
           IN /\ save(added)
              /\ sensors' = IF Saved THEN added ELSE sensors
     \/ /\ sensor.id # 0
        /\ \E n \in findIndex(sensor.id) : sensors' = [sensors EXCEPT ![n] = sensor]
        /\ save(sensors')
  /\ UNCHANGED <<online, topics>>

\* Variant: a removal is not written.
Forgets(left) == file' = file /\ promised' = Some(left) /\ UNCHANGED failures

saveRemoval(left) == save(left)

remove(id) ==
  /\ \E n \in findIndex(id) :
       LET left == RemoveAt(sensors, n)
       IN /\ saveRemoval(left)
          /\ sensors' = IF Saved THEN left ELSE sensors
  /\ subscriptionsDirty' = TRUE
  /\ UNCHANGED <<online, topics>>
-----------------------------------------------------------------------------
\* subscribe: subscriptions of which some fail.
\* Variant: it is not tried again.
Assumes(failed) == FALSE

AllSubscribed(failed) == failed # {}

subscribe ==
  LET wanted == {sensors[n].topic : n \in {m \in Indices : sensors[m].enabled}}
  IN \E failed \in SUBSET wanted :
       /\ failed # {} => failures < MaxFailures
       /\ failures' = IF failed = {} THEN failures ELSE failures + 1
       /\ topics' = topics \union (wanted \ failed)
       /\ subscriptionsDirty' = AllSubscribed(failed)

\* customFeaturesMqttConnected, called by mqtt_reconnect: a clean session.
Connected ==
  /\ ~online
  /\ online' = TRUE
  /\ LET wanted == {sensors[n].topic : n \in {m \in Indices : sensors[m].enabled}}
     IN \E failed \in SUBSET wanted :
          /\ failed # {} => failures < MaxFailures
          /\ failures' = IF failed = {} THEN failures ELSE failures + 1
          /\ topics' = wanted \ failed
          /\ subscriptionsDirty' = AllSubscribed(failed)
  /\ UNCHANGED <<sensors, file, promised>>

\* customFeaturesLoop
Loop ==
  /\ online /\ subscriptionsDirty
  /\ subscribe
  /\ UNCHANGED <<sensors, file, online, promised>>

Disconnected ==
  /\ online
  /\ online' = FALSE /\ topics' = {}
  /\ UNCHANGED <<sensors, file, subscriptionsDirty, failures, promised>>

\* begin and load: a file that cannot be read is as good as none.
Restart ==
  /\ sensors' = file.list
  /\ online' = FALSE /\ topics' = {}
  /\ subscriptionsDirty' = TRUE
  /\ UNCHANGED <<file, failures, promised>>

ExternalNext ==
  \/ \E sensor \in Registered : upsert(sensor) \/ remove(sensor.id)
  \/ Connected \/ Loop \/ Disconnected \/ Restart
-----------------------------------------------------------------------------
\* On a connection with nothing left to do every enabled sensor is heard, after any
\* edits, reconnections and subscriptions that failed.
EnabledAreHeard ==
  online /\ ~subscriptionsDirty =>
    \A n \in Indices : sensors[n].enabled => sensors[n].topic \in topics

NoneTwice(list) ==
  \A n, m \in 1 .. Len(list) : n # m => list[n].topic # list[m].topic /\ list[n].id # list[m].id

\* What was acknowledged is what is registered, now and after a restart, as long as
\* no later change failed to be saved; topics and ids are never registered twice.
AcknowledgedSurvives ==
  /\ promised.ok => sensors = promised.list
  /\ NoneTwice(sensors)

\* Inductive: a list that was written is a registry of its own, and the file is the one the
\* last answer was about.
Registry(list) ==
  /\ list \in Seq(Registered) /\ Len(list) <= EXTERNAL_SENSOR_MAX
  /\ NoneTwice(list) /\ \A n \in 1 .. Len(list) : list[n].id # 0

RegistryIsKept ==
  /\ Registry(sensors) /\ Registry(file.list)
  /\ promised.ok => file = promised /\ sensors = promised.list
  /\ EnabledAreHeard
=============================================================================
