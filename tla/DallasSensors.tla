---------------------------- MODULE DallasSensors ----------------------------
(***************************************************************************)
(* The 1-wire temperature sensors (dallas.cpp).  A sensor is known once it   *)
(* was found on the bus or was restored from the value the broker retains,   *)
(* which HeishaMon reads on its first connection after a boot; aliases are   *)
(* in the file dallas.json.  A reading that is too far from the last good    *)
(* one for the time between them is filtered out.  The mark "present", which *)
(* is only shown, is left out.                                               *)
(***************************************************************************)
EXTENDS Integers, FiniteSets

CONSTANTS
  Sensor,
  MAX_DALLAS_SENSORS,
  Alias,       \* what the user may call a sensor
  MaxTemp,     \* temperatures are 0 .. MaxTemp, in what MAXTEMPDIFFPERSEC allows per reading
  MaxBoots,    \* BOUND
  MaxEdits     \* BOUND: aliases given and sensors removed in a boot

Temp   == 0 .. MaxTemp
None   == -127   \* no temperature: the sensor is new, does not answer, or answers with 85,
                 \* "the DS18B20 power-on reset default, not a real reading"
Never  == -1
NotSet == "NOT SET"
NoName == "-"

VARIABLES
  known,        \* the sensors that have a slot
  temperature,
  good,         \* readings since lastgoodtime, or Never
  up,           \* readings since the boot
  alias,
  file,         \* dallas.json
  retained,     \* what the broker keeps of each sensor
  connected,
  mqttReconnects,
  subscribed,   \* to the values of all sensors, dallasMqttRestorePending
  inbox,        \* what the broker has sent
  resend,       \* lastalldatatime_dallas = 0
  boots, edits,
  reading, steady,  \* of every sensor: the last reading, and how often it was the same
  named,        \* the alias the user gave and the file was not rewritten without
  removed       \* sensors removed for good and not found on the bus since

dvars == <<known, temperature, good, up, alias, file, retained, connected, mqttReconnects,
           subscribed, inbox, resend, boots, edits, reading, steady, named, removed>>

Slots  == <<known, temperature, good, alias>>
Broker == <<retained, connected, mqttReconnects, subscribed, inbox>>
Seen   == <<reading, steady>>

DallasInit ==
  /\ known = {}
  /\ temperature = [s \in Sensor |-> None] /\ good = [s \in Sensor |-> Never]
  /\ alias = [s \in Sensor |-> NotSet] /\ file = [s \in Sensor |-> NoName]
  /\ up = 0
  /\ retained \in [Sensor -> {None, 0}]
  /\ connected = FALSE /\ mqttReconnects = 0 /\ subscribed = FALSE /\ inbox = {}
  /\ resend = TRUE
  /\ boots = 0 /\ edits = 0
  /\ reading = [s \in Sensor |-> None] /\ steady = [s \in Sensor |-> 0]
  /\ named = [s \in Sensor |-> NoName] /\ removed = {}
-----------------------------------------------------------------------------
\* loadDallasAlias, of a sensor that gets a slot.
LoadedAlias(s) == IF file[s] # NoName THEN file[s] ELSE NotSet

Up(n) == IF n < MaxTemp THEN n + 1 ELSE n

\* rescanDallasSensors: the sensors that are not known get the free slots.
rescanDallasSensors(found) ==
  LET new  == found \ known
      free == MAX_DALLAS_SENSORS - Cardinality(known)
      fits == IF Cardinality(new) < free THEN Cardinality(new) ELSE free
  IN \E admitted \in SUBSET new :
       /\ Cardinality(admitted) = fits
       /\ known' = known \union admitted
       /\ temperature' = [s \in Sensor |-> IF s \in admitted THEN None ELSE temperature[s]]
       /\ good' = [s \in Sensor |-> IF s \in admitted THEN Never ELSE good[s]]
       /\ alias' = [s \in Sensor |-> IF s \in admitted THEN LoadedAlias(s) ELSE alias[s]]
       /\ removed' = removed \ found
       /\ UNCHANGED <<up, file, Broker, resend, boots, edits, Seen, named>>

Rescan == \E found \in SUBSET Sensor : rescanDallasSensors(found)

\* readNewDallasTemp: which readings pass the filter.
Elapsed(s) == IF good[s] = Never THEN Up(up) ELSE Up(good[s])

Accepted(s, temp) ==
  /\ s \in known
  /\ temp \in Temp
  /\ temperature[s] = None
       \/ (temp <= temperature[s] + Elapsed(s) /\ temp >= temperature[s] - Elapsed(s))

\* Variant: the time of a filtered reading counts as well.
AnyTime(s, temp) ==
  IF s \in known /\ temp \in Temp THEN 0 ELSE IF good[s] = Never THEN Never ELSE Elapsed(s)

GoodTime(s, temp) ==
  IF Accepted(s, temp) THEN 0 ELSE IF good[s] = Never THEN Never ELSE Elapsed(s)

readNewDallasTemp(temps, updatenow) ==
  LET told == {s \in Sensor : /\ Accepted(s, temps[s])
                              /\ updatenow \/ temperature[s] # temps[s]}
  IN /\ temperature' = [s \in Sensor |-> IF Accepted(s, temps[s]) THEN temps[s] ELSE temperature[s]]
     /\ good' = [s \in Sensor |-> GoodTime(s, temps[s])]
     /\ retained' = [s \in Sensor |-> IF connected /\ s \in told THEN temps[s] ELSE retained[s]]
     /\ inbox' = IF subscribed THEN inbox \union {<<s, temps[s]>> : s \in told} ELSE inbox
     /\ up' = Up(up)
     /\ resend' = FALSE
     /\ reading' = temps
     /\ steady' = [s \in Sensor |->
          IF temps[s] = reading[s] /\ temps[s] \in Temp THEN Up(steady[s]) ELSE 0]
     /\ UNCHANGED <<known, alias, file, connected, mqttReconnects, subscribed, boots, edits,
                    named, removed>>

\* All are sent from time to time, and after the boot and the first connection.
Readings(s) == IF s \in known THEN Temp \union {None} ELSE {None}

Read == \E temps \in {f \in [Sensor -> Temp \union {None}] : \A s \in Sensor : f[s] \in Readings(s)},
           now \in {TRUE, resend} : readNewDallasTemp(temps, now)
-----------------------------------------------------------------------------
\* saveDallasAliasFile: the aliases of the known sensors, and of no other.
saveDallasAliasFile(slots, names) ==
  file' = [s \in Sensor |-> IF s \in slots THEN names[s] ELSE NoName]

changeDallasAlias(s, a) ==
  /\ edits < MaxEdits
  /\ s \in known
  /\ alias' = [alias EXCEPT ![s] = a]
  /\ saveDallasAliasFile(known, alias')
  /\ named' = [t \in Sensor |-> IF t = s THEN a ELSE IF t \in known THEN named[t] ELSE NoName]
  /\ edits' = edits + 1
  /\ UNCHANGED <<known, temperature, good, up, Broker, resend, boots, Seen, removed>>

\* removeDallasSensor: "publishing an empty retained payload clears the previously
\* retained message on the broker".
\* Variant: it is not cleared.
NotCleared(s) == retained[s]

Cleared(s) == IF connected THEN None ELSE retained[s]

removeDallasSensor(s) ==
  /\ edits < MaxEdits
  /\ s \in known
  /\ retained' = [retained EXCEPT ![s] = Cleared(s)]
  /\ known' = known \ {s}
  /\ temperature' = [temperature EXCEPT ![s] = None]
  /\ good' = [good EXCEPT ![s] = Never]
  /\ alias' = [alias EXCEPT ![s] = NotSet]
  /\ saveDallasAliasFile(known \ {s}, alias)
  /\ named' = [t \in Sensor |-> IF t \in known \ {s} THEN named[t] ELSE NoName]
  /\ removed' = IF connected /\ (\A m \in inbox : m[1] # s) THEN removed \union {s} ELSE removed
  /\ edits' = edits + 1
  /\ reading' = [reading EXCEPT ![s] = None] /\ steady' = [steady EXCEPT ![s] = 0]
  /\ UNCHANGED <<up, connected, mqttReconnects, subscribed, inbox, resend, boots>>
-----------------------------------------------------------------------------
\* mqtt_reconnect: the first connection of a boot asks for the values of all sensors.
Connect ==
  /\ ~connected
  /\ connected' = TRUE
  /\ IF mqttReconnects = 0
     THEN /\ subscribed' = TRUE
          /\ inbox' = {<<s, retained[s]>> : s \in {t \in Sensor : retained[t] # None}}
          /\ resend' = TRUE
          /\ mqttReconnects' = 1
     ELSE UNCHANGED <<subscribed, inbox, resend, mqttReconnects>>
  /\ UNCHANGED <<Slots, up, file, retained, boots, edits, Seen, named, removed>>

Disconnect ==
  /\ connected
  /\ connected' = FALSE /\ subscribed' = FALSE /\ inbox' = {}
  /\ UNCHANGED <<Slots, up, file, retained, mqttReconnects, resend, boots, edits, Seen, named,
                 removed>>

\* mqtt_callback and restoreDallasFromMqtt.
restoreDallasFromMqtt(s, temp) ==
  IF s \in known \/ Cardinality(known) < MAX_DALLAS_SENSORS
  THEN /\ known' = known \union {s}
       /\ alias' = IF s \in known THEN alias ELSE [alias EXCEPT ![s] = LoadedAlias(s)]
       /\ temperature' = IF good[s] = Never THEN [temperature EXCEPT ![s] = temp] ELSE temperature
  ELSE UNCHANGED <<known, alias, temperature>>

Receive ==
  /\ connected
  /\ \E m \in inbox :
       /\ inbox' = inbox \ {m}
       /\ restoreDallasFromMqtt(m[1], m[2])
  /\ UNCHANGED <<good, up, file, retained, connected, mqttReconnects, subscribed, resend, boots,
                 edits, Seen, named, removed>>

\* DALLAS_MQTT_RESTORE_TIMEOUT: what is under way still comes.
RestoreEnds ==
  /\ subscribed
  /\ subscribed' = FALSE
  /\ UNCHANGED <<Slots, up, file, retained, connected, mqttReconnects, inbox, resend, boots,
                 edits, Seen, named, removed>>

Restart ==
  /\ boots < MaxBoots
  /\ boots' = boots + 1
  /\ known' = {}
  /\ temperature' = [s \in Sensor |-> None] /\ good' = [s \in Sensor |-> Never]
  /\ alias' = [s \in Sensor |-> NotSet]
  /\ up' = 0 /\ edits' = 0
  /\ connected' = FALSE /\ mqttReconnects' = 0 /\ subscribed' = FALSE /\ inbox' = {}
  /\ resend' = TRUE
  /\ reading' = [s \in Sensor |-> None] /\ steady' = [s \in Sensor |-> 0]
  /\ UNCHANGED <<file, retained, named, removed>>

DallasNext ==
  \/ Rescan \/ Read \/ Connect \/ Disconnect \/ Receive \/ RestoreEnds \/ Restart
  \/ \E s \in Sensor : removeDallasSensor(s) \/ (\E a \in Alias : changeDallasAlias(s, a))
-----------------------------------------------------------------------------
\* A temperature that stays is accepted in the end, whatever was read before it and
\* whatever the broker remembered: the filter does not lock a sensor out.
SteadyIsAccepted ==
  \A s \in known : steady[s] = MaxTemp => temperature[s] = reading[s]

\* A sensor that was removed while the broker could be told stays away, restarts
\* and reconnections included, until it is found on the bus again.
RemovedStaysRemoved == removed \intersect known = {}

\* A known sensor shows the alias it was given, after a restart and whether the bus
\* or the broker brought it back, unless the file was rewritten while it was unknown.
AliasIsKept == \A s \in known : named[s] # NoName => alias[s] = named[s]

\* Inductive.
DallasTypes ==
  /\ known \subseteq Sensor /\ removed \subseteq Sensor
  /\ temperature \in [Sensor -> Temp \union {None}] /\ reading \in [Sensor -> Temp \union {None}]
  /\ good \in [Sensor -> Temp \union {Never}] /\ steady \in [Sensor -> Temp] /\ up \in Temp
  /\ retained \in [Sensor -> Temp \union {None}] /\ inbox \subseteq Sensor \X Temp
  /\ {alias, file, named} \subseteq [Sensor -> Alias \union {NotSet, NoName}]

\* The file has the alias too; the broker has nothing of a removed sensor and sends nothing.
Remembered(s) == named[s] # NoName => file[s] = named[s] /\ (s \in known => alias[s] = named[s])
StaysGone(s) ==
  s \in removed => s \notin known /\ retained[s] = None /\ \A m \in inbox : m[1] # s

\* A reading that is not shown has been refused for as long as it has stayed.
Waited(s) == IF good[s] = Never THEN up ELSE good[s]
FilterOpens(s) ==
  /\ IF reading[s] \in Temp THEN s \in known ELSE steady[s] = 0
  /\ reading[s] \in Temp /\ (good[s] = Never \/ temperature[s] # reading[s]) =>
       steady[s] < Waited(s)

SensorsAreKept ==
  DallasTypes /\ \A s \in Sensor : Remembered(s) /\ StaysGone(s) /\ FilterOpens(s)
=============================================================================
