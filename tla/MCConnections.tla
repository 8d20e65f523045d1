---------------------------- MODULE MCConnections ----------------------------
(***************************************************************************)
(* What HeishaMon holds of the world around it, and what a request becomes:  *)
(* eleven parts that share no state, checked side by side.  A behaviour is one *)
(* of one part, the others stay as they began.  Names that two parts have in *)
(* common get a prefix here.                                                *)
(***************************************************************************)
EXTENDS SchedulerConditions, CommandBytes

CONSTANTS
  Topic, Value, ReconnectTime, updateAllTime, MaxReconnects,
  Wrap, Scale, MinReport, LowerInterval, MinWidth, MaxWidth, PulseWidth, Gap, Hold,
  MaxPulses, MaxBoots, MaxReports, MaxBreaks,
  Sensor, MAX_DALLAS_SENSORS, Alias, MaxTemp, MaxEdits,
  SensorTopic, EXTERNAL_SENSOR_MAX, MaxFailures,
  DayLength, MonthDays, MaxGap, SAVE_INTERVAL, COP_MQTT_PUBLISH_INTERVAL, MaxHour, MaxMishaps,
  StateValues, Hex, Answers,
  ShiftValues, WaterValues, RoomValues, Targets, Outsides, waterMin, waterMax, Fresh, QueueSize,
  MAXCOMMANDSINBUFFER, SERIALTIMEOUT, MaxUnanswered, MaxCommands

ASSUME ConnectionsAssumption ==
  /\ ReconnectTime \in Nat \ {0} /\ updateAllTime \in Nat
  /\ {Wrap, Scale, MinReport, LowerInterval, MinWidth, MaxWidth, PulseWidth, Gap}
       \subseteq Nat \ {0}
  /\ MinReport + LowerInterval + PulseWidth + Gap < Wrap
  /\ PulseWidth \in MinWidth .. MaxWidth
  /\ MAX_DALLAS_SENSORS \in Nat /\ EXTERNAL_SENSOR_MAX \in Nat
  /\ MaxTemp \in Nat \ {0}
  /\ {waterMin, waterMax} \subseteq Int /\ 30 \in waterMin .. waterMax
  /\ ShiftValues \cup WaterValues \cup RoomValues \cup Targets \cup Outsides \subseteq Int
  /\ MAXCOMMANDSINBUFFER \in Nat \ {0} /\ SERIALTIMEOUT \in Nat
  /\ {DayLength, MonthDays} \subseteq Nat \ {0} /\ MaxGap \in 0 .. DayLength
  /\ {SAVE_INTERVAL, COP_MQTT_PUBLISH_INTERVAL, MaxHour} \subseteq Nat
  /\ StateValues \subseteq Nat /\ \A t \in DOMAIN Hex : Hex[t] \in 0 .. 255

VARIABLES
  part,  \* the part this behaviour is of
  network, reachable, client, session, broken, attempt, mqttReconnects, sinceAll, actData,
  retained, lwt, upFor, frames,                                          \* MqttConnection
  now, running, edgeIn, level, lastEdge, badEdge, badPulses, lastPulse, watt, nextReport,
  thisLoop, ran, reported,                                               \* S0Power
  pulses, pulsesTotal, report, connected, inbox, subscribed, s0_retained, boots, reports,
  breaks, real, counted, sent, raced, known,                             \* S0Energy
  ow_known, temperature, good, up, alias, ow_file, ow_retained, ow_connected,
  ow_mqttReconnects, ow_subscribed, ow_inbox, resend, ow_boots, edits, reading, steady,
  named, removed,                                                  \* DallasSensors
  sensors, file, online, topics, subscriptionsDirty, failures, promised, \* ExternalSensors
  hour, clockReady, device, linked, delivering, periods, looped, savedAt,
  mishaps,                                                               \* EnergyLedger
  ack, byte6, temp, flash, asked, kept,                                  \* OptionalPcb
  subject, patient, pump, frame, age, queue, meant,                      \* Zone1Control
  place, line, commands                                                  \* Esp8266Link

Mqtt     == INSTANCE MqttConnection
Power    == INSTANCE S0Power
Energy   == INSTANCE S0Energy WITH retained <- s0_retained
Dallas   == INSTANCE DallasSensors WITH known <- ow_known, file <- ow_file,
              retained <- ow_retained, connected <- ow_connected,
              mqttReconnects <- ow_mqttReconnects, subscribed <- ow_subscribed,
              inbox <- ow_inbox, boots <- ow_boots
External == INSTANCE ExternalSensors
Ledger   == INSTANCE EnergyLedger
Pcb      == INSTANCE OptionalPcb
Zone1    == INSTANCE Zone1Control
Link     == INSTANCE Esp8266Link

mqttVars   == <<network, reachable, client, session, broken, attempt, mqttReconnects, sinceAll,
                actData, retained, lwt, upFor, frames>>
powerVars  == <<now, running, edgeIn, level, lastEdge, badEdge, badPulses, lastPulse, watt,
                nextReport, thisLoop, ran, reported>>
energyVars == <<pulses, pulsesTotal, report, connected, inbox, subscribed, s0_retained, boots,
                reports, breaks, real, counted, sent, raced, known>>
dallasVars == <<ow_known, temperature, good, up, alias, ow_file, ow_retained, ow_connected,
                ow_mqttReconnects, ow_subscribed, ow_inbox, resend, ow_boots, edits, reading,
                steady, named, removed>>
extVars    == <<sensors, file, online, topics, subscriptionsDirty, failures, promised>>
ledgerVars == <<hour, clockReady, device, linked, delivering, periods, looped, savedAt, mishaps>>
pcbVars    == <<ack, byte6, temp, flash, asked, kept>>
zone1Vars  == <<subject, patient, pump, frame, age, queue, meant>>
linkVars   == <<place, line, commands>>
heldVars   == <<mqttVars, powerVars, energyVars, dallasVars, extVars, ledgerVars>>
askedVars  == <<vars, bytesVars, pcbVars, zone1Vars, linkVars>>
svars      == <<part, heldVars, askedVars>>

IdleMqtt ==
  /\ network = 0 /\ reachable = 0 /\ client = 0 /\ session = 0 /\ broken = 0 /\ attempt = 0
  /\ mqttReconnects = 0 /\ sinceAll = 0 /\ actData = 0 /\ retained = 0 /\ lwt = 0
  /\ upFor = 0 /\ frames = 0
IdlePower ==
  /\ now = 0 /\ running = 0 /\ edgeIn = 0 /\ level = 0 /\ lastEdge = 0 /\ badEdge = 0
  /\ badPulses = 0 /\ lastPulse = 0 /\ watt = 0 /\ nextReport = 0 /\ thisLoop = 0
  /\ ran = 0 /\ reported = 0
IdleEnergy ==
  /\ pulses = 0 /\ pulsesTotal = 0 /\ report = 0 /\ connected = 0 /\ inbox = 0
  /\ subscribed = 0 /\ s0_retained = 0 /\ boots = 0 /\ reports = 0 /\ breaks = 0
  /\ real = 0 /\ counted = 0 /\ sent = 0 /\ raced = 0 /\ known = 0
IdleDallas ==
  /\ ow_known = 0 /\ temperature = 0 /\ good = 0 /\ up = 0 /\ alias = 0 /\ ow_file = 0
  /\ ow_retained = 0 /\ ow_connected = 0 /\ ow_mqttReconnects = 0 /\ ow_subscribed = 0
  /\ ow_inbox = 0 /\ resend = 0 /\ ow_boots = 0 /\ edits = 0 /\ removed = 0
  /\ reading = 0 /\ steady = 0 /\ named = 0
IdleExternal ==
  /\ sensors = 0 /\ file = 0 /\ online = 0 /\ topics = 0 /\ subscriptionsDirty = 0
  /\ failures = 0 /\ promised = 0
IdleLedger ==
  /\ hour = 0 /\ clockReady = 0 /\ device = 0 /\ linked = 0 /\ delivering = 0 /\ periods = 0
  /\ looped = 0 /\ savedAt = 0 /\ mishaps = 0

IdleConditions == joins = <<>> /\ values = <<>> /\ i = 0 /\ expression = "false"
                    /\ andGroup = "true" /\ decision = "none"
IdleBytes == at = 0 /\ value = 0 /\ wanted = <<>>
IdlePcb   == ack = 0 /\ byte6 = 0 /\ temp = 0 /\ flash = {} /\ asked = <<>> /\ kept = <<>>
IdleZone1 == subject = "none" /\ patient = TRUE /\ pump = <<>> /\ frame = <<>> /\ age = 0
               /\ queue = <<>> /\ meant = <<>>
IdleLink  == place = 0 /\ line = 0 /\ commands = 0

IdleLine    == IdleMqtt /\ IdlePower /\ IdleEnergy
IdleSensors == IdleDallas /\ IdleExternal /\ IdleLedger
IdleHeld    == IdleLine /\ IdleSensors
IdleAsked   == IdleConditions /\ IdleBytes /\ IdlePcb /\ IdleZone1 /\ IdleLink

SystemInit ==
  \/ /\ IdleAsked /\ IdleSensors
     /\ \/ part = "mqtt" /\ Mqtt!MqttInit /\ IdlePower /\ IdleEnergy
        \/ part = "power" /\ Power!PowerInit /\ IdleMqtt /\ IdleEnergy
        \/ part = "energy" /\ Energy!EnergyInit /\ IdleMqtt /\ IdlePower
  \/ /\ IdleAsked /\ IdleLine
     /\ \/ part = "dallas" /\ Dallas!DallasInit /\ IdleExternal /\ IdleLedger
        \/ part = "external" /\ External!ExternalInit /\ IdleDallas /\ IdleLedger
        \/ part = "ledger" /\ Ledger!LedgerInit /\ IdleDallas /\ IdleExternal
  \/ /\ IdleHeld /\ IdleLink
     /\ \/ part = "conditions" /\ Init /\ IdleBytes /\ IdlePcb /\ IdleZone1
        \/ part = "bytes" /\ BytesInit /\ IdleConditions /\ IdlePcb /\ IdleZone1
        \/ part = "pcb" /\ Pcb!PcbInit /\ IdleConditions /\ IdleBytes /\ IdleZone1
        \/ part = "zone1" /\ Zone1!Init /\ IdleConditions /\ IdleBytes /\ IdlePcb
  \/ /\ IdleHeld /\ IdleConditions /\ IdleBytes /\ IdlePcb /\ IdleZone1
     /\ part = "link" /\ Link!LinkInit

LineNext ==
  \/ part = "mqtt" /\ Mqtt!MqttNext /\ UNCHANGED <<powerVars, energyVars>>
  \/ part = "power" /\ Power!PowerNext /\ UNCHANGED <<mqttVars, energyVars>>
  \/ part = "energy" /\ Energy!EnergyNext /\ UNCHANGED <<mqttVars, powerVars>>

SensorsNext ==
  \/ part = "dallas" /\ Dallas!DallasNext /\ UNCHANGED <<extVars, ledgerVars>>
  \/ part = "external" /\ External!ExternalNext /\ UNCHANGED <<dallasVars, ledgerVars>>
  \/ part = "ledger" /\ Ledger!LedgerNext /\ UNCHANGED <<dallasVars, extVars>>

AskedNext ==
  \/ part = "conditions" /\ Next /\ UNCHANGED <<bytesVars, pcbVars, zone1Vars, linkVars>>
  \/ part = "bytes" /\ BytesNext /\ UNCHANGED <<vars, pcbVars, zone1Vars, linkVars>>
  \/ part = "pcb" /\ Pcb!PcbNext /\ UNCHANGED <<vars, bytesVars, zone1Vars, linkVars>>
  \/ part = "zone1" /\ Zone1!Next /\ UNCHANGED <<vars, bytesVars, pcbVars, linkVars>>
  \/ part = "link" /\ Link!LinkNext /\ UNCHANGED <<vars, bytesVars, pcbVars, zone1Vars>>

SystemNext ==
  /\ UNCHANGED part
  /\ \/ LineNext /\ UNCHANGED <<dallasVars, extVars, ledgerVars, askedVars>>
     \/ SensorsNext /\ UNCHANGED <<mqttVars, powerVars, energyVars, askedVars>>
     \/ AskedNext /\ UNCHANGED heldVars

SystemSpec == SystemInit /\ [][SystemNext]_svars

\* What the broker keeps of the values is current once it can be, and so is its will.
BrokerIsCurrent == part = "mqtt" => Mqtt!BrokerIsCurrent /\ Mqtt!WillIsTrue

\* The power reported of an S0 meter is one it can have; reports of energy add up, and the
\* total of before the boot is held; and the recorded energy adds up, is saved in time, and is
\* published as what it is of.
MetersAddUp ==
  /\ part = "power" => Power!PowerIsPossible
  /\ part = "energy" => Energy!EnergyAddsUp /\ Energy!TotalIsHeld
  /\ part = "ledger" => Ledger!RecordedIsPublished

\* A removed 1-wire sensor stays removed, a known one has its alias, and the filter locks
\* none out.
SensorsAreKnown ==
  part = "dallas" => Dallas!RemovedStaysRemoved /\ Dallas!AliasIsKept /\ Dallas!SteadyIsAccepted

\* External sensors that were acknowledged survive and are heard.
SensorsSurvive == part = "external" => External!AcknowledgedSurvives /\ External!EnabledAreHeard

\* A decision is exactly what is known for sure of the conditions of a schedule.
ConditionsExact == part = "conditions" => DecisionIsExact

\* Settings that share a byte are reported as they were asked for, and those in byte 6 of the
\* optional PCB survive each other, the answers of the heat pump and a restart.
SharedBytesKept ==
  /\ part = "bytes" => ReportedAsAsked
  /\ part = "pcb" => Pcb!SettingsKept

\* TOP27 holds a value of what it means now, unless the panel changed the mode; a curve asked
\* for while nothing is under way arrives ordered; and requests leave the buffer of the
\* ESP8266 in their order, one at a time.
RequestsFit ==
  /\ part = "zone1" => Zone1!RequestFitsItsMeaning /\ Zone1!PatientCurveIsOrdered
  /\ part = "link" => Link!BufferIsQueue /\ Link!OneRequestAtATime

MCHex == [t \in {-80, 20} |-> IF t = -80 THEN 255 ELSE 138]
MCShiftValues == {-6, 0, 5}
MCWaterValues == {19, 25}
MCRoomValues  == {9, 10}
MCTargets     == {30, 45}
MCOutsides    == {-15, 15}
=============================================================================
