---------------------------- MODULE MqttConnection ----------------------------
(***************************************************************************)
(* The connection to the MQTT broker and what the broker keeps of the       *)
(* values of the heat pump.  HeishaMon publishes a value when it changes    *)
(* and all values every updateAllTime, retained, and sends them into the    *)
(* void while there is no connection.  The broker and HeishaMon do not     *)
(* notice at the same time that the connection is broken.  (HeishaMon.ino,  *)
(* mqtt_reconnect and loop; decode.cpp.)                                    *)
(***************************************************************************)
EXTENDS Integers

CONSTANTS
  Topic, Value,     \* what the heat pump reports
  ReconnectTime,    \* MQTTRECONNECTTIMER, in ticks of waitTime
  updateAllTime,    \* in ticks
  MaxReconnects     \* BOUND: connections

Never == -1   \* a time that was reset
Later(t) == IF t = Never THEN Never ELSE t + 1

VARIABLES
  network,      \* whether WiFi or Ethernet is connected
  reachable,    \* whether the broker answers
  client,       \* mqtt_client.connected(): what HeishaMon thinks
  session,      \* what the broker thinks
  broken,       \* whether the connection of the two is broken
  attempt,      \* ticks since lastMqttReconnectAttempt, or Never
  mqttReconnects,
  sinceAll,     \* ticks since lastalldatatime, or Never
  actData,
  retained,     \* the broker's copy of the values
  lwt,          \* the broker's copy of the will topic
  upFor,        \* ticks the connection has been there
  frames        \* whether a frame was published on this connection

mvars == <<network, reachable, client, session, broken, attempt, mqttReconnects, sinceAll,
           actData, retained, lwt, upFor, frames>>

Side   == <<network, reachable>>
Values == <<actData, retained, sinceAll>>

Delivers == session /\ ~broken

MqttInit ==
  /\ network = FALSE /\ reachable = TRUE
  /\ client = FALSE /\ session = FALSE /\ broken = FALSE
  /\ attempt = Never
  /\ mqttReconnects = 0
  /\ sinceAll = Never
  /\ actData = [t \in Topic |-> CHOOSE v \in Value : TRUE]
  /\ retained \in [Topic -> Value]
  /\ lwt = "Offline"
  /\ upFor = 0 /\ frames = FALSE
-----------------------------------------------------------------------------
\* decode_heatpump_data: what is published of a new frame; the extra block and
\* the optional PCB are published the same way with times of their own.
UpdateTime == sinceAll = Never \/ sinceAll > updateAllTime

\* Variant: values are only published when they change.
PublishesChanges(t, data) == data[t] # actData[t]

Publishes(t, data) == UpdateTime \/ data[t] # actData[t]

decode_heatpump_data(data) ==
  /\ retained' = [t \in Topic |->
       IF Delivers /\ Publishes(t, data) THEN data[t] ELSE retained[t]]
  /\ sinceAll' = IF UpdateTime THEN 0 ELSE sinceAll
  /\ actData' = data
  /\ frames' = (frames \/ Delivers)
  /\ UNCHANGED <<Side, client, session, broken, attempt, mqttReconnects, lwt, upFor>>

Frame == \E data \in [Topic -> Value] : decode_heatpump_data(data)
-----------------------------------------------------------------------------
\* mqtt_reconnect, tried every waitTime.
Due == attempt = Never \/ attempt > ReconnectTime

\* Variant: the will is left at what the broker made of it.
SaysNothing == lwt

SaysOnline == "Online"

\* All values are sent again on the first connection only, "so a data bomb like
\* and bad mqtt server will not cause a reconnect bomb everytime".
Resend == IF mqttReconnects = 0 THEN Never ELSE sinceAll

\* A broker that still has the old session ends it first, with its will.
Connect ==
  /\ network /\ ~client /\ Due /\ reachable
  /\ mqttReconnects < MaxReconnects
  /\ attempt' = 0
  /\ client' = TRUE /\ session' = TRUE /\ broken' = FALSE
  /\ mqttReconnects' = mqttReconnects + 1
  /\ lwt' = SaysOnline
  /\ sinceAll' = Resend
  /\ upFor' = 0 /\ frames' = FALSE
  /\ UNCHANGED <<Side, actData, retained>>

ConnectFails ==
  /\ network /\ ~client /\ Due /\ ~reachable
  /\ attempt' = 0
  /\ UNCHANGED <<Side, client, session, broken, mqttReconnects, Values, lwt, upFor, frames>>

\* check_wifi, the first time the network is up: connect at once.
NetworkUp ==
  /\ ~network
  /\ network' = TRUE
  /\ attempt' = IF mqttReconnects = 0 THEN Never ELSE attempt
  /\ UNCHANGED <<reachable, client, session, broken, mqttReconnects, Values, lwt, upFor, frames>>

\* Time passes.
Tick ==
  /\ attempt' = IF attempt > ReconnectTime THEN attempt ELSE Later(attempt)
  /\ sinceAll' = IF sinceAll > updateAllTime THEN sinceAll ELSE Later(sinceAll)
  /\ upFor' = IF Delivers /\ upFor <= updateAllTime THEN upFor + 1 ELSE upFor
  /\ UNCHANGED <<Side, client, session, broken, mqttReconnects, actData, retained, lwt, frames>>
-----------------------------------------------------------------------------
(* The broker and the line between                                          *)

\* The connection breaks, by the network, by the broker, or unseen.
Breaks ==
  /\ Delivers
  /\ broken' = TRUE
  /\ network' \in {network, FALSE}
  /\ reachable' \in {reachable, FALSE}
  /\ UNCHANGED <<client, session, attempt, mqttReconnects, Values, lwt, upFor, frames>>

Recovers ==
  /\ ~reachable
  /\ reachable' = TRUE
  /\ UNCHANGED <<network, client, session, broken, attempt, mqttReconnects, Values, lwt,
                 upFor, frames>>

\* HeishaMon notices; the broker notices and publishes the will.
ClientNotices ==
  /\ broken /\ client
  /\ client' = FALSE
  /\ UNCHANGED <<Side, session, broken, attempt, mqttReconnects, Values, lwt, upFor, frames>>

BrokerNotices ==
  /\ broken /\ session
  /\ session' = FALSE
  /\ lwt' = "Offline"
  /\ UNCHANGED <<Side, client, broken, attempt, mqttReconnects, Values, upFor, frames>>

MqttNext ==
  \/ Connect \/ ConnectFails \/ NetworkUp \/ Frame \/ Tick
  \/ Breaks \/ Recovers \/ ClientNotices \/ BrokerNotices
-----------------------------------------------------------------------------
\* What the broker keeps is what was read last: after the first frame on the first
\* connection, and otherwise at the first frame once the connection has stood for
\* updateAllTime.  Between those it may keep a value that changed while there was
\* no connection.
BrokerIsCurrent ==
  /\ (Delivers /\ mqttReconnects = 1 /\ frames) => retained = actData
  /\ (Delivers /\ 0 <= sinceAll /\ sinceAll < upFor) => retained = actData

\* The will topic says Online on a connection and does not stay so without one.
WillIsTrue ==
  /\ Delivers => lwt = "Online"
  /\ (~session => lwt = "Offline")

\* Inductive: on the first connection all values are still to be sent until a frame was, and
\* the clock of the last time stops where the next is due.
BrokerIsTold ==
  /\ BrokerIsCurrent /\ WillIsTrue
  /\ mqttReconnects \in Nat
  /\ sinceAll \in Never .. updateAllTime + 1 /\ upFor \in 0 .. updateAllTime + 1
  /\ (Delivers /\ mqttReconnects = 1 /\ ~frames) => sinceAll = Never
=============================================================================
