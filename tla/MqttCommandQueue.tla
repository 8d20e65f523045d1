-------------------------- MODULE MqttCommandQueue --------------------------
(***************************************************************************)
(* The confirmation queue of MQTT set commands (HeishaMon/commands.cpp).    *)
(*                                                                         *)
(* A command that arrives over MQTT is encoded and put in a slot of        *)
(* `pending`; the main loop sends the slots one at a time, at least         *)
(* MQTT_COMMAND_GAP apart; every frame the heat pump answers is compared    *)
(* with what the slots ask for; a slot whose values are not reported        *)
(* within MQTT_COMMAND_CONFIRM_TIMEOUT is sent again, at most               *)
(* MQTT_COMMAND_MAX_RETRIES times.                                          *)
(*                                                                         *)
(* Time.  millis() is only ever compared as a difference with a threshold,  *)
(* so each time stamp is kept as the time elapsed since it (`sentAge`,      *)
(* `sinceLastSend`, saturating at its threshold) or still to go             *)
(* (`nextSendIn`); Tick advances them all.  The main loop may be late by    *)
(* any amount: nothing forces Process between two ticks.                    *)
(*                                                                         *)
(* Data.  A magic packet is a function from the settings (Field) to values, *)
(* NoChange standing for the zero byte, "leave this setting alone".         *)
(***************************************************************************)
EXTENDS Integers, FiniteSets, Sequences

CONSTANTS
  Name,        \* the set commands that are used
  SetCurves,   \* the one command that writes, and is confirmed, field by field
  Reported,    \* commands with a confirmation topic (and SetCurves, if in Name)
  Field,       \* settings of the heat pump
  FieldsOf,    \* FieldsOf[n]: the settings command n writes
  Value,       \* values of a setting
  Requestable, \* values a client asks for
  NoChange,    \* the zero byte of a magic packet
  Encode,      \* Encode[n][v]: what payload v of n becomes in the magic packet
  Alias,       \* <<n, v, w>>: for n, a reported w counts as the requested v
  None,        \* no answer to read
  MQTT_COMMAND_QUEUE_SIZE,
  MQTT_COMMAND_MAX_RETRIES,
  MQTT_COMMAND_GAP,
  MQTT_COMMAND_CONFIRM_TIMEOUT,
  MQTT_COMMAND_QUEUE_RETRY,
  CmdQueueSize, \* capacity of the FreeRTOS queue behind send_command
  InitialSettings, \* settings the heat pump may start with
  MaxRequests,  \* bound of the model: MQTT commands received
  MaxForeign    \* bound of the model: changes made by anybody else

Change == [Field -> Value \cup {NoChange}]
Slots  == 1 .. MQTT_COMMAND_QUEUE_SIZE

ASSUME DataAssumption ==
  /\ Name # {}
  /\ NoChange \notin Value
  /\ None \notin Change
  /\ Requestable \subseteq Value
  /\ Reported \subseteq Name
  /\ SetCurves \in Name => SetCurves \in Reported
  /\ InitialSettings \subseteq [Field -> Value]
  /\ FieldsOf \in [Name -> SUBSET Field]
  /\ \A n \in Reported \ {SetCurves} : \E f \in Field : FieldsOf[n] = {f}
  /\ Encode \in [Name -> [Value -> Value]]

ASSUME LimitAssumption ==
  /\ MQTT_COMMAND_QUEUE_SIZE \in Nat \ {0}
  /\ MQTT_COMMAND_MAX_RETRIES \in Nat
  /\ MQTT_COMMAND_GAP \in Nat \ {0}
  /\ MQTT_COMMAND_CONFIRM_TIMEOUT \in Nat \ {0}
  /\ MQTT_COMMAND_QUEUE_RETRY \in Nat \ {0}
  /\ CmdQueueSize \in Nat \ {0}
  /\ MaxRequests \in Nat
  /\ MaxForeign \in Nat

VARIABLES
  pending,             \* the slots, pendingMqttCommands[]
  mqttCommandSequence, \* number of sequence numbers given out
  mqttCommandWasSent,  \* some MQTT command was sent since boot
  sinceLastSend,       \* time since lastMqttCommandSendAt
  data,                \* the last decoded frame, actData
  fresh,               \* whether `data` is recent enough, currentDataIsFresh()
  cmdQueue,            \* commands accepted by send_command, not yet on the wire
  actual,              \* the settings of the heat pump
  answer,              \* an answer of the heat pump the main loop has not read
  requests, foreign,   \* counters that bound the environment
  \* history variables, read by the properties only
  sends,               \* sends[s]: times the request in slot s was sent
  refused              \* refused[s]: send_command refused it since it was queued

queueVars == <<pending, mqttCommandSequence, mqttCommandWasSent, sinceLastSend>>
frameVars == <<data, fresh, answer>>
envVars   == <<requests, foreign>>
history   == <<sends, refused>>
vars == <<queueVars, frameVars, cmdQueue, actual, envVars, history>>

-----------------------------------------------------------------------------
(* Requests and entries of the queue.                                      *)

Asks(change) == {f \in Field : change[f] # NoChange}

\* What a client can ask of command n: all the fields of a plain command, any
\* non-empty part of the curve.  Payloads the encoder rejects never reach the
\* queue and change nothing.
Payload ==
  [n \in Name |->
     {p \in [Field -> Requestable \cup {NoChange}] :
        /\ Asks(p) # {} /\ Asks(p) \subseteq FieldsOf[n]
        /\ n = SetCurves \/ Asks(p) = FieldsOf[n]}]

Encoded(n, p) == [f \in Field |-> IF f \in Asks(p) THEN Encode[n][p[f]] ELSE NoChange]

Entry ==
  [active        : BOOLEAN,
   name          : Name,
   waitingToSend : BOOLEAN,
   wasSent       : BOOLEAN,
   retries       : 0 .. MQTT_COMMAND_MAX_RETRIES,
   command       : Change,
   desired       : Change,
   confirmed     : SUBSET Field,
   sentAge       : 0 .. MQTT_COMMAND_CONFIRM_TIMEOUT,
   nextSendIn    : 0 .. MQTT_COMMAND_QUEUE_RETRY,
   sequence      : Nat]

\* The fields of an inactive slot are never read, so one value stands for all.
FreeSlot ==
  [active |-> FALSE, name |-> CHOOSE n \in Name : TRUE,
   waitingToSend |-> FALSE, wasSent |-> FALSE, retries |-> 0,
   command |-> [f \in Field |-> NoChange], desired |-> [f \in Field |-> NoChange],
   confirmed |-> {}, sentAge |-> 0, nextSendIn |-> 0, sequence |-> 0]

Incoming(n, p) ==
  [active |-> TRUE, name |-> n,
   waitingToSend |-> TRUE, wasSent |-> FALSE, retries |-> 0,
   command |-> Encoded(n, p),
   desired |-> IF n = SetCurves THEN Encoded(n, p) ELSE p,
   confirmed |-> {}, sentAge |-> 0, nextSendIn |-> 0, sequence |-> 0]

Expectations(e) == IF e.name \in Reported THEN Asks(e.desired) ELSE {}
Unconfirmed(e)  == Expectations(e) \ e.confirmed

ExpectationMatches(n, desired, reported) ==
  reported = desired \/ <<n, desired, reported>> \in Alias

\* Variant: a confirmed curve value stays in the packet.
ApplyKnownStateKeepingBytes(e, d) ==
  [e EXCEPT !.confirmed = @ \cup
     {f \in Unconfirmed(e) : ExpectationMatches(e.name, e.desired[f], d[f])}]

\* Confirm what frame d reports; a confirmed curve value is cleared from the
\* packet, so that a retry does not send it again.
ApplyKnownState(e, d) ==
  LET matched == {f \in Unconfirmed(e) : ExpectationMatches(e.name, e.desired[f], d[f])}
  IN [e EXCEPT !.confirmed = @ \cup matched,
               !.command = IF e.name = SetCurves
                           THEN [f \in Field |-> IF f \in matched THEN NoChange ELSE @[f]]
                           ELSE @]

SameRequest(e1, e2) ==
  /\ e1.name = e2.name
  /\ IF Expectations(e1) = {} /\ Expectations(e2) = {}
     THEN e1.command = e2.command
     ELSE e1.desired = e2.desired

Holds(s, n) == pending[s].active /\ pending[s].name = n

-----------------------------------------------------------------------------
(* queue_mqtt_heatpump_command: an MQTT message for command n.              *)

Known(n, p) ==
  IF fresh THEN ApplyKnownState(Incoming(n, p), data) ELSE Incoming(n, p)

AlreadyReported(e) == Expectations(e) # {} /\ Unconfirmed(e) = {}

Receive(n, p) ==
  /\ requests < MaxRequests
  /\ requests' = requests + 1
  /\ UNCHANGED <<mqttCommandWasSent, sinceLastSend, frameVars, cmdQueue, actual, foreign>>

\* "skipped": the last frame already reports all of it.  A pending request for
\* the same command is not looked at.
QueueSkip(n, p) ==
  /\ AlreadyReported(Known(n, p))
  /\ Receive(n, p)
  /\ UNCHANGED <<pending, mqttCommandSequence, sends, refused>>

\* "ignored": the same request is pending.
QueueIgnore(n, p) ==
  /\ ~AlreadyReported(Known(n, p))
  /\ \E s \in Slots : Holds(s, n) /\ SameRequest(pending[s], Known(n, p))
  /\ Receive(n, p)
  /\ UNCHANGED <<pending, mqttCommandSequence, sends, refused>>

\* *freeSlot = incoming, with the next sequence number.
Insert(n, p, s) ==
  /\ mqttCommandSequence' = mqttCommandSequence + 1
  /\ pending' = [pending EXCEPT ![s] =
                   [Known(n, p) EXCEPT !.sequence = mqttCommandSequence + 1]]
  /\ sends' = [sends EXCEPT ![s] = 0]
  /\ refused' = [refused EXCEPT ![s] = FALSE]

\* "replaces the pending request", also one that was sent already.
QueueReplace(n, p, s) ==
  /\ ~AlreadyReported(Known(n, p))
  /\ Holds(s, n) /\ \A t \in 1 .. s - 1 : ~Holds(t, n)
  /\ ~SameRequest(pending[s], Known(n, p))
  /\ Receive(n, p)
  /\ Insert(n, p, s)

\* Variant: the scan stops at the first free slot.
QueueInsertUnseen(n, p, s) ==
  /\ ~AlreadyReported(Known(n, p))
  /\ ~pending[s].active /\ \A t \in 1 .. s - 1 : pending[t].active
  /\ Receive(n, p)
  /\ Insert(n, p, s)

\* "queued" in the first inactive slot.
QueueInsert(n, p, s) ==
  /\ ~AlreadyReported(Known(n, p))
  /\ \A t \in Slots : ~Holds(t, n)
  /\ ~pending[s].active /\ \A t \in 1 .. s - 1 : pending[t].active
  /\ Receive(n, p)
  /\ Insert(n, p, s)

\* "rejected: confirmation queue is full".
QueueReject(n, p) ==
  /\ ~AlreadyReported(Known(n, p))
  /\ \A t \in Slots : pending[t].active /\ ~Holds(t, n)
  /\ Receive(n, p)
  /\ UNCHANGED <<pending, mqttCommandSequence, history>>

-----------------------------------------------------------------------------
(* confirm_mqtt_heatpump_commands, called by readSerial with each complete  *)
(* main frame before it is decoded into actData.                            *)

AfterFrame(e, d) ==
  IF ~e.active \/ Expectations(e) = {} THEN e
  ELSE IF Unconfirmed(ApplyKnownState(e, d)) = {} THEN FreeSlot
  ELSE ApplyKnownState(e, d)

ReadFrame ==
  /\ answer # None
  /\ pending' = [s \in Slots |-> AfterFrame(pending[s], answer)]
  /\ data' = answer /\ fresh' = TRUE /\ answer' = None
  /\ UNCHANGED <<mqttCommandSequence, mqttCommandWasSent, sinceLastSend, cmdQueue,
                 actual, envVars, history>>

-----------------------------------------------------------------------------
(* process_mqtt_heatpump_commands: first the expired entries ...            *)

Expired(s) ==
  LET e == pending[s]
  IN /\ e.active /\ ~e.waitingToSend /\ e.wasSent /\ Expectations(e) # {}
     /\ e.sentAge >= MQTT_COMMAND_CONFIRM_TIMEOUT

\* Variant: retried for ever.
RetriedUnlimited == {s \in Slots : Expired(s)}

Retried == {s \in Slots : Expired(s) /\ pending[s].retries < MQTT_COMMAND_MAX_RETRIES}

\* Variant: all entries that expire together get the same number.
RetrySequenceShared(s) == mqttCommandSequence + 1

\* The entries are scanned in slot order and numbered as they are met.
RetrySequence(s) == mqttCommandSequence + Cardinality({t \in Retried : t <= s})

\* Variant: the retry is not counted.
RequeuedUncounted(s) ==
  [pending[s] EXCEPT !.waitingToSend = TRUE, !.nextSendIn = 0,
                     !.sequence = RetrySequence(s)]

Requeued(s) ==
  [pending[s] EXCEPT !.retries = @ + 1, !.waitingToSend = TRUE, !.nextSendIn = 0,
                     !.sequence = RetrySequence(s)]

AfterTimeouts ==
  [s \in Slots |-> IF s \in Retried THEN Requeued(s)
                   ELSE IF Expired(s) THEN FreeSlot
                   ELSE pending[s]]

RefusedAfterTimeouts == [s \in Slots |-> refused[s] /\ s \notin Retried]

\* ... then at most one is sent.
\* Variant: no minimum distance.
GapRunningNever == FALSE

GapRunning == mqttCommandWasSent /\ sinceLastSend < MQTT_COMMAND_GAP

Due(s) ==
  s \in Retried \/ (pending[s].active /\ pending[s].waitingToSend /\ pending[s].nextSendIn = 0)

DueSequence(s) == IF s \in Retried THEN RetrySequence(s) ELSE pending[s].sequence

\* Variant: the first entry that is due, whatever its number.
NextToSendUnordered(s) ==
  /\ ~GapRunning
  /\ Due(s)
  /\ \A t \in 1 .. s - 1 : ~Due(t)

\* The entry with the least sequence number.
NextToSend(s) ==
  /\ ~GapRunning
  /\ Due(s)
  /\ \A t \in Slots : Due(t) => DueSequence(s) <= DueSequence(t)

Timeouts ==
  /\ mqttCommandSequence' = mqttCommandSequence + Cardinality(Retried)
  /\ UNCHANGED <<frameVars, actual, envVars>>

\* The gap is running or nothing is due.
ProcessOnlyTimeouts ==
  /\ GapRunning \/ \A s \in Slots : ~Due(s)
  /\ Timeouts
  /\ pending' = AfterTimeouts
  /\ refused' = RefusedAfterTimeouts
  /\ UNCHANGED <<mqttCommandWasSent, sinceLastSend, cmdQueue, sends>>

\* send_command returned false: the serial queue is full.
ProcessRefused(s) ==
  /\ NextToSend(s)
  /\ Len(cmdQueue) = CmdQueueSize
  /\ Timeouts
  /\ pending' = [AfterTimeouts EXCEPT ![s].nextSendIn = MQTT_COMMAND_QUEUE_RETRY]
  /\ refused' = [RefusedAfterTimeouts EXCEPT ![s] = TRUE]
  /\ UNCHANGED <<mqttCommandWasSent, sinceLastSend, cmdQueue, sends>>

\* Variant: an entry without a reported state waits for a confirmation.
SentEntryKept(e) == [e EXCEPT !.waitingToSend = FALSE, !.wasSent = TRUE, !.sentAge = 0]

\* Sent; an entry without a reported state is done with.
SentEntry(e) ==
  IF Expectations(e) = {} THEN FreeSlot
  ELSE [e EXCEPT !.waitingToSend = FALSE, !.wasSent = TRUE, !.sentAge = 0]

ProcessSend(s) ==
  /\ NextToSend(s)
  /\ Len(cmdQueue) < CmdQueueSize
  /\ Timeouts
  /\ cmdQueue' = Append(cmdQueue, AfterTimeouts[s].command)
  /\ pending' = [AfterTimeouts EXCEPT ![s] = SentEntry(@)]
  /\ mqttCommandWasSent' = TRUE
  /\ sinceLastSend' = 0
  /\ sends' = [sends EXCEPT ![s] = @ + 1]
  /\ refused' = RefusedAfterTimeouts

Process ==
  \/ ProcessOnlyTimeouts
  \/ \E s \in Slots : ProcessRefused(s) \/ ProcessSend(s)

-----------------------------------------------------------------------------
(* Time.                                                                   *)

Aged(e) ==
  [e EXCEPT !.sentAge = IF e.wasSent /\ @ < MQTT_COMMAND_CONFIRM_TIMEOUT THEN @ + 1 ELSE @,
            !.nextSendIn = IF @ > 0 THEN @ - 1 ELSE 0]

Tick ==
  /\ pending' = [s \in Slots |-> Aged(pending[s])]
  /\ sinceLastSend' = IF mqttCommandWasSent /\ sinceLastSend < MQTT_COMMAND_GAP
                      THEN sinceLastSend + 1 ELSE sinceLastSend
  /\ UNCHANGED <<mqttCommandSequence, mqttCommandWasSent, frameVars, cmdQueue,
                 actual, envVars, history>>

\* The last frame gets older than max(60 s, 4 * waitTime).
GoStale ==
  /\ fresh /\ fresh' = FALSE
  /\ UNCHANGED <<queueVars, data, answer, cmdQueue, actual, envVars, history>>

-----------------------------------------------------------------------------
(* The environment: the serial task, the heat pump and the other writers.   *)

\* The serial task takes the oldest command; the heat pump executes it ...
Execute ==
  /\ cmdQueue # <<>>
  /\ actual' = [f \in Field |-> IF Head(cmdQueue)[f] = NoChange THEN actual[f]
                                ELSE Head(cmdQueue)[f]]
  /\ cmdQueue' = Tail(cmdQueue)
  /\ UNCHANGED <<queueVars, frameVars, envVars, history>>

\* ... or it is dropped on the way.
Lose ==
  /\ cmdQueue # <<>>
  /\ cmdQueue' = Tail(cmdQueue)
  /\ UNCHANGED <<queueVars, frameVars, actual, envVars, history>>

\* The heat pump answers a query.  The answer is of this moment; the main loop
\* reads it later.
Answer ==
  /\ answer = None
  /\ answer' = actual
  /\ UNCHANGED <<queueVars, data, fresh, cmdQueue, actual, envVars, history>>

\* Another source (rules, /command, Scheduler, raw MQTT) uses send_command.
ForeignCommand(n, p) ==
  /\ foreign < MaxForeign /\ foreign' = foreign + 1
  /\ Len(cmdQueue) < CmdQueueSize
  /\ cmdQueue' = Append(cmdQueue, Encoded(n, p))
  /\ UNCHANGED <<queueVars, frameVars, actual, requests, history>>

\* Somebody uses the control panel, or the heat pump changes a setting itself.
PanelChange(f, v) ==
  /\ foreign < MaxForeign /\ foreign' = foreign + 1
  /\ actual' = [actual EXCEPT ![f] = v]
  /\ UNCHANGED <<queueVars, frameVars, cmdQueue, requests, history>>

-----------------------------------------------------------------------------
Init ==
  /\ pending = [s \in Slots |-> FreeSlot]
  /\ mqttCommandSequence = 0
  /\ mqttCommandWasSent = FALSE
  /\ sinceLastSend = 0
  /\ actual \in InitialSettings
  /\ data = actual /\ fresh = FALSE
  /\ cmdQueue = <<>>
  /\ answer = None
  /\ requests = 0 /\ foreign = 0
  /\ sends = [s \in Slots |-> 0]
  /\ refused = [s \in Slots |-> FALSE]

QueueMqttHeatpumpCommand(n, p) ==
  \/ QueueSkip(n, p)
  \/ QueueIgnore(n, p)
  \/ QueueReject(n, p)
  \/ \E s \in Slots : QueueReplace(n, p, s) \/ QueueInsert(n, p, s)

Environment ==
  \/ Execute \/ Lose \/ Answer
  \/ \E n \in Name : \E p \in Payload[n] : ForeignCommand(n, p)
  \/ \E f \in Field, v \in Value : PanelChange(f, v)

Next ==
  \/ \E n \in Name : \E p \in Payload[n] : QueueMqttHeatpumpCommand(n, p)
  \/ ReadFrame
  \/ Process
  \/ Tick
  \/ GoStale
  \/ Environment

Spec == Init /\ [][Next]_vars

\* loop() runs Process again and again, time passes, and the serial task empties
\* its queue (each command is executed or dropped).
Fairness == WF_vars(Process) /\ WF_vars(Tick) /\ WF_vars(Execute \/ Lose)
FairSpec == Spec /\ Fairness

-----------------------------------------------------------------------------
(* Properties.                                                             *)

TypeOK ==
  /\ pending \in [Slots -> Entry]
  /\ mqttCommandSequence \in Nat
  /\ mqttCommandWasSent \in BOOLEAN
  /\ sinceLastSend \in 0 .. MQTT_COMMAND_GAP
  /\ actual \in [Field -> Value]
  /\ data \in [Field -> Value]
  /\ fresh \in BOOLEAN
  /\ cmdQueue \in Seq(Change)
  /\ Len(cmdQueue) <= CmdQueueSize
  /\ answer \in [Field -> Value] \cup {None}
  /\ requests \in 0 .. MaxRequests
  /\ foreign \in 0 .. MaxForeign
  /\ sends \in [Slots -> Nat]
  /\ refused \in [Slots -> BOOLEAN]

\* Two slots never hold requests for the same command: a newer request replaces
\* the older one wherever the free slots are, so the two never fight.
OnePendingPerCommand ==
  \A s, t \in Slots :
    pending[s].active /\ pending[t].active /\ pending[s].name = pending[t].name => s = t

\* No slot leaks: an occupied slot either waits to be sent or was sent and still
\* has a value to be confirmed, so that a frame or the timeout will free it.
NoStuckEntry ==
  \A s \in Slots : pending[s].active =>
    \/ pending[s].waitingToSend
    \/ pending[s].wasSent /\ Unconfirmed(pending[s]) # {}

\* A packet of a confirmed-by-report command carries exactly the values not yet
\* confirmed, and at least one: nothing confirmed is repeated, nothing missing is
\* forgotten, and no empty packet is sent.
PacketIsWhatIsMissing ==
  \A s \in Slots : pending[s].active /\ Expectations(pending[s]) # {} =>
    /\ Unconfirmed(pending[s]) # {}
    /\ Asks(pending[s].command) = Unconfirmed(pending[s])

\* The log line "sent (attempt k/4)" tells the truth: the retry count and the
\* phase of an entry determine how often it really was sent, at most once plus
\* MQTT_COMMAND_MAX_RETRIES.
AttemptsAreCounted ==
  \A s \in Slots : pending[s].active =>
    /\ sends[s] = pending[s].retries + (IF pending[s].waitingToSend THEN 0 ELSE 1)
    /\ sends[s] <= MQTT_COMMAND_MAX_RETRIES + 1

\* Requests are served in the order of their sequence numbers: an entry still
\* waiting is not overtaken by one with a higher number, unless send_command
\* refused it.
ServedInOrder ==
  \A s, t \in Slots :
    /\ pending[s].active /\ pending[s].waitingToSend /\ ~refused[s]
    /\ pending[t].active /\ ~pending[t].waitingToSend
    => pending[t].sequence < pending[s].sequence

\* Whoever is served next is determined: no two entries have the same number.
DistinctSequences ==
  \A s, t \in Slots :
    pending[s].active /\ pending[t].active /\ pending[s].sequence = pending[t].sequence
    => s = t

\* Facts the three ordering and counting invariants rest on: every number was given
\* out, an entry that was never refused is not backing off, and a plain command
\* always asks for the one setting it writes.
SequencesGivenOut ==
  \A s \in Slots : pending[s].active => pending[s].sequence <= mqttCommandSequence

UnrefusedIsDue ==
  \A s \in Slots :
    pending[s].active /\ pending[s].waitingToSend /\ ~refused[s]
    => pending[s].nextSendIn = 0

PlainEntriesAsk ==
  \A s \in Slots :
    pending[s].active /\ pending[s].name \in Reported \ {SetCurves}
    => Asks(pending[s].desired) = FieldsOf[pending[s].name]

\* The inductive invariant.
QueueInvariant ==
  /\ TypeOK
  /\ SequencesGivenOut /\ UnrefusedIsDue /\ PlainEntriesAsk
  /\ OnePendingPerCommand /\ NoStuckEntry /\ PacketIsWhatIsMissing
  /\ AttemptsAreCounted /\ DistinctSequences /\ ServedInOrder

\* Every accepted request leaves the queue: confirmed, failed after the last
\* retry, or replaced.
EveryRequestResolved ==
  \A s \in Slots : pending[s].active ~> ~pending[s].active
=============================================================================
