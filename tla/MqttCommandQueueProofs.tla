----------------------- MODULE MqttCommandQueueProofs -----------------------
(***************************************************************************)
(* Proofs about MqttCommandQueue, for every set of commands, settings and   *)
(* values and every limit.                                                  *)
(***************************************************************************)
EXTENDS MqttCommandQueue, FiniteSetTheorems, SequenceTheorems, TLAPS

-----------------------------------------------------------------------------
(* The operators on entries.                                               *)

\* The value that stands for every inactive slot is an entry.
LEMMA FreeSlotType == FreeSlot \in Entry /\ ~FreeSlot.active
  BY DataAssumption, LimitAssumption DEF FreeSlot, Entry, Change

\* Encoding keeps the set of fields that are asked for.
LEMMA EncodedType ==
  ASSUME NEW n \in Name, NEW p \in Payload[n]
  PROVE  /\ p \in Change
         /\ Encoded(n, p) \in Change
         /\ Asks(Encoded(n, p)) = Asks(p)
<1>1. /\ p \in [Field -> Requestable \cup {NoChange}]
  BY DEF Payload
<1>2. \A f \in Asks(p) : f \in Field /\ p[f] \in Value
  BY <1>1, DataAssumption DEF Asks
<1>3. \A f \in Asks(p) : Encode[n][p[f]] \in Value
  BY <1>2, DataAssumption
<1>4. p \in Change
  BY <1>1, DataAssumption DEF Change
<1>5. Encoded(n, p) \in Change
  BY <1>3 DEF Encoded, Change
<1>6. Asks(Encoded(n, p)) = Asks(p)
  BY <1>3, DataAssumption DEF Encoded, Asks
<1> QED BY <1>4, <1>5, <1>6

\* A plain command with a reported state asks for the one setting it writes.
LEMMA PayloadOfPlainCommand ==
  ASSUME NEW n \in Reported \ {SetCurves}, NEW p \in Payload[n]
  PROVE  Asks(p) = FieldsOf[n] /\ \E f \in Field : FieldsOf[n] = {f}
  BY DataAssumption DEF Payload

\* A request becomes an entry that asks for exactly what the payload asks for.
LEMMA IncomingType ==
  ASSUME NEW n \in Name, NEW p \in Payload[n]
  PROVE  /\ Incoming(n, p) \in Entry
         /\ Asks(Incoming(n, p).desired) = Asks(p)
         /\ Asks(Incoming(n, p).command) = Asks(p)
<1>1. p \in Change /\ Encoded(n, p) \in Change /\ Asks(Encoded(n, p)) = Asks(p)
  BY EncodedType
<1> QED BY <1>1, LimitAssumption DEF Incoming, Entry

\* The fields the main loop rewrites keep an entry well formed.
LEMMA UpdatedEntryType ==
  ASSUME NEW e \in Entry
  PROVE  /\ \A k \in Nat : [e EXCEPT !.sequence = k] \in Entry
         /\ [e EXCEPT !.nextSendIn = MQTT_COMMAND_QUEUE_RETRY] \in Entry
         /\ [e EXCEPT !.waitingToSend = FALSE, !.wasSent = TRUE, !.sentAge = 0] \in Entry
         /\ \A a \in 0 .. MQTT_COMMAND_CONFIRM_TIMEOUT, d \in 0 .. MQTT_COMMAND_QUEUE_RETRY :
              [e EXCEPT !.sentAge = a, !.nextSendIn = d] \in Entry
<1>1. /\ MQTT_COMMAND_QUEUE_RETRY \in 0 .. MQTT_COMMAND_QUEUE_RETRY
      /\ 0 \in 0 .. MQTT_COMMAND_CONFIRM_TIMEOUT
  BY LimitAssumption
<1>2. \A k \in Nat : [e EXCEPT !.sequence = k] \in Entry
  BY DEF Entry
<1>3. [e EXCEPT !.nextSendIn = MQTT_COMMAND_QUEUE_RETRY] \in Entry
  BY <1>1 DEF Entry
<1>4. [e EXCEPT !.waitingToSend = FALSE, !.wasSent = TRUE, !.sentAge = 0] \in Entry
  BY <1>1 DEF Entry
<1>5. \A a \in 0 .. MQTT_COMMAND_CONFIRM_TIMEOUT, d \in 0 .. MQTT_COMMAND_QUEUE_RETRY :
        [e EXCEPT !.sentAge = a, !.nextSendIn = d] \in Entry
  BY DEF Entry
<1> QED BY <1>2, <1>3, <1>4, <1>5

\* Sending changes the phase of an entry only.
LEMMA SentEntryFields ==
  ASSUME NEW e \in Entry
  PROVE  LET x == [e EXCEPT !.waitingToSend = FALSE, !.wasSent = TRUE, !.sentAge = 0]
         IN /\ x.active = e.active /\ x.name = e.name /\ x.desired = e.desired
            /\ x.command = e.command /\ x.confirmed = e.confirmed
            /\ x.sequence = e.sequence /\ x.retries = e.retries
            /\ x.waitingToSend = FALSE /\ x.wasSent = TRUE
  BY DEF Entry

\* What a frame does to an entry: it only confirms.
LEMMA ApplyKnownStateType ==
  ASSUME NEW e \in Entry, NEW d
  PROVE  LET a == ApplyKnownState(e, d)
         IN /\ a \in Entry
            /\ a.active = e.active /\ a.name = e.name /\ a.desired = e.desired
            /\ a.waitingToSend = e.waitingToSend /\ a.wasSent = e.wasSent
            /\ a.retries = e.retries /\ a.sequence = e.sequence
            /\ a.nextSendIn = e.nextSendIn /\ a.sentAge = e.sentAge
            /\ Expectations(a) = Expectations(e)
            /\ Unconfirmed(a) \subseteq Unconfirmed(e)
<1> DEFINE matched == {f \in Unconfirmed(e) : ExpectationMatches(e.name, e.desired[f], d[f])}
           cleared == [f \in Field |-> IF f \in matched THEN NoChange ELSE e.command[f]]
           a == ApplyKnownState(e, d)
<1>1. matched \subseteq Field
  BY DEF Unconfirmed, Expectations, Asks
<1>2. cleared \in Change
  BY DEF Entry, Change
<1>3. a = [e EXCEPT !.confirmed = e.confirmed \cup matched,
                    !.command = IF e.name = SetCurves THEN cleared ELSE e.command]
  BY DEF ApplyKnownState
<1> HIDE DEF matched, cleared, a
<1>4. a \in Entry
  BY <1>1, <1>2, <1>3 DEF Entry
<1>5. /\ a.active = e.active /\ a.name = e.name /\ a.desired = e.desired
      /\ a.waitingToSend = e.waitingToSend /\ a.wasSent = e.wasSent
      /\ a.retries = e.retries /\ a.sequence = e.sequence
      /\ a.nextSendIn = e.nextSendIn /\ a.sentAge = e.sentAge
      /\ a.confirmed = e.confirmed \cup matched
  BY <1>3 DEF Entry
<1>6. Expectations(a) = Expectations(e) /\ Unconfirmed(a) \subseteq Unconfirmed(e)
  BY <1>5 DEF Expectations, Unconfirmed
<1> QED BY <1>4, <1>5, <1>6 DEF a

\* As long as something is missing, a frame leaves exactly the missing values in
\* the packet.
LEMMA ApplyKnownStatePacket ==
  ASSUME NEW e \in Entry, NEW d,
         Asks(e.command) = Unconfirmed(e),
         e.name = SetCurves \/ \E f \in Field : Expectations(e) = {f},
         Unconfirmed(ApplyKnownState(e, d)) # {}
  PROVE  Asks(ApplyKnownState(e, d).command) = Unconfirmed(ApplyKnownState(e, d))
<1> DEFINE matched == {f \in Unconfirmed(e) : ExpectationMatches(e.name, e.desired[f], d[f])}
           cleared == [f \in Field |-> IF f \in matched THEN NoChange ELSE e.command[f]]
           a == ApplyKnownState(e, d)
<1>1. a = [e EXCEPT !.confirmed = e.confirmed \cup matched,
                    !.command = IF e.name = SetCurves THEN cleared ELSE e.command]
  BY DEF ApplyKnownState
<1>2. matched \subseteq Unconfirmed(e)
  OBVIOUS
<1>3. Asks(cleared) = Asks(e.command) \ matched
  BY DEF Asks
<1> HIDE DEF matched, cleared, a
<1>4. /\ a.name = e.name /\ a.desired = e.desired
      /\ a.confirmed = e.confirmed \cup matched
      /\ a.command = IF e.name = SetCurves THEN cleared ELSE e.command
  BY <1>1 DEF Entry
<1>5. Unconfirmed(a) = Unconfirmed(e) \ matched
  BY <1>4 DEF Unconfirmed, Expectations
<1>6. CASE e.name = SetCurves
  BY <1>3, <1>4, <1>5, <1>6 DEF a
<1>7. CASE e.name # SetCurves
  <2>1. PICK f \in Field : Expectations(e) = {f}
    BY <1>7
  <2>2. matched = {}
    BY <2>1, <1>2, <1>5 DEF Unconfirmed, a
  <2> QED BY <2>2, <1>4, <1>5, <1>7 DEF a
<1> QED BY <1>6, <1>7

\* What queue_mqtt_heatpump_command would store: a fresh entry that already
\* counts what the last frame reports.
LEMMA KnownType ==
  ASSUME NEW n \in Name, NEW p \in Payload[n]
  PROVE  /\ Known(n, p) \in Entry
         /\ Known(n, p).active /\ Known(n, p).name = n
         /\ Known(n, p).waitingToSend /\ ~Known(n, p).wasSent
         /\ Known(n, p).retries = 0 /\ Known(n, p).nextSendIn = 0
         /\ Asks(Known(n, p).desired) = Asks(p)
         /\ ~AlreadyReported(Known(n, p)) /\ Expectations(Known(n, p)) # {}
            => /\ Unconfirmed(Known(n, p)) # {}
               /\ Asks(Known(n, p).command) = Unconfirmed(Known(n, p))
<1> DEFINE i == Incoming(n, p)
<1>1. i \in Entry /\ Asks(i.desired) = Asks(p) /\ Asks(i.command) = Asks(p)
  BY IncomingType
<1>2. /\ i.active /\ i.name = n /\ i.waitingToSend /\ ~i.wasSent
      /\ i.retries = 0 /\ i.nextSendIn = 0 /\ i.confirmed = {}
  BY DEF Incoming
<1>3. n \in Reported => Expectations(i) = Asks(p) /\ Unconfirmed(i) = Asks(p)
  BY <1>1, <1>2 DEF Expectations, Unconfirmed
<1>4. n \notin Reported => Expectations(i) = {}
  BY <1>2 DEF Expectations
<1>5. n \in Reported => n = SetCurves \/ \E f \in Field : Expectations(i) = {f}
  BY <1>3, PayloadOfPlainCommand
<1> HIDE DEF i
<1>6. CASE fresh
  <2>1. Known(n, p) = ApplyKnownState(i, data)
    BY <1>6 DEF Known, i
  <2>2. /\ ApplyKnownState(i, data) \in Entry
        /\ ApplyKnownState(i, data).active = i.active
        /\ ApplyKnownState(i, data).name = i.name
        /\ ApplyKnownState(i, data).desired = i.desired
        /\ ApplyKnownState(i, data).waitingToSend = i.waitingToSend
        /\ ApplyKnownState(i, data).wasSent = i.wasSent
        /\ ApplyKnownState(i, data).retries = i.retries
        /\ ApplyKnownState(i, data).nextSendIn = i.nextSendIn
        /\ Expectations(ApplyKnownState(i, data)) = Expectations(i)
    BY <1>1, ApplyKnownStateType
  <2>3. /\ n \in Reported
        /\ Unconfirmed(ApplyKnownState(i, data)) # {}
        => Asks(ApplyKnownState(i, data).command) = Unconfirmed(ApplyKnownState(i, data))
    BY <1>1, <1>2, <1>3, <1>5, ApplyKnownStatePacket
  <2> QED BY <2>1, <2>2, <2>3, <1>1, <1>2, <1>4 DEF AlreadyReported
<1>7. CASE ~fresh
  <2>1. Known(n, p) = i
    BY <1>7 DEF Known, i
  <2> QED BY <2>1, <1>1, <1>2, <1>3, <1>4 DEF AlreadyReported
<1> QED BY <1>6, <1>7

\* The numbers given to the entries that expire together: new ones, all
\* different, in slot order.
LEMMA RetryNumbers ==
  ASSUME mqttCommandSequence \in Nat
  PROVE  /\ Cardinality(Retried) \in Nat
         /\ \A s \in Retried : /\ RetrySequence(s) \in Nat
                             /\ RetrySequence(s) > mqttCommandSequence
                             /\ RetrySequence(s) <= mqttCommandSequence + Cardinality(Retried)
         /\ \A s, t \in Retried : s < t => RetrySequence(s) < RetrySequence(t)
<1> DEFINE UpTo(s) == {t \in Retried : t <= s}
<1>1. IsFiniteSet(Slots) /\ Slots \subseteq Int
  BY FS_Interval, LimitAssumption DEF Slots
<1>2. Retried \subseteq Slots
  BY DEF Retried
<1>3. IsFiniteSet(Retried)
  BY <1>1, <1>2, FS_Subset
<1>4. Cardinality(Retried) \in Nat
  BY <1>3, FS_CardinalityType
<1>5. ASSUME NEW s \in Retried
      PROVE  /\ IsFiniteSet(UpTo(s)) /\ Cardinality(UpTo(s)) \in Nat
             /\ Cardinality(UpTo(s)) <= Cardinality(Retried)
             /\ Cardinality(UpTo(s)) > 0
  <2>1. UpTo(s) \in SUBSET Retried
    OBVIOUS
  <2>2. IsFiniteSet(UpTo(s)) /\ Cardinality(UpTo(s)) <= Cardinality(Retried)
    BY <2>1, <1>3, FS_Subset
  <2>3. Cardinality(UpTo(s)) \in Nat
    BY <2>2, FS_CardinalityType
  <2>4. s \in UpTo(s)
    BY <1>1, <1>2
  <2>5. Cardinality(UpTo(s)) # 0
    BY <2>2, <2>4, FS_EmptySet
  <2> HIDE DEF UpTo
  <2> QED BY <2>2, <2>3, <2>5
<1>6. ASSUME NEW s \in Retried, NEW t \in Retried, s < t
      PROVE  Cardinality(UpTo(s)) < Cardinality(UpTo(t))
  <2>1. UpTo(s) \in SUBSET UpTo(t)
    <3>1. s \in Int /\ t \in Int /\ Retried \subseteq Int
      BY <1>1, <1>2
    <3>2. \A r \in Int : r <= s => r <= t
      BY <3>1, <1>6
    <3> QED BY <3>1, <3>2
  <2>2. t \in UpTo(t) /\ t \notin UpTo(s)
    BY <1>1, <1>2, <1>6
  <2>3. UpTo(s) # UpTo(t)
    BY <2>2
  <2>4. Cardinality(UpTo(s)) <= Cardinality(UpTo(t))
        /\ Cardinality(UpTo(s)) # Cardinality(UpTo(t))
    BY <1>5, <2>1, <2>3, FS_Subset
  <2>5. Cardinality(UpTo(s)) \in Nat /\ Cardinality(UpTo(t)) \in Nat
    BY <1>5
  <2> HIDE DEF UpTo
  <2> QED BY <2>4, <2>5
<1>7. \A s \in Retried : RetrySequence(s) = mqttCommandSequence + Cardinality(UpTo(s))
  BY DEF RetrySequence
<1> HIDE DEF UpTo
<1>8. \A s \in Retried :
        /\ RetrySequence(s) \in Nat
        /\ RetrySequence(s) > mqttCommandSequence
        /\ RetrySequence(s) <= mqttCommandSequence + Cardinality(Retried)
  BY <1>4, <1>5, <1>7
<1>9. \A s, t \in Retried : s < t => RetrySequence(s) < RetrySequence(t)
  BY <1>5, <1>6, <1>7
<1> QED BY <1>4, <1>8, <1>9

-----------------------------------------------------------------------------
(* Type correctness.                                                       *)

\* Rescheduling or giving up the expired entries leaves entries in the slots.
LEMMA AfterTimeoutsType ==
  ASSUME TypeOK
  PROVE  AfterTimeouts \in [Slots -> Entry]
<1>1. ASSUME NEW s \in Slots, s \in Retried
      PROVE  Requeued(s) \in Entry
  <2>1. RetrySequence(s) \in Nat
    BY <1>1, RetryNumbers DEF TypeOK
  <2>2. pending[s] \in Entry /\ pending[s].retries < MQTT_COMMAND_MAX_RETRIES
    BY <1>1 DEF TypeOK, Retried
  <2>3. pending[s].retries + 1 \in 0 .. MQTT_COMMAND_MAX_RETRIES
    BY <2>2, LimitAssumption DEF Entry
  <2>4. 0 \in 0 .. MQTT_COMMAND_QUEUE_RETRY
    BY LimitAssumption
  <2> QED BY <2>1, <2>2, <2>3, <2>4 DEF Requeued, Entry
<1> QED BY <1>1, FreeSlotType DEF AfterTimeouts, TypeOK

\* At boot the state is well formed.
LEMMA TypeOKInit == Init => TypeOK
<1> SUFFICES ASSUME Init PROVE TypeOK
  OBVIOUS
<1>1. cmdQueue \in Seq(Change) /\ Len(cmdQueue) = 0
  BY DEF Init
<1>2. actual \in [Field -> Value] /\ data \in [Field -> Value]
  BY DataAssumption DEF Init
<1>3. /\ sinceLastSend \in 0 .. MQTT_COMMAND_GAP /\ requests \in 0 .. MaxRequests
      /\ foreign \in 0 .. MaxForeign /\ Len(cmdQueue) <= CmdQueueSize
  BY <1>1, LimitAssumption DEF Init
<1> QED BY <1>1, <1>2, <1>3, FreeSlotType DEF Init, TypeOK

\* Each MQTT message, frame, pass of the loop and outside event keeps it well formed.
LEMMA TypeOKStep == TypeOK /\ [Next]_vars => TypeOK'
<1> SUFFICES ASSUME TypeOK, [Next]_vars
             PROVE  TypeOK'
  OBVIOUS
<1> USE DEF TypeOK
<1>1. ASSUME NEW n \in Name, NEW p \in Payload[n], QueueMqttHeatpumpCommand(n, p)
      PROVE  TypeOK'
  <2>1. requests < MaxRequests /\ requests' = requests + 1
        /\ UNCHANGED <<mqttCommandWasSent, sinceLastSend, data, fresh, answer, cmdQueue,
                       actual, foreign>>
    BY <1>1 DEF QueueMqttHeatpumpCommand, QueueSkip, QueueIgnore, QueueReject,
                QueueReplace, QueueInsert, Receive, frameVars
  <2>2. requests' \in 0 .. MaxRequests
    BY <2>1, LimitAssumption
  <2>3. CASE UNCHANGED <<pending, mqttCommandSequence, sends, refused>>
    BY <2>1, <2>2, <2>3
  <2>4. ASSUME NEW s \in Slots, Insert(n, p, s)
        PROVE  TypeOK'
    <3>1. Known(n, p) \in Entry
      BY KnownType
    <3>2. mqttCommandSequence + 1 \in Nat
      OBVIOUS
    <3>3. [Known(n, p) EXCEPT !.sequence = mqttCommandSequence + 1] \in Entry
      BY <3>1, <3>2, UpdatedEntryType
    <3> QED BY <2>1, <2>2, <2>4, <3>2, <3>3 DEF Insert
  <2> QED BY <1>1, <2>3, <2>4 DEF QueueMqttHeatpumpCommand, QueueSkip, QueueIgnore,
                                  QueueReject, QueueReplace, QueueInsert, history
<1>2. CASE ReadFrame
  <2>1. answer \in [Field -> Value]
    BY <1>2 DEF ReadFrame
  <2>2. \A s \in Slots : AfterFrame(pending[s], answer) \in Entry
    BY ApplyKnownStateType, FreeSlotType DEF AfterFrame
  <2> QED BY <1>2, <2>1, <2>2 DEF ReadFrame, envVars, history
<1>3. ASSUME Process
      PROVE  TypeOK'
  <2>1. /\ mqttCommandSequence' \in Nat
        /\ UNCHANGED <<data, fresh, answer, actual, requests, foreign>>
    BY <1>3, RetryNumbers
       DEF Process, ProcessOnlyTimeouts, ProcessRefused, ProcessSend, Timeouts,
           frameVars, envVars
  <2>2. AfterTimeouts \in [Slots -> Entry]
    BY AfterTimeoutsType
  <2>3. RefusedAfterTimeouts \in [Slots -> BOOLEAN]
    BY DEF RefusedAfterTimeouts
  <2>4. CASE ProcessOnlyTimeouts
    BY <2>1, <2>2, <2>3, <2>4 DEF ProcessOnlyTimeouts
  <2>5. ASSUME NEW s \in Slots, ProcessRefused(s)
        PROVE  TypeOK'
    <3>1. [AfterTimeouts[s] EXCEPT !.nextSendIn = MQTT_COMMAND_QUEUE_RETRY] \in Entry
      BY <2>2, UpdatedEntryType
    <3>2. pending' = [AfterTimeouts EXCEPT ![s] =
                        [AfterTimeouts[s] EXCEPT !.nextSendIn = MQTT_COMMAND_QUEUE_RETRY]]
      BY <2>2, <2>5 DEF ProcessRefused
    <3> QED BY <2>1, <2>2, <2>3, <2>5, <3>1, <3>2 DEF ProcessRefused
  <2>6. ASSUME NEW s \in Slots, ProcessSend(s)
        PROVE  TypeOK'
    <3>1. SentEntry(AfterTimeouts[s]) \in Entry
      BY <2>2, FreeSlotType, UpdatedEntryType DEF SentEntry
    <3>2. AfterTimeouts[s].command \in Change
      BY <2>2 DEF Entry
    <3>3. cmdQueue' \in Seq(Change) /\ Len(cmdQueue') <= CmdQueueSize
      BY <2>6, <3>2, AppendProperties, LimitAssumption DEF ProcessSend
    <3>4. sinceLastSend' \in 0 .. MQTT_COMMAND_GAP
      BY <2>6, LimitAssumption DEF ProcessSend
    <3> QED BY <2>1, <2>2, <2>3, <2>6, <3>1, <3>3, <3>4 DEF ProcessSend
  <2> QED BY <1>3, <2>4, <2>5, <2>6 DEF Process
<1>4. CASE Tick
  <2>1. ASSUME NEW e \in Entry
        PROVE  Aged(e) \in Entry
    <3>1. /\ e.sentAge \in 0 .. MQTT_COMMAND_CONFIRM_TIMEOUT
          /\ e.nextSendIn \in 0 .. MQTT_COMMAND_QUEUE_RETRY
      BY DEF Entry
    <3>2. (IF e.wasSent /\ e.sentAge < MQTT_COMMAND_CONFIRM_TIMEOUT
           THEN e.sentAge + 1 ELSE e.sentAge) \in 0 .. MQTT_COMMAND_CONFIRM_TIMEOUT
      BY <3>1, LimitAssumption
    <3>3. (IF e.nextSendIn > 0 THEN e.nextSendIn - 1 ELSE 0) \in 0 .. MQTT_COMMAND_QUEUE_RETRY
      BY <3>1, LimitAssumption
    <3> QED BY <3>2, <3>3, UpdatedEntryType DEF Aged
  <2>2. sinceLastSend' \in 0 .. MQTT_COMMAND_GAP
    BY <1>4, LimitAssumption DEF Tick
  <2> QED BY <1>4, <2>1, <2>2 DEF Tick, frameVars, envVars, history
<1>5. CASE GoStale
  BY <1>5 DEF GoStale, queueVars, envVars, history
<1>6. CASE Execute
  <2>1. Head(cmdQueue) \in Change /\ Tail(cmdQueue) \in Seq(Change)
        /\ Len(Tail(cmdQueue)) <= CmdQueueSize
    BY <1>6, HeadTailProperties, LimitAssumption DEF Execute
  <2>2. actual' \in [Field -> Value]
    BY <1>6, <2>1 DEF Execute, Change
  <2> QED BY <1>6, <2>1, <2>2 DEF Execute, queueVars, frameVars, envVars, history
<1>7. CASE Lose
  <2>1. Tail(cmdQueue) \in Seq(Change) /\ Len(Tail(cmdQueue)) <= CmdQueueSize
    BY <1>7, HeadTailProperties, LimitAssumption DEF Lose
  <2> QED BY <1>7, <2>1 DEF Lose, queueVars, frameVars, envVars, history
<1>8. CASE Answer
  BY <1>8 DEF Answer, queueVars, envVars, history
<1>9. ASSUME NEW n \in Name, NEW p \in Payload[n], ForeignCommand(n, p)
      PROVE  TypeOK'
  <2>1. Encoded(n, p) \in Change
    BY EncodedType
  <2>2. cmdQueue' \in Seq(Change) /\ Len(cmdQueue') <= CmdQueueSize
    BY <1>9, <2>1, AppendProperties, LimitAssumption DEF ForeignCommand
  <2>3. foreign' \in 0 .. MaxForeign
    BY <1>9, LimitAssumption DEF ForeignCommand
  <2> QED BY <1>9, <2>2, <2>3 DEF ForeignCommand, queueVars, frameVars, history
<1>10. ASSUME NEW f \in Field, NEW v \in Value, PanelChange(f, v)
       PROVE  TypeOK'
  <2>1. foreign' \in 0 .. MaxForeign
    BY <1>10, LimitAssumption DEF PanelChange
  <2> QED BY <1>10, <2>1 DEF PanelChange, queueVars, frameVars, history
<1>11. CASE UNCHANGED vars
  BY <1>11 DEF vars, queueVars, frameVars, envVars, history
<1> QED BY <1>1, <1>2, <1>3, <1>4, <1>5, <1>6, <1>7, <1>8, <1>9, <1>10, <1>11
        DEF Next, Environment

\* Every reachable state is well formed, whatever the limits and the data are.
THEOREM TypeCorrect == Spec => []TypeOK
  BY TypeOKInit, TypeOKStep, PTL DEF Spec

-----------------------------------------------------------------------------
(* What the steps of the queue do to one slot.                              *)

QueueParts ==
  /\ SequencesGivenOut /\ UnrefusedIsDue /\ PlainEntriesAsk
  /\ OnePendingPerCommand /\ NoStuckEntry /\ PacketIsWhatIsMissing
  /\ AttemptsAreCounted /\ DistinctSequences /\ ServedInOrder

\* The invariant reads the slots, the last number and the history only.
LEMMA QueueUntouched ==
  QueueParts /\ UNCHANGED <<pending, mqttCommandSequence, sends, refused>> => QueueParts'
  BY DEF QueueParts, SequencesGivenOut, UnrefusedIsDue, PlainEntriesAsk,
         OnePendingPerCommand, NoStuckEntry, PacketIsWhatIsMissing, AttemptsAreCounted,
         DistinctSequences, ServedInOrder

\* An entry that is queued again asks for the same and waits under a new number.
LEMMA RequeuedFields ==
  ASSUME TypeOK, NEW s \in Slots
  PROVE  /\ Requeued(s).active = pending[s].active
         /\ Requeued(s).name = pending[s].name
         /\ Requeued(s).desired = pending[s].desired
         /\ Requeued(s).command = pending[s].command
         /\ Requeued(s).confirmed = pending[s].confirmed
         /\ Requeued(s).wasSent = pending[s].wasSent
         /\ Requeued(s).retries = pending[s].retries + 1
         /\ Requeued(s).waitingToSend = TRUE
         /\ Requeued(s).nextSendIn = 0
         /\ Requeued(s).sequence = RetrySequence(s)
<1>1. pending[s] \in Entry
  BY DEF TypeOK
<1> QED BY <1>1 DEF Requeued, Entry

\* The timeouts change no request, only its phase.
LEMMA AfterTimeoutsSlot ==
  ASSUME TypeOK, NEW s \in Slots, AfterTimeouts[s].active
  PROVE  /\ pending[s].active
         /\ AfterTimeouts[s].name = pending[s].name
         /\ AfterTimeouts[s].desired = pending[s].desired
         /\ AfterTimeouts[s].command = pending[s].command
         /\ AfterTimeouts[s].confirmed = pending[s].confirmed
         /\ AfterTimeouts[s].sequence = DueSequence(s)
         /\ s \notin Retried => AfterTimeouts[s] = pending[s]
         /\ s \in Retried =>
              /\ AfterTimeouts[s].retries = pending[s].retries + 1
              /\ AfterTimeouts[s].waitingToSend = TRUE
              /\ AfterTimeouts[s].nextSendIn = 0
  BY RequeuedFields, FreeSlotType DEF AfterTimeouts, DueSequence

\* One pass of the main loop, seen from a slot that stays occupied: nothing
\* happens to it, or it expires, or it is the one that is refused, or sent.
LEMMA ProcessSlot ==
  ASSUME TypeOK, Process, NEW s \in Slots, pending'[s].active
  PROVE  /\ pending[s].active
         /\ pending'[s].name = pending[s].name
         /\ pending'[s].desired = pending[s].desired
         /\ pending'[s].command = pending[s].command
         /\ pending'[s].confirmed = pending[s].confirmed
         /\ pending'[s].sequence = DueSequence(s)
         /\ pending'[s].retries = pending[s].retries + (IF s \in Retried THEN 1 ELSE 0)
         /\ \/ /\ s \notin Retried
               /\ pending'[s].waitingToSend = pending[s].waitingToSend
               /\ pending'[s].wasSent = pending[s].wasSent
               /\ pending'[s].nextSendIn = pending[s].nextSendIn
               /\ refused'[s] = refused[s] /\ sends'[s] = sends[s]
            \/ /\ s \in Retried
               /\ pending'[s].waitingToSend /\ pending'[s].nextSendIn = 0
               /\ ~refused'[s] /\ sends'[s] = sends[s]
            \/ /\ NextToSend(s)
               /\ pending'[s].waitingToSend /\ refused'[s] /\ sends'[s] = sends[s]
            \/ /\ NextToSend(s)
               /\ ~pending'[s].waitingToSend /\ pending'[s].wasSent
               /\ Expectations(pending'[s]) # {} /\ sends'[s] = sends[s] + 1
<1> DEFINE a == AfterTimeouts
<1>1. a \in [Slots -> Entry]
  BY AfterTimeoutsType
<1>2. pending[s] \in Entry /\ sends[s] \in Nat
  BY DEF TypeOK
<1>3. ASSUME a[s].active
      PROVE  /\ pending[s].active
             /\ a[s].name = pending[s].name /\ a[s].desired = pending[s].desired
             /\ a[s].command = pending[s].command /\ a[s].confirmed = pending[s].confirmed
             /\ a[s].sequence = DueSequence(s)
             /\ a[s].retries = pending[s].retries + (IF s \in Retried THEN 1 ELSE 0)
             /\ \/ /\ s \notin Retried
                   /\ a[s].waitingToSend = pending[s].waitingToSend
                   /\ a[s].wasSent = pending[s].wasSent
                   /\ a[s].nextSendIn = pending[s].nextSendIn
                   /\ RefusedAfterTimeouts[s] = refused[s]
                \/ /\ s \in Retried
                   /\ a[s].waitingToSend /\ a[s].nextSendIn = 0
                   /\ ~RefusedAfterTimeouts[s]
  <2>1. RefusedAfterTimeouts[s] = (refused[s] /\ s \notin Retried)
    BY DEF RefusedAfterTimeouts
  <2>2. refused[s] \in BOOLEAN
    BY DEF TypeOK
  <2>3. pending[s].retries \in Nat
    BY <1>2, LimitAssumption DEF Entry
  <2>4. pending[s].retries + 0 = pending[s].retries
    BY <2>3
  <2>5. CASE s \in Retried
    BY <1>3, <2>1, <2>5, AfterTimeoutsSlot
  <2>6. CASE s \notin Retried
    <3>1. a[s] = pending[s] /\ pending[s].active /\ a[s].sequence = DueSequence(s)
      BY <1>3, <2>6, AfterTimeoutsSlot
    <3>2. RefusedAfterTimeouts[s] = refused[s]
      BY <2>1, <2>2, <2>6
    <3> QED BY <3>1, <3>2, <2>4, <2>6
  <2> QED BY <2>5, <2>6
<1> HIDE DEF a
<1>4. CASE ProcessOnlyTimeouts
  <2>1. pending' = a /\ refused' = RefusedAfterTimeouts /\ sends' = sends
    BY <1>4 DEF ProcessOnlyTimeouts, a
  <2> QED BY <2>1, <1>3
<1>5. ASSUME NEW t \in Slots, ProcessRefused(t), t # s
      PROVE  pending'[s] = a[s] /\ refused'[s] = RefusedAfterTimeouts[s] /\ sends'[s] = sends[s]
  <2>1. /\ pending' = [a EXCEPT ![t] = [a[t] EXCEPT !.nextSendIn = MQTT_COMMAND_QUEUE_RETRY]]
        /\ sends' = sends
    BY <1>1, <1>5 DEF ProcessRefused, a
  <2>2. refused' = [RefusedAfterTimeouts EXCEPT ![t] = TRUE]
    BY <1>5 DEF ProcessRefused
  <2>3. refused'[s] = RefusedAfterTimeouts[s]
    BY <1>5, <2>2 DEF RefusedAfterTimeouts
  <2>4. pending'[s] = a[s]
    BY <1>1, <1>5, <2>1
  <2> QED BY <2>1, <2>3, <2>4
<1>6. ASSUME NEW t \in Slots, ProcessSend(t), t # s
      PROVE  pending'[s] = a[s] /\ refused'[s] = RefusedAfterTimeouts[s] /\ sends'[s] = sends[s]
  <2>1. sends' = [sends EXCEPT ![t] = sends[t] + 1] /\ sends \in [Slots -> Nat]
    BY <1>6 DEF ProcessSend, TypeOK
  <2>2. pending' = [AfterTimeouts EXCEPT ![t] = SentEntry(AfterTimeouts[t])]
        /\ refused' = RefusedAfterTimeouts
    BY <1>6 DEF ProcessSend
  <2>3. pending'[s] = a[s]
    BY <1>1, <1>6, <2>2 DEF a
  <2>4. sends'[s] = sends[s]
    BY <1>6, <2>1
  <2> QED BY <2>2, <2>3, <2>4
<1>7. CASE ProcessRefused(s)
  <2>1. /\ pending'[s] = [a[s] EXCEPT !.nextSendIn = MQTT_COMMAND_QUEUE_RETRY]
        /\ sends' = sends /\ NextToSend(s)
    BY <1>1, <1>7 DEF ProcessRefused, a
  <2>2. refused'[s] = TRUE
    BY <1>7 DEF ProcessRefused, RefusedAfterTimeouts
  <2>3. /\ pending'[s].active = a[s].active
        /\ pending'[s].name = a[s].name /\ pending'[s].desired = a[s].desired
        /\ pending'[s].command = a[s].command /\ pending'[s].confirmed = a[s].confirmed
        /\ pending'[s].sequence = a[s].sequence /\ pending'[s].retries = a[s].retries
        /\ pending'[s].waitingToSend = a[s].waitingToSend
    BY <1>1, <2>1 DEF Entry
  <2>4. Due(s)
    BY <2>1 DEF NextToSend
  <2>5. a[s].waitingToSend
    BY <1>3, <2>3, <2>4 DEF Due
  <2> QED BY <1>3, <2>1, <2>2, <2>3, <2>5
<1>8. CASE ProcessSend(s)
  <2>1. pending'[s] = SentEntry(a[s]) /\ NextToSend(s)
    BY <1>1, <1>8 DEF ProcessSend, a
  <2>2. sends'[s] = sends[s] + 1
    BY <1>8 DEF ProcessSend, TypeOK
  <2>3. Expectations(a[s]) # {} /\
        pending'[s] = [a[s] EXCEPT !.waitingToSend = FALSE, !.wasSent = TRUE, !.sentAge = 0]
    BY <2>1, FreeSlotType DEF SentEntry
  <2>4. /\ pending'[s].active = a[s].active
        /\ pending'[s].name = a[s].name /\ pending'[s].desired = a[s].desired
        /\ pending'[s].command = a[s].command /\ pending'[s].confirmed = a[s].confirmed
        /\ pending'[s].sequence = a[s].sequence /\ pending'[s].retries = a[s].retries
        /\ pending'[s].waitingToSend = FALSE /\ pending'[s].wasSent = TRUE
    <3>1. a[s] \in Entry
      BY <1>1
    <3> DEFINE x == [a[s] EXCEPT !.waitingToSend = FALSE, !.wasSent = TRUE, !.sentAge = 0]
    <3>2. /\ x.active = a[s].active
          /\ x.name = a[s].name /\ x.desired = a[s].desired
          /\ x.command = a[s].command /\ x.confirmed = a[s].confirmed
          /\ x.sequence = a[s].sequence /\ x.retries = a[s].retries
          /\ x.waitingToSend = FALSE /\ x.wasSent = TRUE
      BY <3>1, SentEntryFields
    <3>3. pending'[s] = x
      BY <2>3
    <3> HIDE DEF x
    <3> QED BY <3>2, <3>3
  <2>5. Expectations(pending'[s]) # {}
    BY <2>3, <2>4 DEF Expectations
  <2> QED BY <1>3, <2>1, <2>2, <2>4, <2>5
<1> QED BY <1>3, <1>4, <1>5, <1>6, <1>7, <1>8 DEF Process

\* A frame confirms, and frees the slots with nothing left to confirm.
LEMMA AfterFrameSlot ==
  ASSUME NEW e \in Entry, NEW d, AfterFrame(e, d).active
  PROVE  LET a == AfterFrame(e, d)
         IN /\ e.active
            /\ a.name = e.name /\ a.desired = e.desired
            /\ a.waitingToSend = e.waitingToSend /\ a.wasSent = e.wasSent
            /\ a.retries = e.retries /\ a.sequence = e.sequence
            /\ a.nextSendIn = e.nextSendIn
            /\ Expectations(a) = Expectations(e)
            /\ Expectations(e) # {} => Unconfirmed(a) # {} /\ a = ApplyKnownState(e, d)
            /\ Expectations(e) = {} => a = e
<1> DEFINE k == ApplyKnownState(e, d)
<1>1. /\ k.active = e.active /\ k.name = e.name /\ k.desired = e.desired
      /\ k.waitingToSend = e.waitingToSend /\ k.wasSent = e.wasSent
      /\ k.retries = e.retries /\ k.sequence = e.sequence
      /\ k.nextSendIn = e.nextSendIn
      /\ Expectations(k) = Expectations(e)
  BY ApplyKnownStateType
<1> HIDE DEF k
<1>2. CASE ~e.active
  BY <1>2 DEF AfterFrame
<1>3. CASE e.active /\ Expectations(e) = {}
  BY <1>3 DEF AfterFrame
<1>4. CASE e.active /\ Expectations(e) # {}
  <2>1. AfterFrame(e, d) = k /\ Unconfirmed(k) # {}
    BY <1>4, FreeSlotType DEF AfterFrame, k
  <2> QED BY <1>1, <1>4, <2>1 DEF k
<1> QED BY <1>2, <1>3, <1>4

\* The passage of time touches the two timers of an entry only.
LEMMA AgedFields ==
  ASSUME NEW e \in Entry
  PROVE  /\ Aged(e).active = e.active /\ Aged(e).name = e.name
         /\ Aged(e).desired = e.desired /\ Aged(e).command = e.command
         /\ Aged(e).confirmed = e.confirmed
         /\ Aged(e).waitingToSend = e.waitingToSend /\ Aged(e).wasSent = e.wasSent
         /\ Aged(e).retries = e.retries /\ Aged(e).sequence = e.sequence
         /\ e.nextSendIn = 0 => Aged(e).nextSendIn = 0
  BY DEF Aged, Entry

-----------------------------------------------------------------------------
(* The inductive invariant.                                                *)

\* At boot no slot is occupied.
LEMMA QueuePartsInit == Init => QueueParts
  BY FreeSlotType
     DEF Init, QueueParts, SequencesGivenOut, UnrefusedIsDue, PlainEntriesAsk,
         OnePendingPerCommand, NoStuckEntry, PacketIsWhatIsMissing, AttemptsAreCounted,
         DistinctSequences, ServedInOrder

\* A new entry takes a slot no other entry of its command is in.
LEMMA InsertStep ==
  ASSUME TypeOK, QueueParts,
         NEW n \in Name, NEW p \in Payload[n], NEW s \in Slots,
         Insert(n, p, s), ~AlreadyReported(Known(n, p)),
         \A t \in Slots \ {s} : ~Holds(t, n)
  PROVE  QueueParts'
<1> DEFINE new == pending'[s]
<1>1. /\ mqttCommandSequence' = mqttCommandSequence + 1 /\ mqttCommandSequence \in Nat
      /\ sends'[s] = 0 /\ ~refused'[s]
      /\ new = [Known(n, p) EXCEPT !.sequence = mqttCommandSequence + 1]
  BY DEF Insert, TypeOK
<1>2. \A t \in Slots \ {s} :
        pending'[t] = pending[t] /\ sends'[t] = sends[t] /\ refused'[t] = refused[t]
  BY DEF Insert, TypeOK
<1>3. Known(n, p) \in Entry
  BY KnownType
<1>4. /\ new.active = Known(n, p).active /\ new.name = Known(n, p).name
      /\ new.desired = Known(n, p).desired /\ new.command = Known(n, p).command
      /\ new.confirmed = Known(n, p).confirmed
      /\ new.waitingToSend = Known(n, p).waitingToSend
      /\ new.retries = Known(n, p).retries /\ new.nextSendIn = Known(n, p).nextSendIn
      /\ new.sequence = mqttCommandSequence + 1
  BY <1>1, <1>3 DEF Entry
<1>5. /\ new.active /\ new.name = n /\ new.waitingToSend /\ new.retries = 0
      /\ new.nextSendIn = 0 /\ Asks(new.desired) = Asks(p)
  BY <1>4, KnownType
<1>6. Expectations(new) # {} =>
        Unconfirmed(new) # {} /\ Asks(new.command) = Unconfirmed(new)
  <2>1. Expectations(new) = Expectations(Known(n, p))
        /\ Unconfirmed(new) = Unconfirmed(Known(n, p))
    BY <1>4 DEF Expectations, Unconfirmed
  <2> QED BY <1>4, <2>1, KnownType
<1> HIDE DEF new
<1>20. \A t \in Slots : pending[t].sequence \in Int
  BY DEF TypeOK, Entry
<1>21. \A t \in Slots \ {s} :
         pending[t].active => /\ pending[t].sequence < mqttCommandSequence + 1
                              /\ pending[t].sequence <= mqttCommandSequence + 1
  BY <1>1, <1>20 DEF QueueParts, SequencesGivenOut
<1>7. SequencesGivenOut'
  <2>1. mqttCommandSequence + 1 <= mqttCommandSequence + 1
    BY <1>1
  <2> QED BY <1>1, <1>2, <1>4, <1>21, <2>1 DEF SequencesGivenOut, new
<1>8. UnrefusedIsDue'
  BY <1>2, <1>5 DEF QueueParts, UnrefusedIsDue, new
<1>9. PlainEntriesAsk'
  BY <1>2, <1>5, PayloadOfPlainCommand DEF QueueParts, PlainEntriesAsk, new
<1>10. OnePendingPerCommand'
  BY <1>2, <1>5 DEF QueueParts, OnePendingPerCommand, Holds, new
<1>11. NoStuckEntry'
  BY <1>2, <1>5 DEF QueueParts, NoStuckEntry, new
<1>12. PacketIsWhatIsMissing'
  BY <1>2, <1>6 DEF QueueParts, PacketIsWhatIsMissing, new
<1>13. AttemptsAreCounted'
  <2>1. /\ sends'[s] = new.retries + (IF new.waitingToSend THEN 0 ELSE 1)
        /\ sends'[s] <= MQTT_COMMAND_MAX_RETRIES + 1
    BY <1>1, <1>5, LimitAssumption
  <2>2. \A t \in Slots \ {s} : pending'[t].active =>
          /\ sends'[t] = pending'[t].retries + (IF pending'[t].waitingToSend THEN 0 ELSE 1)
          /\ sends'[t] <= MQTT_COMMAND_MAX_RETRIES + 1
    BY <1>2 DEF QueueParts, AttemptsAreCounted
  <2> QED BY <2>1, <2>2 DEF AttemptsAreCounted, new
<1>14. DistinctSequences'
  <2>1. \A t \in Slots \ {s} : pending'[t].active => pending'[t].sequence # new.sequence
    BY <1>1, <1>2, <1>4, <1>20, <1>21
  <2> QED BY <1>2, <2>1 DEF QueueParts, DistinctSequences, new
<1>15. ServedInOrder'
  BY <1>2, <1>4, <1>5, <1>21 DEF QueueParts, ServedInOrder, new
<1> QED BY <1>7, <1>8, <1>9, <1>10, <1>11, <1>12, <1>13, <1>14, <1>15 DEF QueueParts

\* confirm_mqtt_heatpump_commands preserves the invariant.
LEMMA ReadFrameStep == TypeOK /\ QueueParts /\ ReadFrame => QueueParts'
<1> SUFFICES ASSUME TypeOK, QueueParts, ReadFrame
             PROVE  QueueParts'
  OBVIOUS
<1>1. /\ UNCHANGED <<mqttCommandSequence, sends, refused>>
      /\ \A s \in Slots : pending[s] \in Entry
      /\ \A s \in Slots : pending'[s] = AfterFrame(pending[s], answer)
  BY DEF ReadFrame, history, TypeOK
<1>2. ASSUME NEW s \in Slots, pending'[s].active
      PROVE  /\ pending[s].active
             /\ pending'[s].name = pending[s].name
             /\ pending'[s].desired = pending[s].desired
             /\ pending'[s].waitingToSend = pending[s].waitingToSend
             /\ pending'[s].wasSent = pending[s].wasSent
             /\ pending'[s].retries = pending[s].retries
             /\ pending'[s].sequence = pending[s].sequence
             /\ pending'[s].nextSendIn = pending[s].nextSendIn
             /\ Expectations(pending'[s]) = Expectations(pending[s])
             /\ Expectations(pending[s]) # {} =>
                  /\ Unconfirmed(pending'[s]) # {}
                  /\ pending'[s] = ApplyKnownState(pending[s], answer)
             /\ Expectations(pending[s]) = {} => pending'[s] = pending[s]
  BY <1>1, <1>2, AfterFrameSlot
<1>3. SequencesGivenOut' /\ UnrefusedIsDue' /\ PlainEntriesAsk' /\ OnePendingPerCommand'
  BY <1>1, <1>2 DEF QueueParts, SequencesGivenOut, UnrefusedIsDue, PlainEntriesAsk,
                    OnePendingPerCommand
<1>4. NoStuckEntry'
  <2> SUFFICES ASSUME NEW s \in Slots, pending'[s].active, ~pending'[s].waitingToSend
               PROVE  pending'[s].wasSent /\ Unconfirmed(pending'[s]) # {}
    BY DEF NoStuckEntry
  <2>1. pending[s].wasSent /\ Unconfirmed(pending[s]) # {}
    BY <1>2 DEF QueueParts, NoStuckEntry
  <2>2. Expectations(pending[s]) # {}
    BY <2>1 DEF Unconfirmed
  <2> QED BY <1>2, <2>1, <2>2
<1>5. PacketIsWhatIsMissing'
  <2> SUFFICES ASSUME NEW s \in Slots, pending'[s].active, Expectations(pending'[s]) # {}
               PROVE  /\ Unconfirmed(pending'[s]) # {}
                      /\ Asks(pending'[s].command) = Unconfirmed(pending'[s])
    BY DEF PacketIsWhatIsMissing
  <2>1. /\ pending[s].active /\ Expectations(pending[s]) # {}
        /\ Unconfirmed(pending'[s]) # {}
        /\ pending'[s] = ApplyKnownState(pending[s], answer)
    BY <1>2
  <2>2. Asks(pending[s].command) = Unconfirmed(pending[s])
    BY <2>1 DEF QueueParts, PacketIsWhatIsMissing
  <2>3. pending[s].name = SetCurves \/ \E f \in Field : Expectations(pending[s]) = {f}
    <3>1. pending[s].name \in Reported
          /\ Expectations(pending[s]) = Asks(pending[s].desired)
      BY <2>1 DEF Expectations
    <3> QED BY <2>1, <3>1, DataAssumption DEF QueueParts, PlainEntriesAsk
  <2> QED BY <1>1, <2>1, <2>2, <2>3, ApplyKnownStatePacket
<1>6. AttemptsAreCounted' /\ DistinctSequences' /\ ServedInOrder'
  BY <1>1, <1>2 DEF QueueParts, AttemptsAreCounted, DistinctSequences, ServedInOrder
<1> QED BY <1>3, <1>4, <1>5, <1>6 DEF QueueParts

\* The passage of time preserves the invariant.
LEMMA TickStep == TypeOK /\ QueueParts /\ Tick => QueueParts'
<1> SUFFICES ASSUME TypeOK, QueueParts, Tick
             PROVE  QueueParts'
  OBVIOUS
<1>1. /\ UNCHANGED <<mqttCommandSequence, sends, refused>>
      /\ \A s \in Slots : pending[s] \in Entry /\ pending'[s] = Aged(pending[s])
  BY DEF Tick, history, TypeOK
<1>2. ASSUME NEW s \in Slots
      PROVE  /\ pending'[s].active = pending[s].active
             /\ pending'[s].name = pending[s].name
             /\ pending'[s].desired = pending[s].desired
             /\ pending'[s].command = pending[s].command
             /\ pending'[s].waitingToSend = pending[s].waitingToSend
             /\ pending'[s].wasSent = pending[s].wasSent
             /\ pending'[s].retries = pending[s].retries
             /\ pending'[s].sequence = pending[s].sequence
             /\ pending[s].nextSendIn = 0 => pending'[s].nextSendIn = 0
             /\ Expectations(pending'[s]) = Expectations(pending[s])
             /\ Unconfirmed(pending'[s]) = Unconfirmed(pending[s])
  BY <1>1, AgedFields DEF Expectations, Unconfirmed
<1> QED BY <1>1, <1>2
        DEF QueueParts, SequencesGivenOut, UnrefusedIsDue, PlainEntriesAsk,
            OnePendingPerCommand, NoStuckEntry, PacketIsWhatIsMissing, AttemptsAreCounted,
            DistinctSequences, ServedInOrder

\* process_mqtt_heatpump_commands preserves the invariant.
LEMMA ProcessStep == TypeOK /\ QueueParts /\ Process => QueueParts'
<1> SUFFICES ASSUME TypeOK, QueueParts, Process
             PROVE  QueueParts'
  OBVIOUS
<1>1. /\ mqttCommandSequence \in Nat /\ Cardinality(Retried) \in Nat
      /\ mqttCommandSequence' = mqttCommandSequence + Cardinality(Retried)
  BY RetryNumbers DEF TypeOK, Process, ProcessOnlyTimeouts, ProcessRefused, ProcessSend,
                      Timeouts
<1>2. \A s \in Slots : pending[s].sequence \in Nat /\ pending[s].retries \in Nat
                      /\ sends[s] \in Nat
  BY LimitAssumption DEF TypeOK, Entry
<1>3. ASSUME NEW s \in Slots, pending'[s].active
      PROVE  /\ Expectations(pending'[s]) = Expectations(pending[s])
             /\ Unconfirmed(pending'[s]) = Unconfirmed(pending[s])
  BY <1>3, ProcessSlot DEF Expectations, Unconfirmed
<1>4. \A s \in Slots \ Retried : DueSequence(s) = pending[s].sequence
  BY DEF DueSequence
<1>5. \A s \in Retried : /\ DueSequence(s) = RetrySequence(s)
                        /\ s \in Slots /\ pending[s].active /\ pending[s].wasSent
                        /\ ~pending[s].waitingToSend
                        /\ pending[s].retries < MQTT_COMMAND_MAX_RETRIES
  BY DEF DueSequence, Retried, Expired
<1>6. ASSUME NEW s \in Slots, pending[s].active
      PROVE  /\ DueSequence(s) \in Nat
             /\ DueSequence(s) <= mqttCommandSequence'
             /\ s \notin Retried => DueSequence(s) <= mqttCommandSequence
             /\ s \in Retried => DueSequence(s) > mqttCommandSequence
  BY <1>1, <1>2, <1>4, <1>5, <1>6, RetryNumbers DEF QueueParts, SequencesGivenOut
<1>7. ASSUME NEW s \in Slots, NEW t \in Slots, s # t, pending[s].active, pending[t].active
      PROVE  DueSequence(s) # DueSequence(t)
  <2>1. CASE s \in Retried /\ t \in Retried
    <3>1. s < t \/ t < s
      BY <1>7, LimitAssumption DEF Slots
    <3>2. DueSequence(s) \in Nat /\ DueSequence(t) \in Nat
      BY <1>6, <1>7
    <3> QED BY <2>1, <3>1, <3>2, <1>1, <1>5, RetryNumbers
  <2>2. CASE s \notin Retried /\ t \notin Retried
    BY <1>4, <1>7, <2>2 DEF QueueParts, DistinctSequences
  <2>3. CASE (s \in Retried) # (t \in Retried)
    BY <1>1, <1>6, <1>7, <2>3
  <2> QED BY <2>1, <2>2, <2>3
<1>8. SequencesGivenOut'
  BY <1>6, ProcessSlot DEF SequencesGivenOut
<1>9. UnrefusedIsDue'
  BY ProcessSlot DEF QueueParts, UnrefusedIsDue
<1>10. PlainEntriesAsk' /\ OnePendingPerCommand'
  BY ProcessSlot DEF QueueParts, PlainEntriesAsk, OnePendingPerCommand
<1>11. PacketIsWhatIsMissing'
  BY <1>3, ProcessSlot DEF QueueParts, PacketIsWhatIsMissing
<1>12. NoStuckEntry'
  <2> SUFFICES ASSUME NEW s \in Slots, pending'[s].active, ~pending'[s].waitingToSend
               PROVE  pending'[s].wasSent /\ Unconfirmed(pending'[s]) # {}
    BY DEF NoStuckEntry
  <2>1. CASE Expectations(pending'[s]) # {} /\ pending'[s].wasSent
    BY <1>11, <2>1 DEF PacketIsWhatIsMissing
  <2>2. CASE pending'[s].waitingToSend = pending[s].waitingToSend
             /\ pending'[s].wasSent = pending[s].wasSent
    BY <1>3, <2>2, ProcessSlot DEF QueueParts, NoStuckEntry
  <2> QED BY <2>1, <2>2, ProcessSlot
<1>13. AttemptsAreCounted'
  <2> SUFFICES ASSUME NEW s \in Slots, pending'[s].active
               PROVE  /\ sends'[s] = pending'[s].retries
                                      + (IF pending'[s].waitingToSend THEN 0 ELSE 1)
                      /\ sends'[s] <= MQTT_COMMAND_MAX_RETRIES + 1
    BY DEF AttemptsAreCounted
  <2>1. pending[s].active
        /\ sends[s] = pending[s].retries + (IF pending[s].waitingToSend THEN 0 ELSE 1)
    BY ProcessSlot DEF QueueParts, AttemptsAreCounted
  <2>2. pending'[s].retries = pending[s].retries + (IF s \in Retried THEN 1 ELSE 0)
    BY ProcessSlot
  <2>3. pending'[s].retries <= MQTT_COMMAND_MAX_RETRIES /\ pending'[s].retries \in Nat
    <3>1. pending'[s] \in Entry
      BY TypeOKStep DEF TypeOK, Next
    <3> QED BY <3>1, LimitAssumption DEF Entry
  <2>4. sends'[s] = pending'[s].retries + (IF pending'[s].waitingToSend THEN 0 ELSE 1)
    <3>1. CASE s \in Retried
      <4>1. ~pending[s].waitingToSend
        BY <1>5, <3>1
      <4> QED BY <1>2, <2>1, <2>2, <3>1, <4>1, ProcessSlot
    <3>2. CASE s \notin Retried
      <4>1. NextToSend(s) => pending[s].waitingToSend
        BY <3>2 DEF NextToSend, Due
      <4> QED BY <1>2, <2>1, <2>2, <3>2, <4>1, ProcessSlot
    <3> QED BY <3>1, <3>2
  <2> QED BY <2>3, <2>4, LimitAssumption
<1>14. DistinctSequences'
  BY <1>7, ProcessSlot DEF DistinctSequences
<1>15. ServedInOrder'
  <2> SUFFICES ASSUME NEW s \in Slots, NEW t \in Slots,
                      pending'[s].active, pending'[s].waitingToSend, ~refused'[s],
                      pending'[t].active, ~pending'[t].waitingToSend
               PROVE  pending'[t].sequence < pending'[s].sequence
    BY DEF ServedInOrder
  <2>1. /\ pending[s].active /\ pending'[s].sequence = DueSequence(s)
        /\ pending[t].active /\ pending'[t].sequence = DueSequence(t)
        /\ DueSequence(s) \in Nat /\ DueSequence(t) \in Nat
        /\ s # t /\ DueSequence(s) # DueSequence(t)
    BY <1>6, <1>7, ProcessSlot
  \* s is queued since before, or again.
  <2>2. \/ s \in Retried
        \/ pending[s].waitingToSend /\ ~refused[s] /\ s \notin Retried
    BY ProcessSlot
  <2>3. Due(s)
    BY <2>1, <2>2 DEF Due, QueueParts, UnrefusedIsDue
  \* t is sent now, or was before.
  <2>4. NextToSend(t) \/ (t \notin Retried /\ ~pending[t].waitingToSend)
    BY ProcessSlot
  <2>5. CASE NextToSend(t)
    BY <2>1, <2>3, <2>5 DEF NextToSend
  <2>6. CASE t \notin Retried /\ ~pending[t].waitingToSend
    <3>1. CASE s \in Retried
      BY <1>1, <1>6, <2>1, <2>6, <3>1
    <3>2. CASE s \notin Retried
      BY <1>4, <2>1, <2>2, <2>6, <3>2 DEF QueueParts, ServedInOrder
    <3> QED BY <3>1, <3>2
  <2> QED BY <2>1, <2>4, <2>5, <2>6
<1> QED BY <1>8, <1>9, <1>10, <1>11, <1>12, <1>13, <1>14, <1>15 DEF QueueParts

\* So does every step of the system.
LEMMA QueuePartsStep == TypeOK /\ QueueParts /\ [Next]_vars => QueueParts'
<1> SUFFICES ASSUME TypeOK, QueueParts, [Next]_vars
             PROVE  QueueParts'
  OBVIOUS
<1>1. ASSUME NEW n \in Name, NEW p \in Payload[n], QueueMqttHeatpumpCommand(n, p)
      PROVE  QueueParts'
  <2>1. CASE QueueSkip(n, p) \/ QueueIgnore(n, p) \/ QueueReject(n, p)
    BY <2>1, QueueUntouched DEF QueueSkip, QueueIgnore, QueueReject, history
  <2>2. ASSUME NEW s \in Slots, QueueReplace(n, p, s)
        PROVE  QueueParts'
    <3>1. \A t \in Slots \ {s} : ~Holds(t, n)
      BY <2>2 DEF QueueReplace, Holds, QueueParts, OnePendingPerCommand
    <3> QED BY <2>2, <3>1, InsertStep DEF QueueReplace
  <2>3. ASSUME NEW s \in Slots, QueueInsert(n, p, s)
        PROVE  QueueParts'
    BY <2>3, InsertStep DEF QueueInsert
  <2> QED BY <1>1, <2>1, <2>2, <2>3 DEF QueueMqttHeatpumpCommand
<1>2. CASE ReadFrame
  BY <1>2, ReadFrameStep
<1>3. CASE Process
  BY <1>3, ProcessStep
<1>4. CASE Tick
  BY <1>4, TickStep
<1>5. CASE GoStale \/ Environment \/ UNCHANGED vars
  <2>1. UNCHANGED <<pending, mqttCommandSequence, sends, refused>>
    BY <1>5 DEF GoStale, Environment, Execute, Lose, Answer, ForeignCommand, PanelChange,
                vars, queueVars, history
  <2> QED BY <2>1, QueueUntouched
<1> QED BY <1>1, <1>2, <1>3, <1>4, <1>5 DEF Next

-----------------------------------------------------------------------------
(* The theorems.                                                           *)

\* The invariant of the queue holds for any number of slots, commands, retries and
\* any lengths of the gap, the timeout and the back-off.
THEOREM QueueInvariantHolds == Spec => []QueueInvariant
<1>1. Init => TypeOK /\ QueueParts
  BY TypeOKInit, QueuePartsInit
<1>2. TypeOK /\ QueueParts /\ [Next]_vars => (TypeOK /\ QueueParts)'
  BY TypeOKStep, QueuePartsStep
<1>3. TypeOK /\ QueueParts => QueueInvariant
  BY DEF QueueInvariant, QueueParts
<1> QED BY <1>1, <1>2, <1>3, PTL DEF Spec

\* A newer request always finds the older one of its command: never two slots for
\* one command.
THEOREM OnePendingPerCommandHolds == Spec => []OnePendingPerCommand
<1>1. QueueInvariant => OnePendingPerCommand
  BY DEF QueueInvariant
<1> QED BY <1>1, QueueInvariantHolds, PTL

\* No slot is occupied for ever by an entry that nothing can send or free.
THEOREM NoStuckEntryHolds == Spec => []NoStuckEntry
<1>1. QueueInvariant => NoStuckEntry
  BY DEF QueueInvariant
<1> QED BY <1>1, QueueInvariantHolds, PTL

\* A retry contains exactly the values Panasonic has not yet confirmed.
THEOREM PacketIsWhatIsMissingHolds == Spec => []PacketIsWhatIsMissing
<1>1. QueueInvariant => PacketIsWhatIsMissing
  BY DEF QueueInvariant
<1> QED BY <1>1, QueueInvariantHolds, PTL

\* A request is sent at most once plus the number of retries.
THEOREM AttemptsAreCountedHold == Spec => []AttemptsAreCounted
<1>1. QueueInvariant => AttemptsAreCounted
  BY DEF QueueInvariant
<1> QED BY <1>1, QueueInvariantHolds, PTL

\* Requests that were never refused are sent in the order of their numbers, and
\* the numbers are distinct.
THEOREM ServedInOrderHolds == Spec => [](ServedInOrder /\ DistinctSequences)
<1>1. QueueInvariant => ServedInOrder /\ DistinctSequences
  BY DEF QueueInvariant
<1> QED BY <1>1, QueueInvariantHolds, PTL

=============================================================================
