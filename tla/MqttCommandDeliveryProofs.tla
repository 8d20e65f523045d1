---------------------- MODULE MqttCommandDeliveryProofs ----------------------
(***************************************************************************)
(* The confirmation queue implements CommandDelivery for every number of    *)
(* slots and every set of commands and limits: each step is one of the      *)
(* abstract steps, or none.                                                 *)
(***************************************************************************)
EXTENDS MqttCommandDelivery, MqttCommandQueueProofs

-----------------------------------------------------------------------------
(* What a client sees of a slot.                                            *)

\* The slot that holds a request for n is the state of n ...
SlotsAreSeen ==
  OnePendingPerCommand =>
    \A n \in Name, s \in Slots : Holds(s, n) =>
      /\ DemandOf(n) = pending[s].desired
      /\ PhaseOf(n) = IF pending[s].waitingToSend THEN "queued" ELSE "delivered"
      /\ AttemptsOf(n) = IF pending[s].waitingToSend THEN pending[s].retries
                         ELSE pending[s].retries + 1
      /\ AgeOf(n) = IF pending[s].waitingToSend THEN 0 ELSE pending[s].sentAge

\* ... and a command without a slot is idle.
OthersAreIdle ==
  \A n \in Name : (\A s \in Slots : ~Holds(s, n)) =>
    DemandOf(n) = None /\ PhaseOf(n) = "idle" /\ AttemptsOf(n) = 0 /\ AgeOf(n) = 0

\* The refinement mapping shows exactly that.
LEMMA SlotsAreWhatIsSeen == SlotsAreSeen /\ OthersAreIdle
<1>1. SlotsAreSeen
  <2> SUFFICES ASSUME OnePendingPerCommand, NEW n \in Name, NEW s \in Slots, Holds(s, n)
               PROVE  /\ DemandOf(n) = pending[s].desired
                      /\ PhaseOf(n) = IF pending[s].waitingToSend THEN "queued" ELSE "delivered"
                      /\ AttemptsOf(n) = IF pending[s].waitingToSend THEN pending[s].retries
                                         ELSE pending[s].retries + 1
                      /\ AgeOf(n) = IF pending[s].waitingToSend THEN 0
                                    ELSE pending[s].sentAge
    BY DEF SlotsAreSeen
  <2>1. \A t \in Slots : Holds(t, n) => t = s
    BY DEF OnePendingPerCommand, Holds
  <2>2. HasRequest(n) /\ EntryOf(n) = pending[s]
    BY <2>1 DEF HasRequest, EntryOf
  <2>3. PhaseOf(n) = IF pending[s].waitingToSend THEN "queued" ELSE "delivered"
    BY <2>2 DEF PhaseOf
  <2> QED BY <2>2, <2>3 DEF DemandOf, AttemptsOf, AgeOf
<1>2. OthersAreIdle
  <2> SUFFICES ASSUME NEW n \in Name, \A s \in Slots : ~Holds(s, n)
               PROVE  /\ DemandOf(n) = None /\ PhaseOf(n) = "idle"
                      /\ AttemptsOf(n) = 0 /\ AgeOf(n) = 0
    BY DEF OthersAreIdle
  <2>1. ~HasRequest(n)
    BY DEF HasRequest
  <2>2. PhaseOf(n) = "idle"
    BY <2>1 DEF PhaseOf
  <2> QED BY <2>1, <2>2 DEF DemandOf, AttemptsOf, AgeOf
<1> QED BY <1>1, <1>2

LEMMA NextSlotsAreWhatIsSeen == SlotsAreSeen' /\ OthersAreIdle'
  BY SlotsAreWhatIsSeen, PTL


\* What a client sees has the types of the abstract specification.
LEMMA SeenType ==
  ASSUME TypeOK', OnePendingPerCommand'
  PROVE  Delivery!Functions
<1>1. ASSUME NEW n \in Name
      PROVE  /\ DemandOf(n)' \in Change \cup {None}
             /\ PhaseOf(n)' \in {"idle", "queued", "delivered"}
             /\ AttemptsOf(n)' \in 0 .. MQTT_COMMAND_MAX_RETRIES + 1
             /\ AgeOf(n)' \in 0 .. MQTT_COMMAND_CONFIRM_TIMEOUT
  <2>1. CASE \A s \in Slots : ~Holds(s, n)'
    <3>1. DemandOf(n)' = None /\ PhaseOf(n)' = "idle" /\ AttemptsOf(n)' = 0 /\ AgeOf(n)' = 0
      BY <2>1, NextSlotsAreWhatIsSeen DEF OthersAreIdle
    <3> QED BY <3>1, LimitAssumption
  <2>2. ASSUME NEW s \in Slots, Holds(s, n)'
        PROVE  /\ DemandOf(n)' \in Change \cup {None}
               /\ PhaseOf(n)' \in {"idle", "queued", "delivered"}
               /\ AttemptsOf(n)' \in 0 .. MQTT_COMMAND_MAX_RETRIES + 1
               /\ AgeOf(n)' \in 0 .. MQTT_COMMAND_CONFIRM_TIMEOUT
    <3>1. /\ pending'[s].desired \in Change
          /\ pending'[s].retries \in 0 .. MQTT_COMMAND_MAX_RETRIES
          /\ pending'[s].sentAge \in 0 .. MQTT_COMMAND_CONFIRM_TIMEOUT
      BY DEF TypeOK, Entry
    <3>2. /\ DemandOf(n)' = pending'[s].desired
          /\ PhaseOf(n)' = IF pending'[s].waitingToSend THEN "queued" ELSE "delivered"
          /\ AttemptsOf(n)' = IF pending'[s].waitingToSend THEN pending'[s].retries
                              ELSE pending'[s].retries + 1
          /\ AgeOf(n)' = IF pending'[s].waitingToSend THEN 0 ELSE pending'[s].sentAge
      BY <2>2, NextSlotsAreWhatIsSeen DEF SlotsAreSeen
    <3> QED BY <3>1, <3>2, LimitAssumption
  <2> QED BY <2>1, <2>2
<1> QED BY <1>1 DEF Delivery!Functions

\* Steps of one command, told by what is seen of it.
LEMMA BecomesWhatIsSeen ==
  ASSUME NEW n \in Name, NEW d, NEW p, NEW a, NEW g,
         DemandOf(n)' = d, PhaseOf(n)' = p, AttemptsOf(n)' = a, AgeOf(n)' = g
  PROVE  Delivery!Becomes(n, d, p, a, g)
  BY DEF Delivery!Becomes

LEMMA SeenUnchanged ==
  ASSUME NEW n \in Name, DemandOf(n)' = DemandOf(n), PhaseOf(n)' = PhaseOf(n),
         AttemptsOf(n)' = AttemptsOf(n), AgeOf(n)' = AgeOf(n)
  PROVE  Delivery!Stays(n)
  BY BecomesWhatIsSeen DEF Delivery!Stays

LEMMA IdleStays ==
  ASSUME NEW n \in Name, \A s \in Slots : ~Holds(s, n) /\ ~Holds(s, n)'
  PROVE  Delivery!Stays(n)
  BY SeenUnchanged, SlotsAreWhatIsSeen, NextSlotsAreWhatIsSeen DEF OthersAreIdle

\* An occupied slot that keeps its request and its phase.
LEMMA SlotStays ==
  ASSUME OnePendingPerCommand, OnePendingPerCommand',
         NEW n \in Name, NEW s \in Slots, Holds(s, n), Holds(s, n)',
         pending'[s].desired = pending[s].desired,
         pending'[s].retries = pending[s].retries,
         pending'[s].waitingToSend = pending[s].waitingToSend,
         ~pending[s].waitingToSend => pending'[s].sentAge = pending[s].sentAge
  PROVE  Delivery!Stays(n)
<1>1. /\ DemandOf(n) = pending[s].desired /\ DemandOf(n)' = pending'[s].desired
      /\ PhaseOf(n) = IF pending[s].waitingToSend THEN "queued" ELSE "delivered"
      /\ PhaseOf(n)' = IF pending'[s].waitingToSend THEN "queued" ELSE "delivered"
      /\ AttemptsOf(n) = IF pending[s].waitingToSend THEN pending[s].retries
                         ELSE pending[s].retries + 1
      /\ AttemptsOf(n)' = IF pending'[s].waitingToSend THEN pending'[s].retries
                          ELSE pending'[s].retries + 1
      /\ AgeOf(n) = IF pending[s].waitingToSend THEN 0 ELSE pending[s].sentAge
      /\ AgeOf(n)' = IF pending'[s].waitingToSend THEN 0 ELSE pending'[s].sentAge
  BY SlotsAreWhatIsSeen, NextSlotsAreWhatIsSeen DEF SlotsAreSeen
<1> QED BY <1>1, SeenUnchanged

\* An occupied slot that is freed.
LEMMA SlotSettles ==
  ASSUME OnePendingPerCommand, NEW n \in Name, NEW s \in Slots, Holds(s, n),
         \A t \in Slots : ~Holds(t, n)'
  PROVE  Delivery!Settles(n)
<1>1. PhaseOf(n) # "idle"
  BY SlotsAreWhatIsSeen DEF SlotsAreSeen
<1>2. DemandOf(n)' = None /\ PhaseOf(n)' = "idle" /\ AttemptsOf(n)' = 0 /\ AgeOf(n)' = 0
  BY NextSlotsAreWhatIsSeen DEF OthersAreIdle
<1> QED BY <1>1, <1>2, BecomesWhatIsSeen DEF Delivery!Settles

\* A slot no other slot can take the command of.
LEMMA NoOtherSlot ==
  ASSUME OnePendingPerCommand, NEW n \in Name, NEW s \in Slots, Holds(s, n),
         \A t \in Slots : Holds(t, n)' => Holds(t, n), ~Holds(s, n)'
  PROVE  \A t \in Slots : ~Holds(t, n)'
<1>1. \A t \in Slots : Holds(t, n) => t = s
  BY DEF OnePendingPerCommand, Holds
<1> QED BY <1>1

-----------------------------------------------------------------------------
(* The invariant of the refinement.                                         *)

LEMMA QueueInvariantStep == QueueInvariant /\ [Next]_vars => QueueInvariant'
  BY TypeOKStep, QueuePartsStep DEF QueueInvariant, QueueParts

\* A request for a command without a reported state is stored with its packet.
LEMMA KnownPacket ==
  ASSUME NEW n \in Name \ Reported, NEW p \in Payload[n]
  PROVE  Known(n, p).command = Encoded(n, p) /\ Known(n, p).desired = p
<1> DEFINE i == Incoming(n, p)
<1>1. i \in Entry /\ i.command = Encoded(n, p) /\ i.desired = p /\ i.name = n
  BY IncomingType, DataAssumption DEF Incoming
<1>2. n # SetCurves
  BY DataAssumption
<1> HIDE DEF i
<1>3. ASSUME NEW d PROVE ApplyKnownState(i, d).command = i.command
  BY <1>1, <1>2 DEF ApplyKnownState, Entry
<1> QED BY <1>1, <1>3, ApplyKnownStateType DEF Known, i

LEMMA RequestsInit == Init => EntriesAreRequests
  BY FreeSlotType DEF Init, EntriesAreRequests

LEMMA InsertKeepsRequests ==
  ASSUME TypeOK, EntriesAreRequests,
         NEW n \in Name, NEW p \in Payload[n], NEW s \in Slots, Insert(n, p, s)
  PROVE  EntriesAreRequests'
<1>1. \A t \in Slots \ {s} : pending'[t] = pending[t]
  BY DEF Insert, TypeOK
<1>2. pending'[s] = [Known(n, p) EXCEPT !.sequence = mqttCommandSequence + 1]
  BY DEF Insert, TypeOK
<1>3. /\ pending'[s].name = n /\ pending'[s].desired = Known(n, p).desired
      /\ pending'[s].command = Known(n, p).command
  BY <1>2, KnownType DEF Entry
<1>4. Asks(Known(n, p).desired) # {}
  BY KnownType DEF Payload
<1>5. n \notin Reported => pending'[s].command = Encoded(n, pending'[s].desired)
  BY <1>3, KnownPacket
<1> QED BY <1>1, <1>3, <1>4, <1>5 DEF EntriesAreRequests

LEMMA RequestsStep ==
  TypeOK /\ EntriesAreRequests /\ [Next]_vars => EntriesAreRequests'
<1> SUFFICES ASSUME TypeOK, EntriesAreRequests, [Next]_vars
             PROVE  EntriesAreRequests'
  OBVIOUS
<1>1. ASSUME \A s \in Slots : pending'[s].active =>
                /\ pending[s].active
                /\ pending'[s].name = pending[s].name
                /\ pending'[s].desired = pending[s].desired
                /\ pending[s].name \notin Reported => pending'[s].command = pending[s].command
      PROVE  EntriesAreRequests'
  BY <1>1 DEF EntriesAreRequests
<1>2. ASSUME NEW n \in Name, NEW p \in Payload[n], QueueMqttHeatpumpCommand(n, p)
      PROVE  EntriesAreRequests'
  <2>1. CASE QueueSkip(n, p) \/ QueueIgnore(n, p) \/ QueueReject(n, p)
    BY <2>1 DEF QueueSkip, QueueIgnore, QueueReject, EntriesAreRequests
  <2>2. ASSUME NEW s \in Slots, QueueReplace(n, p, s) \/ QueueInsert(n, p, s)
        PROVE  EntriesAreRequests'
    BY <2>2, InsertKeepsRequests DEF QueueReplace, QueueInsert
  <2> QED BY <1>2, <2>1, <2>2 DEF QueueMqttHeatpumpCommand
<1>3. CASE ReadFrame
  <2> SUFFICES ASSUME NEW s \in Slots, pending'[s].active
               PROVE  /\ pending[s].active
                      /\ pending'[s].name = pending[s].name
                      /\ pending'[s].desired = pending[s].desired
                      /\ pending[s].name \notin Reported
                         => pending'[s].command = pending[s].command
    BY <1>1
  <2>1. pending[s] \in Entry /\ pending'[s] = AfterFrame(pending[s], answer)
    BY <1>3 DEF ReadFrame, TypeOK
  <2>2. pending[s].name \notin Reported => Expectations(pending[s]) = {}
    BY DEF Expectations
  <2> QED BY <2>1, <2>2, AfterFrameSlot
<1>4. CASE Process
  BY <1>1, <1>4, ProcessSlot
<1>5. CASE Tick
  <2>1. \A s \in Slots : pending[s] \in Entry /\ pending'[s] = Aged(pending[s])
    BY <1>5 DEF Tick, TypeOK
  <2> QED BY <1>1, <2>1, AgedFields
<1>6. CASE GoStale \/ Environment \/ UNCHANGED vars
  <2>1. pending' = pending
    BY <1>6 DEF GoStale, Environment, Execute, Lose, Answer, ForeignCommand, PanelChange,
                vars, queueVars
  <2> QED BY <1>1, <2>1
<1> QED BY <1>2, <1>3, <1>4, <1>5, <1>6 DEF Next

-----------------------------------------------------------------------------
(* Every step is one of the abstract specification.                          *)

\* A new request, or one that replaces another, is a different demand.
LEMMA RequestIsAnother ==
  ASSUME QueueInvariant, EntriesAreRequests, NEW n \in Name, NEW p \in Payload[n],
         NEW s \in Slots, QueueReplace(n, p, s) \/ QueueInsert(n, p, s)
  PROVE  Known(n, p).desired # DemandOf(n)
<1> DEFINE k == Known(n, p)
<1>1. /\ k \in Entry /\ k.active /\ k.name = n /\ Asks(k.desired) # {}
      /\ n \notin Reported => k.command = Encoded(n, k.desired)
  BY KnownType, KnownPacket DEF Payload
<1> HIDE DEF k
<1>2. CASE QueueInsert(n, p, s)
  <2>1. \A t \in Slots : ~Holds(t, n)
    BY <1>2 DEF QueueInsert
  <2>2. DemandOf(n) = None
    BY <2>1, SlotsAreWhatIsSeen DEF OthersAreIdle
  <2>3. k.desired \in Change
    BY <1>1 DEF Entry
  <2> QED BY <2>2, <2>3, DataAssumption DEF k
<1>3. CASE QueueReplace(n, p, s)
  <2>1. Holds(s, n) /\ ~SameRequest(pending[s], k)
    BY <1>3 DEF QueueReplace, k
  <2>2. DemandOf(n) = pending[s].desired
    BY <2>1, SlotsAreWhatIsSeen DEF SlotsAreSeen, QueueInvariant
  <2>3. IF n \in Reported THEN Asks(pending[s].desired) # {}
        ELSE pending[s].command = Encoded(n, pending[s].desired)
    BY <2>1 DEF EntriesAreRequests, Holds
  <2>4. ASSUME k.desired = pending[s].desired
        PROVE  SameRequest(pending[s], k)
    <3>1. pending[s].name = k.name
      BY <2>1, <1>1 DEF Holds
    <3>2. n \in Reported => Expectations(k) # {}
      BY <1>1 DEF Expectations
    <3>3. n \notin Reported => pending[s].command = k.command
      BY <1>1, <2>3, <2>4
    <3> QED BY <1>1, <2>4, <3>1, <3>2, <3>3 DEF SameRequest
  <2> QED BY <2>1, <2>2, <2>4 DEF k
<1> QED BY <1>2, <1>3

LEMMA InsertIsRequest ==
  ASSUME QueueInvariant, EntriesAreRequests, QueueInvariant',
         NEW n \in Name, NEW p \in Payload[n], NEW s \in Slots,
         QueueReplace(n, p, s) \/ QueueInsert(n, p, s)
  PROVE  Delivery!Request(n)
<1>1. /\ Insert(n, p, s) /\ (Holds(s, n) \/ ~pending[s].active)
      /\ UNCHANGED <<mqttCommandWasSent, sinceLastSend>>
  BY DEF QueueReplace, QueueInsert, Receive
<1>2. /\ \A t \in Slots \ {s} : pending'[t] = pending[t]
      /\ pending'[s] = [Known(n, p) EXCEPT !.sequence = mqttCommandSequence + 1]
  BY <1>1 DEF Insert, QueueInvariant, TypeOK
<1>3. /\ pending'[s].active /\ pending'[s].name = n /\ pending'[s].waitingToSend
      /\ pending'[s].retries = 0 /\ pending'[s].desired = Known(n, p).desired
      /\ Known(n, p).desired \in Change
  BY <1>2, KnownType DEF Entry
<1>4. Delivery!Becomes(n, Known(n, p).desired, "queued", 0, 0)
  <2>1. OnePendingPerCommand' /\ Holds(s, n)'
    BY <1>3 DEF Holds, QueueInvariant
  <2>2. /\ DemandOf(n)' = Known(n, p).desired /\ PhaseOf(n)' = "queued"
        /\ AttemptsOf(n)' = 0 /\ AgeOf(n)' = 0
    BY <1>3, <2>1, NextSlotsAreWhatIsSeen DEF SlotsAreSeen
  <2> QED BY <2>2, BecomesWhatIsSeen
<1>5. ASSUME NEW o \in Name \ {n}
      PROVE  Delivery!Stays(o)
  <2>1. ~Holds(s, o) /\ ~Holds(s, o)'
    BY <1>1, <1>3 DEF Holds
  <2>2. \A t \in Slots \ {s} : Holds(t, o)' <=> Holds(t, o)
    BY <1>2 DEF Holds
  <2>3. CASE \A t \in Slots : ~Holds(t, o)
    BY <2>1, <2>2, <2>3, IdleStays
  <2>4. ASSUME NEW t \in Slots, Holds(t, o)
        PROVE  Delivery!Stays(o)
    BY <1>2, <2>1, <2>2, <2>4, SlotStays DEF QueueInvariant
  <2> QED BY <2>3, <2>4
<1>6. Delivery!Functions
  BY SeenType DEF QueueInvariant
<1>7. Known(n, p).desired # DemandOf(n)
  BY RequestIsAnother
<1> QED BY <1>1, <1>3, <1>4, <1>5, <1>6, <1>7 DEF Delivery!Request

\* A frame settles requests, and only those whose effect is reported.
LEMMA ReadFrameIsReport ==
  ASSUME QueueInvariant, QueueInvariant', ReadFrame
  PROVE  Delivery!Report
<1>1. \A s \in Slots : pending[s] \in Entry /\ pending'[s] = AfterFrame(pending[s], answer)
  BY DEF ReadFrame, QueueInvariant, TypeOK
<1>2. \A s \in Slots, n \in Name : Holds(s, n)' => Holds(s, n)
  BY <1>1, AfterFrameSlot DEF Holds
<1>3. ASSUME NEW s \in Slots, pending'[s].active
      PROVE  /\ pending'[s].desired = pending[s].desired
             /\ pending'[s].retries = pending[s].retries
             /\ pending'[s].waitingToSend = pending[s].waitingToSend
             /\ pending'[s].sentAge = pending[s].sentAge
             /\ pending'[s].name = pending[s].name
  <2>1. pending'[s] = ApplyKnownState(pending[s], answer) \/ pending'[s] = pending[s]
    BY <1>1, <1>3, AfterFrameSlot
  <2>2. ApplyKnownState(pending[s], answer).sentAge = pending[s].sentAge
    BY <1>1 DEF ApplyKnownState, Entry
  <2> QED BY <1>1, <1>3, <2>1, <2>2, AfterFrameSlot
<1>4. ASSUME NEW n \in Name
      PROVE  Delivery!Stays(n) \/ (n \in Reported /\ Delivery!Settles(n))
  <2>1. CASE \A s \in Slots : ~Holds(s, n)
    BY <1>2, <2>1, IdleStays
  <2>2. ASSUME NEW s \in Slots, Holds(s, n)
        PROVE  Delivery!Stays(n) \/ (n \in Reported /\ Delivery!Settles(n))
    <3>1. CASE pending'[s].active
      <4>1. Holds(s, n)'
        BY <1>3, <2>2, <3>1 DEF Holds
      <4> QED BY <1>3, <2>2, <3>1, <4>1, SlotStays DEF QueueInvariant
    <3>2. CASE ~pending'[s].active
      <4>1. \A t \in Slots : ~Holds(t, n)'
        BY <1>2, <2>2, <3>2, NoOtherSlot DEF Holds, QueueInvariant
      <4>2. Expectations(pending[s]) # {}
        BY <1>1, <2>2, <3>2 DEF AfterFrame, Holds
      <4>3. n \in Reported
        BY <2>2, <4>2 DEF Expectations, Holds
      <4> QED BY <2>2, <4>1, <4>3, SlotSettles DEF QueueInvariant
    <3> QED BY <3>1, <3>2
  <2> QED BY <2>1, <2>2
<1>5. Delivery!Functions
  BY SeenType DEF QueueInvariant
<1>6. UNCHANGED <<mqttCommandWasSent, sinceLastSend>>
  BY DEF ReadFrame
<1> QED BY <1>4, <1>5, <1>6, DataAssumption DEF Delivery!Report

\* What the timeouts do to the command of a slot that is not sent.
LEMMA TimeoutIsReview ==
  ASSUME QueueInvariant, QueueInvariant', Process, NEW n \in Name,
         \A s \in Slots : Holds(s, n) =>
           /\ pending'[s].active = AfterTimeouts[s].active
           /\ pending'[s].desired = AfterTimeouts[s].desired
           /\ pending'[s].retries = AfterTimeouts[s].retries
           /\ pending'[s].waitingToSend = AfterTimeouts[s].waitingToSend
           /\ pending'[s].sentAge = AfterTimeouts[s].sentAge
  PROVE  Delivery!Stays(n) \/ Delivery!GivesUp(n) \/ Delivery!Requeues(n)
<1>1. \A s \in Slots : Holds(s, n)' => Holds(s, n)
  BY ProcessSlot DEF Holds, QueueInvariant
<1>2. CASE \A s \in Slots : ~Holds(s, n)
  BY <1>1, <1>2, IdleStays
<1>3. ASSUME NEW s \in Slots, Holds(s, n)
      PROVE  Delivery!Stays(n) \/ Delivery!GivesUp(n) \/ Delivery!Requeues(n)
  <2> DEFINE e == pending[s]
  <2>1. /\ e \in Entry /\ e.active
        /\ e.retries \in 0 .. MQTT_COMMAND_MAX_RETRIES
        /\ e.sentAge \in 0 .. MQTT_COMMAND_CONFIRM_TIMEOUT
    BY <1>3 DEF QueueInvariant, TypeOK, Entry, Holds
  <2>2. /\ DemandOf(n) = e.desired
        /\ PhaseOf(n) = IF e.waitingToSend THEN "queued" ELSE "delivered"
        /\ AttemptsOf(n) = IF e.waitingToSend THEN e.retries ELSE e.retries + 1
        /\ AgeOf(n) = IF e.waitingToSend THEN 0 ELSE e.sentAge
    BY <1>3, SlotsAreWhatIsSeen DEF SlotsAreSeen, QueueInvariant
  <2>3. ASSUME pending'[s].active
        PROVE  Holds(s, n)'
    BY <1>3, <2>3, ProcessSlot DEF Holds, QueueInvariant
  <2>4. ASSUME Expired(s)
        PROVE  Delivery!Overdue(n) /\ ~e.waitingToSend
    BY <2>1, <2>2, <2>4, LimitAssumption DEF Expired, Delivery!Overdue
  <2>5. CASE s \in Retried
    <3>1. /\ AfterTimeouts[s] = Requeued(s)
          /\ Expired(s) /\ e.retries < MQTT_COMMAND_MAX_RETRIES
      BY <2>5 DEF AfterTimeouts, Retried
    <3>2. /\ pending'[s].active /\ pending'[s].desired = e.desired
          /\ pending'[s].retries = e.retries + 1 /\ pending'[s].waitingToSend
      <4>1. /\ Requeued(s).active = e.active /\ Requeued(s).desired = e.desired
            /\ Requeued(s).retries = e.retries + 1 /\ Requeued(s).waitingToSend = TRUE
        BY RequeuedFields DEF QueueInvariant
      <4> QED BY <1>3, <2>1, <3>1, <4>1
    <3>3. /\ DemandOf(n)' = e.desired /\ PhaseOf(n)' = "queued"
          /\ AttemptsOf(n)' = e.retries + 1 /\ AgeOf(n)' = 0
      BY <2>3, <3>2, NextSlotsAreWhatIsSeen DEF SlotsAreSeen, QueueInvariant
    <3>4. Delivery!Overdue(n) /\ AttemptsOf(n) = e.retries + 1 /\ DemandOf(n) = e.desired
      BY <2>2, <2>4, <3>1
    <3>5. e.retries + 1 <= MQTT_COMMAND_MAX_RETRIES
      BY <2>1, <3>1, LimitAssumption
    <3> HIDE DEF e
    <3>6. Delivery!Becomes(n, e.desired, "queued", e.retries + 1, 0)
      BY <3>3, BecomesWhatIsSeen
    <3> QED BY <3>4, <3>5, <3>6 DEF Delivery!Requeues
  <2>6. CASE s \notin Retried /\ Expired(s)
    <3>1. /\ AfterTimeouts[s] = FreeSlot
          /\ e.retries = MQTT_COMMAND_MAX_RETRIES
      BY <2>1, <2>6, LimitAssumption DEF AfterTimeouts, Retried
    <3>2. ~pending'[s].active
      BY <1>3, <3>1, FreeSlotType
    <3>3. Delivery!Settles(n)
      BY <1>1, <1>3, <3>2, NoOtherSlot, SlotSettles DEF Holds, QueueInvariant
    <3> QED BY <2>2, <2>4, <2>6, <3>1, <3>3 DEF Delivery!GivesUp
  <2>7. CASE s \notin Retried /\ ~Expired(s)
    <3>1. AfterTimeouts[s] = e
      BY <2>7 DEF AfterTimeouts
    <3> QED BY <1>3, <2>1, <2>3, <3>1, SlotStays DEF QueueInvariant
  <2> QED BY <2>5, <2>6, <2>7
<1> QED BY <1>2, <1>3

\* Nothing is sent.
LEMMA IdleProcessIsReview ==
  ASSUME QueueInvariant, QueueInvariant', Process,
         ProcessOnlyTimeouts \/ \E s \in Slots : ProcessRefused(s)
  PROVE  Delivery!Review
<1>1. AfterTimeouts \in [Slots -> Entry]
  BY AfterTimeoutsType DEF QueueInvariant
<1>2. ASSUME NEW t \in Slots
      PROVE  /\ pending'[t].active = AfterTimeouts[t].active
             /\ pending'[t].desired = AfterTimeouts[t].desired
             /\ pending'[t].retries = AfterTimeouts[t].retries
             /\ pending'[t].waitingToSend = AfterTimeouts[t].waitingToSend
             /\ pending'[t].sentAge = AfterTimeouts[t].sentAge
  <2>1. \/ pending'[t] = AfterTimeouts[t]
        \/ pending'[t] = [AfterTimeouts[t] EXCEPT !.nextSendIn = MQTT_COMMAND_QUEUE_RETRY]
    BY <1>1 DEF ProcessOnlyTimeouts, ProcessRefused
  <2>2. AfterTimeouts[t] \in Entry
    BY <1>1
  <2> QED BY <2>1, <2>2 DEF Entry
<1>3. UNCHANGED <<mqttCommandWasSent, sinceLastSend>>
  BY DEF ProcessOnlyTimeouts, ProcessRefused
<1>4. Delivery!Functions
  BY SeenType DEF QueueInvariant
<1>5. \A n \in Name : Delivery!Stays(n) \/ Delivery!GivesUp(n) \/ Delivery!Requeues(n)
  BY <1>2, TimeoutIsReview
<1> QED BY <1>3, <1>4, <1>5 DEF Delivery!Review

\* The entry that is sent is delivered, again or for the first time.
LEMMA SendIsDelivery ==
  ASSUME QueueInvariant, EntriesAreRequests, QueueInvariant', Process,
         NEW s \in Slots, ProcessSend(s), NEW n \in Name, n = pending[s].name
  PROVE  Holds(s, n) /\ Delivery!Delivers(n)
<1> DEFINE e == pending[s]
           a == AfterTimeouts[s]
<1>1. a \in Entry /\ pending'[s] = SentEntry(a)
  BY AfterTimeoutsType DEF ProcessSend, QueueInvariant
<1>2. /\ e \in Entry /\ e.retries \in Nat
      /\ e.retries \in 0 .. MQTT_COMMAND_MAX_RETRIES
      /\ e.sentAge \in 0 .. MQTT_COMMAND_CONFIRM_TIMEOUT
  <2>1. e \in Entry
    BY DEF QueueInvariant, TypeOK
  <2>2. /\ e.retries \in 0 .. MQTT_COMMAND_MAX_RETRIES
        /\ e.sentAge \in 0 .. MQTT_COMMAND_CONFIRM_TIMEOUT
    BY <2>1 DEF Entry
  <2> QED BY <2>1, <2>2, LimitAssumption
<1>3. s \in Retried \/ (e.active /\ e.waitingToSend /\ s \notin Retried)
  BY DEF ProcessSend, NextToSend, Due
<1>4. /\ e.active /\ a.active /\ a.desired = e.desired /\ a.name = n
      /\ a.retries = e.retries + (IF s \in Retried THEN 1 ELSE 0)
  <2>1. CASE s \in Retried
    <3>1. e.active /\ a = Requeued(s)
      BY <2>1 DEF Retried, Expired, AfterTimeouts
    <3> QED BY <2>1, <3>1, RequeuedFields DEF QueueInvariant
  <2>2. CASE s \notin Retried
    <3>1. e.active /\ e.waitingToSend
      BY <1>3, <2>2
    <3>2. a = e
      BY <2>2, <3>1 DEF AfterTimeouts, Expired
    <3> QED BY <1>2, <2>2, <3>1, <3>2
  <2> QED BY <2>1, <2>2
<1>5. n \in Name /\ Holds(s, n)
  BY <1>2, <1>4 DEF Entry, Holds
<1>6. /\ DemandOf(n) = e.desired
      /\ PhaseOf(n) = IF e.waitingToSend THEN "queued" ELSE "delivered"
      /\ AttemptsOf(n) = IF e.waitingToSend THEN e.retries ELSE e.retries + 1
      /\ AgeOf(n) = IF e.waitingToSend THEN 0 ELSE e.sentAge
  BY <1>5, SlotsAreWhatIsSeen DEF SlotsAreSeen, QueueInvariant
<1>7. /\ AttemptsOf(n) = a.retries
      /\ \/ PhaseOf(n) = "queued"
         \/ Delivery!Overdue(n) /\ AttemptsOf(n) <= MQTT_COMMAND_MAX_RETRIES
  <2>1. CASE s \in Retried
    <3>1. /\ ~e.waitingToSend /\ e.sentAge = MQTT_COMMAND_CONFIRM_TIMEOUT
          /\ e.retries < MQTT_COMMAND_MAX_RETRIES
      BY <1>2, <2>1, LimitAssumption DEF Retried, Expired
    <3>2. Delivery!Overdue(n)
      BY <1>5, <1>6, <3>1 DEF Delivery!Overdue
    <3> QED BY <1>2, <1>4, <1>6, <2>1, <3>1, <3>2, LimitAssumption
  <2>2. CASE s \notin Retried
    BY <1>2, <1>3, <1>4, <1>6, <2>2
  <2> QED BY <2>1, <2>2
<1>8. Expectations(a) = {} <=> n \notin Reported
  BY <1>4, <1>5 DEF Expectations, EntriesAreRequests
<1> HIDE DEF a
<1>9. CASE n \in Reported
  <2>1. /\ pending'[s].active /\ pending'[s].name = n /\ pending'[s].desired = e.desired
        /\ pending'[s].retries = a.retries /\ ~pending'[s].waitingToSend
        /\ pending'[s].sentAge = 0
    BY <1>1, <1>4, <1>8, <1>9 DEF SentEntry, Entry
  <2>2. Holds(s, n)'
    BY <2>1 DEF Holds
  <2>3. /\ DemandOf(n)' = DemandOf(n) /\ PhaseOf(n)' = "delivered"
        /\ AttemptsOf(n)' = AttemptsOf(n) + 1 /\ AgeOf(n)' = 0
    BY <1>5, <1>6, <1>7, <2>1, <2>2, NextSlotsAreWhatIsSeen DEF SlotsAreSeen, QueueInvariant
  <2>4. Delivery!Becomes(n, DemandOf(n), "delivered", AttemptsOf(n) + 1, 0)
    <3> DEFINE d == DemandOf(n)
               k == AttemptsOf(n) + 1
    <3>1. DemandOf(n)' = d /\ AttemptsOf(n)' = k
      BY <2>3
    <3> HIDE DEF d, k
    <3>2. Delivery!Becomes(n, d, "delivered", k, 0)
      BY <2>3, <3>1, BecomesWhatIsSeen
    <3> QED BY <3>2 DEF d, k
  <2> QED BY <1>5, <1>7, <1>9, <2>4 DEF Delivery!Delivers
<1>10. CASE n \notin Reported
  <2>1. ~pending'[s].active
    BY <1>1, <1>8, <1>10, FreeSlotType DEF SentEntry
  <2>2. \A t \in Slots : Holds(t, n)' => Holds(t, n)
    BY ProcessSlot DEF Holds, QueueInvariant
  <2>3. \A t \in Slots : ~Holds(t, n)'
    BY <1>5, <2>1, <2>2, NoOtherSlot DEF Holds, QueueInvariant
  <2>4. DemandOf(n)' = None /\ PhaseOf(n)' = "idle" /\ AttemptsOf(n)' = 0 /\ AgeOf(n)' = 0
    BY <1>5, <2>3, NextSlotsAreWhatIsSeen DEF OthersAreIdle
  <2>5. Delivery!Becomes(n, None, "idle", 0, 0)
    BY <1>5, <2>4, BecomesWhatIsSeen
  <2> QED BY <1>5, <1>7, <1>10, <2>5 DEF Delivery!Delivers
<1> QED BY <1>5, <1>9, <1>10

LEMMA SendIsServe ==
  ASSUME QueueInvariant, EntriesAreRequests, QueueInvariant', Process,
         NEW s \in Slots, ProcessSend(s)
  PROVE  \E n \in Name : Delivery!Serve(n)
<1>0. PICK n \in Name : n = pending[s].name
  BY DEF QueueInvariant, TypeOK, Entry
<1>1. Holds(s, n) /\ Delivery!Delivers(n)
  BY <1>0, SendIsDelivery
<1>2. \A t \in Slots \ {s} : pending'[t] = AfterTimeouts[t]
  BY AfterTimeoutsType DEF ProcessSend, QueueInvariant
<1>3. \A o \in Name \ {n} :
        Delivery!Stays(o) \/ Delivery!GivesUp(o) \/ Delivery!Requeues(o)
  <2> SUFFICES ASSUME NEW o \in Name \ {n}
               PROVE  Delivery!Stays(o) \/ Delivery!GivesUp(o) \/ Delivery!Requeues(o)
    OBVIOUS
  <2>1. \A t \in Slots : Holds(t, o) => t # s
    BY <1>0 DEF Holds
  <2> QED BY <1>2, <2>1, TimeoutIsReview
<1>4. Delivery!Functions
  BY SeenType DEF QueueInvariant
<1>5. /\ mqttCommandWasSent' = TRUE /\ sinceLastSend' = 0
      /\ mqttCommandWasSent => sinceLastSend = MQTT_COMMAND_GAP
  BY LimitAssumption DEF ProcessSend, NextToSend, GapRunning, QueueInvariant, TypeOK
<1>6. Delivery!Serve(n)
  BY <1>1, <1>3, <1>4, <1>5 DEF Delivery!Serve
<1> QED BY <1>1, <1>6

\* Time passes alike for the slots and for what is seen of them.
LEMMA TickIsWait ==
  ASSUME QueueInvariant, QueueInvariant', Tick
  PROVE  Delivery!Wait
<1>1. \A s \in Slots : pending[s] \in Entry /\ pending'[s] = Aged(pending[s])
  BY DEF Tick, QueueInvariant, TypeOK
<1>2. ASSUME NEW n \in Name
      PROVE  /\ DemandOf(n)' = DemandOf(n) /\ PhaseOf(n)' = PhaseOf(n)
             /\ AttemptsOf(n)' = AttemptsOf(n)
             /\ AgeOf(n)' = IF PhaseOf(n) = "delivered"
                               /\ AgeOf(n) < MQTT_COMMAND_CONFIRM_TIMEOUT
                            THEN AgeOf(n) + 1 ELSE AgeOf(n)
  <2>1. \A s \in Slots : Holds(s, n)' <=> Holds(s, n)
    BY <1>1, AgedFields DEF Holds
  <2>2. CASE \A s \in Slots : ~Holds(s, n)
    <3>1. /\ DemandOf(n) = None /\ PhaseOf(n) = "idle" /\ AttemptsOf(n) = 0 /\ AgeOf(n) = 0
          /\ DemandOf(n)' = None /\ PhaseOf(n)' = "idle" /\ AttemptsOf(n)' = 0 /\ AgeOf(n)' = 0
      BY <2>1, <2>2, SlotsAreWhatIsSeen, NextSlotsAreWhatIsSeen DEF OthersAreIdle
    <3> QED BY <3>1
  <2>3. ASSUME NEW s \in Slots, Holds(s, n)
        PROVE  /\ DemandOf(n)' = DemandOf(n) /\ PhaseOf(n)' = PhaseOf(n)
               /\ AttemptsOf(n)' = AttemptsOf(n)
               /\ AgeOf(n)' = IF PhaseOf(n) = "delivered"
                                 /\ AgeOf(n) < MQTT_COMMAND_CONFIRM_TIMEOUT
                              THEN AgeOf(n) + 1 ELSE AgeOf(n)
    <3> DEFINE e == pending[s]
    <3>1. /\ DemandOf(n) = e.desired /\ DemandOf(n)' = pending'[s].desired
          /\ PhaseOf(n) = IF e.waitingToSend THEN "queued" ELSE "delivered"
          /\ PhaseOf(n)' = IF pending'[s].waitingToSend THEN "queued" ELSE "delivered"
          /\ AttemptsOf(n) = IF e.waitingToSend THEN e.retries ELSE e.retries + 1
          /\ AttemptsOf(n)' = IF pending'[s].waitingToSend THEN pending'[s].retries
                              ELSE pending'[s].retries + 1
          /\ AgeOf(n) = IF e.waitingToSend THEN 0 ELSE e.sentAge
          /\ AgeOf(n)' = IF pending'[s].waitingToSend THEN 0 ELSE pending'[s].sentAge
      BY <2>1, <2>3, SlotsAreWhatIsSeen, NextSlotsAreWhatIsSeen DEF SlotsAreSeen, QueueInvariant
    <3>2. /\ pending'[s].desired = e.desired /\ pending'[s].retries = e.retries
          /\ pending'[s].waitingToSend = e.waitingToSend
      BY <1>1, AgedFields
    <3>3. ~e.waitingToSend => e.wasSent
      BY <2>3 DEF QueueInvariant, NoStuckEntry, Holds
    <3>4. pending'[s].sentAge = IF e.wasSent /\ e.sentAge < MQTT_COMMAND_CONFIRM_TIMEOUT
                                THEN e.sentAge + 1 ELSE e.sentAge
      BY <1>1 DEF Aged, Entry
    <3> HIDE DEF e
    <3> QED BY <3>1, <3>2, <3>3, <3>4
  <2> QED BY <2>2, <2>3
<1>3. /\ mqttCommandWasSent' = mqttCommandWasSent
      /\ sinceLastSend' = IF mqttCommandWasSent /\ sinceLastSend < MQTT_COMMAND_GAP
                          THEN sinceLastSend + 1 ELSE sinceLastSend
  BY DEF Tick
<1>4. MQTT_COMMAND_GAP \in Nat
  BY LimitAssumption
<1> QED BY <1>2, <1>3, <1>4 DEF Delivery!Wait, Delivery!Older

\* What leaves the slots and the distance alone is not seen.
LEMMA UnseenStep ==
  ASSUME UNCHANGED <<pending, mqttCommandWasSent, sinceLastSend>>
  PROVE  UNCHANGED Delivery!vars
  BY DEF Delivery!vars, DemandOf, PhaseOf, AttemptsOf, AgeOf, HasRequest, EntryOf, Holds

LEMMA InitIsSeen ==
  ASSUME Init
  PROVE  Delivery!Init
<1>1. \A n \in Name, s \in Slots : ~Holds(s, n)
  BY FreeSlotType DEF Init, Holds
<1>2. \A n \in Name :
        DemandOf(n) = None /\ PhaseOf(n) = "idle" /\ AttemptsOf(n) = 0 /\ AgeOf(n) = 0
  BY <1>1, SlotsAreWhatIsSeen DEF OthersAreIdle
<1> QED BY <1>2 DEF Delivery!Init, Init

LEMMA StepIsSeen ==
  ASSUME QueueInvariant, EntriesAreRequests, QueueInvariant', [Next]_vars
  PROVE  [Delivery!Next]_Delivery!vars
<1>1. ASSUME NEW n \in Name, NEW p \in Payload[n], QueueMqttHeatpumpCommand(n, p)
      PROVE  [Delivery!Next]_Delivery!vars
  <2>1. CASE QueueSkip(n, p) \/ QueueIgnore(n, p) \/ QueueReject(n, p)
    BY <2>1, UnseenStep DEF QueueSkip, QueueIgnore, QueueReject, Receive
  <2>2. CASE \E s \in Slots : QueueReplace(n, p, s) \/ QueueInsert(n, p, s)
    <3>1. Delivery!Request(n)
      BY <2>2, InsertIsRequest
    <3> QED BY <3>1 DEF Delivery!Next
  <2> QED BY <1>1, <2>1, <2>2 DEF QueueMqttHeatpumpCommand
<1>2. CASE ReadFrame
  BY <1>2, ReadFrameIsReport DEF Delivery!Next
<1>3. CASE Process
  <2>1. CASE ProcessOnlyTimeouts \/ \E s \in Slots : ProcessRefused(s)
    BY <1>3, <2>1, IdleProcessIsReview DEF Delivery!Next
  <2>2. CASE \E s \in Slots : ProcessSend(s)
    <3>1. \E n \in Name : Delivery!Serve(n)
      BY <1>3, <2>2, SendIsServe
    <3> QED BY <3>1 DEF Delivery!Next
  <2> QED BY <1>3, <2>1, <2>2 DEF Process
<1>4. CASE Tick
  BY <1>4, TickIsWait DEF Delivery!Next
<1>5. CASE GoStale \/ Environment \/ UNCHANGED vars
  <2>1. UNCHANGED <<pending, mqttCommandWasSent, sinceLastSend>>
    BY <1>5 DEF GoStale, Environment, Execute, Lose, Answer, ForeignCommand, PanelChange,
                vars, queueVars
  <2> QED BY <2>1, UnseenStep
<1> QED BY <1>1, <1>2, <1>3, <1>4, <1>5 DEF Next

-----------------------------------------------------------------------------
(* The theorem.                                                             *)

\* For any number of slots, commands, retries and any lengths of the gap and the timeout, a
\* client sees what is documented (queue_mqtt_heatpump_command,
\* process_mqtt_heatpump_commands, confirm_mqtt_heatpump_commands): deliveries keep their
\* distance, a retry waits for the timeout, nothing is given up before the last attempt.
THEOREM QueueKeepsItsPromise == Spec => ImplementsDelivery
<1> DEFINE IInv == QueueInvariant /\ EntriesAreRequests
<1>1. Init => IInv
  BY TypeOKInit, QueuePartsInit, RequestsInit DEF QueueInvariant, QueueParts
<1>2. IInv /\ [Next]_vars => IInv'
  BY QueueInvariantStep, RequestsStep DEF QueueInvariant
<1>3. Init => Delivery!Init
  BY InitIsSeen
<1>4. IInv /\ IInv' /\ [Next]_vars => [Delivery!Next]_Delivery!vars
  BY StepIsSeen
<1> HIDE DEF IInv
<1> QED BY <1>1, <1>2, <1>3, <1>4, PTL DEF Spec, ImplementsDelivery, Delivery!Spec

==============================================================================
