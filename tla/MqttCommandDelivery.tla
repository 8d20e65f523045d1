------------------------- MODULE MqttCommandDelivery -------------------------
(***************************************************************************)
(* The confirmation queue implements the promise of CommandDelivery.        *)
(*                                                                         *)
(* The slot that holds a request for command n, if any, stands for the      *)
(* abstract state of n; its retry count and phase give the number of        *)
(* deliveries.                                                              *)
(***************************************************************************)
EXTENDS MqttCommandQueue

HasRequest(n) == \E s \in Slots : Holds(s, n)
EntryOf(n) == pending[CHOOSE s \in Slots : Holds(s, n)]

DemandOf(n) == IF HasRequest(n) THEN EntryOf(n).desired ELSE None

PhaseOf(n) ==
  IF ~HasRequest(n) THEN "idle"
  ELSE IF EntryOf(n).waitingToSend THEN "queued" ELSE "delivered"

AttemptsOf(n) ==
  CASE PhaseOf(n) = "idle"      -> 0
    [] PhaseOf(n) = "queued"    -> EntryOf(n).retries
    [] PhaseOf(n) = "delivered" -> EntryOf(n).retries + 1

AgeOf(n) == IF PhaseOf(n) = "delivered" THEN EntryOf(n).sentAge ELSE 0

Delivery ==
  INSTANCE CommandDelivery WITH
    Command    <- Name,
    Observable <- Reported,
    Demand     <- Change,
    Nothing    <- None,
    MaxRetries <- MQTT_COMMAND_MAX_RETRIES,
    Gap        <- MQTT_COMMAND_GAP,
    Timeout    <- MQTT_COMMAND_CONFIRM_TIMEOUT,
    demand     <- [n \in Name |-> DemandOf(n)],
    phase      <- [n \in Name |-> PhaseOf(n)],
    attempts   <- [n \in Name |-> AttemptsOf(n)],
    age        <- [n \in Name |-> AgeOf(n)],
    quiet      <- IF mqttCommandWasSent THEN sinceLastSend ELSE MQTT_COMMAND_GAP

\* What the refinement needs of the slots besides QueueInvariant: an entry whose effect is
\* reported asks for something, and any other holds the packet its request is encoded to.
EntriesAreRequests ==
  \A s \in Slots : pending[s].active =>
    IF pending[s].name \in Reported
    THEN Asks(pending[s].desired) # {}
    ELSE pending[s].command = Encoded(pending[s].name, pending[s].desired)

\* Seen from a client, the queue behaves as documented: deliveries keep their
\* distance, a retry waits for the timeout, nothing is given up before the last
\* attempt, a command without a reported state is delivered once.
ImplementsDelivery == Delivery!Spec
=============================================================================
