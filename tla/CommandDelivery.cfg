\* One slot: rejection, replacement, the distance of retries; and what becomes of a request.
CONSTANTS
  Name <- DeliveryNames
  SetCurves = "SetCurves"
  Reported = {"SetHeatpump"}
  Field <- DeliveryFields
  FieldsOf <- DeliveryFieldsOf
  Value = {0, 1}
  Requestable = {0, 1}
  NoChange = NoChange
  Encode <- DeliveryEncode
  Alias = {}
  None = None
  InitialSettings <- DeliveryInitial
  MQTT_COMMAND_QUEUE_SIZE = 1
  MQTT_COMMAND_MAX_RETRIES = 2
  MQTT_COMMAND_GAP = 1
  MQTT_COMMAND_CONFIRM_TIMEOUT = 2
  MQTT_COMMAND_QUEUE_RETRY = 1
  CmdQueueSize = 1
  MaxRequests = 2
  MaxForeign = 1
SPECIFICATION FairSpec
PROPERTIES
  ImplementsDelivery
  EveryRequestResolved
INVARIANT NoStuckEntry
