\* Two commands in two slots: partial confirmation, retries that expire together, a full
\* queue behind.
SPECIFICATION Spec
CONSTANTS
  Name <- QueueNames
  SetCurves = "SetCurves"
  Reported = {"SetCurves", "SetOperationMode"}
  Field <- QueueFields
  FieldsOf <- QueueFieldsOf
  Value = {0, 1, 2}
  Requestable = {1}
  NoChange = NoChange
  Encode <- QueueEncode
  Alias <- QueueAlias
  None = None
  InitialSettings <- QueueInitial
  MQTT_COMMAND_QUEUE_SIZE = 2
  MQTT_COMMAND_MAX_RETRIES = 1
  MQTT_COMMAND_GAP = 1
  MQTT_COMMAND_CONFIRM_TIMEOUT = 2
  MQTT_COMMAND_QUEUE_RETRY = 1
  CmdQueueSize = 1
  MaxRequests = 2
  MaxForeign = 0
INVARIANTS
  TypeOK
  AttemptsAreCounted
  PacketIsWhatIsMissing
  
  ServedInOrder
