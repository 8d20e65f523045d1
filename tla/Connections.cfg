SPECIFICATION SystemSpec
CONSTANTS
  Topic = {"TOP0", "TOP1"}
  Value = {0, 1}
  ReconnectTime = 1
  updateAllTime = 2
  MaxReconnects = 3
  Wrap = 32
  Scale = 60
  MinReport = 4
  LowerInterval = 7
  MinWidth = 1
  MaxWidth = 2
  PulseWidth = 1
  Gap = 4
  Hold = 2
  MaxPulses = 3
  MaxBoots = 1
  MaxReports = 2
  MaxBreaks = 1
  Sensor = {"28a", "28b"}
  MAX_DALLAS_SENSORS = 1
  Alias = {"boiler"}
  MaxTemp = 2
  MaxEdits = 1
  SensorTopic = {"t1", "t2", "t3"}
  EXTERNAL_SENSOR_MAX = 2
  MaxFailures = 1
  DayLength = 2
  MonthDays = 2
  MaxGap = 1
  SAVE_INTERVAL = 2
  COP_MQTT_PUBLISH_INTERVAL = 2
  MaxHour = 5
  MaxMishaps = 1
  SCHEDULER_MAX_CONDITIONS = 4
  Hex <- MCHex
  Answers = {196}
  StateValues = {1, 2}
  ShiftValues <- MCShiftValues
  WaterValues <- MCWaterValues
  RoomValues <- MCRoomValues
  Targets <- MCTargets
  Outsides <- MCOutsides
  waterMin = 20
  waterMax = 55
  Fresh = 1
  QueueSize = 2
  MAXCOMMANDSINBUFFER = 2
  SERIALTIMEOUT = 1
  MaxUnanswered = 2
  MaxCommands = 1
INVARIANTS
  BrokerIsCurrent
  MetersAddUp
  
  
  
  SharedBytesKept
  RequestsFit
CHECK_DEADLOCK FALSE
