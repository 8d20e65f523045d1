\* Three timers, of which callbacks set some again, and passes up to three ticks late; a
\* sterilization in each mode, with data read every five ticks.
SPECIFICATION LoopSpec
CONSTANTS
  None = None
  t1 = t1
  t2 = t2
  t3 = t3
  Timer = {t1, t2, t3}
  Delay = {0, 1, 3}
  CallbackDelay = {1, 2}
  MaxStall = 3
  MaxSetTimer = 1
  Mode = {0, 3, 6}
  ForceDelay = 1
  ModeDelay = 3
  SoonRestore = 1
  LateRestore = 10
  RetryDelay = 5
  ConfirmTime = 12
  FreshTime = 60
  ReadPeriod = 5
  CommandDelay = 2
  Refusable = {"mode"}
INVARIANTS
  TypeOK
  
  QueueInFuture
  
PROPERTIES
  
  WorkflowEnds
