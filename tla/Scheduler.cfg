SPECIFICATION FairSpec
CONSTANTS
  Id = {1, 2}
  SCHEDULER_MAX_ENTRIES = 2
  SCHEDULER_MAX_ACTIONS = 2
  SCHEDULER_DISPATCH_INTERVAL = 1
  Cycle = 2
  MaxMinute = 1
  MaxBack = 1
  MaxReboot = 1
  MaxEdit = 1
  SaveOutcome = {"ok", "short", "failed", "torn"}
  InitialEntries <- SetUps
  None = None
  Torn = Torn
INVARIANT ConfigurationHolds
INVARIANT OnceBetweenRestarts
PROPERTY ImplementsGroups
PROPERTY HeadLeaves
CHECK_DEADLOCK FALSE
