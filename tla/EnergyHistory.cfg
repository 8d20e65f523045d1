SPECIFICATION Spec
CONSTANTS
  Stream = {"samples", "events"}
  Day = {0, 1, 2}
  Missing = Missing
  None = None
  SetUp <- SmallSetUps
  DayLength = 3
  Interval = 2
  MaxGap = 2
  TailRows = 1
  MaxTime = 6
CHECK_DEADLOCK FALSE
INVARIANT CardIsConsistent
INVARIANT CountedAsObserved
INVARIANT LossIsBounded
PROPERTY RecoveryCompletes
