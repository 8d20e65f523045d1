SPECIFICATION MCSpec
CONSTANTS
  Texts <- AllSets
  Installed <- GoodSets
  Frames <- SomeFrames
  TopicOrder <- Order
  TimerBlock <- BlockOf
  MaxUploads = 2
  MaxRestarts = 1
  GlobalNames = {"#x", "#y"}
  LocalNames = {"$a", "$b"}
  TopicNames = {"@b", "@c", "@set"}
INVARIANTS
  
  SetsReplaceEachOther
CHECK_DEADLOCK FALSE
