SPECIFICATION MCSpec
CONSTANTS
  Texts <- UndecidedSet
  Installed <- OwnSet
  Frames <- SomeFrames
  TopicOrder <- Order
  TimerBlock <- BlockOf
  MaxUploads = 1
  MaxRestarts = 0
  GlobalNames = {"#x", "#y"}
  LocalNames = {"$a", "$b"}
  TopicNames = {"@b", "@c", "@set"}
INVARIANT InvalidIsIgnored
CHECK_DEADLOCK FALSE
