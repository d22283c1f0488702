SPECIFICATION Spec
CONSTANTS
  Sources = {s1, s2}
  Times <- MCTimes
  Duration = 3
  MaxSize = 2
  MaxFaults = 1
  MaxCrashes = 1
  NoSegment = NoSegment
INVARIANTS
  FramesAccountedFor
  UsageAccounted
  RetrievedIsUploaded
PROPERTY
  LimitIsLifted
CHECK_DEADLOCK FALSE
