SPECIFICATION Spec
CONSTANTS
  Sources = {s1}
  InputCap = 2
  QueueCap = 2
  BoxCap = 2
  MaxFaults = 3
  MaxLags = 2
INVARIANTS
  FeedSound
  SegmentNeverNewerThanInit
PROPERTY
  SessionCatchesUp
CHECK_DEADLOCK FALSE
