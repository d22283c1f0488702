SPECIFICATION ViewSpec
CONSTANTS
  Cameras = {c1}
  Fields = {"cpu", "tmp"}
  Core = {"cpu"}
  Optional = {"tmp"}
  Values <- MCValues
  Threshold <- MCThreshold
  Heartbeat = 3
  QueueCap = 1
  MaxLosses = 1
INVARIANT
  BrowserInStep
PROPERTY
  ListFollowsCamera
CHECK_DEADLOCK FALSE
