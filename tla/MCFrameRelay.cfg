\* Two cameras and a client over a ring of two frames, or one camera over time.
SPECIFICATION Spec
CONSTANTS
  video = video
  telemetry = telemetry
  Channels = {video, telemetry}
  Fps <- MCFps
  Second = 2
  MemoryBudget = 1
  AbuseThreshold = 2
  Cameras = {c1, c2}
  Clients = {d1}
  Lengths = {1, 2}
  RingCapacity = 2
  AbuseEvery = 2
  MaxFrames = 6
  MaxTime = 5
  NoFrame = NoFrame
SYMMETRY CameraSymmetry
CONSTRAINT RelayOrLimits
INVARIANTS
  ForwardingExact
  OutstandingInHand
  BurstBounded
  AbuseIsSustained
CHECK_DEADLOCK FALSE
