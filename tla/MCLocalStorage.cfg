\* Two cameras, two segments each: a crash, a camera restart, a flush, a fault.
SPECIFICATION Spec
CONSTANTS
  Sources = {s1, s2}
  SegmentDuration = 2
  MaxTime = 3
  MaxFrames = 3
  MaxCameraRestarts = 1
  MaxCrashes = 1
  MaxFlushes = 1
  MaxFaults = 1
  NoFile = NoFile
  NoWriter = NoWriter
  NoFrame = NoFrame
INVARIANTS
  DurableFramesReadable
  DiskAccounted
CHECK_DEADLOCK FALSE
SYMMETRY SourceSymmetry
