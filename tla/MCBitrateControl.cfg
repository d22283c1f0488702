CONSTANTS
  Measured <- MCMeasured
  DowngradeAfter = 2
  Cooldown = 3
  UpgradeAfter = 4
  QueueCap = 2
  RestartTime = 2
  MaxSessions = 3
  MaxFailures = 1
SPECIFICATION Spec
INVARIANT
  EncoderInStep
PROPERTIES
  TierChangesSustained
  SlowLinkReachesMinimum
CHECK_DEADLOCK FALSE
