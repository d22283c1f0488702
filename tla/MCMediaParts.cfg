\* Each part on its own, with channels and rings that fill at once.
SPECIFICATION PartsSpec
CONSTANTS
  Capacities = {0, 1, 2}
  ChannelCapacity = 1
  MaxFrames = 5
  Sources = {s1}
  Kinds = {k1, k2}
  Receivers = {1, 2}
  Callers = {t1, t2}
  SubscriberCapacity = 1
  MaxRouted = 2
  Nobody = Nobody
  Nals <- MCNals
  MaxUnits = 3
  MaxChunk = 7
  MaxBuffer = 8
  Peers = {p1, p2, p3}
  Upstream = Upstream
  RingCapacity = 1
  MaxForwarded = 2
  SourceRates = {2, 3, 4}
  TargetRate = 3
  BatchSizes = {1, 2, 5}
  TargetSamples = 3
  PacketCapacity = 1
  MaxBatches = 4
INVARIANTS
  BufferExact
  SubscribersExact
  NalsExact
  KeyframesMarked
  RelayExact
  AudioExact
PROPERTIES
  KeyframesKept
  PartsProgress
CHECK_DEADLOCK FALSE
