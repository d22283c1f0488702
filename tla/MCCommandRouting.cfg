\* Two overlapping requests, two cameras, two channels of either camera.
SPECIFICATION RoutingFairSpec
CONSTANTS
  CameraKeys = {k1, k2}
  Chans = {h1, h2}
  Requests = {r1, r2}
  NoChan = NoChan
  NoCamera = NoCamera
  NoRequest = NoRequest
  IdModulus = 3
INVARIANT
  RoutingExact
PROPERTIES
  ImplementsService
  EveryRequestReturns
CHECK_DEADLOCK FALSE
