CONSTANTS
  Ifaces = {wlan0, wwan0}
  NoRoute = none
  Cap = 2
  Window = 1
  MaxRoutes = 3
  MaxFaults = 1
SPECIFICATION SessionSpec
INVARIANT
  StreamSound
PROPERTIES
  StaleSignalIgnored
  CameraRecovers
CHECK_DEADLOCK FALSE
