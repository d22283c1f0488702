SPECIFICATION Spec
CONSTANTS
  Updates = {u1, u2}
  Factory = factory
  MaxInFlight = 2
  MaxCrashes = 2
  MaxFailures = 3
INVARIANT NextStartWorks
PROPERTIES
  InstallsWhatItVerified
  UpdateTakesEffect
CHECK_DEADLOCK FALSE
