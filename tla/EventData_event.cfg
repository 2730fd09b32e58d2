SPECIFICATION Spec
CONSTANTS
  N = 2
  MaxPilots = 3
  MaxHeats = 6
  MaxClasses = 2
  MaxFormats = 2
  MaxRaces = 4
  MaxProfiles = 2
  MaxLevel = 2
  Scenarios <- EventScenarios
INVARIANTS TypeOK RacesFollowHeats SeatsCredited ProfileApplied
PROPERTIES LockedKept TunedForPilot
CHECK_DEADLOCK FALSE
