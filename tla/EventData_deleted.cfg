SPECIFICATION Spec
CONSTANTS
  N = 2
  MaxPilots = 2
  MaxHeats = 3
  MaxClasses = 1
  MaxFormats = 1
  MaxRaces = 1
  MaxProfiles = 2
  MaxLevel = 2
  Scenarios <- DeletingScenarios
INVARIANTS CurrentExists
CHECK_DEADLOCK FALSE
