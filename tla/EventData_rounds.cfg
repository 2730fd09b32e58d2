SPECIFICATION FairSpec
CONSTANTS
  N = 4
  MaxPilots = 64
  MaxHeats = 100
  MaxClasses = 2
  MaxFormats = 1
  MaxRaces = 100
  MaxProfiles = 2
  MaxLevel = 2
  Scenarios <- RoundsScenarios
INVARIANTS Seated SourcesFlown BracketFair
PROPERTIES KeptFrequency EventFinishes
