SPECIFICATION FairSpec
CONSTANTS
  MaxRssi = 4
  MaxDuration = 2
  LapIds = 4
  Frequencies = {5800, 1111}
  DefaultFreq = 5800
  DefaultEnter = 3
  DefaultExit = 2
  Count = 2
  PowerDown = 1111
  MaxRetries = 1
  FirstLap = 3
  Courses <- TwoCourses
  Settings <- DisableOrLower
  Lowered <- LowerBoth
  LowerDuration = 1
  MaxTime = 4
  MaxRequests = 1
  RequestsTo = {0}
  MaxFaults = 1
CHECK_DEADLOCK FALSE
INVARIANTS TypeOK HolderTrue PassesTrue HistoryTrue
PROPERTIES PassesNoticed LevelsRestored
