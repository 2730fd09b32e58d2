SPECIFICATION FairSpec
CONSTANTS
  MaxRssi = 4
  MaxDuration = 2
  LapIds = 4
  Frequencies = {5800, 1111}
  DefaultFreq = 5800
  DefaultEnter = 3
  DefaultExit = 2
  Count = 1
  PowerDown = 1111
  MaxRetries = 1
  FirstLap = 3
  Courses <- NoCourse
  Settings = {}
  Lowered <- LowerBoth
  LowerDuration = 1
  MaxTime = 3
  MaxRequests = 2
  RequestsTo = {0}
  MaxFaults = 0
CHECK_DEADLOCK FALSE
PROPERTIES LoweredAtMost
