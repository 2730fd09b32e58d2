SPECIFICATION FairSpec
CONSTANTS
  c1 = c1
  c2 = c2
  d1 = d1
  h1 = h1
  Clients <- OneClient
  Delayed <- OneDelayed
  Heartbeat = heartbeat
  Free = free
  Heats <- OneHeat
  NoHeat = practice
  MaxStages = 2
  MaxPasses = 0
  MaxRequests = 3
  RequestKinds = {"stage", "stop"}
  QueueSize = 1
  FixedTime = TRUE
  GraceStop = TRUE
  SecondaryFormat = FALSE
  NodeIOYields = FALSE
  StoredResultsValid = TRUE
CHECK_DEADLOCK FALSE
PROPERTIES RaceEnds
