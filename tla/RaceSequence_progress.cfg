SPECIFICATION FairSpec
CONSTANTS
  c1 = c1
  c2 = c2
  d1 = d1
  h1 = h1
  Clients <- OneClient
  Delayed <- OneDelayed
  Heartbeat = heartbeat
  Free = free
  Heats <- OneHeat
  NoHeat = practice
  MaxStages = 3
  MaxPasses = 1
  MaxRequests = 3
  RequestKinds = {"stage", "stop", "discard"}
  QueueSize = 1
  FixedTime = TRUE
  GraceStop = TRUE
  SecondaryFormat = FALSE
  NodeIOYields = FALSE
  StoredResultsValid = FALSE
CHECK_DEADLOCK FALSE
PROPERTIES ExpiryEndsRace StagingEnds
