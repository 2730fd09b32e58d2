SPECIFICATION Spec
CONSTANTS
  c1 = c1
  c2 = c2
  d1 = d1
  h1 = h1
  Clients <- TwoClients
  Delayed <- OneDelayed
  Heartbeat = heartbeat
  Free = free
  Heats <- OneHeat
  NoHeat = practice
  MaxStages = 2
  MaxPasses = 1
  MaxRequests = 2
  RequestKinds = {"stage", "discard"}
  QueueSize = 1
  FixedTime = TRUE
  GraceStop = TRUE
  SecondaryFormat = FALSE
  NodeIOYields = TRUE
  StoredResultsValid = TRUE
CHECK_DEADLOCK FALSE
PROPERTIES StagesThenStarts
