SPECIFICATION Spec
CONSTANTS
  c1 = c1
  c2 = c2
  d1 = d1
  h1 = h1
  Clients <- TwoClients
  Delayed <- OneDelayed
  Heartbeat = heartbeat
  Free = free
  Heats <- OneHeat
  NoHeat = practice
  MaxStages = 2
  MaxPasses = 1
  MaxRequests = 3
  RequestKinds = {"stage", "stop", "stopSave", "save", "discard", "setHeat", "schedule", "scheduleSave", "cancel"}
  QueueSize = 1
  FixedTime = FALSE
  GraceStop = TRUE
  SecondaryFormat = TRUE
  NodeIOYields = TRUE
  StoredResultsValid = TRUE
CHECK_DEADLOCK FALSE
INVARIANTS TypeOK SavedOnce LapsWithinRace  NoLapsBeforeStart
PROPERTIES ImplementsLifecycle
