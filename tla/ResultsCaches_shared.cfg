SPECIFICATION Spec
CONSTANTS
  w1 = w1  w2 = w2  free = free
  r1 = r1  r2 = r2  h1 = h1  event = event
  Workers = {w1, w2}
  Free = free
  Races = {r1, r2}
  SavedAtStart = {r1}
  Heats = {h1}
  HeatOf <- MCHeatOf
  Event = event
  RequestKinds = {"read", "page", "save", "resave"}
  MaxRequests = 3
  MaxVersion = 2
INVARIANT TypeOK StoredCurrent PageCurrent FlagsHeld
CHECK_DEADLOCK FALSE
