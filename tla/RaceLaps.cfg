SPECIFICATION Spec
CONSTANTS
  Consecutives = 2
  Scale = 1
  Infinite = 99
  Nodes = {0, 1}
  Team <- Alone
  Formats <- AllFormats
  Peaks = {1, 2}
  Editable = "always"
  MaxTime = 4
  MaxPasses = 2
  Crowded <- OnlyProgress
  MaxEdits = 1
CHECK_DEADLOCK FALSE
INVARIANTS TypeOK VerdictKept LapsTrue DoneTold
PROPERTIES OneLapAfterTime
