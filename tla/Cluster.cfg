SPECIFICATION FairSpec
CONSTANTS
  Count = 2
  QueueSize = 2
  MaxRetries = 1
  PassesOf <- TwoAtTheSecond
  Joined = {0}
  Unreliable = {1}
  MaxLaps = 1
  MaxRequests = 1
  MaxFaults = 1
CHECK_DEADLOCK FALSE
INVARIANTS TypeOK AckedArrived SplitsConsecutive SecondariesTakePart
PROPERTIES InOrder QueueDrains
