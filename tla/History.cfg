SPECIFICATION Spec
CONSTANTS
  Projects = {1, 2}
  Records <- MCRecords
  FlushRecords = 2
  DayLength = 2
  Lookback = 1
  Slack = 1
  MaxClock = 3
  MaxFaults = 1
  None = None
  Ids = {1, 2}
  Users = {1, 2}
  Names = {"a", "b", "refs/c"}
  Qualified = {"refs/c"}
INVARIANTS
  TypeOK
  WalkCountsExactly
  CorrectUpToWatermark
  CountedByItsKey
PROPERTIES
  LostIsMadeUp
