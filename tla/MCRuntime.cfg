SPECIFICATION FairSpec
CONSTANTS
  Tables <- MCTables
  Credentials = {"c1", "c2"}
  Admins = {"a", "b"}
  Editors = {"a"}
  Requests = {"r1", "r2"}
  MaxWrites = 2
  MaxFaults = 1
  MaxCooldowns = 1
CHECK_DEADLOCK FALSE
PROPERTIES
  DoneIsSeen
  Effective
  CoolingEnds
