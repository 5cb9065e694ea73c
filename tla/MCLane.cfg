SPECIFICATION FairSpec
CONSTANTS
  Requests <- MCRequests
  Targets <- MCTargets
  Chain <- MCChain
  Failover <- MCFailover
  Stream <- MCStream
  Hurried <- MCHurried
  MaxTargets = 2
  Threshold = 1
CHECK_DEADLOCK FALSE
INVARIANTS
  SettledOnce
  InnocentSpared
PROPERTIES
  EachTargetABreaker
  Ends
