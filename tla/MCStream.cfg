SPECIFICATION FairSpec
CONSTANTS
  Replies <- MCReplies
  Troubled <- MCTroubled
  Faults <- MCFaults
  Downstream = {"chat", "anthropic", "responses"}
CHECK_DEADLOCK FALSE
INVARIANTS
  WellFormed
  StreamMatchesWhole
  InnocentTarget
  DeliveredIsCharged
PROPERTIES
  StreamEnds
