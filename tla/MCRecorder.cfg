SPECIFICATION FairSpec
CONSTANTS
  Jobs <- MCJobs
  QueueSize = 1
  BatchSize = 2
  Attempts = 2
  Faults = {"rollback", "commit", "readback"}
INVARIANTS
  SettledBeforeRelease
  NothingForgotten
  CleanDrain
PROPERTIES
  EveryoneServed
