SPECIFICATION FairSpec
CONSTANTS
  Requests <- MCRequests
  Thresholds = {0, 1, 2}
  Reloads = TRUE
  Elsewhere = {1}
INVARIANTS
  SlotHasHolder
  OneProbe
  CooldownThenProbe
PROPERTY AlwaysBack
