SPECIFICATION FairSpec
CONSTANTS
  Requests <- MCRequests
  Users <- MCUsers
  UserOf <- MCUserOf
  Cost <- MCCost
  MicrosPerCent = 2
  Deltas <- MCDeltas
  InitialCents <- MCInitial
  Unlimited <- MCUnlimited
  Adjusted <- MCUnlimited
  MaxCents = 2
CHECK_DEADLOCK FALSE
INVARIANTS
  ReportsExact
  Conserved
  NeverOvercharged
  DebtsExact
PROPERTY NoChargeLost
