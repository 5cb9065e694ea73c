SPECIFICATION FairSpec
CONSTANTS
  Requests <- MCRequests
  Keys <- MCKeys
  Users <- MCUsers
  KeyOf <- MCKeyOf
  UserOf <- MCUserOf
  Est <- MCEst
  MaxActual <- MCMaxActual
  Quota <- MCQuotas
  FailOpen = FALSE
  LeaseFaults = TRUE
  ReleaseFaults = TRUE
  LiveExpiry = FALSE
  BudgetExpiry = TRUE
INVARIANTS
  QuotaHolds
  NothingStranded
  HoldsCovered
PROPERTY LeaseRecovered
