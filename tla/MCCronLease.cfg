CONSTANTS
  NJobs = 2
  Every <- MCEvery
  Lease = 2
  MaxTime = 4
  Tick = {1, 2}
  Token = {1, 2, 3, 4, 5}
  None = None
SPECIFICATION FairSpec
INVARIANTS TypeOK OverlapOnlyAfterExpiry UnexpiredLeaseIsHeld
PROPERTIES RunsAreSpaced JobIsNeverBlocked KeepsCadence
CHECK_DEADLOCK TRUE
