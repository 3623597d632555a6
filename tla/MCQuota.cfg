\* Three turns on one day with a limit of two calls and no store failure.
CONSTANTS
  Turn = {t1, t2, t3}
  Limit = 2
  MaxDay = 0
  MaxFailures = 0
  None = None
SPECIFICATION QuotaSpec
INVARIANT GrantedWithinLimit
CHECK_DEADLOCK FALSE
