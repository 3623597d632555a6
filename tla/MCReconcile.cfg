CONSTANTS
  Account = {a1}
  PageSize = 1
  MaxInstalls = 2
  MaxHooks = 2
  MaxFailures = 0
  Tracked = {a1}
  None = None
SPECIFICATION FairSpec

PROPERTY ReconcilesMissedEvents
CHECK_DEADLOCK TRUE
