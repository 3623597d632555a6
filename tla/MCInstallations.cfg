CONSTANTS
  Account = {a1, a2}
  PageSize = 1
  MaxInstalls = 3
  MaxHooks = 2
  MaxFailures = 1
  Tracked = {a1}
  None = None
SPECIFICATION FairSpec
INVARIANT TypeOK
PROPERTIES SyncSparesPublic OnlyStaleListRemovesLive SettledUntilGitHubChanges ReconciledUnlessBlocked
CHECK_DEADLOCK TRUE
