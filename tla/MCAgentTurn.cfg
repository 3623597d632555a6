CONSTANTS
  Task = {x, y}
  MaxCalls = 2
  MaxDelegations = 1
  ToolCap = 2
  SubTurns = 2
  None = None
  NProviders = 2
  EmptyRetries = 1
  MaxToolTurns = 2
  RecursionLimit = 7
  MaxFaults = 1
SPECIFICATION FairSpec
INVARIANTS SubAgentsWithinCap DelegatedOnce OnlyTheCapLeavesCallsOpen ChainSpentOnlyIfAllFailed StepsWithinRecursionLimit
PROPERTY TurnEnds
CHECK_DEADLOCK FALSE
