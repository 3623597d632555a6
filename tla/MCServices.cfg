CONSTANTS
  MaxChars = 6
  LineWindow = 3
  ProseChars = 6
  ProseOverlap = 2
  NoSymbol = NoSymbol
  Raises = Raises
  Sources <- MCSources
  Edits <- MCEdits
  Paragraphs = {1, 4, 9}
  MaxParas = 3
  EmbedBatch = 2
  MaxRevision = 2
  NoDoc = NoDoc
  MaxLines = 4
  MaxSha = 2
  Default = 3
  MaxWindow = 4
  WindowArgs = {0, 2, 9, Absent}
  StartArgs = {0, 2, 9, Absent}
  Absent = Absent
  Cap = 20
  Slack = 4
  Sizes = {1, 3, 8, 30}
  MaxItems = 3
  Point <- MCPoint
  TenantOf <- MCTenantOf
  RepoOf <- MCRepoOf
  KindOf <- MCKindOf
  MatchOf <- MCMatchOf
  AnyRepo = AnyRepo
  AutoOrder <- MCAutoOrder
  NoProvider = NoProvider
  TopK = 2
  HitLimit = 2
  PoolLimit = 3
  Text = {"trunk", "Trunk", "terse", "long"}
  Folded <- MCFolded
  Ragged = {"long"}
  Adder = {1, 2}
  MaxEntries = 2
  MaxAdds = 3
  Reader = {1, 2}
  Views <- MCViews
  TTL <- MCTTL
  Patience = 1
  MaxOutages = 1
  Repository <- MCRepository
  Archived = {"old"}
  Pull <- MCPull
  RepoOfPull <- MCRepoOfPull
  Elsewhere = Elsewhere
  PerPage = 2
  RepoPages = 2
  CountPages = 2
  MaxMoves = 1
SPECIFICATION Spec
INVARIANTS LinesCovered DefinitionsStandAlone StoredUnlessLost PagedReadIsTheFile SliceIsHonest FusionRespectsRanks FactsAreDistinct ReportsAreYoung CountsAreBounds
PROPERTY HolesClose
CHECK_DEADLOCK FALSE
