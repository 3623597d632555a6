CONSTANTS
  Repo = {r1}
  r1 = r1
  r2 = r2
  Unchunkable = {}
  NFiles = 2
  MaxHead = 2
  Cap = 2
  MaxEmbeds = 1
  MaxFailures = 0
  None = None
SPECIFICATION Spec
INVARIANT SkippedMeansIndexed
CHECK_DEADLOCK FALSE
