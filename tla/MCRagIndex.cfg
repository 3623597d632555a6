CONSTANTS
  Repo = {r1, r2}
  r1 = r1
  r2 = r2
  Unchunkable <- MCUnchunkable
  NFiles = 2
  MaxHead = 2
  Cap = 2
  MaxEmbeds = 2
  MaxFailures = 1
  None = None
SPECIFICATION MCSpec
INVARIANTS UpToDateUnlessMissed
PROPERTY EveryRepoCatchesUp
CHECK_DEADLOCK FALSE
