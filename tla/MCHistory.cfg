CONSTANTS
  Turn = {t1, t2}
  Limit = 1
  MaxDay = 0
  MaxFailures = 0
  None = None
  Earlier = t0
  HistoryMax = 2
  Budget = 1
  Names = {"named", "named: New chat..."}
SPECIFICATION Spec
PROPERTY PriorHasThePast
SYMMETRY TurnSymmetry
CHECK_DEADLOCK FALSE
