CONSTANTS
  Turn = {t1, t2}
  Limit = 1
  MaxDay = 1
  MaxFailures = 1
  None = None
  Earlier = t0
  HistoryMax = 6
  Budget = 1
  Names = {"named"}
SPECIFICATION Spec
INVARIANTS TypeOK CountWithinLimit BilledAtMostOnce MessageCountNeverAhead AnsweredTurnIsVisible
PROPERTIES PriorHasThePast NameOutlivesLaterTurns
SYMMETRY TurnSymmetry
CHECK_DEADLOCK FALSE
