SPECIFICATION ExposureSpec
CONSTANTS
  Contracts = {c1, c2}
  Settle = 2
  MaxTime = 4
  MaxMoves = 2
CHECK_DEADLOCK FALSE
INVARIANTS CompleteIsTrue ReportIsTrue InventoryIsTrue
