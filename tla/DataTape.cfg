CONSTANTS
  MaxQueue = 1
  MaxInputs = 5
  MaxBars = 2
  Requests = {r1}
  Limit = 1
SPECIFICATION Spec
INVARIANTS NothingMixed OnlyClosedBars
PROPERTIES LiveMovesOn RequestsEnd
CHECK_DEADLOCK FALSE
