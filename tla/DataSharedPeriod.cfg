CONSTANTS
  BarTypes = {"M1", "M60"}
  MaxOps = 2
  MaxCommands = 4
  MaxConnects = 2
  MaxGaps = 1
SPECIFICATION IntentsSpec
INVARIANT NoGhostFeed
CHECK_DEADLOCK FALSE
