CONSTANTS
  BarTypes = {"M60", "H1"}
  MaxOps = 2
  MaxCommands = 4
  MaxConnects = 2
  MaxGaps = 1
SPECIFICATION IntentsSpec
INVARIANTS HeldIsServed NoGhostFeed
CHECK_DEADLOCK FALSE
