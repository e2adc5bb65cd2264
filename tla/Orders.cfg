SPECIFICATION Spec
CONSTANTS
  Mine = {o1}
  Others = {x1}
  Qty = 2
  MaxSeen = 1
  MaxHist = 3
  MaxEvents = 3
  MaxWire = 1
CHECK_DEADLOCK FALSE
INVARIANTS FillOnce KeyIsEarned BracketIsWhole DrainNeverRegresses
PROPERTY ImplementsOrderLife
