SPECIFICATION Spec
CONSTANTS
  Streams = {order, pnl}
  Kinds = {"load_orders"}
  MaxPending = 2
  MaxEvents = 3
  MaxCalls = 2
  MaxConns = 1
CHECK_DEADLOCK FALSE
INVARIANTS NothingVanishes AnswerMeetsItsRequest NotSentNeverReached StreamStaysAligned
PROPERTY CallsReturn
