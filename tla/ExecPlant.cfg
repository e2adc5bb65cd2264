SPECIFICATION Spec
CONSTANTS
  Pollers = {p1}
  NoPoller = NoPoller
  MaxAttempts = 2
  MaxGen = 2
  MaxQueue = 1
  MaxConnects = 1
CHECK_DEADLOCK FALSE
INVARIANTS ArmedAloneIsReread LiveHasPoller GateIsFresh NoLostResume
