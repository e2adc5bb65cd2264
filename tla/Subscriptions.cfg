SPECIFICATION Spec
CONSTANTS
    Clients = {c1, c2}
    Kinds = {"ticker", "book"}
    Symbols = {nq}
    Pump = Pump
    None = None
    RecoveryAttempts = 1
    RestoreAttempts = 2
    MaxIssues = 1
INVARIANTS RefsExact HeldIsServed NoOrphanJoin
CHECK_DEADLOCK FALSE
SYMMETRY ClientSymmetry
