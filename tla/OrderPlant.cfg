SPECIFICATION Spec
CONSTANTS
    Clients = {a, b}
    Calls = {k1, k2}
    None = None
    RecoveryAttempts = 2
    RestoreAttempts = 2
    MaxIssues = 1
INVARIANTS HeldIsStreamed HolderIsDelivered StaysDown
CHECK_DEADLOCK FALSE
SYMMETRY OrderSymmetry
