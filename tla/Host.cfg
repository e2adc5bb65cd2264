CONSTANTS
    Facades = {f1, f2}
    MaxHosts = 1
    RecoveryAttempts = 2
    MaxIssues = 2
    Pump = Pump
    Shut = Shut
    Other = Other
    None = None
SPECIFICATION FairSpec
INVARIANTS LoginUnderLock NoLeakedLock
PROPERTIES RecoveryEnds FailedIsReleased
