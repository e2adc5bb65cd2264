SPECIFICATION Spec
CONSTANTS
    Capacity = 2
    MaxTake = 2
    MaxAttach = 2
    MaxSend = 3
INVARIANTS NothingVanishes FailureAfterEvents NoLostWakeup
