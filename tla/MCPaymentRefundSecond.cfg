CONSTANTS
    c1 = c1
    c2 = c2
    Calls = {c1, c2}
    Amount = 1
    Keyed = FALSE
    MaxBalance = 1
    MaxAttempts = 2
    MaxFaults = 0
SPECIFICATION Spec
INVARIANTS
    PendingIsFinalisable
CHECK_DEADLOCK FALSE
