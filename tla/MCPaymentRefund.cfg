CONSTANTS
    c1 = c1
    c2 = c2
    Calls = {c1, c2}
    Amount = 2
    Keyed = TRUE
    MaxBalance = 2
    MaxAttempts = 2
    MaxFaults = 1
SPECIFICATION Spec
INVARIANTS
    TypeOK
    OneRefunder
    DeductionIsAccounted
    StatusTellsGateway
PROPERTIES
    MovesAsRefund
CHECK_DEADLOCK FALSE
