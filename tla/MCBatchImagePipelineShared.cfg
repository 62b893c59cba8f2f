CONSTANTS
    Jobs = {j1, j2}
    Workers = {w1}
    NoJob = NoJob
    NoLock = NoLock
    Orphan = Orphan
    LateBeats = {}
    MayLapse = {}
    RedisErrors = FALSE
    MaxCrashes = 1
    ReadyBound = 2
    HoldAmount = 1
    Hold <- MCHold
    Payloads = {"request", "manifest"}
    Amounts = {0, 1, 2}
    Deposit = 2
    Overdraft = 0
    Price = 1
    Items = 1
    MaxRetries = 2
    FaultOps = {"capture", "mark_settled", "release", "settlement_failed", "transition", "index", "output_invalid", "enqueue"}
    LostAcks = {"capture", "release", "enqueue", "mark_settled"}
    DiesAt = {}
    SlowSubmit = FALSE
    ClientOps = {}
SPECIFICATION Spec
INVARIANTS
    FailedKeepsNoCharge
PROPERTIES
    ImplementsHold
    ChargeStands
SYMMETRY Symmetry
CHECK_DEADLOCK FALSE
