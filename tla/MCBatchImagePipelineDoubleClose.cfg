CONSTANTS
    Jobs = {j1, j2}
    Workers = {w1}
    NoJob = NoJob
    NoLock = NoLock
    Orphan = Orphan
    LateBeats = {}
    MayLapse = {}
    RedisErrors = FALSE
    MaxCrashes = 0
    ReadyBound = 2
    HoldAmount = 1
    Hold <- MCHold
    Payloads = {"request", "manifest"}
    Amounts = {0, 1, 2}
    Deposit = 2
    Overdraft = 0
    Price = 1
    Items = 1
    MaxRetries = 1
    FaultOps = {"capture", "mark_settled"}
    LostAcks = {}
    DiesAt = {}
    SlowSubmit = FALSE
    ClientOps = {}
SPECIFICATION Spec
INVARIANTS
    NoDoubleClose
CHECK_DEADLOCK FALSE
