CONSTANTS
    Jobs = {j1}
    Workers = {w1, w2}
    NoJob = NoJob
    NoLock = NoLock
    Orphan = Orphan
    LateBeats = {}
    MayLapse = {}
    RedisErrors = FALSE
    MaxCrashes = 1
    ReadyBound = 2
    HoldAmount = 1
    Hold <- MCHold
    Payloads = {"request", "manifest"}
    Amounts = {0, 1, 2}
    Deposit = 1
    Overdraft = 0
    Price = 1
    Items = 2
    MaxRetries = 2
    FaultOps = {}
    LostAcks = {}
    DiesAt = {"items", "provider"}
    SlowSubmit = FALSE
    ClientOps = {"resubmit"}
SPECIFICATION FairSpec
PROPERTIES
    EveryHoldCloses
    EverySubmittedEnds
CHECK_DEADLOCK FALSE
