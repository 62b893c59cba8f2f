CONSTANTS
    Jobs = {j1}
    Workers = {w1}
    NoJob = NoJob
    NoLock = NoLock
    Orphan = Orphan
    LateBeats = {}
    MayLapse = {}
    RedisErrors = TRUE
    MaxCrashes = 2
    ReadyBound = 2
    HoldAmount = 1
    Hold <- MCHold
    Payloads = {"request", "manifest"}
    Amounts = {0, 1, 2}
    Deposit = 1
    Overdraft = 0
    Price = 1
    Items = 2
    MaxRetries = 2
    FaultOps = {"reserve", "release", "capture", "items", "transition", "fail_stale", "provider_submit", "record_failure", "enqueue", "index", "mark_settled", "settlement_failed", "provider", "provider_cancel", "read", "poll", "output_missing", "output_invalid"}
    LostAcks = {"reserve", "release", "capture", "transition", "fail_stale", "record_failure", "enqueue", "provider", "provider_submit", "index", "mark_settled", "settlement_failed"}
    DiesAt = {"items", "upload", "provider", "record", "abort", "enqueue", "release", "release_fail", "release_failed", "retry", "fail", "cancel_provider", "cancel_enqueue", "cancel_transition", "cancel_release", "cancel_retry", "recovery", "resubmit"}
    SlowSubmit = TRUE
    ClientOps = {"cancel", "resubmit", "delete"}
SPECIFICATION Spec
INVARIANTS
    TypeOK
    CompletedIsPaid
    RecordedEndsBeforeRefund
PROPERTIES
    QueuedUntilEnded
    LeaksHaveACause
CHECK_DEADLOCK FALSE
