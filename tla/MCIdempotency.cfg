CONSTANTS
    r1 = r1
    r2 = r2
    r3 = r3
    r4 = r4
    f1 = f1
    f2 = f2
    Callers = {r1, r2, r3, r4}
    Fingerprint <- MCFingerprint
    TTL = 3
    ProcessingTimeout = 2
    MaxTime = 5
    NoRecord = NoRecord
    NoCaller = NoCaller
    Detached = {r2}
    Oversized = {r4}
    FailedRetryBackoff = 1
    MaxDelay = 1
    StoreErrors = TRUE
SPECIFICATION Spec
INVARIANTS
    TypeOK
    OneExecutor
    AnswersMatch
    LaterRequestsReplay
CHECK_DEADLOCK FALSE
