CONSTANTS
    Callers = {o1, o2, o3}
    Fingerprint <- MCFingerprint
    TTL = 3
    ProcessingTimeout = 2
    MaxTime = 5
    NoRecord = NoRecord
    NoCaller = NoCaller
    MaxDelay = 1
SPECIFICATION Spec
INVARIANTS
    OneUnlessOutlived
    RunningIsLocked
PROPERTIES
    OnlyTakeoversRunOut
SYMMETRY Symmetry
CHECK_DEADLOCK FALSE
