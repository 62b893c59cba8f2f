CONSTANTS
    Jobs = {j1, j2}
    Workers = {w1, w2}
    LateBeats = {j1}
    MayLapse = {j2}
    RedisErrors = TRUE
    MaxCrashes = 2
    ReadyBound = 3
    NoJob = NoJob
    NoLock = NoLock
    Orphan = Orphan
SPECIFICATION QueueSpec
INVARIANTS
    NeverLost
    OneWorkerPerJob
    ExactlyOnePlace
PROPERTIES
    LockIsNeverStolen
SYMMETRY Symmetry
