CONSTANTS
    cycle = cycle
    near = near
    far = far
    Workers = {cycle, near, far}
    Cycles = {cycle}
    Process <- MCProcess
    Nobody = Nobody
    Kinds = {"grok", "other"}
    MaxTokens = 3
    MaxFaults = 2
SPECIFICATION FairSpec
INVARIANTS
    TokenSpentOnce
PROPERTIES
    ErrorIsDeserved
    NewestCredentialsStay
    RefreshedOrFlagged
CHECK_DEADLOCK FALSE
