CONSTANTS
    j1 = j1
    j2 = j2
    Jobs <- MCJobs
    Hold <- MCHold
    Payloads = {p, q}
    Amounts = {0, 1, 2}
    Deposit = 3
    Overdraft = 1
SPECIFICATION LedgerSpec
INVARIANTS
    LedgerTypeOK
    MoneyConserved
    NoPhantomRelease
PROPERTY
    ReplayMovesNothing
