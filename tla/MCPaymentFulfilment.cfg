CONSTANTS
    c1 = c1
    c2 = c2
    c3 = c3
    Calls = {c1, c2}
    OrderTypes = {"balance", "subscription", "unsupported"}
    MaxFaults = 2
SPECIFICATION FairSpec
INVARIANTS
    TypeOK
    CreditedOnce
    CompletedIsDelivered
    AckedIsDelivered
PROPERTIES
    SettledIsFinal
    PaymentIsDelivered
CHECK_DEADLOCK FALSE
