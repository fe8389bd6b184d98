SPECIFICATION LaneFairSpec
CONSTANTS
    k1 = k1
    k2 = k2
    Nobody = Nobody
    Link = "link"
    Lanes = {"a"}
    Singles = {"s"}
    Callers <- MCCallers
    MaxSessions = 3
    Attempts = 2
INVARIANTS
    SessionsOwned
PROPERTIES
    OperationReturns
CHECK_DEADLOCK FALSE
