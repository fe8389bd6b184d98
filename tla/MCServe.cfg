SPECIFICATION SpecCooperative
CONSTANTS
    r1 = r1
    v1 = v1
    Requests <- MCRequests
    Verbs <- MCVerbs
    Concurrency = 1
    MaxEvents = 1
INVARIANTS
    CleanReturn
    HandlersInTime
    NeverKilled
PROPERTIES
    DrainEnds
CHECK_DEADLOCK FALSE
