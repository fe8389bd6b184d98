SPECIFICATION SessionSpec
CONSTANTS
    MaxID = 3
    Callers = 3
    Outbound = 1
    Replies = 1
    Socket = 1
    Courses <- MCCourses
INVARIANTS
    ReplayableUndispatched
    KeepsProtocol
    NeverStuck
CONSTRAINT
    Followed
CHECK_DEADLOCK FALSE
