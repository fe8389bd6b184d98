SPECIFICATION Spec
CONSTANTS
    c1 = c1
    c2 = c2
    b1 = b1
    b2 = b2
    b3 = b3
    None = None
    Clients <- MCClients
    Builds <- MCBuilds
    Foreign <- MCForeign
    MaxInstances = 3
    Courses <- MCCourses
INVARIANTS
    StrikesObserved
    GoneBeforeService
    AnswerHolds
    DeadlineFrees
PROPERTIES
    DeadlineDescends
CHECK_DEADLOCK FALSE
