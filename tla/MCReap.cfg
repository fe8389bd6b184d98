SPECIFICATION Spec
CONSTANTS
    Pids = {1, 2, 3}
    MaxStarts = 3
    Courses <- MCCourses
INVARIANTS
    ProvenGone
    StrikesOwn
PROPERTIES
    DeadlineEnds
CHECK_DEADLOCK FALSE
