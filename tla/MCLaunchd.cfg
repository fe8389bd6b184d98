SPECIFICATION LaunchdSpec
CONSTANTS
    d1 = d1
    d2 = d2
    None = None
    Foreign = Foreign
    Defs <- MCDefs
    Attempts = 3
    MaxFaults = 3
    MaxForeign = 2
INVARIANTS
    ForeignKept
PROPERTIES
    AnswersTrue
