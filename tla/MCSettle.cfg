SPECIFICATION SettleSpec
CONSTANTS
    s1 = s1
    a1 = a1
    Spawns <- MCSpawns
    Adopts <- MCAdopts
    Policy = "terminate"
INVARIANTS
    RecordedWhileRunning
    SurvivorsFaulted
PROPERTIES
    CloseReturns
    KeepsContract
CHECK_DEADLOCK FALSE
