SPECIFICATION DrainSpec
CONSTANTS
    s1 = s1
    a1 = a1
    Spawns <- MCSpawns
    Adopts <- MCAdopts
    Policy = "preserve"
    MaxLeases = 2
    MaxSerial = 2
CONSTRAINT AdoptsOrLeasesAgain
INVARIANTS
    CommittedQuiet
    ReleasedQuiet
CHECK_DEADLOCK FALSE
