SPECIFICATION SupervisorFairSpec
CONSTANTS
    s1 = s1
    s2 = s2
    c1 = c1
    p1 = p1
    p2 = p2
    None = None
    Services <- MCServices
    Policy <- MCPolicy
    Clients <- MCClients
    Pids <- MCPids
    FailsAt <- MCFaults
    MaxFaults = 1
INVARIANTS
    OneRecorded
PROPERTIES
    VerbsHold
    Restarts
