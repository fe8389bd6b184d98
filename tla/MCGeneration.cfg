SPECIFICATION Spec
CONSTANTS
    d1 = d1
    d2 = d2
    s1 = s1
    s2 = s2
    c1 = c1
    None = None
    Daemons <- MCDaemons
    Scopes <- MCScopes
    Children <- MCChildren
    Policy <- MCPolicy
    Era <- MCEra
INVARIANTS
    ListenerFound
    RunningOnDisk
    RecoveredAlone
PROPERTIES
    ReclaimSpares
CHECK_DEADLOCK FALSE
