SPECIFICATION FairSpec
CONSTANTS
    MaxIn = 3
    MaxOut = 4
    Capacity = 1
    Window = 2
    MaxSequence = 2
    Faults = {"send", "enqueue"}
INVARIANTS
    BodiesWhole
PROPERTIES
    CallSettles
CHECK_DEADLOCK FALSE
