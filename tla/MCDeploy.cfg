SPECIFICATION FairSpec
CONSTANTS
    b1 = b1
    b2 = b2
    i1 = i1
    i2 = i2
    l1 = l1
    l2 = l2
    None = None
    Torn = Torn
    Builds <- MCBuilds
    Ids <- MCIds
    Labels <- MCLabels
    Calls <- MCCalls
    DaemonLabel = l1
    MaxStarts = 2
    MaxCrashes = 1
    MaxLaunches = 1
INVARIANTS
    SwapResumable
    SealDescribesInstalled
PROPERTIES
    RecordedServices
    DestroysOnlyProved
    SwapLands
    SwapSettles
