CONSTANTS
    None = None
    Kinds <- MCKinds
    MaxRequests = 4
    MaxFaults = 3
SPECIFICATION FairSpec
INVARIANTS
    SoundUsage
    CaseCatchesDefects
    
PROPERTIES
    RunEnds
CHECK_DEADLOCK FALSE
